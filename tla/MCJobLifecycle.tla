--------------------------- MODULE MCJobLifecycle ---------------------------
(* Instances of JobLifecycle for TLC.                                      *)
EXTENDS JobLifecycle, TLC

CONSTANTS j1, j2, r1, r2

OneSubmit   == j1 :> "submit"
OneRerun    == j1 :> "rerun"
ConsoleRerun == j1 :> "console" @@ j2 :> "rerun"

\* One id; and two of which j2's extends j1's (12 and 123).
NoneLonger1 == j1 :> {}
SecondLonger == j1 :> {j2} @@ j2 :> {}
=============================================================================
