------------------------------ MODULE MCWorkflow ------------------------------
(* Instances of Workflow for TLC.                                          *)
EXTENDS Workflow, TLC

CONSTANT r1

\* A step of two jobs and a step of one.
TwoAndOne == 1 :> 1 @@ 2 :> 1 @@ 3 :> 2
\* Two steps of one job.
OneAndOne == 1 :> 1 @@ 2 :> 2
===============================================================================
