-------------------------------- MODULE Account -------------------------------
(***************************************************************************)
(* What charging for jobs promises, whoever asks for it and however the    *)
(* requests overlap: the time a job has run is billed in pieces that       *)
(* follow each other, every piece is taken in full off the balance of one  *)
(* billing group and entered in its ledger by the same step, and no time   *)
(* is billed that the job has not run.  Everything else that happens to a  *)
(* group is the work of administrators and bills nothing.                  *)
(***************************************************************************)
EXTENDS Integers

CONSTANTS
    Jobs,   \* jobs of the job table
    Groups  \* billing groups

VARIABLES
    runtime, \* seconds each job has run, all its runs together
    billed,  \* seconds billed for each
    balance, \* of each group
    ledger   \* sum of the credits entered for each group

vars == <<runtime, billed, balance, ledger>>

Init ==
    /\ runtime = [j \in Jobs |-> 0]
    /\ billed = [j \in Jobs |-> 0]
    /\ balance = [g \in Groups |-> 0]
    /\ ledger = [g \in Groups |-> 0]

Run(j) ==
    /\ runtime' = [runtime EXCEPT ![j] = @ + 1]
    /\ UNCHANGED <<billed, balance, ledger>>

\* One second costs one unit of credit.
Charge(j, g) ==
    LET seconds == billed'[j] - billed[j]
    IN /\ 0 <= seconds /\ billed'[j] <= runtime[j]
       /\ billed' = [billed EXCEPT ![j] = @ + seconds]
       /\ balance' = [balance EXCEPT ![g] = @ - seconds]
       /\ ledger' = [ledger EXCEPT ![g] = @ - seconds]
       /\ UNCHANGED runtime

Administrate(g) ==
    /\ balance' = [balance EXCEPT ![g] = balance'[g]]
    /\ ledger' = [ledger EXCEPT ![g] = ledger'[g]]
    /\ UNCHANGED <<runtime, billed>>

Next ==
    \/ \E j \in Jobs : Run(j)
    \/ \E j \in Jobs, g \in Groups : Charge(j, g)
    \/ \E g \in Groups : Administrate(g)

Spec == Init /\ [][Next]_vars
===============================================================================
