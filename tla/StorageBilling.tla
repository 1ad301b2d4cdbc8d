----------------------------- MODULE StorageBilling ----------------------------
(***************************************************************************)
(* Billing of storage, for one day and one billing group: the nightly task *)
(* and the command sync_billing_statement go through the users, pass over  *)
(* those who have a record of the day, and charge each of the others for   *)
(* every path of the group in one transaction.  Days do not touch each     *)
(* other, and neither do groups.                                           *)
(***************************************************************************)
EXTENDS Integers, FiniteSets, Functions

CONSTANTS
    Payers,   \* users
    Nights,   \* processes that run StorageBilling.billing
    MaxPaths, \* bound: paths of the policies of the group
    MaxChanges, \* bound: changes by administrators, and charges for jobs
    MaxNights \* bound: runs

StorageAssumption ==
    /\ IsFiniteSet(Payers)
    /\ MaxPaths \in Nat \ {0} /\ MaxChanges \in Nat /\ MaxNights \in Nat

VARIABLES
    members,    \* users mapped to the group
    paths,      \* paths its storage policies name
    credit,     \* BillGroup.balance
    statements, \* StorageBillingStatement rows of each user
    records,    \* StorageBillingRecord rows of each user
    night,      \* a run: [pc, todo, known, user, left, booked, credit]
    rowLock,    \* the run whose transaction has locked the group's row, or none
    nights, changes,
    jobsBilled, \* history: what charge_job has taken off the balance
    overlapped  \* history: a run began while another was at work

storageVars == <<members, paths, credit, statements, records, night, rowLock, nights, changes,
                 jobsBilled, overlapped>>

NightIdle == [pc |-> "idle", todo |-> {}, known |-> {}, user |-> {}, left |-> 0, booked |-> 0,
              credit |-> 0]

TypeOK ==
    /\ members \subseteq Payers /\ paths \in 0 .. MaxPaths /\ credit \in Int
    /\ statements \in [Payers -> Nat] /\ records \in [Payers -> Nat]
    /\ night \in [Nights -> [pc: {"idle", "begun", "users", "paths"}, todo: SUBSET Payers,
                             known: SUBSET Payers, user: SUBSET Payers, left: 0 .. MaxPaths,
                             booked: 0 .. MaxPaths, credit: Int]]
    /\ rowLock \subseteq Nights /\ \A m, n \in rowLock : m = n
    /\ nights \in 0 .. MaxNights /\ changes \in 0 .. MaxChanges
    /\ jobsBilled \in Nat /\ overlapped \in BOOLEAN

Init ==
    /\ members = Payers /\ paths = MaxPaths /\ credit = 0
    /\ statements = [u \in Payers |-> 0] /\ records = [u \in Payers |-> 0]
    /\ night = [n \in Nights |-> NightIdle]
    /\ rowLock = {}
    /\ nights = 0 /\ changes = 0
    /\ jobsBilled = 0 /\ overlapped = FALSE

-----------------------------------------------------------------------------
(* StorageBilling.billing.                                                 *)

NightStep == UNCHANGED <<members, paths, changes, jobsBilled>>
Leave(n) == rowLock' = rowLock \ {n}

\* The users are listed.
NightBegin(n) ==
    /\ night[n].pc = "idle"
    /\ nights < MaxNights /\ nights' = nights + 1
    /\ night' = [night EXCEPT ![n] = [NightIdle EXCEPT !.pc = "begun", !.todo = Payers]]
    /\ overlapped' = (overlapped \/ \E m \in Nights : night[m].pc # "idle")
    /\ NightStep
    /\ UNCHANGED <<credit, statements, records, rowLock>>

\* Mutant of Recorded: the records are not asked for.
RecordedNone == {}

Recorded == {u \in Payers : records[u] > 0}

\* The records are fetched by the first look at them, once for the run.
NightKnown(n) ==
    /\ night[n].pc = "begun"
    /\ night' = [night EXCEPT ![n].pc = "users", ![n].known = Recorded]
    /\ NightStep
    /\ UNCHANGED <<credit, statements, records, rowLock, nights, overlapped>>

\* A user with a record, or without a group.
NightSkips(n, u) ==
    /\ night[n].pc = "users" /\ u \in night[n].todo
    /\ u \in night[n].known \/ u \notin members
    /\ night' = [night EXCEPT ![n].todo = @ \ {u}]
    /\ NightStep
    /\ UNCHANGED <<credit, statements, records, rowLock, nights, overlapped>>

\* The policies are read; without any the user gets a record and no statement.
NightTakes(n, u) ==
    /\ night[n].pc = "users" /\ u \in night[n].todo
    /\ u \notin night[n].known /\ u \in members
    /\ IF paths = 0
       THEN /\ records' = [records EXCEPT ![u] = @ + 1]
            /\ night' = [night EXCEPT ![n].todo = @ \ {u}]
       ELSE /\ night' = [night EXCEPT ![n].pc = "paths", ![n].todo = @ \ {u}, ![n].user = {u},
                                      ![n].left = paths, ![n].booked = 0]
            /\ UNCHANGED records
    /\ NightStep
    /\ UNCHANGED <<credit, statements, rowLock, nights, overlapped>>

\* Mutant of MayLockRow: the group is read without select_for_update.
MayLockRowAlways(n) == TRUE

MayLockRow(n) == rowLock \subseteq {n}

\* A path: its statement, the group's row read under its lock, the balance and
\* the Deposit row.  A unit of credit for each.
NightPath(n) ==
    /\ night[n].pc = "paths" /\ night[n].left > 0
    /\ MayLockRow(n)
    /\ rowLock' = {n}
    /\ night' = [night EXCEPT ![n].left = @ - 1, ![n].booked = @ + 1,
                              ![n].credit = IF night[n].booked = 0 THEN credit - 1 ELSE @ - 1]
    /\ NightStep
    /\ UNCHANGED <<credit, statements, records, nights, overlapped>>

\* The record, and the commit.
NightCommit(n) ==
    /\ night[n].pc = "paths" /\ night[n].left = 0
    /\ credit' = night[n].credit
    /\ statements' = [u \in Payers |-> IF u \in night[n].user THEN statements[u] + night[n].booked
                                       ELSE statements[u]]
    /\ records' = [u \in Payers |-> IF u \in night[n].user THEN records[u] + 1 ELSE records[u]]
    /\ night' = [night EXCEPT ![n].pc = "users", ![n].user = {}]
    /\ Leave(n)
    /\ NightStep
    /\ UNCHANGED <<nights, overlapped>>

NightEnds(n) ==
    /\ night[n].pc = "users" /\ night[n].todo = {}
    /\ night' = [night EXCEPT ![n] = NightIdle]
    /\ NightStep
    /\ UNCHANGED <<credit, statements, records, rowLock, nights, overlapped>>

\* An exception rolls the transaction back and ends the run; the users after
\* this one are not charged by it.
NightFails(n) ==
    /\ night[n].pc # "idle"
    /\ night' = [night EXCEPT ![n] = NightIdle]
    /\ Leave(n)
    /\ NightStep
    /\ UNCHANGED <<credit, statements, records, nights, overlapped>>

-----------------------------------------------------------------------------
(* Others.                                                                 *)

Change ==
    /\ changes < MaxChanges /\ changes' = changes + 1
    /\ UNCHANGED <<statements, records, night, rowLock, nights, overlapped>>

\* Users are taken in and out of the group, policies are made and deleted.
MembersChange(u) ==
    /\ Change
    /\ members' = IF u \in members THEN members \ {u} ELSE members \cup {u}
    /\ UNCHANGED <<paths, credit, jobsBilled>>

PoliciesChange ==
    /\ Change
    /\ \E k \in 0 .. MaxPaths : k # paths /\ paths' = k
    /\ UNCHANGED <<members, credit, jobsBilled>>

\* charge_job, which locks the row as well.
JobCharged ==
    /\ Change
    /\ rowLock = {}
    /\ credit' = credit - 1
    /\ jobsBilled' = jobsBilled + 1
    /\ UNCHANGED <<members, paths>>

-----------------------------------------------------------------------------
Next ==
    \/ \E n \in Nights :
           \/ NightBegin(n) \/ NightKnown(n) \/ NightPath(n) \/ NightCommit(n)
           \/ NightEnds(n) \/ NightFails(n)
           \/ \E u \in Payers : NightSkips(n, u) \/ NightTakes(n, u)
    \/ \E u \in Payers : MembersChange(u)
    \/ PoliciesChange \/ JobCharged

Spec == Init /\ [][Next]_storageVars

-----------------------------------------------------------------------------
\* A user is charged at most once for the day, however often runs fail and are
\* repeated by the command, unless two of them overlap, which nothing prevents
\* (charge_storage.py:61); a charge always leaves its record, and what runs and
\* charge_job take off the balance at once adds up.
StorageOnce ==
    /\ \A u \in Payers :
           /\ records[u] <= 1 \/ overlapped
           /\ statements[u] <= MaxPaths * records[u]
    /\ credit = 0 - jobsBilled - FoldFunction(LAMBDA x, y : x + y, 0, statements)
===============================================================================
