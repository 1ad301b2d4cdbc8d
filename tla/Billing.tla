-------------------------------- MODULE Billing -------------------------------
(***************************************************************************)
(* The money of the accounting application: charge_job, called by the job  *)
(* application when a job is over, by the nightly task for the jobs that   *)
(* run, and by the command sync_billing_statement; and the requests of     *)
(* administrators that write the same billing groups.                      *)
(*                                                                         *)
(* charge_job works under the file lock charge_job.lock and ends in one    *)
(* transaction that locks the group's row.  The administrators' views take *)
(* neither lock: they read a BillGroup, change a field and save every      *)
(* column of the object.                                                   *)
(***************************************************************************)
EXTENDS Integers

CONSTANTS
    Jobs,       \* jobs of the job table
    Groups,     \* billing groups
    Callers,    \* processes that call charge_job with a job they were given
    Commands,   \* processes that run sync_billing_statement
    Admins,     \* API worker threads on requests of administrators
    None,       \* no process, no job, no group
    Amounts,    \* credits of a deposit, opening balances
    MaxRuntime, \* bound: seconds a job runs
    MaxAdmin    \* bound: requests of administrators

Chargers == Callers \cup Commands

ASSUME BillingAssumption ==
    /\ None \notin Jobs \cup Groups \cup Chargers
    /\ Amounts \subseteq Int
    /\ MaxRuntime \in Nat
    /\ MaxAdmin \in Nat

VARIABLES
    runtime, \* what the scheduler knows: seconds, all runs of a job together
    mapping, \* UserBillGroupMapping of the submitter of each job
    exists,  \* the groups that have a row
    balance, \* BillGroup.balance
    ledger,  \* sum of the credits of the Deposit rows of each group
    opening, \* credit a group was created with and has no Deposit row for
    stated,  \* jobs that have a JobBillingStatement
    billed,  \* the sum of billing_runtime of these, for each job
    lock,    \* holder of charge_job.lock
    charge,  \* charge_job in each process: [pc, job, given, group, seconds]
    admin,   \* a request between its read and its save: [op, group, balance, credits]
    requests,\* how many there have been
    stale    \* history: groups of which a request saved an object that was out of date

money == <<exists, balance, ledger, opening>>
bills == <<stated, billed>>
vars == <<runtime, mapping, money, bills, lock, charge, admin, requests, stale>>

ChargePcs == {"idle", "lock", "measure", "commit"}
IdleCharge == [pc |-> "idle", job |-> None, given |-> 0, group |-> None, seconds |-> 0]
IdleAdmin == [op |-> "none", group |-> None, balance |-> 0, credits |-> 0]

\* Who is not idle has a job, who is inside the lock has a group, and a request has one.
ChargeRecords ==
    {r \in [pc: ChargePcs, job: Jobs \cup {None}, given: Nat, group: Groups \cup {None},
            seconds: Nat] :
        (r.pc # "idle" => r.job \in Jobs) /\ (r.pc \in {"measure", "commit"} => r.group \in Groups)}

AdminRecords ==
    {r \in [op: {"none", "deposit", "flag", "create"}, group: Groups \cup {None},
            balance: Int, credits: Int] : r.op # "none" => r.group \in Groups}

TypeOK ==
    /\ runtime \in [Jobs -> Nat]
    /\ mapping \in [Jobs -> Groups \cup {None}]
    /\ exists \subseteq Groups
    /\ balance \in [Groups -> Int]
    /\ ledger \in [Groups -> Int]
    /\ opening \in [Groups -> Int]
    /\ stated \subseteq Jobs
    /\ billed \in [Jobs -> Nat]
    /\ lock \in Chargers \cup {None}
    /\ charge \in [Chargers -> ChargeRecords]
    /\ admin \in [Admins -> AdminRecords]
    /\ requests \in Nat
    /\ stale \subseteq Groups

Init ==
    /\ runtime = [j \in Jobs |-> 0]
    /\ mapping = [j \in Jobs |-> None]
    /\ exists = {}
    /\ balance = [g \in Groups |-> 0]
    /\ ledger = [g \in Groups |-> 0]
    /\ opening = [g \in Groups |-> 0]
    /\ stated = {}
    /\ billed = [j \in Jobs |-> 0]
    /\ lock = None
    /\ charge = [c \in Chargers |-> IdleCharge]
    /\ admin = [a \in Admins |-> IdleAdmin]
    /\ requests = 0
    /\ stale = {}

-----------------------------------------------------------------------------
(* charge_job.                                                             *)

JobRuns(j) ==
    /\ runtime[j] < MaxRuntime
    /\ runtime' = [runtime EXCEPT ![j] = @ + 1]
    /\ UNCHANGED <<mapping, money, bills, lock, charge, admin, requests, stale>>

ChargeStep == UNCHANGED <<runtime, mapping, admin, requests, stale>>

Asked(c, j, given) ==
    /\ charge[c].pc = "idle"
    /\ charge' = [charge EXCEPT ![c] = [IdleCharge EXCEPT !.pc = "lock", !.job = j, !.given = given]]
    /\ ChargeStep
    /\ UNCHANGED <<money, bills, lock>>

\* The job application's request, or the nightly task: the runtime given is
\* that of the job's row, which is that of its last run and may be old.
ChargeCall(c, j) ==
    /\ c \in Callers
    /\ \E given \in 0 .. runtime[j] : Asked(c, j, given)

\* sync_billing_statement looks for unbilled time before it calls charge_job,
\* outside the lock.
CommandCall(c, j) ==
    /\ c \in Commands
    /\ \E given \in 0 .. runtime[j] :
           /\ j \notin stated \/ given > billed[j]
           /\ Asked(c, j, given)

\* charge_job goes on with what it was given.
GoesOn(c, pc, g, seconds) ==
    charge' = [charge EXCEPT ![c] = [pc |-> pc, job |-> charge[c].job, given |-> charge[c].given,
                                     group |-> g, seconds |-> seconds]]
Leave(c) == charge' = [charge EXCEPT ![c] = IdleCharge]
Unlock(c) == lock' = IF lock = c THEN None ELSE lock

\* Mutant of MayLock: the lock file is opened and not locked.
MayLockAlways == TRUE

\* fcntl.flock(LOCK_EX) returns.
MayLock == lock = None

\* The lock is taken and the mapping read; without one there is nothing to do.
ChargeBegin(c) ==
    /\ charge[c].pc = "lock"
    /\ MayLock
    /\ LET g == mapping[charge[c].job]
       IN IF g = None
          THEN Leave(c) /\ UNCHANGED lock
          ELSE /\ GoesOn(c, "measure", g, 0)
               /\ lock' = c
    /\ ChargeStep
    /\ UNCHANGED <<money, bills>>

\* Mutant of Unbilled: what was billed before is not taken off.
UnbilledAll(j, given, known) == IF known > given THEN known ELSE given

\* actual_runtime: the longer of what the scheduler's history sums up to and
\* what was given, less what the statements of the job sum up to.
Unbilled(j, given, known) == (IF known > given THEN known ELSE given) - billed[j]

\* Mutant of Covered: time billed before is not noticed.
CoveredNever(seconds) == FALSE

\* actual_runtime < 0
Covered(seconds) == seconds < 0

\* The scheduler is asked, which may fail and is then ignored; with less time
\* known than was billed, nothing is charged.
ChargeMeasure(c) ==
    /\ charge[c].pc = "measure"
    /\ \E known \in {0, runtime[charge[c].job]} :
           LET seconds == Unbilled(charge[c].job, charge[c].given, known)
           IN IF Covered(seconds)
              THEN Leave(c) /\ Unlock(c)
              ELSE /\ GoesOn(c, "commit", charge[c].group, seconds)
                   /\ UNCHANGED lock
    /\ ChargeStep
    /\ UNCHANGED <<money, bills>>

\* Mutant of Remaining: the sign of the Deposit row, which is credits.
RemainingCredited(g, seconds) == balance[g] + seconds

\* balance after select_for_update has read the group again.
Remaining(g, seconds) == balance[g] - seconds

\* The transaction: statement, balance and Deposit, or nothing when the group
\* has gone.  One second of one core costs one unit.
ChargeCommit(c) ==
    /\ charge[c].pc = "commit"
    /\ LET g == charge[c].group
           j == charge[c].job
       IN IF g \in exists
          THEN /\ stated' = stated \cup {j}
               /\ billed' = [billed EXCEPT ![j] = @ + charge[c].seconds]
               /\ balance' = [balance EXCEPT ![g] = Remaining(g, charge[c].seconds)]
               /\ ledger' = [ledger EXCEPT ![g] = @ - charge[c].seconds]
               /\ UNCHANGED <<exists, opening>>
          ELSE UNCHANGED <<money, bills>>
    /\ Leave(c)
    /\ Unlock(c)
    /\ ChargeStep

\* The discount or the rate cannot be read, or the process is killed: the
\* file is closed, which unlocks it, and no transaction is committed.
ChargeFails(c) ==
    /\ charge[c].pc # "idle"
    /\ Leave(c)
    /\ Unlock(c)
    /\ ChargeStep
    /\ UNCHANGED <<money, bills>>

-----------------------------------------------------------------------------
(* Administrators.                                                         *)

AdminStep == UNCHANGED <<runtime, bills, lock, charge>>
Counted == requests < MaxAdmin /\ requests' = requests + 1

Read(a, op, g, credits) ==
    /\ admin[a].op = "none"
    /\ g \in exists
    /\ Counted
    /\ admin' = [admin EXCEPT ![a] = [op |-> op, group |-> g, balance |-> balance[g],
                                      credits |-> credits]]
    /\ AdminStep
    /\ UNCHANGED <<mapping, money, stale>>

Done(a) == admin' = [admin EXCEPT ![a] = IdleAdmin]

\* Whether the object that is saved differs from the row by more than the change.
Outdated(a) == LET g == admin[a].group IN g \notin exists \/ balance[g] # admin[a].balance

SavesBalance(a) ==
    /\ balance' = [balance EXCEPT ![admin[a].group] = admin[a].balance + admin[a].credits]
    /\ stale' = IF Outdated(a) THEN stale \cup {admin[a].group} ELSE stale

\* DepositListView.post: BillGroup.get without a lock.
DepositRead(a, g) == \E credits \in Amounts : Read(a, "deposit", g, credits)

\* The Deposit row needs the group's row; then the whole group is saved.
DepositSave(a) ==
    LET g == admin[a].group
    IN /\ admin[a].op = "deposit"
       /\ IF g \in exists
          THEN /\ ledger' = [ledger EXCEPT ![g] = @ + admin[a].credits]
               /\ SavesBalance(a)
          ELSE UNCHANGED <<ledger, balance, stale>>
       /\ Done(a)
       /\ AdminStep
       /\ UNCHANGED <<mapping, exists, opening, requests>>

\* BalanceAlertView.put.
FlagRead(a, g) == Read(a, "flag", g, 0)

\* save() of a group that was deleted meanwhile inserts it again.
FlagSave(a) ==
    /\ admin[a].op = "flag"
    /\ SavesBalance(a)
    /\ exists' = exists \cup {admin[a].group}
    /\ Done(a)
    /\ AdminStep
    /\ UNCHANGED <<mapping, ledger, opening, requests>>

\* BillGroupListView.post saves the group and then its first Deposit, each on
\* its own; the group may be charged, deleted, or the process killed between.
CreateGroup(a, g) ==
    /\ admin[a].op = "none"
    /\ g \notin exists
    /\ Counted
    /\ \E b \in Amounts :
           /\ b >= 0
           /\ balance' = [balance EXCEPT ![g] = b]
           /\ opening' = [opening EXCEPT ![g] = b]
           /\ admin' = [admin EXCEPT ![a] = [op |-> "create", group |-> g, balance |-> b, credits |-> b]]
    /\ exists' = exists \cup {g}
    /\ ledger' = [ledger EXCEPT ![g] = 0]
    /\ stale' = stale \ {g}
    /\ AdminStep
    /\ UNCHANGED mapping

CreateDeposit(a) ==
    LET g == admin[a].group
    IN /\ admin[a].op = "create"
       /\ IF g \in exists
          THEN /\ ledger' = [ledger EXCEPT ![g] = @ + admin[a].credits]
               /\ opening' = [opening EXCEPT ![g] = @ - admin[a].credits]
          ELSE UNCHANGED <<ledger, opening>>
       /\ Done(a)
       /\ AdminStep
       /\ UNCHANGED <<mapping, exists, balance, requests, stale>>

\* BillGroupDetailView.post copies a group: no Deposit row is made.
CopyGroup(a, g) ==
    /\ admin[a].op = "none"
    /\ g \notin exists /\ exists # {}
    /\ Counted
    /\ \E b \in Amounts :
           /\ b >= 0
           /\ balance' = [balance EXCEPT ![g] = b]
           /\ opening' = [opening EXCEPT ![g] = b]
    /\ exists' = exists \cup {g}
    /\ ledger' = [ledger EXCEPT ![g] = 0]
    /\ stale' = stale \ {g}
    /\ AdminStep
    /\ UNCHANGED <<mapping, admin>>

\* BillGroupDetailView.delete: without force it needs a group that no user
\* has; the Deposit rows go with the group.
DeleteGroup(a, g) ==
    /\ admin[a].op = "none"
    /\ g \in exists
    /\ Counted
    /\ \E force \in BOOLEAN :
           /\ force \/ \A j \in Jobs : mapping[j] # g
           /\ mapping' = [j \in Jobs |-> IF mapping[j] = g THEN None ELSE mapping[j]]
    /\ exists' = exists \ {g}
    /\ ledger' = [ledger EXCEPT ![g] = 0]
    /\ AdminStep
    /\ UNCHANGED <<balance, opening, admin, stale>>

\* BaseUserBillGroupView.put.
MapUser(a, j, g) ==
    /\ admin[a].op = "none"
    /\ g \in exists /\ mapping[j] # g
    /\ Counted
    /\ mapping' = [mapping EXCEPT ![j] = g]
    /\ AdminStep
    /\ UNCHANGED <<money, admin, stale>>

AdminDies(a) ==
    /\ admin[a].op # "none"
    /\ Done(a)
    /\ AdminStep
    /\ UNCHANGED <<mapping, money, requests, stale>>

-----------------------------------------------------------------------------
ChargeActions ==
    \/ \E c \in Chargers, j \in Jobs : ChargeCall(c, j) \/ CommandCall(c, j)
    \/ \E c \in Chargers :
           ChargeBegin(c) \/ ChargeMeasure(c) \/ ChargeCommit(c) \/ ChargeFails(c)

AdminActions ==
    \/ \E a \in Admins, g \in Groups :
           DepositRead(a, g) \/ FlagRead(a, g) \/ CreateGroup(a, g) \/ CopyGroup(a, g)
             \/ DeleteGroup(a, g)
    \/ \E a \in Admins : DepositSave(a) \/ FlagSave(a) \/ CreateDeposit(a) \/ AdminDies(a)
    \/ \E a \in Admins, j \in Jobs, g \in Groups : MapUser(a, j, g)

Next ==
    \/ \E j \in Jobs : JobRuns(j)
    \/ ChargeActions
    \/ AdminActions

Spec == Init /\ [][Next]_vars

-----------------------------------------------------------------------------
(* Properties.                                                             *)

\* No second of a job is billed twice, whichever of the request of the job
\* application, the nightly task and the command come together, and whatever
\* of it the scheduler still remembers (charge_job.py:63, :92).
BilledOnce == \A j \in Jobs : billed[j] <= runtime[j]

\* The balance of a group is what its Deposit rows say, and what it was opened
\* with: charges and deposits that come together are all kept.  The exception
\* are requests of administrators, which take no lock and save the balance
\* they have read (deposit.py:64, balance.py:89).
BalanceIsLedger ==
    \A g \in exists \ stale : balance[g] = opening[g] + ledger[g]

Abstract == INSTANCE Account

\* charge_job keeps the promise of Account: a charge bills time not billed
\* before, in full, off the present balance, in one step with its Deposit row.
ImplementsAccount == Abstract!Spec
===============================================================================
