---------------------------- MODULE Billing_proofs ----------------------------
(***************************************************************************)
(* Proofs about Billing: that no second of a job is billed twice, that     *)
(* charge_job implements Account, and that balances are what the ledgers   *)
(* say, for any number of jobs, groups, processes and requests.            *)
(*                                                                         *)
(* The inductive invariant says who may be inside the file lock and what   *)
(* it has measured there: only its holder is between the lock and the      *)
(* commit, and the seconds it has measured are still unbilled because      *)
(* nobody else can commit meanwhile.                                       *)
(***************************************************************************)
EXTENDS Billing, TLAPS

\* Only the holder of charge_job.lock is between the lock and the commit.
Locked == \A c \in Chargers : charge[c].pc \in {"measure", "commit"} => lock = c

\* No caller gives more time than the job has run.
Given == \A c \in Chargers : charge[c].pc # "idle" => charge[c].given <= runtime[charge[c].job]

\* What is measured is unbilled when it is committed.
Measured ==
    \A c \in Chargers :
        charge[c].pc = "commit" =>
            billed[charge[c].job] + charge[c].seconds <= runtime[charge[c].job]

IInv == TypeOK /\ Locked /\ Given /\ Measured /\ BilledOnce

-----------------------------------------------------------------------------
\* What the steps of charge_job and of the administrators put into their records.
LEMMA IdleRecords == IdleCharge \in ChargeRecords /\ IdleAdmin \in AdminRecords
<1>1. IdleCharge \in ChargeRecords
  BY DEF IdleCharge, ChargeRecords, ChargePcs
<1>2. IdleAdmin \in AdminRecords
  BY DEF IdleAdmin, AdminRecords
<1> QED BY <1>1, <1>2

\* The fields of the record of a process inside charge_job.
LEMMA ChargeFields ==
    ASSUME TypeOK, NEW c \in Chargers
    PROVE  /\ charge[c] \in ChargeRecords
           /\ charge[c] = [pc |-> charge[c].pc, job |-> charge[c].job, given |-> charge[c].given,
                           group |-> charge[c].group, seconds |-> charge[c].seconds]
           /\ charge[c].pc \in ChargePcs /\ charge[c].given \in Nat /\ charge[c].seconds \in Nat
           /\ charge[c].group \in Groups \cup {None}
           /\ charge[c].job \in Jobs \cup {None}
           /\ charge[c].pc # "idle" => charge[c].job \in Jobs
           /\ charge[c].pc \in {"measure", "commit"} => charge[c].group \in Groups
  BY DEF TypeOK, ChargeRecords

\* The initial states satisfy the invariant.
LEMMA InitInvariant == Init => IInv
<1> SUFFICES ASSUME Init PROVE IInv
  OBVIOUS
<1>1. charge \in [Chargers -> ChargeRecords] /\ admin \in [Admins -> AdminRecords]
  BY IdleRecords DEF Init
<1>2. TypeOK
  BY <1>1, BillingAssumption DEF Init, TypeOK
<1>3. Locked /\ Given /\ Measured
  BY DEF Init, Locked, Given, Measured, IdleCharge
<1>4. BilledOnce
  <2>1. runtime = [j \in Jobs |-> 0] /\ billed = [j \in Jobs |-> 0]
    BY DEF Init
  <2>2. ASSUME NEW j \in Jobs PROVE billed[j] <= runtime[j]
    <3>1. runtime[j] = 0 /\ billed[j] = 0
      BY <2>1
    <3> QED BY <3>1
  <2> QED BY <2>2 DEF BilledOnce
<1> QED BY <1>2, <1>3, <1>4 DEF IInv

\* A process that leaves charge_job keeps the invariant, whatever it leaves from.
LEMMA LeaveStep ==
    ASSUME IInv, NEW c \in Chargers, Leave(c), Unlock(c), ChargeStep, UNCHANGED <<money, bills>>
    PROVE  IInv'
<1> USE DEF ChargeStep, money, bills
<1>1. charge' = [charge EXCEPT ![c] = IdleCharge] /\ IdleCharge.pc = "idle"
  BY DEF Leave, IdleCharge
<1>2. TypeOK'
  BY <1>1, IdleRecords DEF IInv, TypeOK, Unlock
<1>3. ASSUME NEW d \in Chargers, charge'[d].pc # "idle"
      PROVE  d # c /\ charge'[d] = charge[d]
  BY <1>1, <1>3 DEF IInv, TypeOK
<1>4. Locked'
  BY <1>3 DEF IInv, Locked, Unlock
<1>5. Given'
  BY <1>3 DEF IInv, Given
<1>6. Measured'
  BY <1>3 DEF IInv, Measured
<1>7. BilledOnce'
  BY DEF IInv, BilledOnce
<1> QED BY <1>2, <1>4, <1>5, <1>6, <1>7 DEF IInv

\* A call enters charge_job and waits for the lock.
LEMMA AskStep ==
    ASSUME IInv, NEW c \in Chargers, NEW j \in Jobs, ChargeCall(c, j) \/ CommandCall(c, j)
    PROVE  IInv'
<1> USE DEF ChargeStep, money, bills
<1>1. PICK given \in 0 .. runtime[j] : Asked(c, j, given)
  BY DEF ChargeCall, CommandCall
<1>2. given \in Nat /\ given <= runtime[j]
  BY DEF IInv, TypeOK
<1> DEFINE r == [IdleCharge EXCEPT !.pc = "lock", !.job = j, !.given = given]
<1>3. r \in ChargeRecords
  BY <1>2 DEF IdleCharge, ChargeRecords, ChargePcs
<1>4. r.pc = "lock" /\ r.job = j /\ r.given = given
  BY DEF IdleCharge
<1>5. charge' = [charge EXCEPT ![c] = r]
  BY <1>1 DEF Asked
<1>6. UNCHANGED <<runtime, mapping, exists, balance, ledger, opening, stated, billed, lock,
                  admin, requests, stale>>
  BY <1>1 DEF Asked
<1> HIDE DEF r
<1>7. charge'[c] = r /\ \A d \in Chargers : d # c => charge'[d] = charge[d]
  BY <1>5 DEF IInv, TypeOK
<1>8. TypeOK'
  BY <1>3, <1>5, <1>6 DEF IInv, TypeOK
<1>9. Locked'
  BY <1>4, <1>6, <1>7 DEF IInv, Locked
<1>10. Given'
  BY <1>2, <1>4, <1>6, <1>7 DEF IInv, Given
<1>11. Measured'
  BY <1>4, <1>6, <1>7 DEF IInv, Measured
<1>12. BilledOnce'
  BY <1>6 DEF IInv, BilledOnce
<1> QED BY <1>8, <1>9, <1>10, <1>11, <1>12 DEF IInv

\* The lock is taken only when nobody has it.
LEMMA BeginStep ==
    ASSUME IInv, NEW c \in Chargers, ChargeBegin(c)
    PROVE  IInv'
<1> USE DEF money, bills
<1> DEFINE g == mapping[charge[c].job]
<1>1. charge[c].pc = "lock" /\ lock = None /\ ChargeStep /\ UNCHANGED <<money, bills>>
  BY DEF ChargeBegin, MayLock
<1>2. c # None
  BY BillingAssumption
<1>3. CASE g = None
  <2>1. Leave(c) /\ Unlock(c)
    BY <1>1, <1>2, <1>3 DEF ChargeBegin, Unlock
  <2> QED BY <1>1, <2>1, LeaveStep
<1>4. CASE g # None
  <2> DEFINE r == [pc |-> "measure", job |-> charge[c].job, given |-> charge[c].given,
                   group |-> g, seconds |-> 0]
  <2>1. g \in Groups /\ charge[c].job \in Jobs
    BY <1>1, <1>4, ChargeFields DEF IInv, TypeOK
  <2>2. r \in ChargeRecords
    BY <2>1, ChargeFields DEF IInv, ChargeRecords, ChargePcs
  <2>3. r.pc = "measure" /\ r.job = charge[c].job /\ r.given = charge[c].given
    OBVIOUS
  <2>4. charge' = [charge EXCEPT ![c] = r] /\ lock' = c
    BY <1>4 DEF ChargeBegin, GoesOn
  <2> HIDE DEF r
  <2>5. charge'[c] = r /\ \A d \in Chargers : d # c => charge'[d] = charge[d]
    BY <2>4 DEF IInv, TypeOK
  <2>6. TypeOK'
    BY <1>1, <2>2, <2>4 DEF IInv, TypeOK, ChargeStep
  <2>7. Locked'
    BY <1>1, <1>2, <2>3, <2>4, <2>5, BillingAssumption DEF IInv, Locked
  <2>8. Given'
    BY <1>1, <2>3, <2>5 DEF IInv, Given, ChargeStep
  <2>9. Measured'
    BY <1>1, <2>3, <2>5 DEF IInv, Measured, ChargeStep
  <2>10. BilledOnce'
    BY <1>1 DEF IInv, BilledOnce, ChargeStep
  <2> QED BY <2>6, <2>7, <2>8, <2>9, <2>10 DEF IInv
<1> QED BY <1>3, <1>4

\* What is measured inside the lock is no more than the job has run, less what
\* was billed for it.
LEMMA MeasureStep ==
    ASSUME IInv, NEW c \in Chargers, ChargeMeasure(c)
    PROVE  IInv'
<1> USE DEF money, bills
<1>1. charge[c].pc = "measure" /\ ChargeStep /\ UNCHANGED <<money, bills>>
  BY DEF ChargeMeasure
<1> DEFINE j == charge[c].job
<1>2. j \in Jobs /\ charge[c].group \in Groups \cup {None} /\ charge[c].given \in Nat
      /\ charge[c].given <= runtime[j] /\ runtime[j] \in Nat /\ billed[j] \in Nat
  BY <1>1, ChargeFields DEF IInv, TypeOK, Given
<1>3. lock = c /\ charge[c].group \in Groups
  BY <1>1, ChargeFields DEF IInv, Locked
<1>4. PICK known \in {0, runtime[j]} :
        LET seconds == Unbilled(j, charge[c].given, known)
        IN IF Covered(seconds)
           THEN Leave(c) /\ Unlock(c)
           ELSE /\ GoesOn(c, "commit", charge[c].group, seconds)
                /\ UNCHANGED lock
  BY DEF ChargeMeasure
<1> DEFINE seconds == Unbilled(j, charge[c].given, known)
<1>5. CASE Covered(seconds)
  BY <1>1, <1>4, <1>5, LeaveStep
<1>6. CASE ~Covered(seconds)
  <2> DEFINE r == [pc |-> "commit", job |-> j, given |-> charge[c].given,
                   group |-> charge[c].group, seconds |-> seconds]
  <2>1. seconds \in Nat /\ billed[j] + seconds <= runtime[j]
    BY <1>2, <1>6 DEF Unbilled, Covered
  <2>2. r \in ChargeRecords
    BY <1>2, <1>3, <2>1 DEF ChargeRecords, ChargePcs
  <2>3. r.pc = "commit" /\ r.job = j /\ r.given = charge[c].given /\ r.seconds = seconds
    OBVIOUS
  <2>4. charge' = [charge EXCEPT ![c] = r] /\ lock' = lock
    BY <1>4, <1>6 DEF GoesOn
  <2> HIDE DEF r, seconds
  <2>5. charge'[c] = r /\ \A d \in Chargers : d # c => charge'[d] = charge[d]
    BY <2>4 DEF IInv, TypeOK
  <2>6. TypeOK'
    BY <1>1, <2>2, <2>4 DEF IInv, TypeOK, ChargeStep
  <2>7. Locked'
    BY <1>3, <2>4, <2>5 DEF IInv, Locked
  <2>8. Given'
    BY <1>1, <1>2, <2>3, <2>5 DEF IInv, Given, ChargeStep
  <2>9. Measured'
    BY <1>1, <2>1, <2>3, <2>5 DEF IInv, Measured, ChargeStep
  <2>10. BilledOnce'
    BY <1>1 DEF IInv, BilledOnce, ChargeStep
  <2> QED BY <2>6, <2>7, <2>8, <2>9, <2>10 DEF IInv
<1> QED BY <1>5, <1>6

\* What a transaction of charge_job does.
LEMMA CommitFacts ==
    ASSUME IInv, NEW c \in Chargers, ChargeCommit(c), charge[c].group \in exists
    PROVE  LET j == charge[c].job
               g == charge[c].group
               s == charge[c].seconds
           IN /\ j \in Jobs /\ g \in Groups /\ s \in Nat /\ lock = c
              /\ billed[j] \in Nat /\ runtime[j] \in Nat
              /\ balance[g] \in Int /\ ledger[g] \in Int
              /\ billed[j] + s <= runtime[j]
              /\ billed' = [billed EXCEPT ![j] = billed[j] + s]
              /\ balance' = [balance EXCEPT ![g] = balance[g] - s]
              /\ ledger' = [ledger EXCEPT ![g] = ledger[g] - s]
              /\ stated' = stated \cup {j} /\ runtime' = runtime
<1>1. charge[c].pc = "commit"
  BY DEF ChargeCommit
<1>2. /\ charge[c].job \in Jobs /\ charge[c].group \in Groups /\ charge[c].seconds \in Nat
      /\ lock = c
  BY <1>1, ChargeFields DEF IInv, Locked
<1>3. billed[charge[c].job] + charge[c].seconds <= runtime[charge[c].job]
  BY <1>1 DEF IInv, Measured
<1>4. /\ billed[charge[c].job] \in Nat /\ runtime[charge[c].job] \in Nat
      /\ balance[charge[c].group] \in Int /\ ledger[charge[c].group] \in Int
  BY <1>2 DEF IInv, TypeOK
<1> QED BY <1>2, <1>3, <1>4 DEF ChargeCommit, ChargeStep, Remaining

\* Only the holder of the lock commits, so nobody else has measured.
LEMMA CommitStep ==
    ASSUME IInv, NEW c \in Chargers, ChargeCommit(c)
    PROVE  IInv'
<1>1. Leave(c) /\ Unlock(c) /\ ChargeStep
  BY DEF ChargeCommit
<1>2. CASE charge[c].group \notin exists
  BY <1>1, <1>2, LeaveStep DEF ChargeCommit
<1>3. CASE charge[c].group \in exists
  <2> DEFINE j == charge[c].job
             s == charge[c].seconds
  <2>1. /\ j \in Jobs /\ s \in Nat /\ lock = c
        /\ billed[j] \in Nat /\ runtime[j] \in Nat /\ billed[j] + s <= runtime[j]
        /\ billed' = [billed EXCEPT ![j] = billed[j] + s] /\ runtime' = runtime
    BY <1>3, CommitFacts
  <2>2. charge' = [charge EXCEPT ![c] = IdleCharge] /\ IdleCharge.pc = "idle"
    BY <1>1 DEF Leave, IdleCharge
  <2>3. ASSUME NEW d \in Chargers, charge'[d].pc # "idle"
        PROVE  /\ d # c /\ charge'[d] = charge[d]
               /\ charge'[d].pc \notin {"measure", "commit"}
    BY <2>1, <2>2, <2>3 DEF IInv, TypeOK, Locked
  <2>4. TypeOK'
    <3>1. billed' \in [Jobs -> Nat] /\ stated' \subseteq Jobs
      BY <1>3, <2>1, CommitFacts DEF IInv, TypeOK
    <3>2. balance' \in [Groups -> Int] /\ ledger' \in [Groups -> Int]
      BY <1>3, CommitFacts DEF IInv, TypeOK
    <3>3. charge' \in [Chargers -> ChargeRecords] /\ lock' \in Chargers \cup {None}
      BY <1>1, <2>2, IdleRecords DEF IInv, TypeOK, Unlock
    <3>4. UNCHANGED <<exists, opening>>
      BY <1>3 DEF ChargeCommit
    <3> QED BY <1>1, <3>1, <3>2, <3>3, <3>4 DEF IInv, TypeOK, ChargeStep
  <2>5. Locked'
    BY <2>3 DEF Locked
  <2>6. Given'
    BY <2>1, <2>3 DEF IInv, Given
  <2>7. Measured'
    BY <2>3 DEF Measured
  <2>8. BilledOnce'
    <3> SUFFICES ASSUME NEW i \in Jobs PROVE billed'[i] <= runtime'[i]
      BY DEF BilledOnce
    <3>1. CASE i = j
      BY <2>1, <3>1 DEF IInv, TypeOK
    <3>2. CASE i # j
      BY <2>1, <3>2 DEF IInv, TypeOK, BilledOnce
    <3> QED BY <3>1, <3>2
  <2> QED BY <2>4, <2>5, <2>6, <2>7, <2>8 DEF IInv
<1> QED BY <1>2, <1>3

\* What the administrators do keeps the types of their variables.
LEMMA AdminTypes ==
    ASSUME TypeOK, AdminActions
    PROVE  TypeOK'
<1> USE DEF AdminStep, Counted, money, bills
<1>1. IdleAdmin \in AdminRecords
  BY IdleRecords
<1>2. ASSUME NEW a \in Admins, admin[a].op # "none"
      PROVE  /\ admin[a] \in AdminRecords /\ admin[a].group \in Groups
             /\ admin[a].balance \in Int /\ admin[a].credits \in Int
  BY <1>2 DEF TypeOK, AdminRecords
<1>3. ASSUME NEW a \in Admins, NEW g \in Groups, DepositRead(a, g) \/ FlagRead(a, g)
      PROVE  TypeOK'
  <2>1. PICK op \in {"deposit", "flag"}, credits \in Int : Read(a, op, g, credits)
    BY <1>3, BillingAssumption DEF DepositRead, FlagRead
  <2> DEFINE r == [op |-> op, group |-> g, balance |-> balance[g], credits |-> credits]
  <2>2. r \in AdminRecords
    BY DEF TypeOK, AdminRecords
  <2>3. admin' = [admin EXCEPT ![a] = r]
    BY <2>1 DEF Read
  <2> HIDE DEF r
  <2> QED BY <2>1, <2>2, <2>3 DEF TypeOK, Read
<1>4. ASSUME NEW a \in Admins, NEW g \in Groups, CreateGroup(a, g)
      PROVE  TypeOK'
  <2>1. PICK b \in Amounts :
          /\ balance' = [balance EXCEPT ![g] = b]
          /\ opening' = [opening EXCEPT ![g] = b]
          /\ admin' = [admin EXCEPT ![a] = [op |-> "create", group |-> g, balance |-> b,
                                            credits |-> b]]
    BY <1>4 DEF CreateGroup
  <2>2. b \in Int
    BY BillingAssumption
  <2> DEFINE r == [op |-> "create", group |-> g, balance |-> b, credits |-> b]
  <2>3. r \in AdminRecords
    BY <2>2 DEF AdminRecords
  <2>4. admin' = [admin EXCEPT ![a] = r]
    BY <2>1
  <2> HIDE DEF r
  <2> QED BY <1>4, <2>1, <2>2, <2>3, <2>4 DEF TypeOK, CreateGroup
<1>5. ASSUME NEW a \in Admins, NEW g \in Groups, CopyGroup(a, g)
      PROVE  TypeOK'
  <2>1. PICK b \in Int :
          /\ balance' = [balance EXCEPT ![g] = b]
          /\ opening' = [opening EXCEPT ![g] = b]
    BY <1>5, BillingAssumption DEF CopyGroup
  <2> QED BY <1>5, <2>1 DEF TypeOK, CopyGroup
<1>6. ASSUME NEW a \in Admins, NEW g \in Groups, DeleteGroup(a, g)
      PROVE  TypeOK'
  <2>1. mapping' = [j \in Jobs |-> IF mapping[j] = g THEN None ELSE mapping[j]]
    BY <1>6 DEF DeleteGroup
  <2>2. mapping' \in [Jobs -> Groups \cup {None}]
    BY <2>1 DEF TypeOK
  <2> QED BY <1>6, <2>2 DEF TypeOK, DeleteGroup
<1>7. ASSUME NEW a \in Admins, NEW j \in Jobs, NEW g \in Groups, MapUser(a, j, g)
      PROVE  TypeOK'
  BY <1>7 DEF TypeOK, MapUser
<1>8. ASSUME NEW a \in Admins, DepositSave(a)
      PROVE  TypeOK'
  <2>1. /\ admin[a].group \in Groups /\ admin[a].balance \in Int /\ admin[a].credits \in Int
    BY <1>2, <1>8 DEF DepositSave
  <2>2. balance' \in [Groups -> Int] /\ ledger' \in [Groups -> Int] /\ stale' \subseteq Groups
    BY <1>8, <2>1 DEF TypeOK, DepositSave, SavesBalance
  <2>3. admin' \in [Admins -> AdminRecords]
    BY <1>1, <1>8 DEF TypeOK, DepositSave, Done
  <2> QED BY <1>8, <2>2, <2>3 DEF TypeOK, DepositSave
<1>9. ASSUME NEW a \in Admins, FlagSave(a)
      PROVE  TypeOK'
  <2>1. /\ admin[a].group \in Groups /\ admin[a].balance \in Int /\ admin[a].credits \in Int
    BY <1>2, <1>9 DEF FlagSave
  <2>2. balance' \in [Groups -> Int] /\ stale' \subseteq Groups
    BY <1>9, <2>1 DEF TypeOK, FlagSave, SavesBalance
  <2>3. admin' \in [Admins -> AdminRecords]
    BY <1>1, <1>9 DEF TypeOK, FlagSave, Done
  <2> QED BY <1>9, <2>1, <2>2, <2>3 DEF TypeOK, FlagSave
<1>10. ASSUME NEW a \in Admins, CreateDeposit(a)
       PROVE  TypeOK'
  <2>1. admin[a].group \in Groups /\ admin[a].credits \in Int
    BY <1>2, <1>10 DEF CreateDeposit
  <2>2. ledger' \in [Groups -> Int] /\ opening' \in [Groups -> Int]
    BY <1>10, <2>1 DEF TypeOK, CreateDeposit
  <2>3. admin' \in [Admins -> AdminRecords]
    BY <1>1, <1>10 DEF TypeOK, CreateDeposit, Done
  <2> QED BY <1>10, <2>2, <2>3 DEF TypeOK, CreateDeposit
<1>11. ASSUME NEW a \in Admins, AdminDies(a)
       PROVE  TypeOK'
  BY <1>1, <1>11 DEF TypeOK, AdminDies, Done
<1> QED BY <1>3, <1>4, <1>5, <1>6, <1>7, <1>8, <1>9, <1>10, <1>11 DEF AdminActions

\* No administrator touches what the invariant says of charge_job.
LEMMA AdminUntouched ==
    ASSUME AdminActions
    PROVE  UNCHANGED <<runtime, stated, billed, lock, charge>>
BY DEF AdminActions, AdminStep, bills, DepositRead, FlagRead, Read, CreateGroup, CopyGroup,
       DeleteGroup, MapUser, DepositSave, FlagSave, CreateDeposit, AdminDies

\* Every step keeps the invariant.
LEMMA StepInvariant == IInv /\ [Next]_vars => IInv'
<1> SUFFICES ASSUME IInv, [Next]_vars PROVE IInv'
  OBVIOUS
<1>1. ASSUME NEW j \in Jobs, JobRuns(j) PROVE IInv'
  <2>1. /\ runtime' = [runtime EXCEPT ![j] = runtime[j] + 1]
        /\ UNCHANGED <<billed, charge, lock>>
    BY <1>1 DEF JobRuns, bills
  <2>2. TypeOK'
    BY <1>1 DEF IInv, TypeOK, JobRuns, money, bills
  <2>3. Locked'
    BY <2>1 DEF IInv, Locked
  <2>4. \A i \in Jobs : runtime[i] \in Nat /\ runtime'[i] \in Nat /\ runtime[i] <= runtime'[i]
                        /\ billed[i] \in Nat
    BY <2>1 DEF IInv, TypeOK
  <2>5. Given'
    <3> SUFFICES ASSUME NEW c \in Chargers, charge[c].pc # "idle"
                 PROVE  charge[c].given <= runtime'[charge[c].job]
      BY <2>1 DEF Given
    <3>1. charge[c].job \in Jobs /\ charge[c].given \in Nat
          /\ charge[c].given <= runtime[charge[c].job]
      BY ChargeFields DEF IInv, Given
    <3> QED BY <3>1, <2>4
  <2>6. Measured'
    <3> SUFFICES ASSUME NEW c \in Chargers, charge[c].pc = "commit"
                 PROVE  billed[charge[c].job] + charge[c].seconds <= runtime'[charge[c].job]
      BY <2>1 DEF Measured
    <3>1. charge[c].job \in Jobs /\ charge[c].seconds \in Nat
          /\ billed[charge[c].job] + charge[c].seconds <= runtime[charge[c].job]
      BY ChargeFields DEF IInv, Measured
    <3> QED BY <3>1, <2>4
  <2>7. BilledOnce'
    BY <2>1, <2>4 DEF IInv, BilledOnce
  <2> QED BY <2>2, <2>3, <2>5, <2>6, <2>7 DEF IInv
<1>2. CASE ChargeActions
  <2>1. ASSUME NEW c \in Chargers, ChargeFails(c) PROVE IInv'
    BY <2>1, LeaveStep DEF ChargeFails
  <2> QED BY <1>2, <2>1, AskStep, BeginStep, MeasureStep, CommitStep DEF ChargeActions
<1>3. CASE AdminActions
  BY <1>3, AdminTypes, AdminUntouched DEF IInv, Locked, Given, Measured, BilledOnce
<1>4. CASE UNCHANGED vars
  BY <1>4 DEF vars, money, bills, IInv, TypeOK, Locked, Given, Measured, BilledOnce
<1> QED BY <1>1, <1>2, <1>3, <1>4 DEF Next

-----------------------------------------------------------------------------
\* The variables of Billing keep their types in every behaviour.
THEOREM TypeCorrect == Spec => []TypeOK
<1>1. IInv => TypeOK
  BY DEF IInv
<1> QED BY InitInvariant, StepInvariant, <1>1, PTL DEF Spec

\* No second of a job is billed twice, for any number of jobs, callers and
\* commands (charge_job.py:63, :92).
THEOREM BilledOnceHolds == Spec => []BilledOnce
<1>1. IInv => BilledOnce
  BY DEF IInv
<1> QED BY InitInvariant, StepInvariant, <1>1, PTL DEF Spec

-----------------------------------------------------------------------------
\* Billing begins where Account begins.
LEMMA InitImplements == Init => Abstract!Init
BY DEF Init, Abstract!Init

\* Every step of Billing is a step of Account or leaves its variables alone: a
\* commit is a charge, whatever administrators do is the work of administrators.
LEMMA StepImplements == IInv /\ [Next]_vars => [Abstract!Next]_(Abstract!vars)
<1> SUFFICES ASSUME IInv, [Next]_vars
             PROVE  Abstract!Next \/ UNCHANGED <<runtime, billed, balance, ledger>>
  BY DEF Abstract!vars
<1>1. ASSUME NEW j \in Jobs, JobRuns(j)
      PROVE  Abstract!Next
  BY <1>1 DEF JobRuns, money, bills, Abstract!Next, Abstract!Run
<1>2. ASSUME NEW c \in Chargers, ChargeCommit(c)
      PROVE  Abstract!Next \/ UNCHANGED <<runtime, billed, balance, ledger>>
  <2>1. CASE charge[c].group \notin exists
    BY <1>2, <2>1 DEF ChargeCommit, ChargeStep, money, bills
  <2>2. CASE charge[c].group \in exists
    <3> DEFINE j == charge[c].job
               g == charge[c].group
               s == charge[c].seconds
    <3>1. /\ j \in Jobs /\ g \in Groups /\ s \in Nat /\ billed[j] \in Nat
          /\ billed[j] + s <= runtime[j] /\ runtime' = runtime
          /\ billed' = [billed EXCEPT ![j] = billed[j] + s]
          /\ balance' = [balance EXCEPT ![g] = balance[g] - s]
          /\ ledger' = [ledger EXCEPT ![g] = ledger[g] - s]
      BY <1>2, <2>2, CommitFacts
    <3> HIDE DEF j, g, s
    <3>2. billed'[j] = billed[j] + s
      BY <3>1 DEF IInv, TypeOK
    <3>3. billed'[j] - billed[j] = s
      BY <3>1, <3>2
    <3>4. Abstract!Charge(j, g)
      <4>1. 0 <= billed'[j] - billed[j] /\ billed'[j] <= runtime[j]
        BY <3>1, <3>2, <3>3
      <4>2. /\ billed' = [billed EXCEPT ![j] = billed[j] + (billed'[j] - billed[j])]
            /\ balance' = [balance EXCEPT ![g] = balance[g] - (billed'[j] - billed[j])]
            /\ ledger' = [ledger EXCEPT ![g] = ledger[g] - (billed'[j] - billed[j])]
            /\ UNCHANGED runtime
        BY <3>1, <3>3, Zenon
      <4> QED BY <4>1, <4>2, Zenon DEF Abstract!Charge
    <3> QED BY <3>1, <3>4 DEF Abstract!Next
  <2> QED BY <2>1, <2>2
<1>3. ASSUME NEW c \in Chargers,
             \/ \E j \in Jobs : ChargeCall(c, j) \/ CommandCall(c, j)
             \/ ChargeBegin(c) \/ ChargeMeasure(c) \/ ChargeFails(c)
      PROVE  UNCHANGED <<runtime, billed, balance, ledger>>
  BY <1>3 DEF ChargeCall, CommandCall, Asked, ChargeBegin, ChargeMeasure, ChargeFails,
              ChargeStep, money, bills
<1>4. ASSUME AdminActions
      PROVE  Abstract!Next \/ UNCHANGED <<runtime, billed, balance, ledger>>
  <2>1. UNCHANGED <<runtime, billed>>
    BY <1>4, AdminUntouched
  <2>2. ASSUME NEW g \in Groups, NEW b, NEW l,
               balance' = balance \/ balance' = [balance EXCEPT ![g] = b],
               ledger' = ledger \/ ledger' = [ledger EXCEPT ![g] = l]
        PROVE  Abstract!Next
    <3>1. balance' = [balance EXCEPT ![g] = balance'[g]]
      BY <2>2 DEF IInv, TypeOK
    <3>2. ledger' = [ledger EXCEPT ![g] = ledger'[g]]
      BY <2>2 DEF IInv, TypeOK
    <3> QED BY <2>1, <3>1, <3>2 DEF Abstract!Next, Abstract!Administrate
  <2>3. ASSUME NEW a \in Admins, NEW g \in Groups,
               CreateGroup(a, g) \/ CopyGroup(a, g) \/ DeleteGroup(a, g)
        PROVE  Abstract!Next
    BY <2>2, <2>3 DEF CreateGroup, CopyGroup, DeleteGroup
  <2>4. ASSUME NEW a \in Admins, DepositSave(a) \/ FlagSave(a) \/ CreateDeposit(a)
        PROVE  Abstract!Next
    <3>1. admin[a] \in AdminRecords /\ admin[a].op # "none"
      BY <2>4 DEF IInv, TypeOK, DepositSave, FlagSave, CreateDeposit
    <3>2. admin[a].group \in Groups
      BY <3>1 DEF AdminRecords
    <3>3. CASE DepositSave(a)
      <4>1. CASE admin[a].group \in exists
        BY <2>2, <3>2, <3>3, <4>1 DEF DepositSave, SavesBalance
      <4>2. CASE admin[a].group \notin exists
        BY <2>2, <3>2, <3>3, <4>2 DEF DepositSave
      <4> QED BY <4>1, <4>2
    <3>4. CASE FlagSave(a)
      BY <2>2, <3>2, <3>4 DEF FlagSave, SavesBalance
    <3>5. CASE CreateDeposit(a)
      <4>1. balance' = balance
        BY <3>5 DEF CreateDeposit
      <4>2. ledger' = ledger \/ \E l : ledger' = [ledger EXCEPT ![admin[a].group] = l]
        BY <3>5 DEF CreateDeposit
      <4> QED BY <2>2, <3>2, <4>1, <4>2
    <3> QED BY <2>4, <3>3, <3>4, <3>5
  <2>5. ASSUME NEW a \in Admins, NEW g \in Groups,
               \/ DepositRead(a, g) \/ FlagRead(a, g) \/ AdminDies(a)
               \/ \E j \in Jobs : MapUser(a, j, g)
        PROVE  balance' = balance /\ ledger' = ledger
    BY <2>5 DEF DepositRead, FlagRead, Read, MapUser, AdminDies, money
  <2>6. ASSUME NEW a \in Admins, AdminDies(a)
        PROVE  balance' = balance /\ ledger' = ledger
    BY <2>6 DEF AdminDies, money
  <2>7. CASE \E a \in Admins, g \in Groups :
               DepositRead(a, g) \/ FlagRead(a, g) \/ CreateGroup(a, g) \/ CopyGroup(a, g)
                 \/ DeleteGroup(a, g)
    BY <2>1, <2>3, <2>5, <2>7
  <2>8. CASE \E a \in Admins : DepositSave(a) \/ FlagSave(a) \/ CreateDeposit(a) \/ AdminDies(a)
    BY <2>1, <2>4, <2>6, <2>8
  <2>9. CASE \E a \in Admins, j \in Jobs, g \in Groups : MapUser(a, j, g)
    BY <2>1, <2>5, <2>9
  <2> QED BY <1>4, <2>7, <2>8, <2>9 DEF AdminActions
<1>5. CASE ChargeActions
  BY <1>2, <1>3, <1>5 DEF ChargeActions
<1>6. CASE UNCHANGED vars
  BY <1>6 DEF vars, money, bills
<1> QED BY <1>1, <1>4, <1>5, <1>6 DEF Next

\* charge_job implements Account: whoever calls it and whatever administrators
\* do meanwhile, time is billed once, in order, and charged in full.
THEOREM Implements == Spec => ImplementsAccount
<1>1. Spec => []IInv
  BY InitInvariant, StepInvariant, PTL DEF Spec
<1> QED BY <1>1, InitImplements, StepImplements, PTL DEF Spec, ImplementsAccount, Abstract!Spec


-----------------------------------------------------------------------------
(* The balance and the ledger: whoever changes one of the three sums       *)
(* changes another by as much, or marks the group as stale.  The save  *)
(* of the alert flag writes the balance alone and must add nothing to it.  *)

\* A request about the flag brings no credit.
FlagInv == \A a \in Admins : admin[a].op = "flag" => admin[a].credits = 0

\* One group is touched; the others keep what they have.
LEMMA OneGroup ==
    ASSUME BalanceIsLedger, NEW g \in Groups, exists' \subseteq exists \cup {g},
           stale \ {g} \subseteq stale',
           \A h \in Groups : h # g => /\ balance'[h] = balance[h] /\ ledger'[h] = ledger[h]
                                      /\ opening'[h] = opening[h],
           exists \subseteq Groups,
           g \in exists' \ stale' => balance'[g] = opening'[g] + ledger'[g]
    PROVE  BalanceIsLedger'
  BY DEF BalanceIsLedger

\* A charge takes the same off both.
LEMMA ChargeBalance ==
    ASSUME IInv, BalanceIsLedger, ChargeActions
    PROVE  BalanceIsLedger'
<1>1. CASE UNCHANGED money /\ UNCHANGED stale
  BY <1>1 DEF BalanceIsLedger, money
<1>2. ASSUME NEW c \in Chargers, ChargeCommit(c), charge[c].group \in exists
      PROVE  BalanceIsLedger'
  <2> DEFINE g == charge[c].group
             s == charge[c].seconds
  <2>1. /\ g \in Groups /\ s \in Nat
        /\ balance' = [balance EXCEPT ![g] = balance[g] - s]
        /\ ledger' = [ledger EXCEPT ![g] = ledger[g] - s]
    BY <1>2, CommitFacts
  <2>2. UNCHANGED <<exists, opening, stale>> /\ g \in exists
    BY <1>2 DEF ChargeCommit, ChargeStep
  <2> HIDE DEF g, s
  <2>3. /\ balance \in [Groups -> Int] /\ ledger \in [Groups -> Int]
        /\ opening \in [Groups -> Int] /\ exists \subseteq Groups
    BY DEF IInv, TypeOK
  <2>4. g \notin stale => balance'[g] = opening'[g] + ledger'[g]
    BY <2>1, <2>2, <2>3 DEF BalanceIsLedger
  <2> QED BY <2>1, <2>2, <2>3, <2>4, OneGroup
<1>3. ASSUME NEW c \in Chargers, ChargeCommit(c), charge[c].group \notin exists
      PROVE  UNCHANGED money /\ UNCHANGED stale
  BY <1>3 DEF ChargeCommit, ChargeStep, money
<1>4. ASSUME NEW c \in Chargers, NEW j \in Jobs, ChargeCall(c, j) \/ CommandCall(c, j)
      PROVE  UNCHANGED money /\ UNCHANGED stale
  BY <1>4 DEF ChargeCall, CommandCall, Asked, ChargeStep
<1>5. ASSUME NEW c \in Chargers, ChargeBegin(c) \/ ChargeMeasure(c) \/ ChargeFails(c)
      PROVE  UNCHANGED money /\ UNCHANGED stale
  BY <1>5 DEF ChargeBegin, ChargeMeasure, ChargeFails, ChargeStep
<1> QED BY <1>1, <1>2, <1>3, <1>4, <1>5 DEF ChargeActions

\* An administrator's save keeps the sum, or is of an object that was out of
\* date and marks its group.
LEMMA AdminBalance ==
    ASSUME IInv, FlagInv, BalanceIsLedger, AdminActions
    PROVE  BalanceIsLedger'
<1>1. /\ balance \in [Groups -> Int] /\ ledger \in [Groups -> Int] /\ opening \in [Groups -> Int]
      /\ exists \subseteq Groups /\ stale \subseteq Groups /\ admin \in [Admins -> AdminRecords]
  BY DEF IInv, TypeOK
<1>2. ASSUME NEW a \in Admins, admin[a].op # "none"
      PROVE  /\ admin[a].group \in Groups /\ admin[a].balance \in Int /\ admin[a].credits \in Int
  BY <1>1, <1>2 DEF AdminRecords
<1>3. ASSUME NEW a \in Admins, NEW g \in Groups,
             DepositRead(a, g) \/ FlagRead(a, g) \/ (\E j \in Jobs : MapUser(a, j, g))
      PROVE  BalanceIsLedger'
  BY <1>3 DEF BalanceIsLedger, DepositRead, FlagRead, Read, MapUser, money
<1>4. ASSUME NEW a \in Admins, NEW g \in Groups, CreateGroup(a, g) \/ CopyGroup(a, g)
      PROVE  BalanceIsLedger'
  <2>1. PICK b \in Amounts : /\ balance' = [balance EXCEPT ![g] = b]
                             /\ opening' = [opening EXCEPT ![g] = b]
    BY <1>4 DEF CreateGroup, CopyGroup
  <2>2. /\ ledger' = [ledger EXCEPT ![g] = 0] /\ exists' = exists \cup {g}
        /\ stale' = stale \ {g} /\ b \in Int
    BY <1>4, BillingAssumption DEF CreateGroup, CopyGroup
  <2> QED BY <1>1, <2>1, <2>2, OneGroup
<1>5. ASSUME NEW a \in Admins, NEW g \in Groups, DeleteGroup(a, g)
      PROVE  BalanceIsLedger'
  <2>1. /\ exists' = exists \ {g} /\ ledger' = [ledger EXCEPT ![g] = 0]
        /\ UNCHANGED <<balance, opening, stale>>
    BY <1>5 DEF DeleteGroup
  <2> QED BY <1>1, <2>1, OneGroup
<1>6. ASSUME NEW a \in Admins, DepositSave(a)
      PROVE  BalanceIsLedger'
  <2> DEFINE g == admin[a].group
  <2>1. /\ g \in Groups /\ admin[a].balance \in Int /\ admin[a].credits \in Int
        /\ UNCHANGED <<exists, opening>>
    BY <1>2, <1>6 DEF DepositSave
  <2>2. CASE g \notin exists
    BY <1>6, <2>2 DEF DepositSave, BalanceIsLedger
  <2>3. CASE g \in exists
    <3>1. /\ ledger' = [ledger EXCEPT ![g] = ledger[g] + admin[a].credits]
          /\ balance' = [balance EXCEPT ![g] = admin[a].balance + admin[a].credits]
          /\ stale' = IF Outdated(a) THEN stale \cup {g} ELSE stale
      BY <1>6, <2>3 DEF DepositSave, SavesBalance
    <3>2. g \notin stale' => balance[g] = admin[a].balance /\ balance[g] = opening[g] + ledger[g]
      BY <2>3, <3>1 DEF Outdated, BalanceIsLedger
    <3> HIDE DEF g
    <3>3. g \notin stale' => balance'[g] = opening'[g] + ledger'[g]
      BY <1>1, <2>1, <3>1, <3>2
    <3> QED BY <1>1, <2>1, <3>1, <3>3, OneGroup
  <2> QED BY <2>2, <2>3
<1>7. ASSUME NEW a \in Admins, FlagSave(a)
      PROVE  BalanceIsLedger'
  <2> DEFINE g == admin[a].group
  <2>1. /\ g \in Groups /\ admin[a].balance \in Int /\ admin[a].credits \in Int
        /\ UNCHANGED <<ledger, opening>> /\ exists' = exists \cup {g}
        /\ balance' = [balance EXCEPT ![g] = admin[a].balance + admin[a].credits]
        /\ stale' = IF Outdated(a) THEN stale \cup {g} ELSE stale
    BY <1>2, <1>7 DEF FlagSave, SavesBalance
  <2>2. admin[a].credits = 0
    BY <1>7 DEF FlagSave, FlagInv
  <2>3. g \notin stale' => /\ g \in exists /\ balance[g] = admin[a].balance
                           /\ balance[g] = opening[g] + ledger[g]
    BY <2>1 DEF Outdated, BalanceIsLedger
  <2> HIDE DEF g
  <2>4. g \notin stale' => balance'[g] = opening'[g] + ledger'[g]
    BY <1>1, <2>1, <2>2, <2>3
  <2> QED BY <1>1, <2>1, <2>4, OneGroup
<1>8. ASSUME NEW a \in Admins, CreateDeposit(a)
      PROVE  BalanceIsLedger'
  <2> DEFINE g == admin[a].group
  <2>1. g \in Groups /\ admin[a].credits \in Int /\ UNCHANGED <<exists, balance, stale>>
    BY <1>2, <1>8 DEF CreateDeposit
  <2>2. CASE g \notin exists
    BY <1>8, <2>2 DEF CreateDeposit, BalanceIsLedger
  <2>3. CASE g \in exists
    <3>1. /\ ledger' = [ledger EXCEPT ![g] = ledger[g] + admin[a].credits]
          /\ opening' = [opening EXCEPT ![g] = opening[g] - admin[a].credits]
      BY <1>8, <2>3 DEF CreateDeposit
    <3> HIDE DEF g
    <3>2. g \notin stale => balance'[g] = opening'[g] + ledger'[g]
      BY <1>1, <2>1, <2>3, <3>1 DEF BalanceIsLedger
    <3> QED BY <1>1, <2>1, <3>1, <3>2, OneGroup
  <2> QED BY <2>2, <2>3
<1>9. ASSUME NEW a \in Admins, AdminDies(a)
      PROVE  BalanceIsLedger'
  BY <1>9 DEF BalanceIsLedger, AdminDies, money
<1> QED BY <1>3, <1>4, <1>5, <1>6, <1>7, <1>8, <1>9 DEF AdminActions

\* The administrators keep it.
LEMMA FlagStep == IInv /\ FlagInv /\ [Next]_vars => FlagInv'
<1> SUFFICES ASSUME IInv, FlagInv, [Next]_vars PROVE FlagInv'
  OBVIOUS
<1>1. CASE UNCHANGED admin
  BY <1>1 DEF FlagInv
<1>2. ASSUME NEW a \in Admins, NEW r \in AdminRecords, admin' = [admin EXCEPT ![a] = r],
             r.op = "flag" => r.credits = 0
      PROVE  FlagInv'
  BY <1>2 DEF FlagInv, IInv, TypeOK
<1>3. ASSUME NEW a \in Admins, Done(a) PROVE FlagInv'
  <2>1. IdleAdmin \in AdminRecords /\ IdleAdmin.op = "none"
    BY IdleRecords DEF IdleAdmin
  <2> QED BY <1>2, <1>3, <2>1 DEF Done
<1>4. ASSUME NEW a \in Admins, NEW g \in Groups, DepositRead(a, g) \/ FlagRead(a, g)
      PROVE  FlagInv'
  <2>1. PICK op \in {"deposit", "flag"}, credits \in Int :
          Read(a, op, g, credits) /\ (op = "flag" => credits = 0)
    BY <1>4, BillingAssumption DEF DepositRead, FlagRead
  <2> DEFINE r == [op |-> op, group |-> g, balance |-> balance[g], credits |-> credits]
  <2>2. r \in AdminRecords /\ (r.op = "flag" => r.credits = 0)
    BY <2>1 DEF IInv, TypeOK, AdminRecords
  <2>3. admin' = [admin EXCEPT ![a] = r]
    BY <2>1 DEF Read
  <2> HIDE DEF r
  <2> QED BY <1>2, <2>2, <2>3
<1>5. ASSUME NEW a \in Admins, NEW g \in Groups, CreateGroup(a, g)
      PROVE  FlagInv'
  <2>1. PICK b \in Int : admin' = [admin EXCEPT ![a] =
                           [op |-> "create", group |-> g, balance |-> b, credits |-> b]]
    BY <1>5, BillingAssumption DEF CreateGroup
  <2> DEFINE r == [op |-> "create", group |-> g, balance |-> b, credits |-> b]
  <2>2. r \in AdminRecords /\ r.op = "create"
    BY DEF AdminRecords
  <2>3. admin' = [admin EXCEPT ![a] = r]
    BY <2>1
  <2> HIDE DEF r
  <2> QED BY <1>2, <2>2, <2>3
<1>6. ASSUME AdminActions PROVE FlagInv'
  <2>1. ASSUME NEW a \in Admins, NEW g \in Groups,
               CopyGroup(a, g) \/ DeleteGroup(a, g) \/ (\E j \in Jobs : MapUser(a, j, g))
        PROVE  UNCHANGED admin
    BY <2>1 DEF CopyGroup, DeleteGroup, MapUser
  <2>2. ASSUME NEW a \in Admins, DepositSave(a) \/ FlagSave(a) \/ CreateDeposit(a) \/ AdminDies(a)
        PROVE  Done(a)
    BY <2>2 DEF DepositSave, FlagSave, CreateDeposit, AdminDies
  <2> QED BY <1>1, <1>3, <1>4, <1>5, <1>6, <2>1, <2>2 DEF AdminActions
<1>7. ASSUME ChargeActions PROVE UNCHANGED admin
  BY <1>7 DEF ChargeActions, ChargeCall, CommandCall, Asked, ChargeBegin, ChargeMeasure,
     ChargeCommit, ChargeFails, ChargeStep
<1>8. ASSUME NEW j \in Jobs, JobRuns(j) PROVE UNCHANGED admin
  BY <1>8 DEF JobRuns
<1>9. UNCHANGED vars => UNCHANGED admin
  BY DEF vars
<1> QED BY <1>1, <1>6, <1>7, <1>8, <1>9 DEF Next

\* Charges and deposits that come together are all kept in the balance; only
\* the saves of requests that read an older balance lose any (deposit.py:64,
\* balance.py:89), for any number of groups, charges and requests.
THEOREM BalancesAreLedgers == Spec => []BalanceIsLedger
<1>1. Init => BalanceIsLedger /\ FlagInv
  BY DEF Init, BalanceIsLedger, FlagInv, IdleAdmin
<1>2. IInv /\ FlagInv /\ BalanceIsLedger /\ [Next]_vars => BalanceIsLedger'
  <2> SUFFICES ASSUME IInv, FlagInv, BalanceIsLedger, [Next]_vars PROVE BalanceIsLedger'
    OBVIOUS
  <2>1. ASSUME NEW j \in Jobs, JobRuns(j) PROVE BalanceIsLedger'
    BY <2>1 DEF JobRuns, money, BalanceIsLedger
  <2>2. CASE UNCHANGED vars
    BY <2>2 DEF vars, money, BalanceIsLedger
  <2> QED BY <2>1, <2>2, ChargeBalance, AdminBalance DEF Next
<1> QED BY InitInvariant, StepInvariant, FlagStep, <1>1, <1>2, PTL DEF Spec
===============================================================================
