---------------------------- MODULE Scanners_proofs ---------------------------
(***************************************************************************)
(* Proofs about the services of MCScanners, each for any instance of its   *)
(* constants.  A behaviour of MCScanners is one of one service, so each    *)
(* invariant is kept by the steps of its service and by the steps that     *)
(* leave the service's variables alone.                                    *)
(***************************************************************************)
EXTENDS MCScanners, TLAPS

-----------------------------------------------------------------------------
(* Alerts: type correctness.                                               *)

\* A task at work is about a policy, a node and an index.
TasksKnown == \A w \in Workers : worker[w].pc # "idle" => worker[w].key \in Alerts!Keys

LEMMA AlertInitType == Alerts!Init => Alerts!TypeOK
  BY ScannersAssumption
     DEF Alerts!Init, Alerts!TypeOK, Alerts!Samples, Alerts!NoPolicy, Alerts!NoAlert,
         Alerts!IdleWorker, Alerts!AlertAssumption

LEMMA AlertScanType ==
  ASSUME Alerts!TypeOK,
         \/ \E n \in Nodes, d \in Devices : Alerts!Sampled(n, d)
         \/ Alerts!ScanRead
         \/ \E p \in Policies : Alerts!ScanPolicy(p)
  PROVE  Alerts!TypeOK'
  <1> USE DEF Alerts!TypeOK
  <1>a. MaxQueue \in Nat
    BY ScannersAssumption DEF Alerts!AlertAssumption
  <1>1. ASSUME NEW n \in Nodes, NEW d \in Devices, Alerts!Sampled(n, d)
        PROVE  Alerts!TypeOK'
    BY <1>1 DEF Alerts!Sampled
  <1>2. CASE Alerts!ScanRead
    BY <1>2 DEF Alerts!ScanRead, Alerts!NoPolicy
  <1>3. ASSUME NEW p \in Policies, Alerts!ScanPolicy(p)
        PROVE  Alerts!TypeOK'
    <2>1. scan' \in [Policies -> [status : {"none", "ON"}, hosts : Groups \cup {{}}]]
      BY <1>3 DEF Alerts!ScanPolicy, Alerts!NoPolicy
    <2>2. queue' \in [Alerts!Keys -> 0 .. MaxQueue]
      BY <1>3, <1>a DEF Alerts!ScanPolicy
    <2> QED
      BY <1>3, <2>1, <2>2 DEF Alerts!ScanPolicy
  <1> QED
    BY <1>1, <1>2, <1>3

LEMMA AlertTaskType ==
  ASSUME Alerts!TypeOK, TasksKnown, NEW w \in Workers,
         Alerts!Task(w) \/ \E k \in Alerts!Keys : Alerts!TaskTake(w, k)
  PROVE  Alerts!TypeOK'
  <1> USE DEF Alerts!TypeOK, Alerts!TaskStep
  <1>a. MaxQueue \in Nat
    BY ScannersAssumption DEF Alerts!AlertAssumption
  <1>b. worker' = [worker EXCEPT ![w] = Alerts!IdleWorker] =>
          worker' \in [Workers -> [pc : {"idle", "taken", "locked", "checked"},
                                   key : Alerts!Keys \cup {None}, exists : BOOLEAN]]
    BY DEF Alerts!IdleWorker
  <1>1. ASSUME NEW k \in Alerts!Keys, Alerts!TaskTake(w, k)
        PROVE  Alerts!TypeOK'
    <2>1. queue' \in [Alerts!Keys -> 0 .. MaxQueue]
      BY <1>1, <1>a DEF Alerts!TaskTake
    <2> QED
      BY <1>1, <2>1 DEF Alerts!TaskTake
  <1>2. CASE Alerts!TaskLock(w)
    BY <1>2 DEF Alerts!TaskLock, Alerts!IdleWorker
  <1>3. CASE Alerts!TaskCheck(w)
    <2> DEFINE b == Alerts!IsOpen(worker[w].key)
    <2>1. b \in BOOLEAN
      BY <1>3 DEF Alerts!TaskCheck, Alerts!IsOpen, TasksKnown
    <2>2. worker' = [worker EXCEPT ![w] = [worker[w] EXCEPT !.pc = "checked", !.exists = b]]
      BY <1>3 DEF Alerts!TaskCheck
    <2> HIDE DEF b
    <2>3. [worker[w] EXCEPT !.pc = "checked", !.exists = b]
            \in [pc : {"idle", "taken", "locked", "checked"}, key : Alerts!Keys \cup {None},
                exists : BOOLEAN]
      BY <2>1
    <2>4. worker' \in [Workers -> [pc : {"idle", "taken", "locked", "checked"},
                                  key : Alerts!Keys \cup {None}, exists : BOOLEAN]]
      BY <2>2, <2>3
    <2> QED
      BY <1>3, <2>4 DEF Alerts!TaskCheck
  <1>4. CASE Alerts!TaskCommit(w)
    <2>1. worker[w].key \in Alerts!Keys
      BY <1>4 DEF Alerts!TaskCommit, TasksKnown
    <2>2. CASE worker[w].exists
      BY <1>b, <1>4, <2>2 DEF Alerts!TaskCommit
    <2>3. CASE ~worker[w].exists
      <3> DEFINE k == worker[w].key
      <3>1. created' \in [Alerts!Keys -> Nat] /\ notified' \in [Alerts!Keys -> Nat]
        <4>1. /\ created' = [created EXCEPT ![k] = created[k] + 1]
              /\ notified' = [notified EXCEPT ![k] = notified[k] + 1]
          BY <1>4, <2>3 DEF Alerts!TaskCommit
        <4> HIDE DEF k
        <4>2. created[k] + 1 \in Nat /\ notified[k] + 1 \in Nat
          BY <2>1 DEF k
        <4> QED
          BY <4>1, <4>2
      <3>2. open' \in [Alerts!Keys -> [present : Nat, confirmed : Nat]]
        <4>1. open' = [open EXCEPT ![k] = [open[k] EXCEPT !.present = open[k].present + 1]]
          BY <1>4, <2>3 DEF Alerts!TaskCommit
        <4> HIDE DEF k
        <4>2. [open[k] EXCEPT !.present = open[k].present + 1] \in [present : Nat, confirmed : Nat]
          BY <2>1 DEF k
        <4> QED
          BY <4>1, <4>2
      <3> QED
        BY <1>b, <1>4, <3>1, <3>2 DEF Alerts!TaskCommit
    <2> QED
      BY <2>2, <2>3
  <1>5. CASE Alerts!TaskRaises(w)
    <2>1. notified' \in [Alerts!Keys -> Nat] /\ failures' \in Nat
      BY <1>5 DEF Alerts!TaskRaises, TasksKnown
    <2> QED
      BY <1>b, <1>5, <2>1 DEF Alerts!TaskRaises, Alerts!KeptOnFailure
  <1> QED
    BY <1>1, <1>2, <1>3, <1>4, <1>5 DEF Alerts!Task

LEMMA AlertRequestType ==
  ASSUME Alerts!TypeOK,
         \/ \E p \in Policies : Alerts!PolicySave(p) \/ Alerts!PolicyDelete(p)
         \/ \E k \in Alerts!Keys : Alerts!Confirm(k) \/ Alerts!SolveOrDelete(k)
  PROVE  Alerts!TypeOK'
  <1> USE DEF Alerts!TypeOK, Alerts!Requested
  <1>1. ASSUME NEW p \in Policies, Alerts!PolicySave(p)
        PROVE  Alerts!TypeOK'
    BY <1>1 DEF Alerts!PolicySave
  <1>2. ASSUME NEW p \in Policies, Alerts!PolicyDelete(p)
        PROVE  Alerts!TypeOK'
    BY <1>2 DEF Alerts!PolicyDelete, Alerts!NoPolicy, Alerts!NoAlert
  <1>3. ASSUME NEW k \in Alerts!Keys, Alerts!Confirm(k)
        PROVE  Alerts!TypeOK'
    BY <1>3 DEF Alerts!Confirm
  <1>4. ASSUME NEW k \in Alerts!Keys, Alerts!SolveOrDelete(k)
        PROVE  Alerts!TypeOK'
    BY <1>4 DEF Alerts!SolveOrDelete, Alerts!NoAlert
  <1> QED
    BY <1>1, <1>2, <1>3, <1>4

LEMMA AlertStepType ==
  Alerts!TypeOK /\ TasksKnown /\ (Alerts!Next \/ UNCHANGED alertVars) => Alerts!TypeOK'
  <1>1. Alerts!TypeOK /\ UNCHANGED alertVars => Alerts!TypeOK'
    BY DEF alertVars, Alerts!TypeOK
  <1> QED
    BY <1>1, AlertScanType, AlertTaskType, AlertRequestType DEF Alerts!Next

-----------------------------------------------------------------------------
(* Alerts: one open alert, and a notification for each.  The count of the  *)
(* open alerts alone is not inductive: who inserts one has looked, under   *)
(* the lock of the policy, and has it still.                               *)

OneHolds == \A v, w \in Workers, p \in Policies : Alerts!Holds(v, p) /\ Alerts!Holds(w, p) => v = w

LooksTrue == \A w \in Workers :
  worker[w].pc = "checked" /\ ~worker[w].exists => ~Alerts!IsOpen(worker[w].key)

AlertInv == TasksKnown /\ OneHolds /\ LooksTrue /\ Alerts!OneOpenAlert /\ Alerts!NoticePerAlert

\* Steps of the scanner, of operators and administrators: no worker moves, and no
\* key gets an alert.
LEMMA AlertFrame ==
  ASSUME Alerts!TypeOK, Alerts!TypeOK', AlertInv, UNCHANGED <<worker, failures, created, notified>>,
         \A k \in Alerts!Keys :
           open'[k].present + open'[k].confirmed <= open[k].present + open[k].confirmed
  PROVE  AlertInv'
  <1>1. TasksKnown' /\ OneHolds' /\ Alerts!NoticePerAlert'
    BY DEF AlertInv, TasksKnown, OneHolds, Alerts!Holds, Alerts!NoticePerAlert
  <1>2. \A k \in Alerts!Keys : /\ open[k].present \in Nat /\ open[k].confirmed \in Nat
                               /\ open'[k].present \in Nat /\ open'[k].confirmed \in Nat
    BY DEF Alerts!TypeOK
  <1>3. LooksTrue'
    BY <1>2 DEF AlertInv, TasksKnown, LooksTrue, Alerts!IsOpen
  <1>4. Alerts!OneOpenAlert'
    BY <1>2 DEF AlertInv, Alerts!OneOpenAlert
  <1> QED
    BY <1>1, <1>3, <1>4 DEF AlertInv

LEMMA AlertScan ==
  ASSUME Alerts!TypeOK, Alerts!TypeOK', AlertInv,
         \/ \E n \in Nodes, d \in Devices : Alerts!Sampled(n, d)
         \/ Alerts!ScanRead
         \/ \E p \in Policies : Alerts!ScanPolicy(p) \/ Alerts!PolicySave(p)
         \/ UNCHANGED alertVars
  PROVE  AlertInv'
  <1>1. UNCHANGED <<open, worker, failures, created, notified>>
    BY DEF Alerts!Sampled, Alerts!ScanRead, Alerts!ScanPolicy, Alerts!PolicySave,
           Alerts!Requested, alertVars
  <1>2. \A k \in Alerts!Keys : open[k].present \in Nat /\ open[k].confirmed \in Nat
    BY DEF Alerts!TypeOK
  <1> QED
    BY <1>1, <1>2, AlertFrame

LEMMA AlertRequest ==
  ASSUME Alerts!TypeOK, Alerts!TypeOK', AlertInv,
         \/ \E p \in Policies : Alerts!PolicyDelete(p)
         \/ \E k \in Alerts!Keys : Alerts!Confirm(k) \/ Alerts!SolveOrDelete(k)
  PROVE  AlertInv'
  <1>1. UNCHANGED <<worker, failures, created, notified>>
    BY DEF Alerts!PolicyDelete, Alerts!Confirm, Alerts!SolveOrDelete, Alerts!Requested
  <1>2. open \in [Alerts!Keys -> [present : Nat, confirmed : Nat]]
    BY DEF Alerts!TypeOK
  <1>3. \A k \in Alerts!Keys :
          open'[k].present + open'[k].confirmed <= open[k].present + open[k].confirmed
    BY <1>2 DEF Alerts!PolicyDelete, Alerts!Confirm, Alerts!SolveOrDelete, Alerts!NoAlert
  <1> QED
    BY <1>1, <1>3, AlertFrame

LEMMA AlertTask ==
  ASSUME Alerts!TypeOK, Alerts!TypeOK', AlertInv, NEW w \in Workers,
         Alerts!Task(w) \/ \E k \in Alerts!Keys : Alerts!TaskTake(w, k)
  PROVE  AlertInv'
  <1> USE DEF Alerts!TaskStep
  <1>a. /\ worker \in [Workers -> [pc : {"idle", "taken", "locked", "checked"},
                                   key : Alerts!Keys \cup {None}, exists : BOOLEAN]]
        /\ open \in [Alerts!Keys -> [present : Nat, confirmed : Nat]]
        /\ created \in [Alerts!Keys -> Nat] /\ notified \in [Alerts!Keys -> Nat]
        /\ failures \in Nat
    BY DEF Alerts!TypeOK
  <1>b. TasksKnown /\ OneHolds /\ LooksTrue /\ Alerts!OneOpenAlert /\ Alerts!NoticePerAlert
    BY DEF AlertInv
  <1>c. Alerts!IdleWorker.pc = "idle"
    BY DEF Alerts!IdleWorker
  <1>d. \A k \in Alerts!Keys : k[1] \in Policies
    BY DEF Alerts!Keys
  <1>1. ASSUME NEW k \in Alerts!Keys, Alerts!TaskTake(w, k)
        PROVE  AlertInv'
    <2>1. /\ worker' = [worker EXCEPT ![w] = [pc |-> "taken", key |-> k, exists |-> FALSE]]
          /\ UNCHANGED <<open, failures, created, notified>>
      BY <1>1 DEF Alerts!TaskTake
    <2>2. TasksKnown' /\ OneHolds' /\ LooksTrue'
      BY <1>a, <1>b, <2>1 DEF TasksKnown, OneHolds, LooksTrue, Alerts!Holds, Alerts!IsOpen
    <2> QED
      BY <1>b, <2>1, <2>2 DEF AlertInv, Alerts!OneOpenAlert, Alerts!NoticePerAlert
  <1>2. CASE Alerts!TaskLock(w)
    <2>1. /\ \A v \in Workers \ {w} : worker'[v] = worker[v]
          /\ \/ worker'[w].pc = "idle"
             \/ worker'[w].pc = "locked" /\ worker'[w].key = worker[w].key
          /\ \A v \in Workers : ~Alerts!Holds(v, worker[w].key[1])
          /\ UNCHANGED <<open, failures, created, notified>> /\ worker[w].pc = "taken"
      BY <1>2, <1>a, <1>c DEF Alerts!TaskLock, Alerts!MayLock
    <2>2. TasksKnown' /\ LooksTrue'
      BY <1>b, <2>1 DEF TasksKnown, LooksTrue, Alerts!IsOpen
    <2>3. OneHolds'
      BY <1>b, <2>1 DEF OneHolds, Alerts!Holds
    <2> QED
      BY <1>b, <2>1, <2>2, <2>3 DEF AlertInv, Alerts!OneOpenAlert, Alerts!NoticePerAlert
  <1>3. CASE Alerts!TaskCheck(w)
    <2>1. /\ \A v \in Workers \ {w} : worker'[v] = worker[v]
          /\ worker'[w].pc = "checked" /\ worker'[w].key = worker[w].key
          /\ worker'[w].exists = Alerts!IsOpen(worker[w].key) /\ worker[w].pc = "locked"
          /\ UNCHANGED <<open, failures, created, notified>>
      BY <1>3, <1>a DEF Alerts!TaskCheck
    <2>2. TasksKnown' /\ LooksTrue'
      BY <1>b, <2>1 DEF TasksKnown, LooksTrue, Alerts!IsOpen
    <2>3. OneHolds'
      BY <1>b, <2>1 DEF OneHolds, Alerts!Holds
    <2> QED
      BY <1>b, <2>1, <2>2, <2>3 DEF AlertInv, Alerts!OneOpenAlert, Alerts!NoticePerAlert
  <1>4. CASE Alerts!TaskCommit(w)
    <2> DEFINE k == worker[w].key
    <2>1. /\ worker' = [worker EXCEPT ![w] = Alerts!IdleWorker] /\ worker[w].pc = "checked"
          /\ k \in Alerts!Keys /\ k[1] \in Policies /\ UNCHANGED failures
          /\ \/ UNCHANGED <<open, created, notified>>
             \/ /\ ~Alerts!IsOpen(k)
                /\ open' = [open EXCEPT ![k].present = @ + 1]
                /\ created' = [created EXCEPT ![k] = @ + 1]
                /\ notified' = [notified EXCEPT ![k] = @ + 1]
      BY <1>4, <1>b, <1>d DEF Alerts!TaskCommit, TasksKnown, LooksTrue
    <2>2. \A v \in Workers \ {w} : worker'[v] = worker[v] /\ (worker[v].pc = "checked" => worker[v].key # k)
      <3>1. \A v \in Workers \ {w} : worker[v].pc = "checked" => worker[v].key # k
        BY <1>b, <2>1 DEF OneHolds, Alerts!Holds
      <3> QED
        BY <1>a, <2>1, <3>1
    <2>3. worker'[w].pc = "idle"
      BY <1>a, <1>c, <2>1
    <2> HIDE DEF k
    <2>4. TasksKnown' /\ OneHolds'
      BY <1>b, <2>2, <2>3 DEF TasksKnown, OneHolds, Alerts!Holds
    <2>5. \A x \in Alerts!Keys \ {k} : open'[x] = open[x]
      BY <1>a, <2>1
    <2>6. LooksTrue'
      BY <1>b, <2>2, <2>3, <2>5 DEF LooksTrue, TasksKnown, Alerts!IsOpen
    <2>7. Alerts!OneOpenAlert'
      <3>1. open'[k] = open[k] \/ (open'[k].present + open'[k].confirmed = 1)
        <4>1. open[k].present \in Nat /\ open[k].confirmed \in Nat
          BY <1>a, <2>1
        <4>2. \/ open'[k] = open[k]
              \/ /\ ~Alerts!IsOpen(k) /\ open'[k].present = open[k].present + 1
                 /\ open'[k].confirmed = open[k].confirmed
          BY <1>a, <2>1
        <4> QED
          BY <4>1, <4>2 DEF Alerts!IsOpen
      <3> QED
        BY <1>b, <2>5, <3>1 DEF Alerts!OneOpenAlert
    <2>8. Alerts!NoticePerAlert'
      BY <1>a, <1>b, <2>1 DEF Alerts!NoticePerAlert
    <2> QED
      BY <2>4, <2>6, <2>7, <2>8 DEF AlertInv
  <1>5. CASE Alerts!TaskRaises(w)
    <2> DEFINE k == worker[w].key
    <2>1. /\ worker' = [worker EXCEPT ![w] = Alerts!IdleWorker]
          /\ UNCHANGED <<open, created>> /\ failures' = failures + 1
          /\ UNCHANGED notified \/ notified' = [notified EXCEPT ![k] = @ + 1]
      BY <1>5 DEF Alerts!TaskRaises, Alerts!KeptOnFailure
    <2> HIDE DEF k
    <2>2. \A v \in Workers : worker'[v] = worker[v] \/ worker'[v].pc = "idle"
      BY <1>a, <1>c, <2>1
    <2>3. TasksKnown' /\ OneHolds' /\ LooksTrue'
      BY <1>b, <2>1, <2>2 DEF TasksKnown, OneHolds, LooksTrue, Alerts!Holds, Alerts!IsOpen
    <2>4. Alerts!NoticePerAlert'
      BY <1>a, <1>b, <2>1 DEF Alerts!NoticePerAlert
    <2> QED
      BY <1>b, <2>1, <2>3, <2>4 DEF AlertInv, Alerts!OneOpenAlert
  <1> QED
    BY <1>1, <1>2, <1>3, <1>4, <1>5 DEF Alerts!Task

LEMMA AlertStep ==
  Alerts!TypeOK /\ AlertInv /\ (Alerts!Next \/ UNCHANGED alertVars) => AlertInv'
  <1> SUFFICES ASSUME Alerts!TypeOK, AlertInv, Alerts!Next \/ UNCHANGED alertVars
               PROVE  AlertInv'
    OBVIOUS
  <1>1. Alerts!TypeOK'
    BY AlertStepType DEF AlertInv
  <1> QED
    BY <1>1, AlertScan, AlertRequest, AlertTask DEF Alerts!Next

LEMMA AlertInit == Alerts!Init => AlertInv
  BY DEF Alerts!Init, AlertInv, TasksKnown, OneHolds, LooksTrue, Alerts!Holds, Alerts!IsOpen,
         Alerts!IdleWorker, Alerts!NoAlert, Alerts!OneOpenAlert, Alerts!NoticePerAlert

-----------------------------------------------------------------------------
(* Images: type correctness.                                               *)

\* A task that was queued has an image.
CopiesKnown == \A c \in Copies : copy[c].pc # "new" => copy[c].image \in Images

\* copy_image.delay gives the image to a task nobody has.
LEMMA QueueNew ==
  ASSUME NEW i \in Images, Copying!Queue(i)
  PROVE  \E c \in Copies : /\ copy[c].pc = "new"
                           /\ copy' = [copy EXCEPT ![c] = [pc |-> "queued", image |-> i]]
  BY DEF Copying!Queue

LEMMA CopyInitType == Copying!Init => Copying!TypeOK /\ CopiesKnown
  BY DEF Copying!Init, Copying!TypeOK, Copying!Statuses, Copying!CopyPcs, CopiesKnown

LEMMA CopyViewType ==
  ASSUME Copying!TypeOK, CopiesKnown, NEW i \in Images,
         \/ Copying!Create(i) \/ Copying!CreateQueue(i) \/ Copying!CreateFails(i)
         \/ Copying!Reupload(i) \/ Copying!DeleteRead(i) \/ Copying!DeleteRow(i)
  PROVE  Copying!TypeOK' /\ CopiesKnown'
  <1> USE DEF Copying!TypeOK, Copying!Statuses, Copying!CopyPcs, Copying!copyHistory
  <1>1. CASE Copying!Create(i) \/ Copying!CreateFails(i) \/ Copying!DeleteRead(i)
               \/ Copying!DeleteRow(i)
    BY <1>1 DEF Copying!Create, Copying!CreateFails, Copying!DeleteRead, Copying!DeleteRow,
                CopiesKnown
  <1>2. CASE Copying!CreateQueue(i) \/ Copying!Reupload(i)
    <2>1. PICK c \in Copies : copy' = [copy EXCEPT ![c] = [pc |-> "queued", image |-> i]]
      BY <1>2, QueueNew DEF Copying!CreateQueue, Copying!Reupload
    <2>2. copy' \in [Copies -> [pc : Copying!CopyPcs, image : Images \cup {None}]] /\ CopiesKnown'
      BY <2>1 DEF CopiesKnown
    <2> QED
      BY <1>2, <2>2 DEF Copying!CreateQueue, Copying!Reupload
  <1> QED
    BY <1>1, <1>2

LEMMA CopyTaskType ==
  ASSUME Copying!TypeOK, CopiesKnown, NEW c \in Copies, Copying!Copy(c)
  PROVE  Copying!TypeOK' /\ CopiesKnown'
  <1> USE DEF Copying!CopyStep, Copying!Step
  <1> DEFINE i == copy[c].image
  <1>a. /\ copy \in [Copies -> [pc : Copying!CopyPcs, image : Images \cup {None}]]
        /\ status \in [Images -> Copying!Statuses]
        /\ file \in [Images -> {"none", "part", "whole"}]
        /\ abandoned \subseteq Images
    BY DEF Copying!TypeOK
  <1>1. /\ UNCHANGED <<creating, deleting, reused, disturbed>>
        /\ \/ UNCHANGED copy
           \/ \E p \in Copying!CopyPcs \ {"new"} : copy' = [copy EXCEPT ![c].pc = p]
        /\ copy[c].pc \in {"queued", "got", "started", "copied", "failed"}
    BY DEF Copying!Copy, Copying!CopyGet, Copying!CopyStart, Copying!CopyWrite, Copying!CopyDone,
           Copying!CopySucceeds, Copying!CopyFails, Copying!CopyRemoves, Copying!CopyRaises,
           Copying!CopyKilled, Copying!CopyPcs
  <1>2. i \in Images
    BY <1>1 DEF CopiesKnown
  <1>3. copy' \in [Copies -> [pc : Copying!CopyPcs, image : Images \cup {None}]] /\ CopiesKnown'
    BY <1>a, <1>1, <1>2 DEF CopiesKnown
  <1>4. \/ UNCHANGED status
        \/ \E s \in {"STARTED", "SUCCESS", "FAILURE"} : status' = [status EXCEPT ![i] = s]
    BY DEF Copying!Copy, Copying!CopyGet, Copying!CopyStart, Copying!CopyWrite, Copying!CopyDone,
           Copying!CopySucceeds, Copying!CopyFails, Copying!CopyRemoves, Copying!CopyRaises,
           Copying!CopyKilled, Copying!Save, Copying!FailedStatus
  <1>5. UNCHANGED file \/ \E f \in {"none", "part", "whole"} : file' = [file EXCEPT ![i] = f]
    BY DEF Copying!Copy, Copying!CopyGet, Copying!CopyStart, Copying!CopyWrite, Copying!CopyDone,
           Copying!CopySucceeds, Copying!CopyFails, Copying!CopyRemoves, Copying!CopyRaises,
           Copying!CopyKilled, Copying!Written
  <1>6. UNCHANGED abandoned \/ abandoned' = abandoned \cup {i}
    BY DEF Copying!Copy, Copying!CopyGet, Copying!CopyStart, Copying!CopyWrite, Copying!CopyDone,
           Copying!CopySucceeds, Copying!CopyFails, Copying!CopyRemoves, Copying!CopyRaises,
           Copying!CopyKilled
  <1> HIDE DEF i
  <1>7. /\ status' \in [Images -> Copying!Statuses] /\ file' \in [Images -> {"none", "part", "whole"}]
        /\ abandoned' \subseteq Images
    BY <1>a, <1>2, <1>4, <1>5, <1>6 DEF Copying!Statuses, Copying!Ready
  <1> QED
    BY <1>1, <1>3, <1>7 DEF Copying!TypeOK

LEMMA CopyStepType ==
  Copying!TypeOK /\ CopiesKnown /\ (Copying!Next \/ UNCHANGED copyVars)
    => Copying!TypeOK' /\ CopiesKnown'
  <1>1. Copying!TypeOK /\ CopiesKnown /\ UNCHANGED copyVars => Copying!TypeOK' /\ CopiesKnown'
    BY DEF copyVars, Copying!TypeOK, CopiesKnown
  <1> QED
    BY <1>1, CopyViewType, CopyTaskType DEF Copying!Next

-----------------------------------------------------------------------------
(* Images: SUCCESS has its file, and a deleted image stays deleted.  Both  *)
(* need to know that one task at most works on an image whose tasks and    *)
(* deletes never met, and what the status says at each point of its work.  *)

Works(c, i) == copy[c].image = i /\ Copying!Active(c)

Undisturbed(i) ==
  /\ \A c, d \in Copies : Works(c, i) /\ Works(d, i) => c = d
  /\ i \in deleting => status[i] \in Copying!Ready /\ \A c \in Copies : ~Works(c, i)
  /\ i \in creating => status[i] = "PENDING" /\ \A c \in Copies : ~Works(c, i)
  /\ \A c \in Copies : Works(c, i) =>
       /\ status[i] \notin {"none", "deleted"}
       /\ copy[c].pc \in {"started", "copied"} => status[i] = "STARTED"
       /\ copy[c].pc = "failed" => status[i] = "FAILURE"
       /\ copy[c].pc = "copied" => file[i] = "whole"
  /\ i \notin abandoned /\ status[i] = "SUCCESS" => file[i] = "whole"

CopyInv == CopiesKnown /\ \A i \in Images : i \notin disturbed => Undisturbed(i)

\* An image whose row, file and tasks a step leaves alone.
LEMMA CopyElsewhere ==
  ASSUME NEW i \in Images, Undisturbed(i), status'[i] = status[i], file'[i] = file[i],
         i \in creating' => i \in creating, i \in deleting' => i \in deleting,
         i \notin abandoned' => i \notin abandoned,
         \A c \in Copies : \/ copy'[c] = copy[c]
                           \/ copy'[c].pc = "over"
                           \/ copy'[c].image # i
  PROVE  Undisturbed(i)'
  <1>1. \A c \in Copies : Works(c, i)' => Works(c, i) /\ copy'[c] = copy[c]
    BY DEF Works, Copying!Active
  <1> QED
    BY <1>1 DEF Undisturbed

LEMMA CopyViewStep ==
  ASSUME Copying!TypeOK, CopyInv, NEW i \in Images,
         \/ Copying!Create(i) \/ Copying!CreateQueue(i) \/ Copying!CreateFails(i)
         \/ Copying!Reupload(i) \/ Copying!DeleteRead(i) \/ Copying!DeleteRow(i)
  PROVE  \A k \in Images : k \notin disturbed' => Undisturbed(k)'
  <1> USE DEF Copying!copyHistory
  <1>a. /\ copy \in [Copies -> [pc : Copying!CopyPcs, image : Images \cup {None}]]
        /\ status \in [Images -> Copying!Statuses]
        /\ file \in [Images -> {"none", "part", "whole"}]
    BY DEF Copying!TypeOK
  <1>b. disturbed \subseteq disturbed'
    BY DEF Copying!Create, Copying!CreateQueue, Copying!CreateFails, Copying!Reupload,
           Copying!DeleteRead, Copying!DeleteRow
  <1> SUFFICES ASSUME NEW k \in Images, k \notin disturbed', Undisturbed(k)
               PROVE  Undisturbed(k)'
    BY <1>b DEF CopyInv
  <1>1. CASE Copying!Create(i)
    <2>1. CASE k # i
      BY <1>a, <1>1, <2>1, CopyElsewhere DEF Copying!Create
    <2>2. CASE k = i
      BY <1>a, <1>1, <2>2 DEF Copying!Create, Undisturbed, Works, Copying!Active, Copying!Ready
    <2> QED
      BY <2>1, <2>2
  <1>2. CASE Copying!CreateQueue(i)
    <2>1. PICK c \in Copies : /\ copy[c].pc = "new"
                              /\ copy' = [copy EXCEPT ![c] = [pc |-> "queued", image |-> i]]
      BY <1>2, QueueNew DEF Copying!CreateQueue
    <2>2. CASE k # i
      BY <1>a, <1>2, <2>1, <2>2, CopyElsewhere DEF Copying!CreateQueue
    <2>3. CASE k = i
      <3>1. /\ \A d \in Copies : Works(d, i)' => d = c
            /\ copy'[c].pc = "queued" /\ status'[i] = "PENDING" /\ i \notin creating'
            /\ i \notin deleting'
        BY <1>a, <1>2, <2>1, <2>3
           DEF Copying!CreateQueue, Undisturbed, Works, Copying!Active, Copying!Ready
      <3> QED
        BY <2>3, <3>1 DEF Undisturbed
    <2> QED
      BY <2>2, <2>3
  <1>3. CASE Copying!CreateFails(i)
    BY <1>a, <1>3, CopyElsewhere DEF Copying!CreateFails
  <1>4. CASE Copying!Reupload(i)
    <2>1. PICK c \in Copies : /\ copy[c].pc = "new"
                              /\ copy' = [copy EXCEPT ![c] = [pc |-> "queued", image |-> i]]
      BY <1>4, QueueNew DEF Copying!Reupload
    <2>2. CASE k # i
      BY <1>a, <1>4, <2>1, <2>2, CopyElsewhere DEF Copying!Reupload
    <2>3. CASE k = i
      <3>1. /\ Copying!ActiveOn(i) = {} /\ i \notin deleting /\ status[i] \in Copying!Ready
            /\ UNCHANGED <<status, file, creating, deleting, abandoned>>
        BY <1>4, <2>3 DEF Copying!Reupload, Copying!Settled
      <3>2. /\ \A d \in Copies : Works(d, i)' => d = c
            /\ copy'[c].pc = "queued"
        BY <1>a, <2>1, <3>1 DEF Copying!ActiveOn, Works, Copying!Active
      <3>3. i \notin creating
        BY <2>3, <3>1 DEF Undisturbed, Copying!Ready
      <3> QED
        BY <2>3, <3>1, <3>2, <3>3 DEF Undisturbed, Copying!Ready
    <2> QED
      BY <2>2, <2>3
  <1>5. CASE Copying!DeleteRead(i)
    <2>1. CASE k # i
      BY <1>a, <1>5, <2>1, CopyElsewhere DEF Copying!DeleteRead
    <2>2. CASE k = i
      <3>1. /\ Copying!ActiveOn(i) = {} /\ status[i] \in Copying!Ready
            /\ UNCHANGED <<status, file, creating, copy, abandoned>>
        BY <1>5, <2>2 DEF Copying!DeleteRead, Copying!Settled
      <3>2. \A c \in Copies : ~Works(c, i) /\ ~Works(c, i)'
        BY <3>1 DEF Copying!ActiveOn, Works, Copying!Active
      <3> QED
        BY <2>2, <3>1, <3>2 DEF Undisturbed
    <2> QED
      BY <2>1, <2>2
  <1>6. CASE Copying!DeleteRow(i)
    <2>1. CASE k # i
      BY <1>a, <1>6, <2>1, CopyElsewhere DEF Copying!DeleteRow
    <2>2. CASE k = i
      <3>1. /\ status'[i] = "deleted" /\ i \notin deleting' /\ UNCHANGED <<creating, copy>>
            /\ i \in deleting
        BY <1>a, <1>6 DEF Copying!DeleteRow
      <3>2. i \notin creating /\ \A c \in Copies : ~Works(c, i)'
        BY <2>2, <3>1 DEF Undisturbed, Works, Copying!Active, Copying!Ready
      <3> QED
        BY <2>2, <3>1, <3>2 DEF Undisturbed
    <2> QED
      BY <2>1, <2>2
  <1> QED
    BY <1>1, <1>2, <1>3, <1>4, <1>5, <1>6

LEMMA CopyTaskStep ==
  ASSUME Copying!TypeOK, CopyInv, NEW c \in Copies, Copying!Copy(c)
  PROVE  \A k \in Images : k \notin disturbed' => Undisturbed(k)'
  <1> USE DEF Copying!CopyStep, Copying!Step, Copying!Save
  <1>a. /\ copy \in [Copies -> [pc : Copying!CopyPcs, image : Images \cup {None}]]
        /\ status \in [Images -> Copying!Statuses]
        /\ file \in [Images -> {"none", "part", "whole"}]
    BY DEF Copying!TypeOK
  <1>b. UNCHANGED <<creating, deleting, disturbed>> /\ copy[c].image \in Images
    <2>1. copy[c].pc # "new" /\ UNCHANGED <<creating, deleting, disturbed>>
      BY DEF Copying!Copy, Copying!CopyGet, Copying!CopyStart, Copying!CopyWrite, Copying!CopyDone,
             Copying!CopySucceeds, Copying!CopyFails, Copying!CopyRemoves, Copying!CopyRaises,
             Copying!CopyKilled
    <2> QED
      BY <2>1 DEF CopyInv, CopiesKnown
  <1> SUFFICES ASSUME NEW k \in Images, k \notin disturbed', Undisturbed(k)
               PROVE  Undisturbed(k)'
    BY <1>b DEF CopyInv
  <1>c. \A d \in Copies \ {c} : copy'[d] = copy[d]
    BY <1>a DEF Copying!Copy, Copying!CopyGet, Copying!CopyStart, Copying!CopyWrite,
             Copying!CopyDone, Copying!CopySucceeds, Copying!CopyFails, Copying!CopyRemoves,
             Copying!CopyRaises, Copying!CopyKilled
  <1>d. copy'[c].image = copy[c].image
    BY <1>a DEF Copying!Copy, Copying!CopyGet, Copying!CopyStart, Copying!CopyWrite,
             Copying!CopyDone, Copying!CopySucceeds, Copying!CopyFails, Copying!CopyRemoves,
             Copying!CopyRaises, Copying!CopyKilled
  <1>1. CASE copy[c].image # k
    <2>1. status'[k] = status[k]
      BY <1>a, <1>b, <1>1 DEF Copying!Copy, Copying!CopyGet, Copying!CopyStart, Copying!CopyWrite,
             Copying!CopyDone, Copying!CopySucceeds, Copying!CopyFails, Copying!CopyRemoves,
             Copying!CopyRaises, Copying!CopyKilled, Copying!FailedStatus
    <2>2. file'[k] = file[k]
      BY <1>a, <1>b, <1>1 DEF Copying!Copy, Copying!CopyGet, Copying!CopyStart, Copying!CopyWrite,
             Copying!CopyDone, Copying!CopySucceeds, Copying!CopyFails, Copying!CopyRemoves,
             Copying!CopyRaises, Copying!CopyKilled, Copying!Written
    <2>3. abandoned \subseteq abandoned'
      BY DEF Copying!Copy, Copying!CopyGet, Copying!CopyStart, Copying!CopyWrite,
             Copying!CopyDone, Copying!CopySucceeds, Copying!CopyFails, Copying!CopyRemoves,
             Copying!CopyRaises, Copying!CopyKilled
    <2> QED
      BY <1>b, <1>c, <1>d, <1>1, <2>1, <2>2, <2>3, CopyElsewhere
  <1>2. CASE copy[c].image = k
    <2>a. \A d \in Copies \ {c} : Works(d, k)' <=> Works(d, k)
      BY <1>c DEF Works, Copying!Active
    <2>b. Works(c, k) /\ (\A d \in Copies : Works(d, k) => d = c) /\ k \notin creating /\ k \notin deleting
      <3>1. Works(c, k)
        BY <1>2 DEF Works, Copying!Active, Copying!Copy, Copying!CopyGet, Copying!CopyStart,
             Copying!CopyWrite, Copying!CopyDone, Copying!CopySucceeds, Copying!CopyFails,
             Copying!CopyRemoves, Copying!CopyRaises, Copying!CopyKilled
      <3> QED
        BY <3>1 DEF Undisturbed
    <2>c. \A d \in Copies : Works(d, k)' => d = c
      BY <2>a, <2>b
    <2>d. (/\ Works(c, k)' =>
              /\ status'[k] \notin {"none", "deleted"}
              /\ copy'[c].pc \in {"started", "copied"} => status'[k] = "STARTED"
              /\ copy'[c].pc = "failed" => status'[k] = "FAILURE"
              /\ copy'[c].pc = "copied" => file'[k] = "whole"
           /\ k \notin abandoned' /\ status'[k] = "SUCCESS" => file'[k] = "whole")
          => Undisturbed(k)'
      BY <1>b, <2>b, <2>c DEF Undisturbed
    <2>e. /\ status[k] \notin {"none", "deleted"}
          /\ copy[c].pc \in {"started", "copied"} => status[k] = "STARTED"
          /\ copy[c].pc = "failed" => status[k] = "FAILURE"
          /\ copy[c].pc = "copied" => file[k] = "whole"
          /\ k \notin abandoned /\ status[k] = "SUCCESS" => file[k] = "whole"
      BY <2>b DEF Undisturbed
    <2>1. CASE Copying!CopyGet(c)
      <3>1. copy'[c].pc \in {"got", "over"} /\ UNCHANGED <<status, file, abandoned>>
        BY <1>a, <2>1 DEF Copying!CopyGet
      <3> QED
        BY <2>d, <2>e, <3>1
    <2>2. CASE Copying!CopyStart(c)
      <3>1. copy'[c].pc = "started" /\ status'[k] = "STARTED"
        BY <1>a, <1>2, <2>2 DEF Copying!CopyStart
      <3> QED
        BY <2>d, <3>1
    <2>3. CASE Copying!CopyRaises(c)
      <3>1. copy'[c].pc = "over" /\ k \in abandoned'
        BY <1>a, <1>2, <2>3 DEF Copying!CopyRaises
      <3> QED
        BY <2>d, <3>1 DEF Works, Copying!Active
    <2>4. CASE Copying!CopyWrite(c)
      <3>1. copy'[c].pc = "started" /\ status'[k] = "STARTED"
        BY <2>4, <2>e DEF Copying!CopyWrite
      <3> QED
        BY <2>d, <3>1
    <2>5. CASE Copying!CopyDone(c)
      <3>1. copy'[c].pc = "copied" /\ file'[k] = "whole" /\ status'[k] = "STARTED"
        BY <1>a, <1>2, <2>5, <2>e DEF Copying!CopyDone, Copying!Written
      <3> QED
        BY <2>d, <3>1
    <2>6. CASE Copying!CopySucceeds(c)
      <3>1. copy'[c].pc = "over" /\ file'[k] = "whole"
        BY <1>a, <1>2, <2>6, <2>e DEF Copying!CopySucceeds
      <3> QED
        BY <2>d, <3>1 DEF Works, Copying!Active
    <2>7. CASE Copying!CopyFails(c)
      <3>1. copy'[c].pc = "failed" /\ status'[k] = "FAILURE"
        BY <1>a, <1>2, <2>7 DEF Copying!CopyFails, Copying!FailedStatus
      <3> QED
        BY <2>d, <3>1
    <2>8. CASE Copying!CopyRemoves(c)
      <3>1. copy'[c].pc = "over" /\ status'[k] = "FAILURE"
        BY <1>a, <1>2, <2>8, <2>e DEF Copying!CopyRemoves
      <3> QED
        BY <2>d, <3>1 DEF Works, Copying!Active
    <2>9. CASE Copying!CopyKilled(c)
      <3>1. copy'[c].pc = "over" /\ k \in abandoned'
        BY <1>a, <1>2, <2>9 DEF Copying!CopyKilled
      <3> QED
        BY <2>d, <3>1 DEF Works, Copying!Active
    <2> QED
      BY <2>1, <2>2, <2>3, <2>4, <2>5, <2>6, <2>7, <2>8, <2>9 DEF Copying!Copy
  <1> QED
    BY <1>1, <1>2

LEMMA CopyStepInv ==
  Copying!TypeOK /\ CopyInv /\ (Copying!Next \/ UNCHANGED copyVars) => CopyInv'
  <1> SUFFICES ASSUME Copying!TypeOK, CopyInv, Copying!Next \/ UNCHANGED copyVars
               PROVE  CopyInv'
    OBVIOUS
  <1>1. CopiesKnown'
    BY CopyStepType DEF CopyInv
  <1>2. CASE Copying!Next
    BY <1>1, <1>2, CopyViewStep, CopyTaskStep DEF Copying!Next, CopyInv
  <1>3. CASE UNCHANGED copyVars
    BY <1>3 DEF CopyInv, CopiesKnown, Undisturbed, Works, Copying!Active, copyVars
  <1> QED
    BY <1>2, <1>3

LEMMA CopyInit == Copying!Init => CopyInv
  BY DEF Copying!Init, CopyInv, CopiesKnown, Undisturbed, Works, Copying!Active

\* A deleted row is not saved again: no task works on it that a delete did not meet.
StaysDeleted == \A i \in Images : status[i] = "deleted" /\ i \notin disturbed => status'[i] = "deleted"

LEMMA DeletedStep ==
  Copying!TypeOK /\ CopyInv /\ (Copying!Next \/ UNCHANGED copyVars) => StaysDeleted
  <1> SUFFICES ASSUME Copying!TypeOK, CopyInv, Copying!Next \/ UNCHANGED copyVars,
                      NEW k \in Images, status[k] = "deleted", k \notin disturbed
               PROVE  status'[k] = "deleted"
    BY DEF StaysDeleted
  <1>a. /\ status \in [Images -> Copying!Statuses] /\ Undisturbed(k) /\ CopiesKnown
    BY DEF Copying!TypeOK, CopyInv
  <1>b. (\A c \in Copies : ~Works(c, k)) /\ k \notin deleting
    BY <1>a DEF Undisturbed, Copying!Ready
  <1>1. ASSUME NEW i \in Images,
               \/ Copying!Create(i) \/ Copying!CreateQueue(i) \/ Copying!CreateFails(i)
               \/ Copying!Reupload(i) \/ Copying!DeleteRead(i) \/ Copying!DeleteRow(i)
        PROVE  status'[k] = "deleted"
    BY <1>a, <1>1 DEF Copying!Create, Copying!CreateQueue, Copying!CreateFails, Copying!Reupload,
           Copying!DeleteRead, Copying!DeleteRow
  <1>2. ASSUME NEW c \in Copies, Copying!Copy(c)
        PROVE  status'[k] = "deleted"
    <2>1. \/ UNCHANGED status
          \/ Copying!Active(c) /\ \E s : status' = [status EXCEPT ![copy[c].image] = s]
      BY <1>2 DEF Copying!Copy, Copying!CopyGet, Copying!CopyStart, Copying!CopyWrite, Copying!CopyDone,
           Copying!CopySucceeds, Copying!CopyFails, Copying!CopyRemoves, Copying!CopyRaises,
           Copying!CopyKilled, Copying!Save, Copying!FailedStatus, Copying!Step, Copying!Active
    <2> QED
      BY <1>a, <1>b, <2>1 DEF Works
  <1> QED
    BY <1>1, <1>2 DEF Copying!Next, copyVars

-----------------------------------------------------------------------------
(* The beat: a clocked schedule starts one run at most.  What the row, the *)
(* copy the beat holds and the count of runs say of one another depends on *)
(* how far the beat is.                                                    *)

LEMMA BeatConstants ==
  /\ Beats!BeatIdle \in [pc : {"idle", "waiting", "read", "refused", "started", "disabled"},
                         task : Beats!Tasks, seen : Beats!Flows]
  /\ Beats!EditIdle \in [pc : {"idle", "read"}, task : Beats!Tasks]
  /\ Beats!UserIdle \in [pc : {"idle", "read"}, seen : Beats!Flows]
  /\ Beats!NoTask \in Beats!Tasks
  /\ {"created", "starting", "running", "over"} = Beats!Flows
  /\ MaxEdits \in Nat /\ MaxTriggers \in Nat /\ MaxKills \in Nat
  <1>1. MaxEdits \in Nat /\ MaxTriggers \in Nat /\ MaxKills \in Nat
    BY ScannersAssumption DEF Beats!BeatAssumption
  <1> QED
    BY <1>1 DEF Beats!Flows, Beats!Tasks, Beats!Kinds, Beats!NoTask, Beats!EditIdle,
                Beats!UserIdle, Beats!BeatIdle

LEMMA BeatInitType == Beats!Init => Beats!TypeOK
  <1> SUFFICES ASSUME Beats!Init PROVE Beats!TypeOK
    OBVIOUS
  <1>1. /\ passed \in BOOLEAN /\ scanner \in BOOLEAN
        /\ refused \in BOOLEAN /\ killed \in BOOLEAN /\ overlaid \in BOOLEAN
    BY Zenon DEF Beats!Init
  <1>2. /\ edits \in 0 .. MaxEdits /\ triggers \in 0 .. MaxTriggers /\ kills \in 0 .. MaxKills
        /\ fired \in Nat
    BY BeatConstants DEF Beats!Init
  <1>3. flow \in Beats!Flows
    BY BeatConstants DEF Beats!Init
  <1> QED
    BY <1>1, <1>2, <1>3, BeatConstants DEF Beats!Init, Beats!TypeOK

LEMMA BeatStepType == Beats!TypeOK /\ (Beats!Next \/ UNCHANGED beatVars) => Beats!TypeOK'
  <1> SUFFICES ASSUME Beats!TypeOK, Beats!Next \/ UNCHANGED beatVars PROVE Beats!TypeOK'
    OBVIOUS
  <1> USE BeatConstants DEF Beats!TypeOK, Beats!BeatStep, Beats!beatCounters
  <1>c. \A t \in Beats!Tasks : /\ [t EXCEPT !.ran = TRUE] \in Beats!Tasks
                              /\ Beats!Finally(t) \in Beats!Tasks
    BY DEF Beats!Tasks, Beats!Finally
  <1>1. CASE Beats!TimePasses
    BY <1>1 DEF Beats!TimePasses
  <1>2. CASE Beats!ScanBegins
    BY <1>2 DEF Beats!ScanBegins
  <1>3. CASE Beats!ScanEnds
    BY <1>3 DEF Beats!ScanEnds
  <1>4. CASE Beats!BeatDue
    BY <1>4 DEF Beats!BeatDue
  <1>5. CASE Beats!BeatMissed
    BY <1>5, ZenonT(30) DEF Beats!BeatMissed, Beats!OneOff
  <1>6. CASE Beats!BeatRead
    <2>1. passed' \in BOOLEAN
      BY <1>6, Zenon DEF Beats!BeatRead, Beats!OneOff
    <2>2. beat' \in [pc : {"idle", "waiting", "read", "refused", "started", "disabled"},
                     task : Beats!Tasks, seen : Beats!Flows]
      BY <1>6 DEF Beats!BeatRead
    <2> QED
      BY <1>6, <2>1, <2>2 DEF Beats!BeatRead
  <1>7. CASE Beats!BeatRuns
    <2>1. refused' \in BOOLEAN
      BY <1>7, Zenon DEF Beats!BeatRuns
    <2>2. CASE Beats!Permits(beat.task, beat.seen)
      <3>1. periodic' \in Beats!Tasks /\ flow' \in Beats!Flows /\ fired' \in Nat
        BY <1>c, <1>7, <2>2 DEF Beats!BeatRuns
      <3>2. beat' \in [pc : {"idle", "waiting", "read", "refused", "started", "disabled"},
                       task : Beats!Tasks, seen : Beats!Flows]
        BY <1>c, <1>7, <2>2 DEF Beats!BeatRuns
      <3> QED
        BY <1>7, <2>1, <3>1, <3>2 DEF Beats!BeatRuns
    <2>3. CASE ~Beats!Permits(beat.task, beat.seen)
      BY <1>7, <2>1, <2>3 DEF Beats!BeatRuns
    <2> QED
      BY <2>2, <2>3
  <1>8. CASE Beats!BeatFinally
    BY <1>c, <1>8 DEF Beats!BeatFinally
  <1>9. CASE Beats!BeatSave
    BY <1>9 DEF Beats!BeatSave
  <1>10. CASE Beats!WorkerKilled
    <2>1. killed' \in BOOLEAN
      BY <1>10, Zenon DEF Beats!WorkerKilled
    <2> QED
      BY <1>10, <2>1 DEF Beats!WorkerKilled
  <1>11. CASE Beats!EditRead
    BY <1>11 DEF Beats!EditRead
  <1>12. CASE Beats!EditSave
    <2>1. overlaid' \in BOOLEAN /\ passed' \in BOOLEAN /\ refused' \in BOOLEAN /\ killed' \in BOOLEAN
      BY <1>12, Zenon DEF Beats!EditSave
    <2>2. periodic' \in Beats!Tasks
      BY <1>12 DEF Beats!EditSave, Beats!Tasks
    <2> QED
      BY <1>12, <2>1, <2>2 DEF Beats!EditSave
  <1>13. CASE Beats!UserRead
    BY <1>13 DEF Beats!UserRead
  <1>14. CASE Beats!UserRuns
    BY <1>c, <1>14 DEF Beats!UserRuns
  <1>15. CASE UNCHANGED beatVars
    BY <1>15 DEF beatVars
  <1> QED
    BY <1>1, <1>2, <1>3, <1>4, <1>5, <1>6, <1>7, <1>8, <1>9, <1>10, <1>11, <1>12, <1>13, <1>14, <1>15
       DEF Beats!Next, Beats!Beat

\* The row: a clocked task has run once at most, and is still enabled only if
\* it has not run, or if the beat has yet to disable it.
RowFired ==
  Beats!OneOff(periodic) =>
    /\ fired <= 1
    /\ periodic.enabled /\ beat.pc # "started" => fired = 0
    /\ beat.pc = "started" /\ ~Beats!OneOff(beat.task) => fired = 0

\* The copy of the row the beat holds: acted upon while no run is counted, and
\* written back with the one run that it stands for.
HeldFired ==
  Beats!OneOff(beat.task) =>
    /\ beat.pc = "read" => fired = 0
    /\ beat.pc \in {"refused", "started", "disabled"} => fired <= 1

HeldDisabled == beat.pc = "disabled" /\ Beats!OneOff(beat.task) => ~beat.task.enabled

BeatInv == HeldDisabled /\ (~killed => RowFired /\ HeldFired)

LEMMA BeatInit == Beats!Init => BeatInv
  BY DEF Beats!Init, BeatInv, HeldDisabled, HeldFired, RowFired, Beats!OneOff, Beats!NoTask, Beats!BeatIdle

LEMMA BeatStep ==
  Beats!TypeOK /\ BeatInv /\ (Beats!Next \/ UNCHANGED beatVars) => BeatInv'
  <1> SUFFICES ASSUME Beats!TypeOK, BeatInv, Beats!Next \/ UNCHANGED beatVars PROVE BeatInv'
    OBVIOUS
  <1>a. /\ periodic \in [kind : Beats!Kinds, enabled : BOOLEAN, ran : BOOLEAN]
        /\ beat \in [pc : {"idle", "waiting", "read", "refused", "started", "disabled"},
                     task : [kind : Beats!Kinds, enabled : BOOLEAN, ran : BOOLEAN],
                     seen : Beats!Flows]
        /\ fired \in Nat
    BY DEF Beats!TypeOK, Beats!Tasks
  <1> USE DEF BeatInv, HeldDisabled, HeldFired, RowFired, Beats!OneOff, Beats!BeatStep
  <1>1. CASE UNCHANGED <<periodic, beat, fired, killed>>
    BY <1>1
  <1>2. CASE Beats!BeatDue
    BY <1>a, <1>2 DEF Beats!BeatDue
  <1>3. CASE Beats!BeatMissed
    BY <1>3 DEF Beats!BeatMissed, Beats!BeatIdle
  <1>4. CASE Beats!BeatRead
    <2>1. beat'.pc \in {"read", "idle"} /\ beat.pc = "waiting" /\ UNCHANGED <<periodic, fired, killed>>
      BY <1>4 DEF Beats!BeatRead, Beats!BeatIdle
    <2>2. beat'.pc = "read" => beat'.task = periodic /\ periodic.enabled
      BY <1>4 DEF Beats!BeatRead, Beats!BeatIdle
    <2> QED
      BY <2>1, <2>2
  <1>5. CASE Beats!BeatRuns
    <2>1. CASE Beats!Permits(beat.task, beat.seen)
      <3>1. /\ beat.pc = "read" /\ beat'.pc = "started" /\ fired' = fired + 1 /\ killed' = killed
            /\ periodic'.kind = beat.task.kind /\ beat'.task.kind = beat.task.kind
        BY <1>a, <1>5, <2>1 DEF Beats!BeatRuns
      <3> QED
        BY <1>a, <3>1
    <2>2. CASE ~Beats!Permits(beat.task, beat.seen)
      <3>1. /\ beat.pc = "read" /\ beat'.pc = "refused" /\ beat'.task = beat.task
            /\ UNCHANGED <<periodic, fired, killed>>
        BY <1>a, <1>5, <2>2 DEF Beats!BeatRuns
      <3> QED
        BY <3>1
    <2> QED
      BY <2>1, <2>2
  <1>6. CASE Beats!BeatFinally
    <2>1. CASE beat.task.kind = "clocked"
      <3>1. /\ ~periodic'.enabled /\ UNCHANGED <<fired, killed>>
            /\ beat.pc \in {"refused", "started"} /\ beat'.pc \in {"idle", "disabled"}
            /\ beat'.pc = "disabled" => ~beat'.task.enabled
        BY <1>a, <1>6, <2>1 DEF Beats!BeatFinally, Beats!Finally, Beats!BeatIdle
      <3> QED
        BY <2>1, <3>1
    <2>2. CASE beat.task.kind # "clocked"
      <3>1. /\ UNCHANGED <<periodic, fired, killed>>
            /\ beat.pc \in {"refused", "started"} /\ beat'.pc \in {"idle", "disabled"}
            /\ beat'.task.kind # "clocked"
        BY <1>a, <1>6, <2>2 DEF Beats!BeatFinally, Beats!Finally, Beats!BeatIdle, Beats!NoTask
      <3> QED
        BY <2>2, <3>1
    <2> QED
      BY <2>1, <2>2
  <1>7. CASE Beats!BeatSave
    BY <1>a, <1>7 DEF Beats!BeatSave, Beats!BeatIdle, Beats!NoTask
  <1>8. CASE Beats!WorkerKilled
    BY <1>a, <1>8 DEF Beats!WorkerKilled, Beats!BeatIdle, Beats!NoTask
  <1>9. CASE Beats!EditSave
    BY <1>9 DEF Beats!EditSave
  <1>10. CASE Beats!UserRuns
    <2>1. /\ periodic'.kind = periodic.kind /\ periodic'.enabled = periodic.enabled
          /\ UNCHANGED <<beat, fired, killed>>
      BY <1>a, <1>10 DEF Beats!UserRuns
    <2> QED
      BY <2>1
  <1> QED
    BY <1>1, <1>2, <1>3, <1>4, <1>5, <1>6, <1>7, <1>8, <1>9, <1>10
       DEF Beats!Next, Beats!Beat, Beats!TimePasses, Beats!ScanBegins, Beats!ScanEnds, Beats!EditRead,
           Beats!UserRead, beatVars

-----------------------------------------------------------------------------
(* Tensorboards: type correctness, and a row for each job that lives.      *)

\* A request that has submitted its job knows which it is.
OpenersKnown == \A o \in Openers : opener[o].pc = "submitted" => opener[o].found \in Viewing!Boards

LEMMA ViewInitType == Viewing!Init => Viewing!TypeOK /\ OpenersKnown
  BY ScannersAssumption
     DEF OpenersKnown, Viewing!Init, Viewing!TypeOK, Viewing!OpenerIdle, Viewing!TensorboardAssumption

\* What a step of a request makes of its entry.
LEMMA OpenerEntry ==
  ASSUME Viewing!TypeOK, NEW o \in Openers,
         NEW e \in [pc : {"idle", "look", "touch", "submit", "submitted"},
                    todo : SUBSET Viewing!Boards, found : Viewing!Boards \cup {0},
                    unnamed : SUBSET Viewing!Boards],
         opener' = [opener EXCEPT ![o] = e]
  PROVE  /\ opener' \in [Openers -> [pc : {"idle", "look", "touch", "submit", "submitted"},
                                     todo : SUBSET Viewing!Boards,
                                     found : Viewing!Boards \cup {0},
                                     unnamed : SUBSET Viewing!Boards]]
         /\ opener'[o] = e
         /\ \A q \in Openers \ {o} : opener'[q] = opener[q]
  BY DEF Viewing!TypeOK

LEMMA ViewOpenType ==
  ASSUME Viewing!TypeOK, OpenersKnown, NEW o \in Openers,
         \/ Viewing!OpenList(o) \/ Viewing!OpenLook(o) \/ Viewing!OpenTouch(o)
         \/ Viewing!OpenNone(o) \/ Viewing!OpenSubmit(o) \/ Viewing!OpenCreate(o)
         \/ Viewing!OpenFails(o)
  PROVE  Viewing!TypeOK' /\ OpenersKnown'
  <1> USE DEF Viewing!OpenerStep
  <1> DEFINE Entries == [pc : {"idle", "look", "touch", "submit", "submitted"},
                         todo : SUBSET Viewing!Boards, found : Viewing!Boards \cup {0},
                         unnamed : SUBSET Viewing!Boards]
             Opened(e) == opener' = [opener EXCEPT ![o] = e]
             Rest == UNCHANGED <<stopping, stale, doomed>> /\ failed' \in 0 .. MaxFailures
  <1>a. /\ MaxFailures \in Nat /\ opener[o] \in Entries /\ Viewing!OpenerIdle \in Entries
        /\ Viewing!OpenerIdle.pc = "idle"
    BY ScannersAssumption DEF Viewing!TensorboardAssumption, Viewing!TypeOK, Viewing!OpenerIdle
  <1>b. ASSUME NEW e \in Entries, Opened(e), e.pc = "submitted" => e.found \in Viewing!Boards,
               Rest, orphaned' \subseteq Viewing!Boards, named' \subseteq Viewing!Boards,
               board' \in [Viewing!Boards -> {"none", "queued", "running", "over", "lost"}],
               heartbeat' \in [Viewing!Boards -> {"none", "fresh", "old"}]
        PROVE  Viewing!TypeOK' /\ OpenersKnown'
    <2>1. OpenersKnown'
      BY <1>b, OpenerEntry DEF OpenersKnown
    <2> QED
      BY <1>b, <2>1, OpenerEntry DEF Viewing!TypeOK
  <1>c. /\ failed \in 0 .. MaxFailures /\ orphaned \subseteq Viewing!Boards
        /\ named \subseteq Viewing!Boards
        /\ board \in [Viewing!Boards -> {"none", "queued", "running", "over", "lost"}]
        /\ heartbeat \in [Viewing!Boards -> {"none", "fresh", "old"}]
    BY DEF Viewing!TypeOK
  <1> HIDE DEF Entries
  <1>1. CASE Viewing!OpenList(o)
    <2>1. [Viewing!OpenerIdle EXCEPT !.pc = "look",
                                     !.todo = {j \in named : Viewing!HasRow(j)}] \in Entries
      BY <1>c DEF Viewing!OpenerIdle, Entries
    <2>2. Rest /\ UNCHANGED <<orphaned, named, board, heartbeat>>
      BY <1>1, <1>c DEF Viewing!OpenList
    <2> QED
      BY <1>1, <1>b, <1>c, <2>1, <2>2 DEF Viewing!OpenList, Viewing!OpenerIdle
  <1>2. CASE Viewing!OpenLook(o)
    <2> DEFINE usable(j) == board[j] = "running" /\ j \notin stopping
               entry(j) == [pc |-> IF usable(j) THEN "touch" ELSE "look",
                            todo |-> opener[o].todo \ {j},
                            found |-> IF usable(j) THEN j ELSE 0,
                            unnamed |-> IF j \in stopping /\ board[j] # "lost"
                                        THEN opener[o].unnamed \cup {j} ELSE opener[o].unnamed]
    <2>1. PICK j \in opener[o].todo : Opened(entry(j))
      BY <1>2 DEF Viewing!OpenLook
    <2>2. Rest /\ UNCHANGED <<orphaned, named, board, heartbeat>>
      BY <1>2, <1>c DEF Viewing!OpenLook
    <2>3. entry(j) \in Entries /\ entry(j).pc # "submitted"
      BY <1>a DEF Entries
    <2> HIDE DEF entry
    <2> QED
      BY <1>b, <1>c, <2>1, <2>2, <2>3
  <1>3. CASE Viewing!OpenTouch(o)
    BY <1>3, <1>a, <1>b, <1>c DEF Viewing!OpenTouch, Viewing!Commit
  <1>4. CASE Viewing!OpenNone(o)
    <2>1. [Viewing!OpenerIdle EXCEPT !.pc = "submit"] \in Entries
      BY DEF Viewing!OpenerIdle, Entries
    <2> QED
      BY <1>4, <1>b, <1>c, <2>1 DEF Viewing!OpenNone, Viewing!Commit, Viewing!OpenerIdle
  <1>5. CASE Viewing!OpenSubmit(o)
    <2>1. PICK j \in Viewing!Boards :
            /\ board' = [board EXCEPT ![j] = "queued"]
            /\ opener' = [opener EXCEPT ![o].pc = "submitted", ![o].found = j]
      BY <1>5, Zenon DEF Viewing!OpenSubmit
    <2>2. UNCHANGED <<stopping, stale, doomed, heartbeat, named, failed, orphaned>>
      BY <1>5, Zenon DEF Viewing!OpenSubmit
    <2> DEFINE e == [opener[o] EXCEPT !.pc = "submitted", !.found = j]
    <2>3. e \in Entries /\ e.found = j
      BY <1>a DEF Entries
    <2>4. Opened(e)
      BY <1>a, <2>1 DEF Entries, Viewing!TypeOK
    <2>5. board' \in [Viewing!Boards -> {"none", "queued", "running", "over", "lost"}]
      BY <1>c, <2>1
    <2> QED
      BY <1>b, <1>c, <2>2, <2>3, <2>4, <2>5
  <1>6. CASE Viewing!OpenCreate(o)
    <2>1. opener[o].found \in Viewing!Boards
      BY <1>6 DEF Viewing!OpenCreate, OpenersKnown
    <2>2. heartbeat' \in [Viewing!Boards -> {"none", "fresh", "old"}] /\ named' \subseteq Viewing!Boards
      BY <1>6, <1>c, <2>1 DEF Viewing!OpenCreate
    <2> QED
      BY <1>6, <1>a, <1>b, <1>c, <2>2 DEF Viewing!OpenCreate
  <1>7. CASE Viewing!OpenFails(o)
    <2>1. orphaned' \subseteq Viewing!Boards
      BY <1>7, <1>c DEF Viewing!OpenFails, OpenersKnown
    <2>2. failed' \in 0 .. MaxFailures
      BY <1>7, <1>a, <1>c DEF Viewing!OpenFails, Viewing!Fails
    <2> QED
      BY <1>7, <1>a, <1>b, <1>c, <2>1, <2>2 DEF Viewing!OpenFails
  <1> QED
    BY <1>1, <1>2, <1>3, <1>4, <1>5, <1>6, <1>7

LEMMA ViewBoardType ==
  ASSUME Viewing!TypeOK, NEW j \in Viewing!Boards,
         \/ Viewing!Poll(j) \/ Viewing!GrowsOld(j) \/ Viewing!JobStarts(j) \/ Viewing!JobEnds(j)
         \/ Viewing!JobDeleted(j) \/ Viewing!ScannerLook(j) \/ Viewing!ScannerCancel(j)
  PROVE  Viewing!TypeOK' /\ UNCHANGED opener
  <1> USE DEF Viewing!TypeOK, Viewing!JobStep, Viewing!ScannerStep
  <1>1. CASE Viewing!Poll(j)
    BY <1>1 DEF Viewing!Poll
  <1>2. CASE Viewing!GrowsOld(j)
    BY <1>2 DEF Viewing!GrowsOld
  <1>3. CASE Viewing!JobStarts(j)
    BY <1>3 DEF Viewing!JobStarts
  <1>4. CASE Viewing!JobEnds(j)
    BY <1>4 DEF Viewing!JobEnds
  <1>5. CASE Viewing!JobDeleted(j)
    BY <1>5 DEF Viewing!JobDeleted
  <1>6. CASE Viewing!ScannerLook(j)
    BY <1>6 DEF Viewing!ScannerLook
  <1>7. CASE Viewing!ScannerCancel(j)
    BY <1>7 DEF Viewing!ScannerCancel
  <1> QED
    BY <1>1, <1>2, <1>3, <1>4, <1>5, <1>6, <1>7

LEMMA ViewStepType ==
  Viewing!TypeOK /\ OpenersKnown /\ (Viewing!Next \/ UNCHANGED boardVars)
    => Viewing!TypeOK' /\ OpenersKnown'
  <1> SUFFICES ASSUME Viewing!TypeOK, OpenersKnown, Viewing!Next \/ UNCHANGED boardVars
               PROVE  Viewing!TypeOK' /\ OpenersKnown'
    OBVIOUS
  <1>1. UNCHANGED opener => OpenersKnown'
    BY DEF OpenersKnown
  <1>2. CASE Viewing!ScannerList
    <2>1. Viewing!TypeOK'
      BY <1>2 DEF Viewing!ScannerList, Viewing!ScannerStep, Viewing!TypeOK
    <2> QED
      BY <1>1, <1>2, <2>1 DEF Viewing!ScannerList, Viewing!ScannerStep
  <1>3. CASE Viewing!ScannerFails
    <2>1. MaxFailures \in Nat
      BY ScannersAssumption DEF Viewing!TensorboardAssumption
    <2>2. Viewing!TypeOK'
      BY <1>3, <2>1 DEF Viewing!ScannerFails, Viewing!Fails, Viewing!ScannerStep, Viewing!TypeOK
    <2> QED
      BY <1>1, <1>3, <2>2 DEF Viewing!ScannerFails, Viewing!ScannerStep
  <1>4. CASE UNCHANGED boardVars
    BY <1>1, <1>4 DEF boardVars, Viewing!TypeOK
  <1> QED
    BY <1>1, <1>2, <1>3, <1>4, ViewOpenType, ViewBoardType DEF Viewing!Next, Viewing!Scanner

LEMMA ViewInit == Viewing!Init => Viewing!BoardsWatched
  BY DEF Viewing!Init, Viewing!BoardsWatched, Viewing!Alive

LEMMA ViewOpenStep ==
  ASSUME Viewing!TypeOK, OpenersKnown, Viewing!BoardsWatched, NEW o \in Openers,
         \/ Viewing!OpenList(o) \/ Viewing!OpenLook(o) \/ Viewing!OpenTouch(o)
         \/ Viewing!OpenNone(o) \/ Viewing!OpenSubmit(o) \/ Viewing!OpenCreate(o)
         \/ Viewing!OpenFails(o)
  PROVE  Viewing!BoardsWatched'
  <1> SUFFICES ASSUME NEW j \in Viewing!Boards, Viewing!Alive(j)'
               PROVE  \/ Viewing!HasRow(j)' \/ j \in orphaned'
                      \/ \E q \in Openers : opener'[q].pc = "submitted" /\ opener'[q].found = j
    BY DEF Viewing!BoardsWatched
  <1>a. /\ board \in [Viewing!Boards -> {"none", "queued", "running", "over", "lost"}]
        /\ heartbeat \in [Viewing!Boards -> {"none", "fresh", "old"}]
        /\ DOMAIN opener = Openers
        /\ opener[o] \in [pc : {"idle", "look", "touch", "submit", "submitted"},
                          todo : SUBSET Viewing!Boards, found : Viewing!Boards \cup {0},
                          unnamed : SUBSET Viewing!Boards]
    BY DEF Viewing!TypeOK
  <1>b. \A q \in Openers \ {o} : opener'[q] = opener[q]
    BY <1>a DEF Viewing!OpenList, Viewing!OpenLook, Viewing!OpenTouch, Viewing!OpenNone,
                Viewing!OpenSubmit, Viewing!OpenCreate, Viewing!OpenFails
  <1>1. CASE Viewing!OpenSubmit(o)
    <2>1. PICK k \in Viewing!Boards :
            /\ board' = [board EXCEPT ![k] = "queued"]
            /\ opener' = [opener EXCEPT ![o].pc = "submitted", ![o].found = k]
      BY <1>1, Zenon DEF Viewing!OpenSubmit
    <2>2. opener[o].pc = "submit" /\ UNCHANGED <<heartbeat, orphaned>>
      BY <1>1, Zenon DEF Viewing!OpenSubmit
    <2>3. opener'[o].pc = "submitted" /\ opener'[o].found = k
      BY <1>a, <2>1
    <2>4. CASE j = k
      BY <2>3, <2>4
    <2>5. CASE j # k
      <3>1. Viewing!Alive(j)
        BY <1>a, <2>1, <2>5 DEF Viewing!Alive
      <3> QED
        BY <1>b, <2>2, <3>1 DEF Viewing!BoardsWatched, Viewing!HasRow
    <2> QED
      BY <2>4, <2>5
  <1>2. CASE ~Viewing!OpenSubmit(o)
    <2>1. Viewing!Alive(j)
      BY <1>2 DEF Viewing!Alive, Viewing!OpenList, Viewing!OpenLook, Viewing!OpenTouch,
                  Viewing!OpenNone, Viewing!OpenCreate, Viewing!OpenFails
    <2>2. Viewing!HasRow(j) => Viewing!HasRow(j)'
      <3>1. CASE Viewing!Commit(o)
        <4>1. heartbeat'[j] \in Viewing!SavedTimes(j, o)
          BY <3>1, Zenon DEF Viewing!Commit
        <4> QED
          BY <4>1 DEF Viewing!SavedTimes, Viewing!HasRow
      <3>2. CASE Viewing!OpenCreate(o)
        BY <1>a, <3>2 DEF Viewing!OpenCreate, Viewing!HasRow
      <3>3. CASE UNCHANGED heartbeat
        BY <3>3 DEF Viewing!HasRow
      <3> QED
        BY <1>2, <3>1, <3>2, <3>3 DEF Viewing!OpenList, Viewing!OpenLook, Viewing!OpenTouch,
           Viewing!OpenNone, Viewing!OpenFails
    <2>3. orphaned \subseteq orphaned'
      BY <1>2 DEF Viewing!OpenList, Viewing!OpenLook, Viewing!OpenTouch, Viewing!OpenNone,
                  Viewing!OpenCreate, Viewing!OpenFails
    <2>4. CASE opener[o].pc = "submitted" /\ opener[o].found = j
      <3>1. CASE Viewing!OpenCreate(o)
        BY <1>a, <2>4, <3>1 DEF Viewing!OpenCreate, Viewing!HasRow
      <3>2. CASE Viewing!OpenFails(o)
        BY <2>4, <3>2 DEF Viewing!OpenFails
      <3> QED
        BY <1>2, <2>4, <3>1, <3>2 DEF Viewing!OpenList, Viewing!OpenLook, Viewing!OpenTouch,
           Viewing!OpenNone
    <2>5. CASE ~(opener[o].pc = "submitted" /\ opener[o].found = j)
      BY <1>b, <2>1, <2>2, <2>3, <2>5 DEF Viewing!BoardsWatched
    <2> QED
      BY <2>4, <2>5
  <1> QED
    BY <1>1, <1>2

LEMMA ViewStep ==
  Viewing!TypeOK /\ OpenersKnown /\ Viewing!BoardsWatched /\ (Viewing!Next \/ UNCHANGED boardVars)
    => Viewing!BoardsWatched'
  <1> SUFFICES ASSUME Viewing!TypeOK, OpenersKnown, Viewing!BoardsWatched,
                      Viewing!Next \/ UNCHANGED boardVars
               PROVE  Viewing!BoardsWatched'
    OBVIOUS
  <1>a. /\ board \in [Viewing!Boards -> {"none", "queued", "running", "over", "lost"}]
        /\ heartbeat \in [Viewing!Boards -> {"none", "fresh", "old"}]
    BY DEF Viewing!TypeOK
  <1> USE DEF Viewing!BoardsWatched, Viewing!Alive, Viewing!HasRow, Viewing!JobStep, Viewing!ScannerStep
  <1>1. ASSUME NEW k \in Viewing!Boards, Viewing!Poll(k) \/ Viewing!GrowsOld(k)
        PROVE  Viewing!BoardsWatched'
    BY <1>a, <1>1 DEF Viewing!Poll, Viewing!GrowsOld
  <1>2. ASSUME NEW k \in Viewing!Boards,
               Viewing!JobStarts(k) \/ Viewing!JobEnds(k) \/ Viewing!JobDeleted(k)
        PROVE  Viewing!BoardsWatched'
    BY <1>a, <1>2 DEF Viewing!JobStarts, Viewing!JobEnds, Viewing!JobDeleted
  <1>3. ASSUME NEW k \in Viewing!Boards, Viewing!ScannerLook(k)
        PROVE  Viewing!BoardsWatched'
    BY <1>a, <1>3 DEF Viewing!ScannerLook, Viewing!RowDone
  <1>4. CASE UNCHANGED <<board, heartbeat, opener, orphaned>>
    BY <1>4
  <1>5. \A k \in Viewing!Boards :
          Viewing!ScannerCancel(k) => UNCHANGED <<board, heartbeat, opener, orphaned>>
    BY DEF Viewing!ScannerCancel
  <1>6. Viewing!ScannerList \/ Viewing!ScannerFails => UNCHANGED <<board, heartbeat, opener, orphaned>>
    BY DEF Viewing!ScannerList, Viewing!ScannerFails
  <1> HIDE DEF Viewing!BoardsWatched
  <1> QED
    BY <1>1, <1>2, <1>3, <1>4, <1>5, <1>6, ViewOpenStep DEF Viewing!Next, Viewing!Scanner, boardVars

-----------------------------------------------------------------------------
(* The specification of the run: the services side by side, one at work.   *)

LEMMA ServiceStep ==
  [Next]_vars => /\ Alerts!Next \/ UNCHANGED alertVars
                 /\ Copying!Next \/ UNCHANGED copyVars
                 /\ Beats!Next \/ UNCHANGED beatVars
                 /\ Viewing!Next \/ UNCHANGED boardVars
  BY DEF Next, vars

\* Everything that is invariant at once.
ScannersInv ==
  /\ TypeOK
  /\ AlertInv /\ CopyInv /\ BeatInv
  /\ OpenersKnown /\ Viewing!BoardsWatched

LEMMA ScannersInvHolds == Spec => []ScannersInv
  <1>1. Init => ScannersInv
    BY AlertInitType, AlertInit, CopyInitType, CopyInit, BeatInitType, BeatInit, ViewInitType, ViewInit
       DEF Init, ScannersInv, TypeOK
  <1>2. ScannersInv /\ [Next]_vars => ScannersInv'
    <2> SUFFICES ASSUME ScannersInv, [Next]_vars PROVE ScannersInv'
      OBVIOUS
    <2>1. Alerts!TypeOK' /\ AlertInv'
      BY ServiceStep, AlertStepType, AlertStep DEF ScannersInv, TypeOK, AlertInv
    <2>2. Copying!TypeOK' /\ CopyInv'
      BY ServiceStep, CopyStepType, CopyStepInv DEF ScannersInv, TypeOK, CopyInv
    <2>3. Beats!TypeOK' /\ BeatInv'
      BY ServiceStep, BeatStepType, BeatStep DEF ScannersInv, TypeOK
    <2>4. Viewing!TypeOK' /\ OpenersKnown' /\ Viewing!BoardsWatched'
      BY ServiceStep, ViewStepType, ViewStep DEF ScannersInv, TypeOK
    <2> QED
      BY <2>1, <2>2, <2>3, <2>4 DEF ScannersInv, TypeOK
  <1> QED
    BY <1>1, <1>2, PTL DEF Spec

\* The state of every service stays well formed, for any policies, nodes,
\* images, boards and workers.
THEOREM TypeCorrect == Spec => []TypeOK
  BY ScannersInvHolds, PTL DEF ScannersInv

\* At most one alert of a policy, node and device is open or confirmed, however
\* many celery tasks of the scans race: the row of the policy is locked from the
\* look for an open alert to the commit of the new one (creator_tasks.py:42).
THEOREM OneAlertIsOpen == Spec => []OneOpenAlert
  <1>1. ScannersInv => OneOpenAlert
    BY DEF ScannersInv, AlertInv, OneOpenAlert
  <1> QED
    BY <1>1, ScannersInvHolds, PTL

\* No alert is committed without its notification, and the notifications without
\* an alert are no more than the tasks that failed (creator_tasks.py:27).
THEOREM AlertsAreNotified == Spec => []NoticePerAlert
  <1>1. ScannersInv => NoticePerAlert
    BY DEF ScannersInv, AlertInv, NoticePerAlert
  <1> QED
    BY <1>1, ScannersInvHolds, PTL

\* An image that shows SUCCESS has the whole file, whatever fails or is uploaded
\* again; unless a request and a task met on it, or its task was killed
\* (tasks.py:44, image.py:336).
THEOREM SuccessIsWhole == Spec => []SuccessHasFile
  <1>1. ScannersInv => SuccessHasFile
    BY DEF ScannersInv, CopyInv, Undisturbed, SuccessHasFile, Copying!SuccessHasFile
  <1> QED
    BY <1>1, ScannersInvHolds, PTL

\* The row of a deleted image is not saved again, by no task that copies it,
\* unless a request and a task met on it (image.py:336).
THEOREM DeletedIsKept == Spec => DeletedStays
  <1>1. ScannersInv /\ [Next]_vars => [StaysDeleted]_(Copying!copyVars)
    BY ServiceStep, DeletedStep DEF ScannersInv, TypeOK
  <1>2. [StaysDeleted]_(Copying!copyVars) <=>
          [\A i \in Images : status[i] = "deleted" /\ i \notin disturbed
                               => status'[i] = "deleted"]_(Copying!copyVars)
    BY DEF StaysDeleted
  <1> QED
    BY <1>1, <1>2, ScannersInvHolds, PTL DEF Spec, DeletedStays, Copying!DeletedStays

\* One clocked schedule starts one run at most, whatever is edited, dropped or
\* refused meanwhile; unless the worker is killed between the run and the save
\* that uses the task up (scanner.py:87).
THEOREM OneOffRunsOnce == Spec => []OneOffOnce
  <1>1. ScannersInv => OneOffOnce
    BY DEF ScannersInv, BeatInv, RowFired, OneOffOnce, Beats!OneOffOnce
  <1> QED
    BY <1>1, ScannersInvHolds, PTL

\* A tensorboard that lives has the row by which the scanner finds it, or its
\* request is under way, however many requests of the user overlap; unless the
\* request failed after the submission (tensorboard.py:97).
THEOREM LiveBoardsAreWatched == Spec => []BoardsWatched
  <1>1. ScannersInv => BoardsWatched
    BY DEF ScannersInv, BoardsWatched
  <1> QED
    BY <1>1, ScannersInvHolds, PTL
=============================================================================
