--------------------------------- MODULE Alert --------------------------------
(***************************************************************************)
(* The alert application: scanners that run every 30 seconds compare the   *)
(* samples of a policy's time window with its threshold and queue a celery *)
(* task for each node over it; workers take the tasks and create an Alert  *)
(* unless one is open; operators confirm, solve and delete alerts, and     *)
(* administrators edit the policies.                                       *)
(***************************************************************************)
EXTENDS Integers, FiniteSetsExt

CONSTANTS
    Policies,     \* ids of policies
    Nodes,        \* host names in the monitoring data
    Devices,      \* what a node has samples of: the indices of its GPUs, or one for the node itself
    Workers,      \* celery workers
    None,         \* no alert to create
    Groups,       \* what a policy may be on: sets of nodes, {} a group without hosts
    MaxQueue,     \* bound: queued tasks for one policy and node
    MaxFailures,  \* bound: tasks that fail
    MaxRequests   \* bound: requests of operators and administrators

AlertAssumption ==
    /\ Devices \subseteq Nat
    /\ Groups \subseteq SUBSET Nodes
    /\ MaxQueue \in Nat \ {0}
    /\ MaxFailures \in Nat
    /\ MaxRequests \in Nat

\* What create_alert looks for: policy, node and index.
Keys == Policies \X Nodes \X Devices

VARIABLES
    window,    \* samples of each node's devices in the time window: none, all over, or some under
    policies,  \* Policy rows: [status, hosts]; "none" before there is a row, "deleted" after
    open,      \* unresolved Alert rows: [present, confirmed], how many of each
    scan,      \* the policies the scanner has still to look at, as it read them
    queue,     \* celery messages: how many for each policy and node
    worker,    \* create_alert in each worker: [pc, key, exists]
    failures, requests,
    created,   \* history: Alert rows committed
    notified   \* history: e-mails queued

alertVars == <<window, policies, open, scan, queue, worker, failures, requests, created, notified>>

Samples == {"none", "over", "under"}
IdleWorker == [pc |-> "idle", key |-> None, exists |-> FALSE]
NoPolicy == [status |-> "none", hosts |-> {}]
NoAlert == [present |-> 0, confirmed |-> 0]

TypeOK ==
    /\ window \in [Nodes -> [Devices -> Samples]]
    /\ policies \in [Policies -> [status: {"none", "ON", "OFF", "deleted"}, hosts: Groups \cup {{}}]]
    /\ open \in [Keys -> [present: Nat, confirmed: Nat]]
    /\ scan \in [Policies -> [status: {"none", "ON"}, hosts: Groups \cup {{}}]]
    /\ queue \in [Keys -> 0 .. MaxQueue]
    /\ worker \in [Workers -> [pc: {"idle", "taken", "locked", "checked"}, key: Keys \cup {None},
                           exists: BOOLEAN]]
    /\ failures \in Nat /\ requests \in Nat
    /\ created \in [Keys -> Nat] /\ notified \in [Keys -> Nat]

Init ==
    /\ window = [n \in Nodes |-> [d \in Devices |-> "none"]]
    /\ policies = [p \in Policies |-> NoPolicy]
    /\ open = [k \in Keys |-> NoAlert]
    /\ scan = [p \in Policies |-> NoPolicy]
    /\ queue = [k \in Keys |-> 0]
    /\ worker = [w \in Workers |-> IdleWorker]
    /\ failures = 0 /\ requests = 0
    /\ created = [k \in Keys |-> 0]
    /\ notified = [k \in Keys |-> 0]

-----------------------------------------------------------------------------
(* The scanner.                                                            *)

\* Samples arrive and grow old.
Sampled(n, d) ==
    /\ \E s \in Samples \ {window[n][d]} : window' = [window EXCEPT ![n][d] = s]
    /\ UNCHANGED <<policies, open, scan, queue, worker, failures, requests, created, notified>>

\* Mutant of Judged: one sample over the threshold is enough.
JudgedAny(n) == \E d \in Devices : window[n][d] = "over"

\* groupby('node').min() >= threshold: there are samples of the node and all of
\* them, of whichever device, are over it.
Judged(n) ==
    /\ \E d \in Devices : window[n][d] # "none"
    /\ \A d \in Devices : window[n][d] # "under"

\* ... and min() is of each column by itself: the index of the alarm is the least
\* one there are samples of.
Index(n) == Min({d \in Devices : window[n][d] # "none"})

\* _get_common_data filters by the hosts of the policy, if there are any: a
\* policy on a group that has lost its hosts is a policy on all nodes.
Watched(policy) == {n \in Nodes : policy.hosts = {} \/ n \in policy.hosts}

Scanning == \E p \in Policies : scan[p].status # "none"

ScanRead ==
    /\ ~Scanning
    /\ \E p \in Policies : policies[p].status = "ON"
    /\ scan' = [p \in Policies |-> IF policies[p].status = "ON" THEN policies[p] ELSE NoPolicy]
    /\ UNCHANGED <<window, policies, open, queue, worker, failures, requests, created, notified>>

\* A policy deleted since ends the whole scan (checker.py:60).
ScanPolicy(p) ==
    /\ scan[p].status = "ON"
    /\ IF policies[p].status = "deleted"
       THEN /\ scan' = [q \in Policies |-> NoPolicy]
            /\ UNCHANGED queue
       ELSE /\ scan' = [scan EXCEPT ![p] = NoPolicy]
            /\ queue' = [k \in Keys |->
                           IF /\ k[1] = p /\ k[2] \in Watched(scan[p])
                              /\ Judged(k[2]) /\ k[3] = Index(k[2])
                              /\ queue[k] < MaxQueue
                           THEN queue[k] + 1 ELSE queue[k]]
    /\ UNCHANGED <<window, policies, open, worker, failures, requests, created, notified>>

-----------------------------------------------------------------------------
(* create_alert, one transaction.                                          *)

TaskStep == UNCHANGED <<window, policies, scan, requests>>

TaskTake(w, k) ==
    /\ worker[w].pc = "idle" /\ queue[k] > 0
    /\ queue' = [queue EXCEPT ![k] = @ - 1]
    /\ worker' = [worker EXCEPT ![w] = [pc |-> "taken", key |-> k, exists |-> FALSE]]
    /\ TaskStep
    /\ UNCHANGED <<open, failures, created, notified>>

Holds(w, p) == worker[w].pc \in {"locked", "checked"} /\ worker[w].key[1] = p

\* Mutant of MayLock: the policy is read without select_for_update.
MayLockAlways(p) == TRUE

\* The row lock of the policy is held to the end of the transaction.
MayLock(p) == \A w \in Workers : ~Holds(w, p)

\* A policy that is off or gone makes the task raise.
TaskLock(w) ==
    LET p == worker[w].key[1]
    IN /\ worker[w].pc = "taken"
       /\ MayLock(p)
       /\ worker' = [worker EXCEPT ![w] = IF policies[p].status = "ON"
                                          THEN [@ EXCEPT !.pc = "locked"] ELSE IdleWorker]
       /\ TaskStep
       /\ UNCHANGED <<open, queue, failures, created, notified>>

\* Mutant of IsOpen: a resolved alert stands in the way of a new one.
IsOpenOrWas(k) == created[k] > 0

\* Alert.objects.filter(...).exclude(status='resolved').exists()
IsOpen(k) == open[k].present + open[k].confirmed > 0

TaskCheck(w) ==
    /\ worker[w].pc = "locked"
    /\ worker' = [worker EXCEPT ![w].pc = "checked", ![w].exists = IsOpen(worker[w].key)]
    /\ TaskStep
    /\ UNCHANGED <<open, queue, failures, created, notified>>

\* The row is inserted, the notifications are queued, the transaction commits.
TaskCommit(w) ==
    LET k == worker[w].key
    IN /\ worker[w].pc = "checked"
       /\ IF worker[w].exists
          THEN UNCHANGED <<open, created, notified>>
          ELSE /\ open' = [open EXCEPT ![k].present = @ + 1]
               /\ created' = [created EXCEPT ![k] = @ + 1]
               /\ notified' = [notified EXCEPT ![k] = @ + 1]
       /\ worker' = [worker EXCEPT ![w] = IdleWorker]
       /\ TaskStep
       /\ UNCHANGED <<queue, failures>>

\* Mutant of KeptOnFailure: without @atomic the row stays.
KeptOnFailureRow(k) == open' = [open EXCEPT ![k].present = @ + 1] /\ created' = [created EXCEPT ![k] = @ + 1]

\* @atomic takes the row back.
KeptOnFailure(k) == UNCHANGED <<open, created>>

\* handle_email or handle_script raises, before or after the e-mail is queued.
TaskRaises(w) ==
    LET k == worker[w].key
    IN /\ worker[w].pc = "checked" /\ ~worker[w].exists
       /\ failures < MaxFailures /\ failures' = failures + 1
       /\ KeptOnFailure(k)
       /\ \/ UNCHANGED notified
          \/ notified' = [notified EXCEPT ![k] = @ + 1]
       /\ worker' = [worker EXCEPT ![w] = IdleWorker]
       /\ TaskStep
       /\ UNCHANGED queue

-----------------------------------------------------------------------------
(* Requests.                                                               *)

Requested ==
    /\ requests < MaxRequests /\ requests' = requests + 1
    /\ UNCHANGED <<window, scan, queue, worker, failures, created, notified>>

\* AlertView.patch; a query of the table's filter may name any of the rows.
Confirm(k) ==
    /\ open[k].present > 0
    /\ open' = [open EXCEPT ![k] = [present |-> 0, confirmed |-> @.confirmed + @.present]]
    /\ Requested
    /\ UNCHANGED policies

SolveOrDelete(k) ==
    /\ IsOpen(k)
    /\ open' = [open EXCEPT ![k] = NoAlert]
    /\ Requested
    /\ UNCHANGED policies

\* PolicyView.post and PolicyDetailView.put, which locks the row.
PolicySave(p) ==
    /\ policies[p].status # "deleted" /\ MayLock(p)
    /\ \E status \in {"ON", "OFF"}, hosts \in Groups :
           /\ policies[p] # [status |-> status, hosts |-> hosts]
           /\ policies' = [policies EXCEPT ![p] = [status |-> status, hosts |-> hosts]]
    /\ Requested
    /\ UNCHANGED open

\* Its alerts go with it.
PolicyDelete(p) ==
    /\ policies[p].status \in {"ON", "OFF"}
    /\ MayLock(p)
    /\ policies' = [policies EXCEPT ![p] = [NoPolicy EXCEPT !.status = "deleted"]]
    /\ open' = [k \in Keys |-> IF k[1] = p THEN NoAlert ELSE open[k]]
    /\ Requested

-----------------------------------------------------------------------------
Task(w) == TaskLock(w) \/ TaskCheck(w) \/ TaskCommit(w) \/ TaskRaises(w)

Next ==
    \/ \E n \in Nodes, d \in Devices : Sampled(n, d)
    \/ ScanRead
    \/ \E p \in Policies : ScanPolicy(p) \/ PolicySave(p) \/ PolicyDelete(p)
    \/ \E w \in Workers : Task(w) \/ \E k \in Keys : TaskTake(w, k)
    \/ \E k \in Keys : Confirm(k) \/ SolveOrDelete(k)

\* The interval trigger runs the scanner again and again, the broker hands
\* every message out in its turn, row locks are granted in turn.
Fairness ==
    /\ WF_alertVars(ScanRead)
    /\ \A p \in Policies : WF_alertVars(ScanPolicy(p))
    /\ \A k \in Keys : SF_alertVars(\E w \in Workers : TaskTake(w, k))
    /\ \A w \in Workers : SF_alertVars(TaskLock(w)) /\ WF_alertVars(TaskCheck(w) \/ TaskCommit(w))

Spec == Init /\ [][Next]_alertVars /\ Fairness

-----------------------------------------------------------------------------
(* Properties.                                                             *)

\* However many tasks for one condition wait in the queue, at most one alert of
\* a policy and node is open: the check and the insert are under the lock of
\* the policy (creator_tasks.py:42).
OneOpenAlert == \A k \in Keys : open[k].present + open[k].confirmed <= 1

\* Every alert had its notification queued, and a notification without an alert
\* is the work of a task that failed after it.
NoticePerAlert ==
    \A k \in Keys : created[k] <= notified[k] /\ notified[k] <= created[k] + failures

Raised(k) == open[k] # NoAlert

\* k is what an enabled policy would raise now.
Due(k) ==
    /\ policies[k[1]].status = "ON" /\ k[2] \in Watched(policies[k[1]])
    /\ Judged(k[2]) /\ k[3] = Index(k[2])

\* A condition that lasts is raised, and raised again after it was solved or
\* after a task for it failed.
LastingRaised == \A k \in Keys : Due(k) ~> (Raised(k) \/ ~Due(k))
===============================================================================
