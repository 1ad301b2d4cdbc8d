------------------------------ MODULE ImageBuild ------------------------------
(***************************************************************************)
(* Building container images: the build view of the container application, *)
(* which keeps one CustomImage row per user, and the async-task daemon,    *)
(* which runs the build as an apscheduler job and learns of its progress   *)
(* from the scheduler's events.                                            *)
(*                                                                         *)
(* The daemon's requests, the scheduler thread, the threads of its pool    *)
(* and the listener share records, infos and the workspaces on disk        *)
(* without a lock.                                                         *)
(***************************************************************************)
EXTENDS Integers, FiniteSets

CONSTANTS
    Users,
    Builds,      \* ids of builds: bound, each is used once
    Requests,    \* API workers of the container application
    None,        \* no user, no build
    MaxJobs,     \* max_jobs of the daemon
    MaxRestarts, \* bound: restarts of the daemon
    MaxCancels   \* bound: cancellations that reach the daemon

BuildAssumption ==
    /\ None \notin Users \cup Builds
    /\ MaxJobs \in Nat \ {0}
    /\ MaxRestarts \in Nat /\ MaxCancels \in Nat

VARIABLES
    image,     \* CustomImage.job_id of each user, None without a row
    request,   \* a request of the view and what it has made the daemon do: [pc, user, build]
    record,    \* BuildJobManager.records
    info,      \* the keys of BuildJobManager.infos
    workspace, \* builds whose directory exists
    cancelFile,\* builds whose directory holds the cancel file
    task,      \* a build in the pool, [pc, outcome]
    undelivered, \* builds whose SUBMITTED event is not yet dispatched
    restarts, cancels,
    owner,     \* history: the user of a build
    swapped,   \* history: builds whose SUBMITTED event came after their last one
    lateCancel,\* history: builds cancelled when they were over
    untracked  \* history: builds whose row was lost, see KnownBuilds

daemon == <<record, info, workspace, cancelFile, task, undelivered>>
counters == <<restarts, cancels>>
history == <<owner, swapped, lateCancel, untracked>>
buildVars == <<image, request, daemon, counters, history>>

Running == {"PENDING", "SUBMITTED"}
Ended == {"EXECUTED", "ERROR"}
TaskPcs == {"none", "queued", "pool", "init", "run", "unwatched", "ended", "over", "missed", "lost"}
RequestPcs == {"idle", "checked", "workspace", "added", "answered", "cancel"}
IdleRequest == [pc |-> "idle", user |-> None, build |-> None, locks |-> FALSE]

TypeOK ==
    /\ image \in [Users -> Builds \cup {None}]
    /\ request \in [Requests -> [pc: RequestPcs, user: Users \cup {None},
                                 build: Builds \cup {None}, locks: BOOLEAN]]
    /\ record \in [Builds -> {"none"} \cup Running \cup Ended]
    /\ info \subseteq Builds /\ workspace \subseteq Builds
    /\ cancelFile \subseteq workspace
    /\ task \in [Builds -> [pc: TaskPcs, outcome: {"none"} \cup Ended]]
    /\ undelivered \subseteq Builds
    /\ restarts \in 0 .. MaxRestarts /\ cancels \in 0 .. MaxCancels
    /\ owner \in [Builds -> Users \cup {None}]
    /\ swapped \subseteq Builds /\ lateCancel \subseteq Builds /\ untracked \subseteq Builds

Init ==
    /\ image = [u \in Users |-> None]
    /\ request = [r \in Requests |-> IdleRequest]
    /\ record = [b \in Builds |-> "none"]
    /\ info = {} /\ workspace = {} /\ cancelFile = {}
    /\ task = [b \in Builds |-> [pc |-> "none", outcome |-> "none"]]
    /\ undelivered = {}
    /\ restarts = 0 /\ cancels = 0
    /\ owner = [b \in Builds |-> None]
    /\ swapped = {} /\ lateCancel = {} /\ untracked = {}

-----------------------------------------------------------------------------
(* BuildImageView.post and, within its call of the daemon, BuildJob.on_post *)
(* and BuildJobManager.add_job.                                             *)

Goto(r, pc) == request' = [request EXCEPT ![r].pc = pc]
Return(r) == request' = [request EXCEPT ![r] = IdleRequest]

\* The row of u is locked by one of these.
LockedBy(u, others) == \E q \in others : request[q].user = u /\ request[q].locks

\* status not in ['EXECUTED', 'ERROR', None]
Building(b) == record[b] \in Running

\* _check_image_state locks the row to the end of the transaction, when there
\* is one; first builds of a user lock nothing.
PostCheck(r, u) ==
    /\ request[r].pc = "idle"
    /\ ~LockedBy(u, Requests)
    /\ image[u] # None => ~Building(image[u])
    /\ request' = [request EXCEPT ![r] = [pc |-> "checked", user |-> u, build |-> None,
                                          locks |-> image[u] # None]]
    /\ UNCHANGED <<image, daemon, counters, history>>

\* running_jobs >= max_jobs
Full == Cardinality({b \in Builds : record[b] \in Running}) >= MaxJobs

\* The first look at running_jobs; the workspace is made.
PostWorkspace(r) ==
    /\ request[r].pc = "checked"
    /\ IF Full
       THEN Return(r) /\ UNCHANGED <<workspace, owner>>
       ELSE LET b == CHOOSE x \in Builds : owner[x] = None
            IN /\ \E x \in Builds : owner[x] = None
               /\ owner' = [owner EXCEPT ![b] = request[r].user]
               /\ workspace' = workspace \cup {b}
               /\ request' = [request EXCEPT ![r].pc = "workspace", ![r].build = b]
    /\ UNCHANGED <<image, record, info, cancelFile, task, undelivered, counters, swapped,
                   lateCancel, untracked>>

\* The second one; the job is added and the listener hears ADDED.
PostAdd(r) ==
    LET b == request[r].build
    IN /\ request[r].pc = "workspace"
       /\ IF Full
          THEN Return(r) /\ UNCHANGED <<record, task>>
          ELSE /\ record' = [record EXCEPT ![b] = "PENDING"]
               /\ task' = [task EXCEPT ![b].pc = "queued"]
               /\ Goto(r, "added")
       /\ UNCHANGED <<image, info, workspace, cancelFile, undelivered, counters, history>>

\* self.infos[job.id] = workspace
PostInfo(r) ==
    /\ request[r].pc = "added"
    /\ info' = info \cup {request[r].build}
    /\ Goto(r, "answered")
    /\ UNCHANGED <<image, record, workspace, cancelFile, task, undelivered, counters, history>>

\* Mutant of Named: get_or_create, which keeps the row there is.
NamedFirst(u, b) == IF image[u] = None THEN b ELSE image[u]

Named(u, b) == b

\* update_or_create waits for a request that has locked the row.  The build
\* that an unlocked request makes the row forget is untracked.
PostSave(r) ==
    LET u == request[r].user
    IN /\ request[r].pc = "answered"
       /\ ~LockedBy(u, Requests \ {r})
       /\ untracked' = IF image[u] # None /\ ~request[r].locks
                       THEN untracked \cup {image[u]} ELSE untracked
       /\ image' = [image EXCEPT ![u] = Named(u, request[r].build)]
       /\ Return(r)
       /\ UNCHANGED <<daemon, counters, owner, swapped, lateCancel>>

\* The answer does not arrive: BuildImageFailed, the transaction is rolled back.
PostUnanswered(r) ==
    /\ request[r].pc = "answered"
    /\ untracked' = untracked \cup {request[r].build}
    /\ Return(r)
    /\ UNCHANGED <<image, daemon, counters, owner, swapped, lateCancel>>

-----------------------------------------------------------------------------
(* BuildImageView.put and BuildJobManager.cancel_job.                      *)

CancelLook(r, u) ==
    /\ request[r].pc = "idle"
    /\ image[u] \in info
    /\ cancels < MaxCancels /\ cancels' = cancels + 1
    /\ request' = [request EXCEPT ![r] = [pc |-> "cancel", user |-> u, build |-> image[u],
                                          locks |-> FALSE]]
    /\ UNCHANGED <<image, daemon, restarts, history>>

\* ensure() makes the directory anew when it has gone.
CancelWrite(r) ==
    LET b == request[r].build
    IN /\ request[r].pc = "cancel"
       /\ workspace' = workspace \cup {b}
       /\ cancelFile' = cancelFile \cup {b}
       /\ lateCancel' = IF task[b].pc = "over" THEN lateCancel \cup {b} ELSE lateCancel
       /\ Return(r)
       /\ UNCHANGED <<image, record, info, task, undelivered, counters, owner, swapped, untracked>>

-----------------------------------------------------------------------------
(* The scheduler thread, the pool, and task.                               *)

TaskStep == UNCHANGED <<image, request, counters, owner, lateCancel, untracked>>
Threads == {b \in Builds : task[b].pc \in {"init", "run", "unwatched", "ended"}}

\* The scheduler thread hands the job to the pool ...
Submit(b) ==
    /\ task[b].pc = "queued"
    /\ task' = [task EXCEPT ![b].pc = "pool"]
    /\ undelivered' = undelivered \cup {b}
    /\ TaskStep
    /\ UNCHANGED <<record, info, workspace, cancelFile, swapped>>

\* ... and then dispatches the event: the job may be over by now.
Submitted(b) ==
    /\ b \in undelivered
    /\ undelivered' = undelivered \ {b}
    /\ record' = [record EXCEPT ![b] = "SUBMITTED"]
    /\ swapped' = IF task[b].pc = "over" THEN swapped \cup {b} ELSE swapped
    /\ TaskStep
    /\ UNCHANGED <<info, workspace, cancelFile, task>>

Start(b) ==
    /\ task[b].pc = "pool"
    /\ Cardinality(Threads) < MaxJobs
    /\ task' = [task EXCEPT ![b].pc = "init"]
    /\ TaskStep
    /\ UNCHANGED <<record, info, workspace, cancelFile, undelivered, swapped>>

\* A job that waits for a thread longer than its misfire grace time is dropped
\* with an event nobody listens to.
Missed(b) ==
    /\ task[b].pc = "pool"
    /\ Cardinality(Threads) >= MaxJobs
    /\ task' = [task EXCEPT ![b].pc = "missed"]
    /\ TaskStep
    /\ UNCHANGED <<record, info, workspace, cancelFile, undelivered, swapped>>

\* The files are there.  Whether the loop that watches for a cancellation
\* finds the future running or still pending, in which case it is left at once.
InitDone(b) ==
    /\ task[b].pc = "init"
    /\ \E pc \in {"run", "unwatched"} : task' = [task EXCEPT ![b].pc = pc]
    /\ TaskStep
    /\ UNCHANGED <<record, info, workspace, cancelFile, undelivered, swapped>>

Finish(b, outcome) == task' = [task EXCEPT ![b] = [pc |-> "ended", outcome |-> outcome]]

\* INITERROR, or a cancellation while files are copied: finally fails on conn,
\* which has no value yet, so the job ends with an error and leaves its
\* directory to the listener.
InitEnds(b) ==
    /\ task[b].pc = "init"
    /\ Finish(b, "ERROR")
    /\ TaskStep
    /\ UNCHANGED <<record, info, workspace, cancelFile, undelivered, swapped>>

\* A cancelled run returns and counts as executed.
RunEnds(b) ==
    /\ \/ /\ task[b].pc \in {"run", "unwatched"}
          /\ \E outcome \in Ended : Finish(b, outcome)
       \/ /\ task[b].pc = "run" /\ b \in cancelFile
          /\ Finish(b, "EXECUTED")
    /\ workspace' = workspace \ {b}
    /\ cancelFile' = cancelFile \ {b}
    /\ TaskStep
    /\ UNCHANGED <<record, info, undelivered, swapped>>

\* Mutant of Removed: the directory of a job that ended with an error stays.
RemovedExecuted(b) == {b} \cap info \cap {x \in Builds : task[x].outcome = "EXECUTED"}

\* The directory goes with the entry of infos, if there is one by now.
Removed(b) == {b} \cap info

\* Mutant of Recorded: the listener does not ask for EVENT_JOB_ERROR.
RecordedExecuted(b) == IF task[b].outcome = "ERROR" THEN record[b] ELSE task[b].outcome

Recorded(b) == task[b].outcome

\* _listener on EXECUTED and ERROR.
Over(b) ==
    /\ task[b].pc = "ended"
    /\ record' = [record EXCEPT ![b] = Recorded(b)]
    /\ task' = [task EXCEPT ![b].pc = "over"]
    /\ workspace' = workspace \ Removed(b)
    /\ cancelFile' = cancelFile \ Removed(b)
    /\ info' = info \ {b}
    /\ TaskStep
    /\ UNCHANGED <<undelivered, swapped>>

\* The daemon keeps everything but the directories in memory.
Restart ==
    /\ restarts < MaxRestarts /\ restarts' = restarts + 1
    /\ record' = [b \in Builds |-> "none"]
    /\ info' = {}
    /\ undelivered' = {}
    /\ task' = [b \in Builds |-> IF task[b].pc = "none" THEN task[b]
                                 ELSE [task[b] EXCEPT !.pc = "lost"]]
    /\ request' = [r \in Requests |->
                     IF request[r].pc \in {"workspace", "added", "cancel"} THEN IdleRequest ELSE request[r]]
    /\ UNCHANGED <<image, workspace, cancelFile, cancels, history>>

-----------------------------------------------------------------------------
Request(r) ==
    \/ PostWorkspace(r) \/ PostAdd(r) \/ PostInfo(r) \/ PostSave(r) \/ CancelWrite(r)

Daemon(b) ==
    \/ Submit(b) \/ Submitted(b) \/ Start(b) \/ Missed(b)
    \/ InitDone(b) \/ InitEnds(b) \/ RunEnds(b) \/ Over(b)

Next ==
    \/ \E r \in Requests : Request(r) \/ PostUnanswered(r)
    \/ \E r \in Requests, u \in Users : PostCheck(r, u) \/ CancelLook(r, u)
    \/ \E b \in Builds : Daemon(b)
    \/ Restart

Spec == Init /\ [][Next]_buildVars

-----------------------------------------------------------------------------
(* Properties.                                                             *)

\* A slot is held only by a build that is still to end, and so comes back
\* however the build ends.  Two ways to lose one for good: SUBMITTED is
\* dispatched after the event that ended the job, and a job that waited too
\* long for a thread is dropped silently (manager.py:99).
SlotsHeld ==
    \A b \in Builds :
        record[b] \in Running =>
            \/ task[b].pc \in {"queued", "pool", "init", "run", "unwatched", "ended"}
            \/ b \in swapped \/ task[b].pc = "missed"

\* A build that is over leaves no directory, whether it was cancelled, failed
\* before it began or raced the request that started it; unless a cancellation
\* came when it was over (manager.py:83), or its entry of infos was made only
\* then (manager.py:72).
WorkspacesFreed ==
    \A b \in Builds :
        (task[b].pc = "over" /\ b \in workspace) =>
            \/ b \in lateCancel
            \/ task[b].outcome = "ERROR"
               /\ (b \in info \/ \E r \in Requests : request[r].pc = "added" /\ request[r].build = b)

\* A build that runs is the one the user's row names, or that of a request
\* still under way; or its request was left without an answer, or two first
\* builds of a user overlapped (build.py:353).
KnownBuilds ==
    \A b \in Builds :
        task[b].pc \in {"queued", "pool", "init", "run", "unwatched"} =>
            \/ image[owner[b]] = b
            \/ \E r \in Requests : request[r].build = b
            \/ b \in untracked
===============================================================================
