---------------------------- MODULE JobLifecycle ----------------------------
(***************************************************************************)
(* One row of the Job table per job, and everything that writes it:        *)
(*                                                                         *)
(*   - the submission handlers (JobSubmitView, JobRerunView), which hold   *)
(*     the row as an in-memory object from its creation to their last      *)
(*     job.save();                                                         *)
(*   - the API requests on an existing job (cancel, batch cancel, delete,  *)
(*     user comment, hold/release/suspend/resume/requeue);                 *)
(*   - the one job-sync process (JobSyncTask.sync_job, in "full" or "owns" *)
(*     mode, followed by CleanDirtyJobTask);                               *)
(*   - the workload scheduler, which runs the jobs, may be unreachable and *)
(*     forgets finished jobs.                                              *)
(*                                                                         *)
(* Reading a row, talking to the scheduler and saving a row are separate   *)
(* steps: the views run in autocommit or in transactions without row locks *)
(* on READ COMMITTED MySQL, so others may run between any two of them.     *)
(* job.save() writes every column; save(update_fields=...) and             *)
(* queryset.update() write the named ones.                                 *)
(***************************************************************************)
EXTENDS JobStates, Naturals

CONSTANTS
    Jobs,           \* job ids
    Kind,           \* how each job comes to exist: [Jobs -> {"submit", "rerun", "console"}]
    Requests,       \* API worker threads
    Api,            \* the API operations the instance exercises
    SyncMode,       \* settings.JOB.JOB_SYNC_MODE
    LongerIds,      \* jobs whose scheduler id has this job's id as a proper prefix
    MaxOutages,     \* bound: how often the scheduler becomes unreachable
    MaxCrashes,     \* bound: how often the sync process is killed
    ClientMayFail,  \* may the charge request to the accounting app fail?
    UnknownReports  \* may the scheduler report a state LiCO maps to UNKNOWN?

SchedulerActions == {"hold", "release", "suspend", "resume", "requeue"}
ApiOperations == {"cancel", "batch_cancel", "delete", "comment"} \cup SchedulerActions

ASSUME JobLifecycleAssumption ==
    /\ Kind \in [Jobs -> {"submit", "rerun", "console"}]
    /\ Api \subseteq ApiOperations
    /\ SyncMode \in {"full", "owns"}
    /\ LongerIds \in [Jobs -> SUBSET Jobs]
    /\ MaxOutages \in Nat
    /\ MaxCrashes \in Nat
    /\ ClientMayFail \in BOOLEAN
    /\ UnknownReports \in BOOLEAN

VARIABLES
    sch,       \* the scheduler's state of each job: "none" before sbatch, "gone" once forgotten
    up,        \* does the scheduler answer?
    outages,   \* outages so far
    created,   \* jobs that have a row
    row,       \* the Job table
    sub,       \* submission handlers: [pc, mem]
    req,       \* API requests: [pc, job, mem, prev, ids]
    ypc,       \* control state of the sync process
    todo,      \* pairs of this round not handled yet
    pending,   \* jobs of this round still to be looked up (full) or asked for (owns)
    unknown,   \* pairs with job = None
    snap,      \* the job object of each pair, as read from the database
    obs,       \* the scheduler_job of each pair, "none" for None
    ycur,      \* the job between "saved" and "charged", or being completed
    ymem,      \* its in-memory object
    cache,     \* missing_jobs_cache: "no", "young", or "old" past SCHEDULER_MAINTAINABLE_TIME
    crashes,   \* kills of the sync process so far
    charged,   \* history: charged for its present completion
    escaped,   \* history: why a completion may stay uncharged
    sticky,    \* history: deleted while no other handler held a copy of the row
    absent     \* history: rounds in a row that missed the job (saturates at 2)

dbVars    == <<created, row>>
schedVars == <<sch, up, outages>>
roundVars == <<todo, pending, unknown, snap, obs, ycur, ymem>>
histVars  == <<charged, escaped, sticky, absent>>
vars == <<schedVars, dbVars, sub, req, ypc, roundVars, cache, crashes, histVars>>

-----------------------------------------------------------------------------
(* Rows.                                                                   *)

Row == [state : JobStateValues \cup {NoState},
        sched : SchedulerJobStates \cup {NoState},
        op    : OperateStates,
        ident : BOOLEAN,     \* identity_str and scheduler_id are set
        del   : BOOLEAN]     \* delete_flag

NoJob == "none"

\* Job.objects.create(..., operate_state=CREATING).
NewRow == [state |-> NoState, sched |-> NoState, op |-> "creating",
           ident |-> FALSE, del |-> FALSE]

\* Mutant of Updated: the scheduler's value is stored untranslated.
UpdatedRaw(r, s) ==
    [r EXCEPT !.state = s, !.sched = s, !.ident = TRUE,
              !.op = IF s = "CA" THEN "cancelled" ELSE @]

\* update_job_by_scheduler_job.  Saving the fields it returns on a row has
\* the effect of applying it to that row.
Updated(r, s) ==
    [r EXCEPT !.state = FromSchedulerJobState(s), !.sched = s, !.ident = TRUE,
              !.op = IF s = "CA" THEN "cancelled" ELSE @]

\* job_changed, on the state columns.
Changed(r, s) == r.sched # s \/ r.state # FromSchedulerJobState(s)

\* Mutant of Pretended: the submit view saves what it saw.
NotPretended(r) == r

\* The submit view hides a completion it sees itself from the sync task.
Pretended(r) ==
    IF r.state \in FinalStates THEN [r EXCEPT !.state = "Q", !.sched = "PD"] ELSE r

MarkCreated(r) == IF r.op = "creating" THEN [r EXCEPT !.op = "created"] ELSE r

\* The row records a completion the scheduler reported.
Done(r) == r.state \in FinalStates /\ r.sched \in SchedCompleted

\* Mutant of Charges: cancelled jobs are not charged.
ChargesUncancelled(r) == r.state \in FinalStates /\ r.op # "cancelled"

\* _charge_job's guard.
Charges(r) == r.state \in FinalStates

\* Mutants of Cleaned: any cancelling row; none.
CleanedAny(r) == IF r.op = "cancelling" THEN [r EXCEPT !.op = "cancelled"] ELSE r
NeverCleaned(r) == r

\* _clean_cancelling_job, of one row.
Cleaned(r) ==
    IF r.state \in FinalStates /\ r.op = "cancelling"
    THEN [r EXCEPT !.op = "cancelled"] ELSE r

\* A full job.save() of the object r over the row of j.
SaveRow(j, r, why) ==
    /\ row' = [row EXCEPT ![j] = r]
    /\ escaped' = IF Done(r) /\ ~Done(row[j])
                  THEN [escaped EXCEPT ![j] = @ \cup {why}] ELSE escaped

-----------------------------------------------------------------------------
(* The scheduler.                                                          *)

Live == {"PD", "R", "HD", "S", "UNKNOWN"}
Finished == {"CD", "CA"}
Visible == {j \in Jobs : sch[j] \in Live \cup Finished}
Over(j) == sch[j] \in Finished \cup {"gone"}

SchedStep == UNCHANGED <<dbVars, sub, req, ypc, roundVars, cache, crashes, histVars>>

SchedStart(j) ==
    /\ sch[j] = "PD"
    /\ sch' = [sch EXCEPT ![j] = "R"]
    /\ UNCHANGED <<up, outages>> /\ SchedStep

SchedEnd(j) ==
    /\ sch[j] = "R"
    /\ sch' = [sch EXCEPT ![j] = "CD"]
    /\ UNCHANGED <<up, outages>> /\ SchedStep

\* A state outside the switch of from_scheduler_job_state's known ones (LSF's
\* UNKWN, a PBS letter without an entry) comes and goes.
SchedUnknownReport(j) ==
    /\ UnknownReports
    /\ \/ sch[j] = "R" /\ sch' = [sch EXCEPT ![j] = "UNKNOWN"]
       \/ sch[j] = "UNKNOWN" /\ sch' = [sch EXCEPT ![j] = "R"]
    /\ UNCHANGED <<up, outages>> /\ SchedStep

\* The controller forgets a finished job (MinJobAge).
SchedForget(j) ==
    /\ sch[j] \in Finished
    /\ sch' = [sch EXCEPT ![j] = "gone"]
    /\ UNCHANGED <<up, outages>> /\ SchedStep

ConsoleSubmit(j) ==
    /\ Kind[j] = "console" /\ sch[j] = "none" /\ up
    /\ sch' = [sch EXCEPT ![j] = "PD"]
    /\ UNCHANGED <<up, outages>> /\ SchedStep

Outage ==
    /\ up /\ outages < MaxOutages
    /\ up' = FALSE /\ outages' = outages + 1
    /\ UNCHANGED sch /\ SchedStep

Recovery ==
    /\ ~up
    /\ up' = TRUE
    /\ UNCHANGED <<sch, outages>> /\ SchedStep

\* The scheduler ids get_job_alter_ids finds: "^JobId=(<id>|<id>)" has no end
\* anchor, and an empty id among them matches every job.  noId says so.
Reach(js, noId) ==
    {k \in Visible : noId \/ k \in js \/ \E j \in js : k \in LongerIds[j]}

Cancelled(ks) == [k \in Jobs |-> IF k \in ks /\ sch[k] \in Live THEN "CA" ELSE sch[k]]

-----------------------------------------------------------------------------
(* Submission: JobSubmitView.post and JobRerunView.post.                   *)

SubStep == UNCHANGED <<req, ypc, roundVars, cache, crashes, charged, sticky, absent>>

SubmitCreate(j) ==
    /\ Kind[j] # "console" /\ sub[j].pc = "none"
    /\ created' = created \cup {j}
    /\ row' = [row EXCEPT ![j] = NewRow]
    /\ sub' = [sub EXCEPT ![j] = [pc |-> "made", mem |-> NewRow]]
    /\ UNCHANGED <<schedVars, escaped>> /\ SubStep

\* Render the ports, write the job file, job.save().
SubmitSaveFile(j) ==
    /\ sub[j].pc = "made"
    /\ SaveRow(j, sub[j].mem, "stale")
    /\ sub' = [sub EXCEPT ![j].pc = "ready"]
    /\ UNCHANGED <<schedVars, created>> /\ SubStep

SubmitToScheduler(j) ==
    /\ sub[j].pc = "ready" /\ up
    /\ sch' = [sch EXCEPT ![j] = "PD"]
    /\ sub' = [sub EXCEPT ![j].pc = "sent"]
    /\ UNCHANGED <<up, outages, dbVars, escaped>> /\ SubStep

\* SchedulerJobBaseException.
SubmitRefused(j) ==
    /\ sub[j].pc = "ready"
    /\ sub' = [sub EXCEPT ![j] = [pc |-> "refused",
                                  mem |-> [sub[j].mem EXCEPT !.op = "create_fail", !.state = "C"]]]
    /\ UNCHANGED <<schedVars, dbVars, escaped>> /\ SubStep

\* scheduler.query_job and the updates of the in-memory object.
SubmitQuery(j) ==
    /\ sub[j].pc = "sent" /\ up /\ j \in Visible
    /\ LET seen == Updated(sub[j].mem, sch[j]) IN
       sub' = [sub EXCEPT ![j] =
                 [pc  |-> "queried",
                  mem |-> MarkCreated(IF Kind[j] = "rerun" THEN seen ELSE Pretended(seen))]]
    /\ UNCHANGED <<schedVars, dbVars, escaped>> /\ SubStep

SubmitFinalSave(j) ==
    /\ sub[j].pc \in {"refused", "queried"}
    /\ SaveRow(j, sub[j].mem, "rerun")
    /\ sub' = [sub EXCEPT ![j] = [pc |-> "done", mem |-> NewRow]]
    /\ UNCHANGED <<schedVars, created>> /\ SubStep

\* Any other exception (ports exhausted, job file, sbatch or query timing
\* out) or the end of the worker: nothing is undone.
SubmitDies(j) ==
    /\ sub[j].pc \in {"made", "ready", "sent", "refused", "queried"}
    /\ sub' = [sub EXCEPT ![j] = [pc |-> "done", mem |-> NewRow]]
    /\ UNCHANGED <<schedVars, dbVars, escaped>> /\ SubStep

Submitting(j) == sub[j].pc \in {"made", "ready", "sent", "refused", "queried"}

-----------------------------------------------------------------------------
(* Requests on an existing job.                                            *)

Idle == [pc |-> "idle", job |-> NoJob, mem |-> NewRow, prev |-> "created", ids |-> {}]

ReqStep == UNCHANGED <<sub, ypc, roundVars, cache, crashes, charged, absent>>

\* JobView.put: read the row, decide, set CANCELLING on the object.
CancelRead(r, j) ==
    /\ "cancel" \in Api /\ req[r].pc = "idle"
    /\ j \in created /\ ~row[j].del
    /\ row[j].state \notin FinalStates
    /\ row[j].op \notin {"cancelling", "creating"}
    /\ req' = [req EXCEPT ![r] = [pc |-> "save", job |-> j, prev |-> row[j].op, ids |-> {},
                                  mem |-> [row[j] EXCEPT !.op = "cancelling"]]]
    /\ UNCHANGED <<schedVars, dbVars, escaped, sticky>> /\ ReqStep

CancelSave(r) ==
    /\ req[r].pc = "save"
    /\ SaveRow(req[r].job, req[r].mem, "stale")
    /\ req' = [req EXCEPT ![r].pc = "scancel"]
    /\ UNCHANGED <<schedVars, created, sticky>> /\ ReqStep

\* scheduler.cancel_job returns: with no job found (gone, or no answer from
\* the controller) there is nothing to fail.
CancelAccepted(r) ==
    /\ req[r].pc = "scancel"
    /\ LET ks == Reach({req[r].job}, ~req[r].mem.ident) IN
       \/ ~up /\ UNCHANGED sch
       \/ /\ up /\ (ks = {} \/ \E k \in ks : sch[k] \in Live)
          /\ sch' = Cancelled(ks)
    /\ req' = [req EXCEPT ![r] = Idle]
    /\ UNCHANGED <<up, outages, dbVars, escaped, sticky>> /\ ReqStep

\* scheduler.cancel_job raises: every scancel complained, or a timeout.
CancelRejected(r) ==
    /\ req[r].pc = "scancel"
    /\ ~up \/ \A k \in Reach({req[r].job}, ~req[r].mem.ident) : sch[k] \notin Live
    /\ req' = [req EXCEPT ![r].pc = "rollback"]
    /\ UNCHANGED <<schedVars, dbVars, escaped, sticky>> /\ ReqStep

CancelRollbackRead(r) ==
    /\ req[r].pc = "rollback"
    /\ req' = [req EXCEPT ![r].pc = "restore",
                          ![r].mem = [row[req[r].job] EXCEPT !.op = req[r].prev]]
    /\ UNCHANGED <<schedVars, dbVars, escaped, sticky>> /\ ReqStep

\* The last save of a handler that then answers: the roll-back's, the
\* delete's (sets sticky), the user comment's.
OthersHold(r, j) ==
    \/ Submitting(j)
    \/ \E q \in Requests \ {r} :
          req[q].job = j /\ req[q].pc \in {"save", "restore", "delsave"}
    \/ ypc = "saveConsole" /\ ycur = j

RestoreSave(r) ==
    /\ req[r].pc = "restore"
    /\ SaveRow(req[r].job, req[r].mem, "stale")
    /\ req' = [req EXCEPT ![r] = Idle]
    /\ UNCHANGED <<schedVars, created, sticky>> /\ ReqStep

\* JobView.delete and BatchDeleteView.delete.
DeleteRead(r, j) ==
    /\ "delete" \in Api /\ req[r].pc = "idle"
    /\ j \in created /\ ~row[j].del
    /\ row[j].state \notin WaitingStates
    /\ req' = [req EXCEPT ![r] = [pc |-> "delsave", job |-> j, prev |-> "created", ids |-> {},
                                  mem |-> [row[j] EXCEPT !.del = TRUE]]]
    /\ UNCHANGED <<schedVars, dbVars, escaped, sticky>> /\ ReqStep

DeleteSave(r) ==
    /\ req[r].pc = "delsave"
    /\ SaveRow(req[r].job, req[r].mem, "stale")
    /\ sticky' = IF OthersHold(r, req[r].job) THEN sticky ELSE sticky \cup {req[r].job}
    /\ req' = [req EXCEPT ![r] = Idle]
    /\ UNCHANGED <<schedVars, created>> /\ ReqStep

\* JobCommentView.put: the object is saved whole, as RestoreSave does.
CommentRead(r, j) ==
    /\ "comment" \in Api /\ req[r].pc = "idle" /\ j \in created
    /\ req' = [req EXCEPT ![r] = [pc |-> "restore", job |-> j, prev |-> "created", ids |-> {},
                                  mem |-> row[j]]]
    /\ UNCHANGED <<schedVars, dbVars, escaped, sticky>> /\ ReqStep

\* The jobs of js a batch request works on, and whether one has no id yet.
Listed(js) == {j \in js : j \in created /\ ~row[j].del}
NoId(js) == \E j \in js : ~row[j].ident

\* BatchCancelView.post: scancel first; mark the jobs afterwards, unless some
\* scancel complained.
BatchCancel(r, js) ==
    /\ "batch_cancel" \in Api /\ req[r].pc = "idle"
    /\ Listed(js) # {}
    /\ LET ks   == Reach(Listed(js), NoId(Listed(js)))
           live == {k \in ks : sch[k] \in Live}
           mark == [Idle EXCEPT !.pc = "mark", !.ids = Listed(js)] IN
       \/ /\ ~up \/ ks = {}
          /\ req' = [req EXCEPT ![r] = mark] /\ UNCHANGED sch
       \/ /\ up /\ live # {}
          /\ sch' = Cancelled(ks)
          /\ req' = IF live = ks THEN [req EXCEPT ![r] = mark] ELSE req
    /\ UNCHANGED <<up, outages, dbVars, escaped, sticky>> /\ ReqStep

BatchCancelMark(r) ==
    /\ req[r].pc = "mark"
    /\ row' = [j \in Jobs |->
                 IF j \in req[r].ids /\ ~row[j].del /\ row[j].state \notin FinalStates
                 THEN [row[j] EXCEPT !.op = "cancelling"] ELSE row[j]]
    /\ req' = [req EXCEPT ![r] = Idle]
    /\ UNCHANGED <<schedVars, created, escaped, sticky>> /\ ReqStep

\* The worker is killed, or the database refuses: the rest is not done.
RequestDies(r) ==
    /\ req[r].pc # "idle"
    /\ req' = [req EXCEPT ![r] = Idle]
    /\ UNCHANGED <<schedVars, dbVars, escaped, sticky>> /\ ReqStep

\* Hold, release, suspend, resume and requeue only talk to the scheduler.
From(a) == CASE a = "hold"    -> {"PD"}
             [] a = "release" -> {"HD"}
             [] a = "suspend" -> {"R"}
             [] a = "resume"  -> {"S"}
             [] a = "requeue" -> {"R", "S"} \cup Finished

To(a) == CASE a = "hold"    -> "HD"
           [] a = "release" -> "PD"
           [] a = "suspend" -> "S"
           [] a = "resume"  -> "R"
           [] a = "requeue" -> "PD"

JobAction(js, a) ==
    /\ a \in Api /\ up /\ Listed(js) # {}
    /\ LET moved == {k \in Reach(Listed(js), NoId(Listed(js))) : sch[k] \in From(a)} IN
       /\ moved # {}
       /\ sch' = [k \in Jobs |-> IF k \in moved THEN To(a) ELSE sch[k]]
    /\ UNCHANGED <<up, outages>> /\ SchedStep

-----------------------------------------------------------------------------
(* The sync process: sync_job of the mode's task, then clean_dirty_job.    *)

SyncStep == UNCHANGED <<schedVars, sub, req, crashes>>

\* Mutant of Waiting: only what occupies nodes is followed.
WaitingOnNodes(j) == j \in created /\ row[j].state \in RunningStates

\* Job.objects.filter(state__in=waiting).
Waiting(j) == j \in created /\ row[j].state \in WaitingStates

SyncList ==
    /\ ypc = "idle"
    /\ LET listed == {j \in Jobs : Waiting(j)} IN
       /\ todo' = listed
       /\ pending' = IF SyncMode = "owns" THEN listed ELSE {}
       /\ snap' = [j \in Jobs |-> IF j \in listed THEN row[j] ELSE NewRow]
    /\ ypc' = IF SyncMode = "owns" THEN "handle" ELSE "ask"
    /\ UNCHANGED <<dbVars, unknown, obs, ycur, ymem, cache, histVars>> /\ SyncStep

\* Full mode: scheduler.query_recent_jobs.  Without an answer the list is
\* empty; a job whose description cannot be parsed is left out of it.
SyncAskFull ==
    /\ ypc = "ask"
    /\ \E seen \in SUBSET Visible :
          /\ up => seen = Visible
          /\ obs' = [j \in Jobs |-> IF j \in seen THEN sch[j] ELSE "none"]
          /\ pending' = seen \ todo
    /\ ypc' = "handle"
    /\ UNCHANGED <<dbVars, todo, unknown, snap, ycur, ymem, cache, histVars>> /\ SyncStep

\* The query of the scheduler, or of the user's scheduler, raises: the task
\* ends without handling a pair and without cleaning.
SyncAbort ==
    /\ ~up
    /\ ypc = "ask" \/ (SyncMode = "owns" /\ ypc = "handle" /\ pending # {})
    /\ ypc' = "idle" /\ todo' = {} /\ pending' = {} /\ unknown' = {}
    /\ snap' = [j \in Jobs |-> NewRow] /\ obs' = [j \in Jobs |-> "none"]
    /\ UNCHANGED <<dbVars, ycur, ymem, cache, histVars>> /\ SyncStep

\* Full mode: __query_job_by_scheduler_job of a job no waiting row matched.
\* LiCO's own jobs are found by the id in their comment.
SyncLookup(j) ==
    /\ SyncMode = "full" /\ ypc = "handle" /\ j \in pending
    /\ pending' = pending \ {j} /\ todo' = todo \cup {j}
    /\ IF j \in created /\ (Kind[j] # "console" \/ row[j].ident)
       THEN snap' = [snap EXCEPT ![j] = row[j]] /\ UNCHANGED unknown
       ELSE unknown' = unknown \cup {j} /\ UNCHANGED snap
    /\ UNCHANGED <<dbVars, ypc, obs, ycur, ymem, cache, histVars>> /\ SyncStep

\* Owns mode: scheduler.query_job of each waiting row that has an identity;
\* a user whose scheduler cannot be had is skipped.
SyncAskOwns(j) ==
    /\ SyncMode = "owns" /\ ypc = "handle" /\ j \in pending
    /\ pending' = pending \ {j}
    /\ \/ /\ obs' = [obs EXCEPT ![j] =
                       IF snap[j].ident /\ up /\ j \in Visible THEN sch[j] ELSE "none"]
          /\ UNCHANGED <<todo, snap>>
       \/ /\ ~up /\ snap[j].ident
          /\ todo' = todo \ {j} /\ snap' = [snap EXCEPT ![j] = NewRow]
          /\ UNCHANGED obs
    /\ UNCHANGED <<dbVars, ypc, unknown, ycur, ymem, cache, histVars>> /\ SyncStep

Handling(j) == ypc = "handle" /\ pending = {} /\ j \in todo

\* The pair of j needs nothing more.
Drop(j) ==
    /\ todo' = todo \ {j}
    /\ snap' = [snap EXCEPT ![j] = NewRow]
    /\ obs'  = [obs EXCEPT ![j] = "none"]
    /\ unknown' = unknown \ {j}

\* A job submitted from the console: create its row (a row of it without
\* identity, left by a killed process, is another row and is forgotten) ...
SyncCreateRow(j) ==
    /\ Handling(j) /\ j \in unknown /\ obs[j] # "none"
    /\ created' = created \cup {j}
    /\ row' = [row EXCEPT ![j] = NewRow]
    /\ ycur' = j /\ ymem' = [Updated(NewRow, obs[j]) EXCEPT !.op = "created"]
    /\ ypc' = "saveConsole"
    /\ Drop(j)
    /\ sticky' = sticky \ {j}
    /\ req' = [r \in Requests |-> IF req[r].job = j THEN Idle ELSE req[r]]
    /\ UNCHANGED <<schedVars, sub, crashes, pending, cache, charged, escaped, absent>>

\* ... and save what the scheduler says.
SyncSaveConsole ==
    /\ ypc = "saveConsole"
    /\ row' = [row EXCEPT ![ycur] = ymem]
    /\ ypc' = IF Charges(ymem) THEN "charge" ELSE "handle"
    /\ ycur' = IF Charges(ymem) THEN ycur ELSE NoJob
    /\ ymem' = NewRow
    /\ UNCHANGED <<created, todo, pending, unknown, snap, obs, cache, histVars>>
    /\ SyncStep

\* Not found in the scheduler: a creating job is left alone, others wait for
\* SCHEDULER_MAINTAINABLE_TIME.
SyncMissing(j) ==
    /\ Handling(j) /\ j \notin unknown /\ obs[j] = "none"
    /\ IF snap[j].op = "creating"
       THEN UNCHANGED <<cache, absent>>
       ELSE /\ cache[j] # "old"
            /\ cache' = [cache EXCEPT ![j] = "young"]
            /\ absent' = [absent EXCEPT ![j] = IF @ = 0 THEN 1 ELSE 2]
    /\ Drop(j)
    /\ UNCHANGED <<dbVars, ypc, pending, ycur, ymem, charged, escaped, sticky>> /\ SyncStep

\* Missing for too long: reload, and complete the object.
SyncReloadMissing(j) ==
    /\ Handling(j) /\ j \notin unknown /\ obs[j] = "none"
    /\ snap[j].op # "creating" /\ cache[j] = "old"
    /\ cache' = [cache EXCEPT ![j] = "no"]
    /\ absent' = [absent EXCEPT ![j] = IF @ = 0 THEN 1 ELSE 2]
    /\ ycur' = j
    /\ ymem' = [row[j] EXCEPT !.state = "C",
                              !.op = IF @ = "cancelling" THEN "cancelled" ELSE @]
    /\ ypc' = IF row[j].op = "cancelling" THEN "saveCancelled" ELSE "saveMissing"
    /\ Drop(j)
    /\ UNCHANGED <<dbVars, pending, charged, escaped, sticky>> /\ SyncStep

\* save(update_fields): the state, and operate_state if it was cancelling.
SyncSaveMissing ==
    /\ ypc \in {"saveMissing", "saveCancelled"}
    /\ row' = [row EXCEPT ![ycur] =
                 [row[ycur] EXCEPT !.state = ymem.state,
                                   !.op = IF ypc = "saveCancelled" THEN ymem.op ELSE @]]
    /\ ypc' = "handle" /\ ymem' = NewRow /\ ycur' = NoJob
    /\ UNCHANGED <<created, todo, pending, unknown, snap, obs, cache, histVars>>
    /\ SyncStep

\* Mutant of Seen: the missing job is not taken out of the cache.
SeenKeepsCache(j) == UNCHANGED cache /\ absent' = [absent EXCEPT ![j] = 0]

\* The scheduler knows the job: it is not missing.
Seen(j) ==
    /\ cache' = [cache EXCEPT ![j] = "no"]
    /\ absent' = [absent EXCEPT ![j] = 0]

\* Mutant of SaveUpdate: every column of the object is saved.
SaveUpdateWhole(j) == row' = [row EXCEPT ![j] = Updated(snap[j], obs[j])]

\* save(update_fields=update_job_by_scheduler_job(...)).
SaveUpdate(j) == row' = [row EXCEPT ![j] = Updated(@, obs[j])]

\* Found in the scheduler.  The columns beyond the states (times, runtime,
\* output files, priority) and the memory refresh may call for an update at
\* any time; a changed state always does.
SyncSkip(j) ==
    /\ Handling(j) /\ j \notin unknown /\ obs[j] # "none"
    /\ ~Changed(snap[j], obs[j])
    /\ Seen(j)
    /\ Drop(j)
    /\ UNCHANGED <<dbVars, ypc, pending, ycur, ymem, charged, escaped, sticky>> /\ SyncStep

SyncUpdate(j) ==
    /\ Handling(j) /\ j \notin unknown /\ obs[j] # "none"
    /\ Seen(j)
    /\ SaveUpdate(j)
    /\ IF Charges(Updated(snap[j], obs[j]))
       THEN ypc' = "charge" /\ ycur' = j /\ UNCHANGED <<charged, escaped>>
       ELSE /\ UNCHANGED <<ypc, ycur>>
            /\ IF obs[j] \in SchedCompleted
               THEN UNCHANGED <<charged, escaped>>
               ELSE /\ charged' = charged \ {j}
                    /\ escaped' = [escaped EXCEPT ![j] = {}]
    /\ Drop(j)
    /\ UNCHANGED <<created, pending, ymem, sticky>> /\ SyncStep

\* _charge_job: the client's exceptions are swallowed.
SyncCharge ==
    /\ ypc = "charge"
    /\ \/ charged' = charged \cup {ycur} /\ UNCHANGED escaped
       \/ /\ ClientMayFail
          /\ escaped' = [escaped EXCEPT ![ycur] = @ \cup {"client"}]
          /\ UNCHANGED charged
    /\ ypc' = "handle" /\ ycur' = NoJob
    /\ UNCHANGED <<dbVars, todo, pending, unknown, snap, obs, ymem, cache, sticky, absent>>
    /\ SyncStep

\* CleanDirtyJobTask.clean_dirty_job, one UPDATE statement.
SyncClean ==
    /\ ypc = "handle" /\ pending = {} /\ todo = {}
    /\ row' = [j \in Jobs |-> Cleaned(row[j])]
    /\ ypc' = "idle"
    /\ UNCHANGED <<created, roundVars, cache, histVars>> /\ SyncStep

\* The wall clock passes SCHEDULER_MAINTAINABLE_TIME.
GraceExpires(j) ==
    /\ cache[j] = "young"
    /\ cache' = [cache EXCEPT ![j] = "old"]
    /\ UNCHANGED <<schedVars, dbVars, sub, req, ypc, roundVars, crashes, histVars>>

\* The worker process dies; missing_jobs_cache was in its memory.
SyncCrash ==
    /\ crashes < MaxCrashes
    /\ crashes' = crashes + 1
    /\ escaped' = IF ypc = "charge" THEN [escaped EXCEPT ![ycur] = @ \cup {"crash"}]
                  ELSE escaped
    /\ ypc' = "idle" /\ todo' = {} /\ pending' = {} /\ unknown' = {}
    /\ snap' = [j \in Jobs |-> NewRow] /\ obs' = [j \in Jobs |-> "none"]
    /\ ymem' = NewRow /\ ycur' = NoJob
    /\ cache' = [j \in Jobs |-> "no"]
    /\ UNCHANGED <<schedVars, dbVars, sub, req, charged, sticky, absent>>

-----------------------------------------------------------------------------

Init ==
    /\ sch = [j \in Jobs |-> "none"] /\ up = TRUE /\ outages = 0
    /\ created = {} /\ row = [j \in Jobs |-> NewRow]
    /\ sub = [j \in Jobs |-> [pc |-> "none", mem |-> NewRow]]
    /\ req = [r \in Requests |-> Idle]
    /\ ypc = "idle" /\ ycur = NoJob /\ todo = {} /\ pending = {} /\ unknown = {}
    /\ snap = [j \in Jobs |-> NewRow] /\ obs = [j \in Jobs |-> "none"]
    /\ ymem = NewRow
    /\ cache = [j \in Jobs |-> "no"] /\ crashes = 0
    /\ charged = {} /\ escaped = [j \in Jobs |-> {}] /\ sticky = {}
    /\ absent = [j \in Jobs |-> 0]

SchedNext ==
    \/ \E j \in Jobs : \/ SchedStart(j) \/ SchedEnd(j) \/ SchedUnknownReport(j)
                       \/ SchedForget(j) \/ ConsoleSubmit(j)
    \/ Outage \/ Recovery

SubProgress(j) ==
    \/ SubmitSaveFile(j) \/ SubmitToScheduler(j) \/ SubmitRefused(j)
    \/ SubmitQuery(j) \/ SubmitFinalSave(j) \/ SubmitDies(j)

ReqBegin(r) ==
    \/ \E j \in Jobs : CancelRead(r, j) \/ DeleteRead(r, j) \/ CommentRead(r, j)
    \/ \E js \in SUBSET Jobs : BatchCancel(r, js)

ReqProgress(r) ==
    \/ CancelSave(r) \/ CancelAccepted(r) \/ CancelRejected(r)
    \/ CancelRollbackRead(r) \/ RestoreSave(r) \/ DeleteSave(r)
    \/ BatchCancelMark(r) \/ RequestDies(r)

SyncNext ==
    \/ SyncList \/ SyncAskFull \/ SyncAbort \/ SyncSaveConsole \/ SyncSaveMissing
    \/ SyncCharge \/ SyncClean
    \/ \E j \in Jobs : \/ SyncLookup(j) \/ SyncAskOwns(j) \/ SyncCreateRow(j)
                       \/ SyncMissing(j) \/ SyncReloadMissing(j)
                       \/ SyncSkip(j) \/ SyncUpdate(j)

Next ==
    \/ SchedNext
    \/ \E j \in Jobs : SubmitCreate(j) \/ SubProgress(j) \/ GraceExpires(j)
    \/ \E r \in Requests : ReqBegin(r) \/ ReqProgress(r)
    \/ \E js \in SUBSET Jobs, a \in SchedulerActions : JobAction(js, a)
    \/ SyncNext
    \/ SyncCrash

Spec == Init /\ [][Next]_vars

\* What runs by itself: the sync job is on an interval trigger, a handler that
\* has begun ends, an outage ends and time passes.  Nothing is assumed of
\* users or of the jobs.
FairSpec ==
    /\ Spec
    /\ WF_vars(SyncNext) /\ WF_vars(Recovery)
    /\ \A j \in Jobs : WF_vars(SubProgress(j)) /\ WF_vars(GraceExpires(j))
    /\ \A r \in Requests : WF_vars(ReqProgress(r))

-----------------------------------------------------------------------------
(* Properties.                                                             *)

Reasons == {"crash", "client", "rerun", "stale"}

SchedStates == Live \cup Finished \cup {"none", "gone"}
Submission ==
    [pc : {"none", "made", "ready", "sent", "refused", "queried", "done"}, mem : Row]
Request ==
    [pc : {"idle", "mark"},
     job : {NoJob}, mem : Row, prev : OperateStates, ids : SUBSET Jobs]
    \cup
    [pc : {"save", "scancel", "rollback", "restore", "delsave"},
     job : Jobs, mem : Row, prev : OperateStates, ids : SUBSET Jobs]

\* The types, by the process that owns the variables.
SchedulerOK == sch \in [Jobs -> SchedStates] /\ up \in BOOLEAN /\ outages \in Nat
TableOK     == created \subseteq Jobs /\ row \in [Jobs -> Row]
HandlersOK  == sub \in [Jobs -> Submission] /\ req \in [Requests -> Request]
RoundOK ==
    /\ todo \subseteq Jobs /\ pending \subseteq Jobs /\ unknown \subseteq Jobs
    /\ snap \in [Jobs -> Row] /\ obs \in [Jobs -> Live \cup Finished \cup {"none"}]
    /\ ymem \in Row
    /\ \/ ypc \in {"idle", "ask", "handle"} /\ ycur = NoJob
       \/ ypc \in {"saveConsole", "saveMissing", "saveCancelled", "charge"} /\ ycur \in Jobs
    /\ cache \in [Jobs -> {"no", "young", "old"}] /\ crashes \in Nat
HistoryOK ==
    /\ charged \subseteq Jobs /\ escaped \in [Jobs -> SUBSET Reasons]
    /\ sticky \subseteq Jobs /\ absent \in [Jobs -> 0 .. 2]

\* Every variable has its type: the handlers' objects are rows, a handler in
\* the middle of its work has a job, and so has the sync process between two
\* writes of one job.
TypeOK == SchedulerOK /\ TableOK /\ HandlersOK /\ RoundOK /\ HistoryOK

\* A completion that the database records is charged, or the sync process is
\* about to charge it, or one of four things happened: the process was killed
\* between the save and the charge; the accounting client failed; a rerun's own
\* handler saw the job finish (JobSubmitView's hides that from the row, so it is
\* not among them); a handler saved an old completion over the row of a job that
\* had started again.
CompletionsCharged ==
    \A j \in created :
        Done(row[j]) =>
            \/ j \in charged
            \/ ypc = "charge" /\ ycur = j
            \/ \E why \in escaped[j] :
                  /\ why = "rerun" => Kind[j] = "rerun"
                  /\ why = "stale" => Kind[j] = "rerun" \/ "requeue" \in Api

\* A delete made while no other handler held the row stays: later saves of the
\* sync process, of requests and of their roll-backs keep delete_flag.
DeletesStick == \A j \in sticky : row[j].del

\* The sync process completes a job by its absence only after it was missing
\* in two rounds at least, with no round between that saw it.
GraceIsContinuous ==
    ypc \in {"saveMissing", "saveCancelled"} => absent[ycur] = 2

\* "Because the cancelling RestAPI can update operate_state, so need reload
\* object": whatever the sync process does, a cancelling job leaves that state
\* only as cancelled and with the job final.
SyncKeepsCancel ==
    [][\A j \in created :
          /\ Kind[j] # "console"
          /\ UNCHANGED <<sub, req>>
          /\ row[j].op = "cancelling" /\ row'[j].op # "cancelling"
          => row'[j].op = "cancelled" /\ row'[j].state \in FinalStates]_vars

\* A waiting row whose job is over does not stay: it leaves the waiting
\* states, unless the job comes back or the row is still marked creating.
NoStuckWaiting ==
    \A j \in Jobs :
        (Over(j) /\ row[j].state \in WaitingStates)
            ~> (row[j].state \notin WaitingStates \/ ~Over(j) \/ row[j].op = "creating")

\* A cancelling row of a finished job is resolved, unless it is in one of the
\* two states that are neither waiting nor final.
CancellationResolves ==
    \A j \in Jobs :
        (Over(j) /\ row[j].op = "cancelling")
            ~> (row[j].op # "cancelling" \/ ~Over(j) \/ row[j].state \in {NoState, "UN"})

\* Full mode charges every completion it can still ask the scheduler about,
\* whatever became of the submission handler and of cancel requests.
VisibleCompletionsCharged ==
    \A j \in Jobs : (sch[j] \in Finished) ~> (j \in charged \/ sch[j] \notin Finished)

\* job_sync_task.py: "Only sync process can update state fields. So no need to
\* reload."  Once the submission of a job has ended, the steps that are not the
\* sync process's keep the state of its row.
OnlySyncWritesState ==
    [][UNCHANGED <<sub, ypc, todo, cache, crashes>>
       => \A j \in Jobs : Submitting(j) \/ row'[j].state = row[j].state]_vars

\* job_submit_view.py: "in case of job complete too fast to charge or notify".
\* A completion seen by the submission handler itself is left to the sync
\* task, which charges it.
FastCompletionCharged ==
    \A j \in created : Done(row[j]) => "rerun" \notin escaped[j]

\* job_sync_task.py: "Creating job no identity".  A job the sync process has
\* found is no longer marked creating once its submission has ended.
CreatingHasNoIdentity ==
    \A j \in created : row[j].op = "creating" /\ ~Submitting(j) => ~row[j].ident
=============================================================================
