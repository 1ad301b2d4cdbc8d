------------------------------- MODULE Workflow -------------------------------
(***************************************************************************)
(* One workflow of the workflow application: its row, the step jobs of its *)
(* steps, and everyone who writes them:                                    *)
(*                                                                         *)
(*   - WorkflowScanner.scan, which runs on an interval in a process of its *)
(*     own and alone submits, follows and cancels the jobs;                *)
(*   - the requests run, rerun, cancel and edit.  workflow_beat calls the  *)
(*     same operations, so it is one more of these;                        *)
(*   - the job application, reached through HTTP clients that may fail.    *)
(*                                                                         *)
(* The scanner and a request read the workflow, work on the object, and    *)
(* save every column of it: reading and saving are steps of their own.     *)
(***************************************************************************)
EXTENDS Integers, FiniteSets

CONSTANTS
    Size,           \* the number of step jobs; they are numbered in scan order
    StepOf,         \* the order of the step of each: [1 .. Size -> Nat]
    RunPolicy,      \* Workflow.run_policy
    InitialMax,     \* max_submit_jobs as the creation request gave it
    EditedMax,      \* the values an edit may give it
    Requests,       \* API worker threads
    UnknownReports, \* may a job be in the state UN for a while?
    MaxRuns,        \* bound: run and rerun requests
    MaxErrors,      \* bound: requests of the clients that fail
    MaxCrashes      \* bound: kills of the scanner process

ASSUME WorkflowAssumption ==
    /\ Size \in Nat
    /\ StepOf \in [1 .. Size -> Nat]
    /\ \A i, k \in 1 .. Size : i < k => StepOf[i] <= StepOf[k]
    /\ RunPolicy \in {"all_completed", "ignore_failed"}
    /\ InitialMax \in Nat
    /\ EditedMax \subseteq Nat \ {0}
    /\ UnknownReports \in BOOLEAN
    /\ MaxRuns \in Nat /\ MaxErrors \in Nat /\ MaxCrashes \in Nat

StepJobs == 1 .. Size

\* Every submission takes an id, and a step job is submitted once in a run and
\* once more for each kill of the scanner.
JobIds == 1 .. Size * MaxRuns + MaxCrashes
None == 0
SubmitFailed == -1

VARIABLES
    workflow,  \* its row: [status, max]
    jobId,     \* WorkflowStepJob.job_id of each step job
    job,       \* the Job table, as query_job shows it
    scan,      \* the scanner: [pc, pos, wf, read, running, failed, cancelled, new]
    req,       \* requests: [op, wf], op = "none" when idle
    runs, errors, crashes,
    blind,     \* history: this scan has passed a job that was not over
    ended,     \* history: some scan ended the workflow blind
    asked,     \* history: cancelled, not since run, and not while "starting" was being replaced
    lost       \* history: jobs whose id the scanner never stored

counters == <<runs, errors, crashes>>
history == <<blind, ended, asked, lost>>
vars == <<workflow, jobId, job, scan, req, counters, history>>

Finished == {"created", "failed", "cancelled", "completed"}
Running == "running"                 \* the status None
Statuses == Finished \cup {"starting", "cancelling", Running}

\* A job: in a waiting state; the same with a cancellation accepted; UN;
\* completed; completed as create_fail; completed as cancelled or cancelling;
\* deleted, when query_job answers 404.
JobValues == {"unused", "waiting", "stopping", "UN", "C", "create_fail", "cancelled", "deleted"}
Over == {"C", "create_fail", "cancelled", "deleted"}

\* Mutant of JobRunning: a job that could not be created still runs.
JobRunningFailed(s) == s \in {"waiting", "stopping", "create_fail"}

\* query_result['state'] in job_running_state.
JobRunning(s) == s \in {"waiting", "stopping"}

Tracked(i) == jobId[i] \in JobIds
Fails == errors < MaxErrors

-----------------------------------------------------------------------------
(* The jobs.                                                               *)

JobStep == UNCHANGED <<workflow, jobId, scan, req, counters, history>>

JobEnds(k) ==
    /\ job[k] \in {"waiting", "stopping", "UN"}
    /\ job' = [job EXCEPT ![k] = IF @ = "stopping" THEN "cancelled" ELSE "C"]
    /\ JobStep

JobUnknown(k) ==
    /\ UnknownReports
    /\ \/ job[k] = "waiting" /\ job' = [job EXCEPT ![k] = "UN"]
       \/ job[k] = "UN" /\ job' = [job EXCEPT ![k] = "waiting"]
    /\ JobStep

\* The owner cancels or deletes it in the job application.
JobCancelled(k) ==
    /\ job[k] = "waiting"
    /\ job' = [job EXCEPT ![k] = "stopping"]
    /\ JobStep

JobDeleted(k) ==
    /\ job[k] \in {"C", "create_fail", "cancelled"}
    /\ job' = [job EXCEPT ![k] = "deleted"]
    /\ JobStep

-----------------------------------------------------------------------------
(* Requests.                                                               *)

NoObject == [status |-> "created", max |-> 0]
NoRequest == [op |-> "none", wf |-> NoObject]

ReqStep == UNCHANGED <<job, scan, errors, crashes, blind, ended, lost>>

\* _handle_workflow_operation: the statuses an operation supports.
Supports(op) ==
    CASE op = "run"    -> {"created"}
      [] op = "rerun"  -> {"cancelled", "completed", "failed"}
      [] op = "cancel" -> {"starting", Running}

OperateRead(r, op) ==
    /\ req[r].op = "none" /\ workflow.status \in Supports(op)
    /\ IF op = "cancel" THEN UNCHANGED runs ELSE runs < MaxRuns /\ runs' = runs + 1
    /\ req' = [req EXCEPT ![r] = [op |-> op, wf |-> workflow]]
    /\ UNCHANGED <<workflow, jobId, asked>> /\ ReqStep

\* One transaction: the step jobs forget their jobs, the workflow is saved.
OperateCommit(r) ==
    /\ req[r].op \in {"run", "rerun", "cancel"}
    /\ LET op == req[r].op IN
       /\ workflow' = [req[r].wf EXCEPT
                         !.status = IF op = "cancel" THEN "cancelling" ELSE "starting"]
       /\ jobId' = IF op = "rerun" THEN [i \in StepJobs |-> None] ELSE jobId
       /\ asked' = (op = "cancel" /\ scan.pc # "start")
    /\ req' = [req EXCEPT ![r] = NoRequest]
    /\ UNCHANGED runs /\ ReqStep

\* WorkflowDetailView.put.
EditRead(r, m) ==
    /\ req[r].op = "none" /\ m \in EditedMax
    /\ req' = [req EXCEPT ![r] = [op |-> "edit", wf |-> [workflow EXCEPT !.max = m]]]
    /\ UNCHANGED <<workflow, jobId, runs, asked>> /\ ReqStep

EditSave(r) ==
    /\ req[r].op = "edit"
    /\ workflow' = req[r].wf
    /\ req' = [req EXCEPT ![r] = NoRequest]
    /\ UNCHANGED <<jobId, runs, asked>> /\ ReqStep

\* The worker is killed or the transaction fails.
RequestDies(r) ==
    /\ req[r].op # "none"
    /\ req' = [req EXCEPT ![r] = NoRequest]
    /\ UNCHANGED <<workflow, jobId, runs, asked>> /\ ReqStep

-----------------------------------------------------------------------------
(* The scanner.                                                            *)

Resting == [pc |-> "idle", pos |-> 1, wf |-> NoObject,
            read |-> [i \in StepJobs |-> None], running |-> 0,
            failed |-> FALSE, cancelled |-> FALSE, new |-> None]

ScanStep == UNCHANGED <<req, runs, crashes>>

LastOfStep(i) == i = Size \/ StepOf[i + 1] # StepOf[i]

\* Entering the loop over the steps at its first step job.
Entering(s) == [s EXCEPT !.pos = 1, !.pc = IF Size = 0 THEN "finish" ELSE "step"]

\* Mutants of Moved: one job more; the next step although this one runs.
MovedMore(s) ==
    IF s.running > s.wf.max \/ (LastOfStep(s.pos) /\ s.running > 0) THEN Resting
    ELSE IF s.pos = Size THEN [s EXCEPT !.pc = "finish"]
    ELSE [s EXCEPT !.pos = @ + 1, !.pc = IF LastOfStep(s.pos) THEN "step" ELSE "visit"]
MovedOn(s) ==
    IF s.running >= s.wf.max THEN Resting
    ELSE IF s.pos = Size THEN [s EXCEPT !.pc = "finish"]
    ELSE [s EXCEPT !.pos = @ + 1, !.pc = IF LastOfStep(s.pos) THEN "step" ELSE "visit"]

\* After a step job: enough jobs run, or the step has running jobs: the scan
\* of this workflow returns; else on to the next step job.
Moved(s) ==
    IF s.running >= s.wf.max \/ (LastOfStep(s.pos) /\ s.running > 0) THEN Resting
    ELSE IF s.pos = Size THEN [s EXCEPT !.pc = "finish"]
    ELSE [s EXCEPT !.pos = @ + 1, !.pc = IF LastOfStep(s.pos) THEN "step" ELSE "visit"]

\* WorkflowScanner.scan reads the workflows, and comes to this one.
ScanRead ==
    /\ scan.pc = "idle" /\ workflow.status \notin Finished
    /\ LET s == [Resting EXCEPT !.wf = workflow,
                                !.cancelled = (workflow.status = "cancelling")] IN
       scan' = CASE workflow.status = "starting" -> [s EXCEPT !.pc = "start"]
                 [] workflow.status = "cancelling" /\ Size > 0 -> [s EXCEPT !.pc = "cancelStep"]
                 [] OTHER -> Entering(s)
    /\ blind' = FALSE
    /\ UNCHANGED <<workflow, jobId, job, errors, ended, asked, lost>> /\ ScanStep

ScanStart ==
    /\ scan.pc = "start"
    /\ workflow' = [scan.wf EXCEPT !.status = Running]
    /\ scan' = Entering([scan EXCEPT !.wf.status = Running])
    /\ UNCHANGED <<jobId, job, errors, history>> /\ ScanStep

\* cancel_workflow, step by step: the ids, then query and cancel of each.
CancelNext ==
    scan' = IF scan.pos = Size THEN Entering(scan)
            ELSE [scan EXCEPT !.pos = @ + 1,
                              !.pc = IF LastOfStep(scan.pos) THEN "cancelStep" ELSE "cancelAsk"]

CancelReadStep ==
    /\ scan.pc = "cancelStep"
    /\ scan' = [scan EXCEPT !.read = jobId, !.pc = "cancelAsk"]
    /\ UNCHANGED <<workflow, jobId, job, errors, history>> /\ ScanStep

CancelAsk ==
    /\ scan.pc = "cancelAsk"
    /\ LET k == scan.read[scan.pos] IN
       \/ /\ k \in JobIds /\ JobRunning(job[k])
          /\ scan' = [scan EXCEPT !.pc = "cancelSend"]
          /\ UNCHANGED errors
       \/ /\ k \in JobIds => ~JobRunning(job[k])
          /\ CancelNext
          /\ UNCHANGED errors
       \/ /\ k \in JobIds /\ Fails
          /\ CancelNext
          /\ errors' = errors + 1
    /\ UNCHANGED <<workflow, jobId, job, history>> /\ ScanStep

\* The job application may have ended the job, or be cancelling it already:
\* then it answers without doing anything.
CancelSend ==
    /\ scan.pc = "cancelSend"
    /\ \/ /\ job' = [job EXCEPT ![scan.read[scan.pos]] = IF @ = "waiting" THEN "stopping" ELSE @]
          /\ UNCHANGED errors
       \/ Fails /\ errors' = errors + 1 /\ UNCHANGED job
    /\ CancelNext
    /\ UNCHANGED <<workflow, jobId, history>> /\ ScanStep

ReadStep ==
    /\ scan.pc = "step"
    /\ scan' = [scan EXCEPT !.read = jobId, !.pc = "visit"]
    /\ UNCHANGED <<workflow, jobId, job, errors, history>> /\ ScanStep

Visiting(id) == scan.pc = "visit" /\ scan.read[scan.pos] = id
MaySubmit == Visiting(None) /\ ~scan.failed /\ ~scan.cancelled
Fresh(k) == job[k] = "unused" /\ \A m \in JobIds : m < k => job[m] # "unused"

\* _submit_job.  The job application answers a refused submission with the id
\* of a create_fail job, and the clients pass that on as a success ...
Submit ==
    /\ MaySubmit
    /\ \E k \in JobIds, s \in {"waiting", "create_fail"} :
          /\ Fresh(k)
          /\ job' = [job EXCEPT ![k] = s]
          /\ scan' = [scan EXCEPT !.new = k, !.pc = "submitted"]
    /\ UNCHANGED <<workflow, jobId, errors, history>> /\ ScanStep

\* ... other failures raise, a timeout also when the job exists.
SubmitRaises ==
    /\ MaySubmit /\ Fails
    /\ errors' = errors + 1
    /\ scan' = [scan EXCEPT !.new = SubmitFailed, !.pc = "submitted"]
    /\ \/ UNCHANGED <<job, lost>>
       \/ \E k \in JobIds :
             /\ Fresh(k)
             /\ job' = [job EXCEPT ![k] = "waiting"]
             /\ lost' = lost \cup {k}
    /\ UNCHANGED <<workflow, jobId, blind, ended, asked>> /\ ScanStep

\* Mutants of StepJobSaved: the id is not stored; the workflow is saved too.
StepJobForgotten == UNCHANGED <<jobId, workflow>>
StepJobSavedAll == /\ jobId' = [jobId EXCEPT ![scan.pos] = scan.new]
                   /\ workflow' = scan.wf

\* step_job.save().
StepJobSaved == /\ jobId' = [jobId EXCEPT ![scan.pos] = scan.new]
                /\ UNCHANGED workflow

SaveStepJob ==
    /\ scan.pc = "submitted"
    /\ StepJobSaved
    /\ scan' = Moved(
         IF scan.new = SubmitFailed
         THEN [scan EXCEPT !.new = None, !.failed = @ \/ RunPolicy = "all_completed"]
         ELSE [scan EXCEPT !.new = None, !.running = @ + 1])
    /\ UNCHANGED <<job, errors, history>> /\ ScanStep

SkipSubmit ==
    /\ Visiting(None) /\ (scan.failed \/ scan.cancelled)
    /\ scan' = Moved(scan)
    /\ UNCHANGED <<workflow, jobId, job, errors, history>> /\ ScanStep

SkipFailed ==
    /\ Visiting(SubmitFailed)
    /\ scan' = Moved([scan EXCEPT !.failed = @ \/ RunPolicy = "all_completed"])
    /\ UNCHANGED <<workflow, jobId, job, errors, history>> /\ ScanStep

\* _query_job, answered.
Query(k) ==
    /\ Visiting(k) /\ job[k] # "deleted"
    /\ scan' = Moved(
         [scan EXCEPT
            !.running   = IF JobRunning(job[k]) THEN @ + 1 ELSE @,
            !.failed    = @ \/ (job[k] = "create_fail" /\ RunPolicy = "all_completed"),
            !.cancelled = @ \/ job[k] = "cancelled"])
    /\ blind' = (blind \/ job[k] = "UN")
    /\ UNCHANGED <<workflow, jobId, job, errors, ended, asked, lost>> /\ ScanStep

\* _query_job, when the client raises: the job counts as neither running nor
\* finished.
QueryRaises(k) ==
    /\ Visiting(k)
    /\ IF job[k] = "deleted" THEN UNCHANGED errors ELSE Fails /\ errors' = errors + 1
    /\ scan' = Moved(scan)
    /\ blind' = (blind \/ job[k] \notin Over)
    /\ UNCHANGED <<workflow, jobId, job, ended, asked, lost>> /\ ScanStep

\* Mutant of Outcome: another spelling.
OutcomeSpelt(s) == IF s.cancelled THEN "canceled" ELSE IF s.failed THEN "failed" ELSE "completed"

Outcome(s) == IF s.cancelled THEN "cancelled" ELSE IF s.failed THEN "failed" ELSE "completed"

ScanFinish ==
    /\ scan.pc = "finish"
    /\ workflow' = [scan.wf EXCEPT !.status = Outcome(scan)]
    /\ scan' = Resting
    /\ ended' = (ended \/ blind)
    /\ UNCHANGED <<jobId, job, errors, blind, asked, lost>> /\ ScanStep

ScanCrash ==
    /\ scan.pc # "idle" /\ crashes < MaxCrashes
    /\ crashes' = crashes + 1
    /\ lost' = IF scan.pc = "submitted" THEN lost \cup ({scan.new} \cap JobIds) ELSE lost
    /\ scan' = Resting
    /\ UNCHANGED <<workflow, jobId, job, req, runs, errors, blind, ended, asked>>

-----------------------------------------------------------------------------

Init ==
    /\ workflow = [status |-> "created", max |-> InitialMax]
    /\ jobId = [i \in StepJobs |-> None]
    /\ job = [k \in JobIds |-> "unused"]
    /\ scan = Resting
    /\ req = [r \in Requests |-> NoRequest]
    /\ runs = 0 /\ errors = 0 /\ crashes = 0
    /\ blind = FALSE /\ ended = FALSE /\ asked = FALSE /\ lost = {}

ScanNext ==
    \/ ScanRead \/ ScanStart \/ CancelReadStep \/ CancelAsk \/ CancelSend
    \/ ReadStep \/ Submit \/ SubmitRaises \/ SaveStepJob \/ SkipSubmit \/ SkipFailed
    \/ \E k \in JobIds : Query(k) \/ QueryRaises(k)
    \/ ScanFinish

JobNext == \E k \in JobIds : JobEnds(k) \/ JobUnknown(k) \/ JobCancelled(k) \/ JobDeleted(k)

ReqFinish(r) == OperateCommit(r) \/ EditSave(r) \/ RequestDies(r)

Next ==
    \/ JobNext \/ ScanNext \/ ScanCrash
    \/ \E r \in Requests :
          \/ \E op \in {"run", "rerun", "cancel"} : OperateRead(r, op)
          \/ \E m \in EditedMax : EditRead(r, m)
          \/ ReqFinish(r)

Spec == Init /\ [][Next]_vars

\* The scan is on an interval trigger and a request that has begun ends.  That
\* the jobs end is assumed of the users: without it no workflow ends.
FairSpec ==
    /\ Spec
    /\ WF_vars(ScanNext)
    /\ \A r \in Requests : WF_vars(ReqFinish(r))
    /\ \A k \in JobIds : WF_vars(JobEnds(k))

-----------------------------------------------------------------------------
(* Properties.                                                             *)

WorkflowRow == [status : Statuses, max : Nat]
ScanPcs == {"idle", "start", "cancelStep", "cancelAsk", "cancelSend", "step", "visit",
            "submitted", "finish"}
StoredIds == JobIds \cup {None, SubmitFailed}

\* Every variable has its type.
TypeOK ==
    /\ workflow \in WorkflowRow
    /\ jobId \in [StepJobs -> StoredIds]
    /\ job \in [JobIds -> JobValues]
    /\ scan \in [pc : ScanPcs, pos : Nat, wf : WorkflowRow, read : [StepJobs -> StoredIds],
                 running : Nat, failed : BOOLEAN, cancelled : BOOLEAN, new : StoredIds]
    /\ req \in [Requests -> [op : {"none", "run", "rerun", "cancel", "edit"}, wf : WorkflowRow]]
    /\ runs \in Nat /\ errors \in Nat /\ crashes \in Nat
    /\ blind \in BOOLEAN /\ ended \in BOOLEAN /\ asked \in BOOLEAN /\ lost \subseteq JobIds

\* The job of a step job is over, or there never was one.
Settled(i) == jobId[i] = SubmitFailed \/ (Tracked(i) /\ job[jobId[i]] \in Over)

\* A job is submitted only when all jobs of the earlier steps are over, unless
\* a query of this scan raised or said UN.
StepsInOrder ==
    scan.pc = "submitted" =>
        \/ blind
        \/ \A i \in StepJobs : StepOf[i] < StepOf[scan.pos] => Settled(i)

\* When a job is submitted, the jobs that run are no more than max_submit_jobs
\* (and one for the value 0), with the same exception.
MaxSubmitJobs ==
    scan.pc = "submitted" =>
        LET run == {i \in StepJobs : Tracked(i) /\ JobRunning(job[jobId[i]])} IN
        blind \/ Cardinality(run) < scan.wf.max \/ run = {}

\* A cancel request that was answered is not undone by the scanner, unless it
\* came while the scanner was replacing "starting": the workflow does not go
\* back to a running status before it is run again.
CancelNotLost == asked => workflow.status \notin {"starting", Running}

\* A job that is not over is one the workflow knows or is about to store, but
\* for submissions that were lost to a kill or a failed answer, and for reruns
\* of a workflow that had ended blind.
JobsTracked ==
    \A k \in JobIds :
        job[k] \in {"waiting", "stopping", "UN"} =>
            \/ ended \/ k \in lost
            \/ scan.pc = "submitted" /\ scan.new = k
            \/ \E i \in StepJobs : jobId[i] = k

\* The scanner ends a workflow only when every job of it is over, and as
\* completed only when every step job has been submitted.
EndsWhenOver ==
    [][scan.pc = "finish" /\ workflow'.status # scan.wf.status =>
          \/ blind
          \/ /\ \A i \in StepJobs : jobId[i] = None \/ Settled(i)
             /\ workflow'.status = "completed" => \A i \in StepJobs : Settled(i)]_vars

\* Every run of a workflow ends, whatever fails in between.
WorkflowEnds == (workflow.status \notin Finished) ~> (workflow.status \in Finished)

\* operator.py: "step has enough running step_job", "step has running step_job".
\* When the scanner leaves a workflow unfinished after looking at a step job,
\* that one or an earlier one runs.
ReturnsWhileRunning ==
    [][scan.pc = "visit" /\ scan'.pc = "idle" /\ UNCHANGED crashes =>
          \/ scan.running > 0
          \/ \E k \in JobIds : Visiting(k) /\ JobRunning(job[k])]_vars
===============================================================================
