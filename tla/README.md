# TLA+ models of LiCO

OpenLiCO is the management layer of an HPC cluster: a set of Django applications
(`src/core/apps/*`) over a MySQL database, libraries that talk to a workload
scheduler (`src/library/scheduler`: Slurm, LSF, PBS), daemons, and HTTP clients
by which the applications call each other. This directory holds TLA+ models of
its stateful parts, the TLC configurations that check them and TLAPS proofs.

Contents: 1 inventory, 2 modules and how they correspond to the code, 3 runs,
4 findings, 5 proofs, 6 what is left out, 7 plan.

## 1. Inventory

| part | state | operations | interacts with |
|---|---|---|---|
| job: records, submission, API | table `Job`: state, scheduler state, operate state, identity, delete flag, times | submit, rerun, cancel, batch cancel, delete, comment, hold, release, suspend, resume, requeue, priority, tags, history | scheduler library, accounting and template clients |
| job: sync process | `missing_jobs_cache` in one worker process | every 15 s: list, ask the scheduler, update, complete, charge, notify; then clean cancelling rows | the same table, scheduler, accounting |
| job: port allocation | table `JobCSRES`, a lock file | render the ports of a job file | the job table |
| scheduler library | none of its own | submit, query, act on jobs by id | slurmctld and its kin |
| workflow | tables of workflows, steps, step jobs and periodic tasks | run, rerun, cancel, copy, edit; a scanner and a beat on intervals | job and template clients |
| accounting | billing groups, job and storage statements, deposits, records of days, a lock file | charge a job, charge storage, deposit, create, copy, delete groups, map users; a nightly task, a command to catch up | called by the sync process; the user and job clients |
| async tasks (daemon) | `records` and `infos` in memory, one directory per build | build, query, cancel; events of apscheduler | called by the container application |
| container | `CustomImage` (one per user), `SingularityImage`, files | build, cancel, import, upload again, delete; celery tasks that copy | async tasks |
| alert | policies, alerts, a celery queue | scanners on intervals, create, confirm, solve, delete, edit policies | monitoring data, mail |
| tensorboard | `HeartBeat` rows | open, poll; a scanner on an interval | job client |
| cloudtools | projects, tools, instances, directories | create and delete projects, submit tools | job client, file system |
| the rest | see `components` in PROJECT.json | reads, one-shot writes, pure I/O | |

### What is hard

* **Concurrency.** API workers, the sync process and the interval tasks of the
  other applications write the same rows. The views read an object, decide, and
  save it; on MySQL in READ COMMITTED a transaction without `select_for_update`
  locks nothing, so any other writer may run between the read and the save, and
  `job.save()` writes every column of the object, old ones included. Only
  `save(update_fields=...)` and `queryset.update()` write named columns.
* **The scheduler.** It may be down for a while, forget finished jobs, restart a
  finished job (requeue), or report a state LiCO does not know.
* **Failure.** A worker process may be killed between any two writes; the sync
  process then loses `missing_jobs_cache`, the workflow scanner the id of the
  job it has just submitted. A client request may fail, or time out although
  it was served.
* **Queues and locks.** Celery tasks save objects they read long ago, or are killed
  by a time limit; the charge of a job is under a file lock the administrators'
  views do not take; the daemon's threads share dictionaries and directories
  without any lock and learn of their jobs by events that may be out of order.
* **Time.** A job the scheduler does not list is completed after
  `SCHEDULER_MAINTAINABLE_TIME`; everything in the background runs on intervals.

### What makes each part correct

* **Job.** A row follows its job until it is final, across outages and
  forgotten jobs (`NoStuckWaiting`); a cancellation is not lost by the sync
  process and ends (`SyncKeepsCancel`, `CancellationResolves`); a recorded
  completion is charged (`CompletionsCharged`, `VisibleCompletionsCharged`); a
  job is declared over by its absence only after a continuous absence
  (`GraceIsContinuous`); a delete stays (`DeletesStick`).
* **Workflow.** Steps run in order and within `max_submit_jobs`
  (`StepsInOrder`, `MaxSubmitJobs`); a workflow ends when, and only when, its
  jobs are over (`WorkflowEnds`, `EndsWhenOver`); an answered cancel stays
  (`CancelNotLost`); no job runs that the workflow does not know (`JobsTracked`).
* **Port allocation.** Two live jobs do not hold the same port (`PortsApart`).
* **Accounting.** No time is billed twice (`BilledOnce`); a charge is one step
  that takes it off the balance and enters it in the ledger
  (`ImplementsAccount`); balance and ledger agree (`BalanceIsLedger`); storage is
  charged once a day however often a run fails (`StorageOnce`).
* **Async tasks, container.** Slots and directories come back (`SlotsHeld`,
  `WorkspacesFreed`); a build that runs is known to its user (`KnownBuilds`); an
  imported image settles, is whole when it says so, and stays deleted
  (`ImageSettles`, `SuccessHasFile`, `DeletedStays`).
* **Alert.** One alert is open for one condition, with its notice
  (`OneOpenAlert`, `NoticePerAlert`); a condition that lasts is raised
  (`LastingRaised`).
* **Periodic tasks.** A one-off task starts one run and is not lost
  (`OneOffOnce`, `OneOffServed`).
* **Tensorboard.** A board that lives is watched and stopped when nobody polls it
  (`BoardsWatched`, `IdleStopped`).
* **Cloudtools.** A tool that lives keeps its directory (`EnvironmentKept`).
* **Scheduler library.** An action reaches the jobs it names; "success" means
  the scheduler was asked.

## 2. Modules

| module | what it is |
|---|---|
| `JobStates` | the states of the scheduler, of the job table and of operations, and the translation between them |
| `JobLifecycle` | one row per job and everyone who writes it |
| `MCJobLifecycle` | constants of `JobLifecycle` for TLC |
| `JobLifecycle_proofs` | theorems about `JobLifecycle`: every safety property of its runs |
| `Workflow` | one workflow, its scanner and the requests on it |
| `MCWorkflow` | constants of `Workflow` for TLC |
| `Workflow_proofs` | theorems about `Workflow`: every safety property of its runs |
| `Account` | what charging for jobs promises: the abstract specification of `Billing` |
| `Billing` | `charge_job` in several processes, and the administrators |
| `Billing_proofs` | theorems about `Billing`, the refinement of `Account` among them |
| `PortAllocation_proofs`, `ImageBuild_proofs`, `Cloudtools_proofs` | theorems about these modules, each on its own |
| `StorageBilling` | the nightly charge of storage, for one day and one group |
| `PortAllocation` | the ports of jobs, over `JobStates` |
| `ImageBuild` | builds of images: the view, the daemon, its pool and listener |
| `ImageCopy` | imported images and the celery task that copies them |
| `Alert` | scanners, celery tasks, alerts and policies |
| `WorkflowBeat` | the periodic task of a workflow |
| `Tensorboard` | boards, their heartbeats and the scanner |
| `Cloudtools` | projects, their directories and the tools that run in them |
| `MCResources` | `Billing`, `StorageBilling`, `PortAllocation`, `ImageBuild` and `Cloudtools` in one run |
| `MCScanners` | `Alert`, `ImageCopy`, `WorkflowBeat` and `Tensorboard` in one run |
| `Resources_proofs`, `Scanners_proofs` | theorems about the specifications of these two runs: every safety property they check |

`MCResources` and `MCScanners` do not compose: their parts share no state and no
step of the code joins them. Each behaviour chooses one part and leaves the others
as they begin, which gives one run the sum of their states and lets it check the
properties of each. Parts that do interact meet in one module instead: the sync
process and the requests in `JobLifecycle`, the view and the daemon in
`ImageBuild`, the charge and the administrators in `Billing`. Between modules the
other side is open: `PortAllocation` allows whatever `JobLifecycle` does to a
state, `Billing` any call of `charge_job` by any process at any time, as the sync
process, the nightly task and the command make them.

The definitions named `...Raw`, `Not...`, `Never...` and the like that are
introduced as mutants are not part of the models: each is a plausible bug, and
the run named for it in PROJECT.json reports the property violated when it
takes the place of the definition that follows it.

### JobLifecycle

Every read of a row, every call of the scheduler and every save of a handler is
a step of its own, so that any other process may run between them.

| variable | in the code |
|---|---|
| `sch`, `up`, `outages` | what slurmctld knows of each job, and whether it answers |
| `created`, `row` | the `Job` table; a row is the columns the properties tell apart |
| `sub` | `JobSubmitView.post` / `JobRerunView.post`: where it is and its `job` object |
| `req` | one API worker each: the `job` object between its read and its save |
| `ypc`, `todo`, `pending`, `unknown`, `snap`, `obs`, `ycur`, `ymem` | a run of `sync_job`: `job_pair_list` with the objects read at its start and the scheduler's answers |
| `cache` | `missing_jobs_cache`, with the age of an entry as young or old |
| `crashes` | kills of the sync process |
| `charged`, `escaped`, `sticky`, `absent` | history variables for the properties only |

| actions | in the code |
|---|---|
| `SubmitCreate` ... `SubmitDies` | the two submission views, from `Job.objects.create` to the last `job.save()`; `Pretended` is the step by which the submit view hides a completion it sees itself |
| `CancelRead`, `CancelSave`, `CancelAccepted`, `CancelRejected`, `CancelRollbackRead`, `RestoreSave` | `JobView.put` |
| `BatchCancel`, `BatchCancelMark` | `BatchCancelView.post`, which cancels before it marks |
| `DeleteRead`, `DeleteSave`; `CommentRead` | `JobView.delete`, `BatchDeleteView.delete`; `JobCommentView.put` |
| `JobAction` | hold, release, suspend, resume, requeue: they change only the scheduler |
| `SyncList`, `SyncAskFull`, `SyncLookup`, `SyncAskOwns`, `SyncAbort` | `_get_sync_job_pair_list` of the two modes |
| `SyncCreateRow`, `SyncSaveConsole`, `SyncMissing`, `SyncReloadMissing`, `SyncSaveMissing`, `SyncSkip`, `SyncUpdate`, `SyncCharge` | the loop of `JobSyncTask.sync_job`, by its branches |
| `SyncClean` | `CleanDirtyJobTask` |
| `SyncCrash`, `GraceExpires` | the worker is killed; the wall clock passes `SCHEDULER_MAINTAINABLE_TIME` |

Abstractions. A job in the scheduler is in one of `PD R HD S UNKNOWN CD CA`, or
gone: one representative of each class `FromSchedulerJobState` tells apart, and
cancelled apart from the other ends because it sets `operate_state`. Times,
runtime and output columns are left out; that they may call for an update at
any time is why `SyncUpdate` does not require `Changed`. A console job has a row
with an identity or none; a row without identity, left by a killed process, is
forgotten when the next one is created.

### Workflow

One workflow; the scanner handles workflows one after the other and no step
touches two, so that others only delay it, which the interleaving covers.

| variable | in the code |
|---|---|
| `workflow` | the row: `status` (the value None is `"running"`) and `max_submit_jobs` |
| `jobId` | `WorkflowStepJob.job_id`: `None`, `-1`, or a job |
| `job` | the job application as `query_job` shows it |
| `scan` | the scanner between two calls: the step job it is at, the workflow object it read, the ids read at the start of a step, `running_job_list` (its length), `to_be_failed`, `to_be_cancelled`, the id just received |
| `req` | requests between read and save |
| `runs`, `errors`, `crashes` | counters for the bounds |
| `blind`, `ended`, `asked`, `lost` | history variables |

`ScanRead` and `ScanStart` are `WorkflowScanner.scan`; `CancelReadStep`,
`CancelAsk`, `CancelSend` are `cancel_workflow`; `ReadStep`, `Submit`,
`SubmitRaises`, `SaveStepJob`, `SkipSubmit`, `SkipFailed`, `Query`,
`QueryRaises`, `ScanFinish` are `scan_workflow` with `_submit_job` and
`_query_job`, `Moved` being what happens after each step job. `OperateRead` and
`OperateCommit` are `_handle_workflow_operation`, `EditRead` and `EditSave` the
edit of a workflow. `workflow_beat` calls `_handle_workflow_operation` from the
scanner's own worker, between two scans: a request at a moment the model also
allows.

A refused submission is worth a note: the job application answers it with status
400 and the id of a `create_fail` job, the job client passes every answer that
is JSON on as a success, and so the workflow stores that id and learns of the
failure by its next query. Other failures raise and are stored as -1.

### Billing and Account

| variable | in the code |
|---|---|
| `runtime` | what the scheduler knows a job has run |
| `mapping`, `exists`, `balance` | `UserBillGroupMapping`, the rows of `BillGroup` |
| `ledger`, `opening` | the sum of a group's `Deposit` rows, and the balance it was created with before its first row |
| `stated`, `billed` | `JobBillingStatement`: which jobs have one, the sum of `billing_runtime` |
| `lock`, `charge` | `charge_job.lock`; each process in `charge_job` |
| `admin` | a request between its read and its save |
| `stale` | history: groups of which an outdated object was saved |

`ChargeBegin`, `ChargeMeasure`, `ChargeCommit`, `ChargeFails` are `charge_job` from
the lock to the commit; `ChargeCall` and `CommandCall` its callers, the command with
its own look at the statements outside the lock; the `Deposit...`, `Flag...`,
`...Group` and `MapUser` actions are the views. One second costs one unit: rates,
discounts and the rounding to two decimals are left out, so that the arithmetic
is exact. The runtime a caller brings may be any up to the present one, and the
scheduler's history may be gone.

`Account` has the same four numbers and three steps: a job runs, a charge bills
time that follows what was billed and takes all of it off a balance and a ledger,
an administrator does anything to a group that bills nothing. The lock, the
measuring and the callers are stuttering; only `ChargeCommit` is a charge.

### StorageBilling

A run (`night`) lists the users, fetches the day's records once, and for each user
without one books every path of the group and the record in one transaction;
`rowLock` is the row lock of the group, taken by the first path. A run that fails
leaves the users after it to the command. `overlapped` records that two runs
were at work at once.

### PortAllocation

`Look` and `Take` are `CSResRender.render` with its generator under the file lock;
`Holding` is the query for jobs in waiting states. The lock is released by
`Rendered`, the state comes only with `FinalSave` or `SyncUpdate`. `overlooked`
records who was not seen by whom, `restarted` the jobs requeued when over.

### ImageBuild

`request` follows `BuildImageView.post` and, inside its call, the two steps of the
daemon; `record`, `info`, `workspace` and `cancelFile` are the manager's dictionaries
and the directories; `task` is the job in apscheduler's pool and `undelivered` the
SUBMITTED events the scheduler thread has still to dispatch. `Over` is the listener
on EXECUTED and ERROR, `InitEnds` and `RunEnds` the ends of `task` with what its
`finally` does, which is nothing where `conn` has no value yet. `Restart` loses
all but the directories.

### Cloudtools

`CreateCheck` and `CreateSave` are `get_new_created_project`, `DeleteRead` to `DeleteRow`
`delete_project`, `SubmitRead` to `SubmitSave` the submission by either API, of which
only the open one looks first (`SubmitCheck`). `tree` says whether a directory is
missing, empty or used; directories do not lie within one another. `session` is the
state of a tool's job as `get_job_status` names it: "aside" is a job that waits, is
held or has a state without a name, which no look counts as busy. `shared` records
environments of two projects, `escaped` jobs a delete could not see.

### ImageCopy, Alert, WorkflowBeat, Tensorboard

* `ImageCopy`: the views' steps on `status` and the task's (`CopyGet` to
  `CopyRemoves`), which saves the object it read, so that it may bring a deleted
  row back; `CopyKilled` is its time limit, `CopyRaises` the exception before its
  `try`. `disturbed` and `abandoned` are history.
* `Alert`: `window` abstracts the samples to none, all over the threshold, or some
  under it; `ScanRead`, `ScanPolicy` are the scanner, `TaskTake` to `TaskRaises` the
  transaction of `create_alert` under the policy's row lock. The index of a device
  is in the model; the runs have one device.
* `WorkflowBeat`: the beat, the scanner and their one worker, the edit of the task
  and a user who runs the workflow. `ran` is `last_run_at`; `passed` is whether the
  clocked time, or a moment of the crontab within the interval, lies behind. What
  a scan does is `Workflow`; here it starts and ends. The saves of the beat write
  whole tasks, and undo an edit saved meanwhile (`overlaid`).
* `Tensorboard`: `OpenList` to `OpenCreate` are `create_job`, whose first half is a
  transaction, `ScannerList` to `ScannerCancel` the scanner. The rows an opening
  found being cancelled lose their directory when it commits.

## 3. Runs

"States" are distinct states.

| run | instance | states | shows |
|---|---|---|---|
| `lifecycle_requests` | one submitted job, full mode; two workers that delete, cancel and comment | 1 750 000 | `TypeOK`, `DeletesStick`, `SyncKeepsCancel` |
| `lifecycle_pair` | a console and a rerun job in the same rounds; the second's id extends the first's, so that a batch cancel of the first reaches both; failing accounting | 1 560 000 | `CompletionsCharged` |
| `lifecycle_owns` | one submitted job in owns mode; all batch actions and delete; an outage, unknown states, a kill, failing accounting; fair | 136 000 | `GraceIsContinuous`, `CompletionsCharged`, `NoStuckWaiting`, `CancellationResolves` |
| `lifecycle_live` | one submitted job in full mode; cancel; an outage; fair | 43 000 | `NoStuckWaiting`, `CancellationResolves`, `VisibleCompletionsCharged` |
| `workflow_order` | steps of two and one jobs, policy all_completed; one run, cancel, an edit of the limit from 2 to 1; a kill of the scanner, UN | 5 850 000 | `TypeOK`, `StepsInOrder`, `MaxSubmitJobs`, `JobsTracked`, `EndsWhenOver` |
| `workflow_live` | two steps, policy ignore_failed; two runs, cancel, edit; a failing request; fair | 530 000 | `JobsTracked`, `CancelNotLost`, `WorkflowEnds` |
| `resources` | one job, two groups, one caller, one command, two administrators; two builds and two requests; two jobs and two ports; two users, two nights, two paths; two projects of one directory, two tools started, two workers | 1 160 000 | `ResourcesTypeOK`, `BilledOnce`, `BalanceIsLedger`, `ImplementsAccount`, `StorageOnce`, `SlotsHeld`, `WorkspacesFreed`, `KnownBuilds`, `PortsApart`, `EnvironmentKept` |
| `scanners` | one policy and node, two celery workers; one image, three copies; one periodic task; one opener, two boards; fair | 78 000 | `TypeOK`, `OneOpenAlert`, `NoticePerAlert`, `LastingRaised`, `SuccessHasFile`, `ImageSettles`, `DeletedStays`, `OneOffOnce`, `OneOffServed`, `BoardsWatched`, `IdleStopped` |
| `v_only_sync`, `v_rerun_fast`, `v_creating`, `v_workflow_max` | the smallest instance of each | | the violations of section 4 |

**Bounds.** Rows are independent of each other except in three places, the
reach of the id pattern, the list of a round, and the batch requests; so one job
carries the races and `lifecycle_pair` the sharing. Two writers that are not the
sync process are needed to undo a delete, hence two workers in
`lifecycle_requests`; with the submission handler as the second writer, one worker
is enough elsewhere. One outage spans any number of rounds and one kill may come
at any step; a second of either meets the state the first one left, whose cache
and round are those of the start. The wall clock has two values, before and
after the grace period. In `Workflow`, two steps are the least in which order
matters, two jobs in one step the least in which the limit does; two runs are
needed for a rerun. The number of job ids is what these runs can use up, so
that no submission is blocked by the bound. Each module's bounds are the
constants whose names begin with `Max`.

In `resources`, one job is enough because charges of two jobs meet only in a
group's row, where deposits meet them too; two chargers are needed to overlap, and
two administrators so that one is outdated by the other. Two builds of one user
are the least that overlap, with one slot so that a job may wait for it; a third
request would meet the same rows. Two jobs and two ports allow both exhaustion
(two ports each) and a clash. Two nights overlap or follow each other, two paths
leave a transaction half done. Two projects share a directory, two sessions let a
newer instance hide an older one, and two workers let one submit while the other
deletes; workers and projects are interchangeable, and the run declares that as
its symmetry, having no liveness property. In `scanners`, two tasks for one condition and two
workers are the least for a double alert; a third copy comes after a first copy
that a second one disturbed; two boards are an old one being cancelled and a new
one.

**One worker in `Workflow`.** Two requests that overlap can undo each other (a
second rerun, committed after the first was acted on, forgets jobs that run; an
edit saves back the status it read). The code has no guard against this and
says nothing of it, so the properties would need "unless two requests overlap"
and say no more than with one worker; it is listed under the hazards. A request
that overlaps the scanner is in all runs.

**Exceptions in the properties.** They are stated as exactly as the code
allows. `CompletionsCharged` names four reasons for a missing charge and where
each is possible: a kill between save and charge, a failed charge, a rerun's own
handler seeing the completion, an old object saved over the row of a job that
had started again. The workflow properties except scans that were `blind`: a
query raised or answered UN while the job ran, and the code then takes the job
for finished. `CancelNotLost` excepts a cancel committed while the scanner
holds an object with status `starting` it is about to save as running.
The exceptions of the other modules are history variables that name the event:
`stale` (an outdated group was saved), `overlapped` (two storage runs at once),
`swapped`, `lateCancel` and `untracked` in `ImageBuild`, `overlooked` and `restarted` in
`PortAllocation`, `disturbed` and `abandoned` in `ImageCopy`, `killed`, `refused` and
`overlaid` in `WorkflowBeat`, `orphaned` in `Tensorboard`, `shared` and `escaped` in
`Cloudtools`. Each is a weakness of the
code no document denies; the property says that there is no other.

**Fairness.** `JobLifecycle!FairSpec` assumes that the sync task goes on
(`max_instances=1` on an interval trigger), that a handler that has begun
ends, that an outage ends, and that time passes. Nothing is assumed of users
or jobs: a job may run for ever. `Workflow!FairSpec` assumes the scanner and
begun requests go on and, because a workflow waits for its jobs, that jobs end.
All of it is weak fairness: each of these steps stays enabled until it is
taken.

`Alert!Fairness`: the scanner runs on (weak), the broker hands every message out
and the row lock of a policy is granted in turn (strong, because others may take
the worker or the lock in between). Nothing is assumed of operators or samples.
`ImageCopy!Fairness`: requests that began end and celery tasks go on; a copy may be
killed. `WorkflowBeat!Fairness`: scans end, a beat that began goes on, and an
interval ends some time while no scan is at work (strong): a beat that always
waited behind a scan longer than apscheduler's grace time would never run, and the
code does not exclude that, it only makes it unlikely. `Tensorboard!Fairness`: the
scanner's trigger, and a job that is being cancelled ends. Calls that fail are
bounded, so that failure is not for ever.

**Deadlock** is checked in the runs of `JobLifecycle` and `Workflow`. It is not in
`resources` and `scanners`, where a behaviour may really be over: every job was
submitted, every copy used, and no request is left to come.

## 4. Findings

* `v_only_sync`. `job_sync_task.py:136` says that only the sync process updates
  state fields and saves without a reload. `JobView.put`, the roll-back of a
  cancel, the delete and the comment save whole objects and write old state
  fields back.
* `v_rerun_fast`. `JobSubmitView` hides a completion it sees itself, "in case of
  job complete too fast to charge or notify"; `JobRerunView` does not, and such
  a rerun is neither charged nor notified.
* `v_creating`. "Creating job no identity", `job_sync_task.py:68`: a handler
  that fails in `query_job` leaves a row marked creating, the sync process
  identifies it, it cannot be cancelled, and once the scheduler forgets the job
  the row stays in a waiting state for good.
* `v_workflow_max`. "step has enough running step_job", `operator.py:84`: with
  `max_submit_jobs` 0, which the creation of a workflow accepts, an empty list is
  enough, and the workflow never ends.

## 5. Proofs

Every invariant, every action property and the refinement that the passing runs
check are theorems as well, for every value of the constants that meets the
module's assumption: the run shows them on a small instance, the theorem for any
number of jobs, workers, users, nodes and so on, and for any bounds. The
assumptions say that constants have their types and that `None` and the like are
not among the ids; two say more. `StorageBilling` has finitely many users, since
the balance is compared with a sum over them, and `Cloudtools` has at least one
directory, since a project always has one.

Each proof has the same shape: an inductive invariant that is a conjunction of
named parts, one lemma for each action or for a group of actions that disturb the
same parts, and a last step that combines them. What follows is the part of each
invariant that carries the argument.

### JobLifecycle_proofs

* `TypeCorrect`: `TypeOK` is inductive as it stands. It is a conjunction by owner
  (`SchedulerOK`, `TableOK`, `HandlersOK`, `RoundOK`, `HistoryOK`), and it says
  more than types: a request in the middle of its work has a job, and the sync
  process has one exactly between two writes of one job.
* `GraceHolds` (`GraceIsContinuous`). The property speaks only of the moment of the
  completing save. `CacheMeansAbsent` is added: an entry of `missing_jobs_cache`
  means that the last round that handled the job had missed it. It is the deletion
  of the entry in `Seen` that keeps it, and `SyncReloadMissing` that uses it.
* `DeleteHolds` (`DeletesStick`). `StickyHeld` is added: for a job whose delete was
  alone, every object of the row that a handler still holds carries `delete_flag`,
  since it was read after the delete. It needs that a submission not begun has no
  row (`NotBegun`) and that requests work on rows that exist (`RequestsOnRows`).
  The sync process keeps it because it saves named columns.
* `CompletionsAreCharged` (`CompletionsCharged`). The row alone does not tell: a
  completed state may be in an object that is saved later. `ChargeInv` follows it
  through every object that may hold it, the row, a submission's, a request's, the
  sync process's. `RowsAgree` says that a completed scheduler state stands beside a
  final state in each; `SubmissionInv` that only a rerun's handler holds a completed
  object, because the other view pretends; `OverInv` that for a job that is neither
  rerun nor may be requeued (`Plain`) such an object exists only while the job is
  over and no report of this round says otherwise. The report that would forget
  the charge can then not come, and the old object completes the row of a job whose
  completion is accounted for (`AccountInv`). Each owner's steps are shown to keep
  what the others rely on (`RowsKept`, `RequestsKept`, `SyncKept`, ...).
* `SyncKeepsCancels` (`SyncKeepsCancel`, an action property). `KeepInv`: a row that
  the sync process saves whole is that of a job LiCO did not submit, and the object
  with which it completes a missing job says "cancelled", since it was read again.

### Workflow_proofs

The invariant is `WorkflowInv`. `PosInv` and `UsedInv` say where the scanner is and
that ids once given are used; `PassedInv` that a scan that is at a step job has seen
every one before it settled or noted a failure; `PrefixInv` and `CountInv` that
`running_job_list` counts at least the live jobs passed so far and stays under the
limit; `RowInv`, `CancelInv` and `EndedInv` relate the row, the objects the scanner
and the requests hold, and the jobs. `StepsAreInOrder`, `MaxIsKept`,
`JobsAreTracked`, `CancelIsKept` and `EndsAreOver` follow.

They have a hypothesis, `[]RequestsApart`: no two requests on the workflow overlap.
It is not a convenience. Two requests that do overlap break the properties (section
3, "One worker"), the code has no guard against it, and the runs have one worker;
`OneWorker` proves the five properties without the hypothesis for any instance with
one worker, and `TypeCorrect` needs none.

### Billing_proofs

* `TypeCorrect`: a process beyond the lock has a group and a request has one.
* `BilledOnceHolds` (`BilledOnce`). What a process has measured becomes billed only
  later, so the invariant must say that it is still unbilled then: `Measured`, for a
  process about to commit, that the time it will book and the time billed together
  are no more than the job has run. That holds only while nobody else bills in
  between: `Locked`, that a process beyond the lock is its holder. `Given` bounds
  the runtime a caller brought.
* `Implements` (`ImplementsAccount`). A step that commits is `Account`'s charge, with
  `IInv` giving that the seconds are not negative and not more than run; the
  administrators' steps are its third kind, the run of a job its first, and every
  other step leaves all four numbers alone.
* `BalancesAreLedgers` (`BalanceIsLedger`). Whoever changes one of the three sums
  changes another by as much or marks the group stale. `FlagInv` is added: a
  request about the alert flag brings no credit, so that the balance it writes back
  adds nothing the ledger lacks.

### PortAllocation_proofs, ImageBuild_proofs, Cloudtools_proofs, Resources_proofs

* `PortsAreApart`. `SeenInv`: a job that renders knows the ports of every other one,
  unless it overlooked it or the other will not run (`Gone`); `LockInv`, one
  renders at a time; `CountInv`, a job has as many rows as values, which for any set
  of ports needs that a value it takes is not one it has.
* `SlotsAreHeld`, `WorkspacesAreFreed`, `BuildsAreKnown`. `InfoInv`: a build the
  listener is to end has its entry in `infos` or the request that is about to make
  it; `OwnInv`, no two requests have one build; `ImageInv` and `LockInv`, the build
  of a row that a request has locked is not being built, so that a locked request
  never makes a row forget one.
* `EnvironmentIsKept`. `LookInv`: a delete goes past a tool only when the tool's jobs
  escaped its look; `DeletedInv` and `SharedInv` carry this to the time after the
  delete and to a second project with the same directory; `KeptInv` includes jobs
  that are over, which may be requeued.
* `StorageIsChargedOnce` (`StorageOnce`). `NightAlone`: unless runs overlapped, one
  run is at work, and a user it has still to take and does not know to have a record
  has none. `CreditInv`: the run that holds the row's lock has the balance less what
  it booked, so that its save at the commit loses nothing, and what has left the
  balance is the sum of the statements and the charges of jobs.
* `ResourcesTypes` and the bridge. The first three modules are proved on their own;
  `Resources_proofs` shows that every step of `MCResources` is a step of each of
  them or leaves it alone, and carries their invariants over.

The sum in `StorageOnce` is a fold over the users, a recursive function. The
induction it needs is done as a search for the smallest set of users for which
the claim fails (`SmallestSet`, from the well-foundedness of the finite subsets):
the function exists (`SumsDefined`), adding to one term adds to the sum
(`SumAdded`), zeros sum to zero (`SumOfZeros`).

### Scanners_proofs

* `OneAlertIsOpen`, `AlertsAreNotified`. `OneHolds`: the row lock of a policy has one
  holder; `LooksTrue`: what a holder has seen of open alerts is still so.
* `SuccessIsWhole`, `DeletedIsKept`. `Undisturbed`: of an image whose tasks and deletes
  never met, at most one task is at work, and the status says what it may at each
  point of the task.
* `OneOffRunsOnce`. `RowFired`, `HeldFired` and `HeldDisabled` relate the row of a
  clocked task, the copy the beat holds and the runs counted, by how far the beat is.
* `LiveBoardsAreWatched`. A request that submitted its job knows which it is
  (`OpenersKnown`); the rest of the property is inductive.

### Only model-checked

The liveness properties (`NoStuckWaiting`, `CancellationResolves`,
`VisibleCompletionsCharged`, `WorkflowEnds`, `LastingRaised`, `ImageSettles`,
`OneOffServed`, `IdleStopped`): the prover has no rule for fairness and `ENABLED`.
They hold on the instances of section 3. The violations of section 4 are
counterexamples of TLC and need no proof.

## 6. What is not modelled

* Job: priority changes, tags, the history view (it saves whole objects of jobs
  the sync process may be handling, for a command an administrator runs by hand:
  a hazard no property covers), the notification of the template
  application (it changes no state of the job application), the columns of times,
  runtime and output, the read-only views.
* Scheduler library: the parsing of `scontrol`, and the LSF and PBS adapters. What
  Slurm itself does is modelled from what LiCO sees of it and is marked external in
  the map.
* Workflow: copying, deleting, and editing of steps and step jobs while a scan runs.
* Accounting: rates, discounts and their rounding, the edit of a group (it writes
  named columns, and not the balance, so that it cannot undo a charge), bills,
  reports and exports.
* Alert: the aggregates max and none (one comparison in place of another), policies
  on hardware, notification targets.
* Container: system images, tags, downloads, notebook images. Tensorboard: the
  proxy of a board, the choice of its port inside the job. Cloudtools: settings,
  renaming, entrance URIs, shared links.
* The rest, each with its reason in PROJECT.json. By volume it is most of the
  repository: the views and tasks of the monitor read InfluxDB and write charts and
  last values over, the reports and exports format tables, the file manager
  (`elfinder.py`) and the daemons translate requests into file operations and remote
  commands, the clients wrap HTTP requests. They keep no state of their own between
  two requests that a later request depends on, or a single row written by one
  request; a model of them would restate each function and say nothing of an
  order of events. This, and not a bound of TLC, is why the map covers a small share
  of all lines.

## 7. Plan

1. `SlurmActions`: which jobs an action reaches, by the id pattern, without
   identities, without a controller.
2. `JobUpdate`: `job_changed` and `update_job_by_scheduler_job` on times and runtime
   as pure operators; that two rounds reach a fixed point, and when not.
3. Abstract specifications that the proofs already suggest: an allocator of which
   `PortAllocation` is an implementation while nobody is overlooked, and a ledger
   common to `Billing` and `StorageBilling`, with their refinements as theorems.
4. `Workflow` with requests that overlap: which of the five properties survive, and
   under which exception.
