------------------------------ MODULE WorkflowBeat -----------------------------
(***************************************************************************)
(* The periodic task of a workflow: workflow_beat, which every interval    *)
(* looks for tasks that are due and runs or reruns their workflow, in the  *)
(* one worker process it shares with the scanner; the views by which a     *)
(* user edits the task, or runs the workflow himself.                      *)
(*                                                                         *)
(* What the scan does with a workflow is module Workflow; here it is that  *)
(* a workflow that starts runs, and is over some time.                     *)
(***************************************************************************)
EXTENDS Integers

CONSTANTS
    MaxEdits,    \* bound: edits of the task
    MaxTriggers, \* bound: moments a crontab names
    MaxKills     \* bound: kills of the worker process

BeatAssumption == MaxEdits \in Nat /\ MaxTriggers \in Nat /\ MaxKills \in Nat

VARIABLES
    flow,     \* Workflow.status; "running" stands for None, "over" for the three ends
    periodic, \* the WorkflowPeriodicTask row: [kind, enabled, ran], kind "none" without a row
    passed,   \* the clocked time has passed; or a moment of the crontab has, in this interval
    edit,     \* a request that edits the task: [pc, task]
    user,     \* a request that runs the workflow: [pc, seen]
    beat,     \* workflow_beat: [pc, task, seen]
    scanner,  \* a scan has the worker
    edits, triggers, kills,
    fired,    \* history: runs the beat started for the schedule as it was last saved
    refused,  \* history: the last one refused was refused by the status of the workflow
    killed,   \* history: a kill came after the run was started, before the task was saved
    overlaid  \* history: the last edit was saved while the beat held the task, and is undone

beatVars == <<flow, periodic, passed, edit, user, beat, scanner, edits, triggers, kills,
              fired, refused, killed, overlaid>>
beatCounters == <<edits, triggers, kills>>

Flows == {"created", "starting", "running", "over"}
Kinds == {"none", "crontab", "clocked"}
NoTask == [kind |-> "none", enabled |-> FALSE, ran |-> FALSE]
BeatIdle == [pc |-> "idle", task |-> NoTask, seen |-> "created"]
UserIdle == [pc |-> "idle", seen |-> "created"]
EditIdle == [pc |-> "idle", task |-> NoTask]
Tasks == [kind: Kinds, enabled: BOOLEAN, ran: BOOLEAN]

TypeOK ==
    /\ flow \in Flows /\ periodic \in Tasks /\ passed \in BOOLEAN
    /\ edit \in [pc: {"idle", "read"}, task: Tasks]
    /\ user \in [pc: {"idle", "read"}, seen: Flows]
    /\ beat \in [pc: {"idle", "waiting", "read", "refused", "started", "disabled"}, task: Tasks, seen: Flows]
    /\ scanner \in BOOLEAN
    /\ edits \in 0 .. MaxEdits /\ triggers \in 0 .. MaxTriggers /\ kills \in 0 .. MaxKills
    /\ fired \in Nat /\ refused \in BOOLEAN /\ killed \in BOOLEAN /\ overlaid \in BOOLEAN

Init ==
    /\ flow = "created" /\ periodic = NoTask /\ passed = FALSE
    /\ edit = EditIdle /\ user = UserIdle /\ beat = BeatIdle
    /\ scanner = FALSE
    /\ edits = 0 /\ triggers = 0 /\ kills = 0
    /\ fired = 0 /\ refused = FALSE /\ killed = FALSE /\ overlaid = FALSE

OneOff(t) == t.kind = "clocked"

-----------------------------------------------------------------------------
(* Time, and the scanner.                                                  *)

\* The moment comes.  A crontab's counts in the interval it lies in.
TimePasses ==
    /\ periodic.kind # "none" /\ ~passed
    /\ \/ OneOff(periodic) /\ UNCHANGED triggers
       \/ /\ ~OneOff(periodic)
          /\ triggers < MaxTriggers /\ triggers' = triggers + 1
    /\ passed' = TRUE
    /\ UNCHANGED <<flow, periodic, edit, user, beat, scanner, edits, kills, fired, refused, killed, overlaid>>

\* The one worker takes scans and beats in the order they fall due.
ScanBegins ==
    /\ ~scanner /\ beat.pc = "idle"
    /\ flow \in {"starting", "running"}
    /\ scanner' = TRUE
    /\ UNCHANGED <<flow, periodic, passed, edit, user, beat, beatCounters, fired, refused, killed, overlaid>>

\* A workflow that starts, runs; one that runs may be over.
ScanEnds ==
    /\ scanner
    /\ scanner' = FALSE
    /\ \/ flow = "starting" /\ flow' = "running"
       \/ flow = "running" /\ flow' \in {"running", "over"}
       \/ flow \notin {"starting", "running"} /\ UNCHANGED flow
    /\ UNCHANGED <<periodic, passed, edit, user, beat, beatCounters, fired, refused, killed, overlaid>>

-----------------------------------------------------------------------------
(* workflow_beat.                                                          *)

BeatStep == UNCHANGED <<edit, user, scanner, edits, triggers, overlaid>>

\* The interval is over, with something in it to act upon.
BeatDue ==
    /\ beat.pc = "idle"
    /\ periodic.enabled /\ passed
    /\ beat' = [beat EXCEPT !.pc = "waiting"]
    /\ BeatStep
    /\ UNCHANGED <<flow, periodic, passed, kills, fired, refused, killed>>

\* A run that waited longer than its grace time for the scan is dropped.  The
\* next one does not look back as far as a moment of the crontab in this one.
BeatMissed ==
    /\ beat.pc = "waiting" /\ scanner
    /\ beat' = BeatIdle
    /\ passed' = OneOff(periodic)
    /\ BeatStep
    /\ UNCHANGED <<flow, periodic, kills, fired, refused, killed>>

\* The enabled task is read, with its workflow, and is_due.
BeatRead ==
    /\ beat.pc = "waiting" /\ ~scanner
    /\ passed' = (passed /\ OneOff(periodic))
    /\ beat' = IF periodic.enabled /\ passed
               THEN [pc |-> "read", task |-> periodic, seen |-> flow] ELSE BeatIdle
    /\ BeatStep
    /\ UNCHANGED <<flow, periodic, kills, fired, refused, killed>>

\* RUN of a workflow as created by a task that has not run, else RERUN.
Permits(t, status) == (~t.ran /\ status = "created") \/ status = "over"

\* _handle_workflow_operation: one transaction that saves the whole workflow,
\* and, if the task is enabled, the whole task.
BeatRuns ==
    /\ beat.pc = "read"
    /\ LET t == [beat.task EXCEPT !.ran = TRUE]
       IN IF Permits(beat.task, beat.seen)
          THEN /\ flow' = "starting"
               /\ periodic' = t
               /\ fired' = fired + 1
               /\ beat' = [beat EXCEPT !.pc = "started", !.task = t]
               /\ UNCHANGED refused
          ELSE /\ beat' = [beat EXCEPT !.pc = "refused"]
               /\ refused' = TRUE
               /\ UNCHANGED <<flow, periodic, fired>>
    /\ BeatStep
    /\ UNCHANGED <<passed, kills, killed>>

\* Mutant of Finally: a one-off task stays enabled.
FinallyEnabled(t) == t

\* finally: is_one_off
Finally(t) == IF OneOff(t) THEN [t EXCEPT !.enabled = FALSE] ELSE t

\* The finally clause saves the task if it is one-off, refused or not ...
BeatFinally ==
    /\ beat.pc \in {"refused", "started"}
    /\ LET t == Finally(beat.task)
       IN /\ periodic' = IF OneOff(t) THEN t ELSE periodic
          /\ beat' = IF beat.pc = "refused" THEN BeatIdle
                     ELSE [beat EXCEPT !.pc = "disabled", !.task = t]
    /\ BeatStep
    /\ UNCHANGED <<flow, passed, kills, fired, refused, killed>>

\* ... and after a run last_run_at and the count are saved, with every column.
BeatSave ==
    /\ beat.pc = "disabled"
    /\ periodic' = beat.task
    /\ beat' = BeatIdle
    /\ BeatStep
    /\ UNCHANGED <<flow, passed, kills, fired, refused, killed>>

WorkerKilled ==
    /\ kills < MaxKills /\ kills' = kills + 1
    /\ beat.pc \notin {"idle", "waiting"}
    /\ killed' = (killed \/ beat.pc = "started")
    /\ beat' = BeatIdle
    /\ BeatStep
    /\ UNCHANGED <<flow, periodic, passed, fired, refused>>

-----------------------------------------------------------------------------
(* The views.                                                              *)

\* WorkflowDetailView.put reads the workflow and its task ...
EditRead ==
    /\ edit.pc = "idle"
    /\ edits < MaxEdits /\ edits' = edits + 1
    /\ edit' = [pc |-> "read", task |-> periodic]
    /\ UNCHANGED <<flow, periodic, passed, user, beat, scanner, triggers, kills, fired, refused, killed, overlaid>>

\* ... deletes the task when the request names no schedule, or saves the task
\* with the new schedule, always enabled; a new one is created.
EditSave ==
    /\ edit.pc = "read"
    /\ \E kind \in Kinds :
           periodic' = IF kind = "none" THEN NoTask
                       ELSE [kind |-> kind, enabled |-> TRUE, ran |-> edit.task.ran]
    /\ passed' = FALSE
    /\ edit' = EditIdle
    /\ fired' = 0 /\ refused' = FALSE /\ killed' = FALSE
    /\ overlaid' = (beat.pc \notin {"idle", "waiting"})
    /\ UNCHANGED <<flow, user, beat, scanner, beatCounters>>

UserRead ==
    /\ user.pc = "idle"
    /\ user' = [pc |-> "read", seen |-> flow]
    /\ UNCHANGED <<flow, periodic, passed, edit, beat, scanner, beatCounters, fired, refused, killed, overlaid>>

\* run or rerun, whichever the status permits.
UserRuns ==
    /\ user.pc = "read"
    /\ flow' = IF user.seen \in {"created", "over"} THEN "starting" ELSE flow
    /\ periodic' = IF user.seen \in {"created", "over"} /\ periodic.enabled
                   THEN [periodic EXCEPT !.ran = TRUE] ELSE periodic
    /\ user' = UserIdle
    /\ UNCHANGED <<passed, edit, beat, scanner, beatCounters, fired, refused, killed, overlaid>>

-----------------------------------------------------------------------------
Beat == BeatRead \/ BeatRuns \/ BeatFinally \/ BeatSave

Next ==
    \/ TimePasses \/ ScanBegins \/ ScanEnds
    \/ BeatDue \/ BeatMissed \/ Beat \/ WorkerKilled
    \/ EditRead \/ EditSave \/ UserRead \/ UserRuns

\* Scans end, a beat once begun goes on, and an interval ends some time while no
\* scan is at work, or one that is over before the beat's grace time.
Fairness ==
    /\ WF_beatVars(ScanEnds)
    /\ SF_beatVars(BeatDue /\ ~scanner)
    /\ WF_beatVars(Beat)

Spec == Init /\ [][Next]_beatVars /\ Fairness

-----------------------------------------------------------------------------
(* Properties.                                                             *)

\* One clocked schedule starts at most one run, whatever is edited meanwhile;
\* unless the worker is killed between the run and the save that uses the task
\* up (scanner.py:87).
OneOffOnce == OneOff(periodic) /\ ~killed => fired <= 1

\* A clocked task that is enabled when its time has passed is used up although
\* beats may be dropped behind long scans, and then it has started its run or
\* was refused by the status of its workflow; but for an edit saved while the
\* beat held the task, which the beat's own saves undo (scanner.py:65, :87).
OneOffServed ==
    (OneOff(periodic) /\ periodic.enabled /\ passed)
        ~> (~OneOff(periodic) \/ ~passed \/ (~periodic.enabled /\ (fired > 0 \/ refused \/ overlaid)))
===============================================================================
