----------------------------- MODULE PortAllocation ----------------------------
(***************************************************************************)
(* The ports of jobs: a submission renders its job file under a file lock  *)
(* and takes, for each port the file asks for, one that no job in a        *)
(* waiting state holds.  The lock is released before the job has a state,  *)
(* which the scheduler gives it later; states are those of JobStates.      *)
(***************************************************************************)
EXTENDS JobStates, Integers, FiniteSets

CONSTANTS
    Jobs,      \* rows of the job table: bound, each is submitted once
    Ports,     \* PORT_BEGIN .. PORT_END
    MaxWanted, \* bound: ports one job file asks for
    MaxRequeues\* bound: jobs requeued when they were over

PortAssumption == MaxWanted \in Nat \ {0} /\ MaxRequeues \in Nat

VARIABLES
    jobState,   \* Job.state of each row
    scheduled,  \* the job in the scheduler: "none", "live" or "over"
    ports,      \* JobCSRES rows: the ports of each job
    taken,      \* how many values each job was given for its file
    submission, \* the handler: [pc, wanted, allocated]
    flock,      \* holder of lico_csres_port.lock, or none
    requeues,
    overlooked, \* history: <<j, k>>: j looked when k had no waiting state and was yet to run, or ran
    restarted   \* history: jobs requeued when they were over

portVars == <<jobState, scheduled, ports, taken, submission, flock, requeues, overlooked, restarted>>

SubmissionPcs == {"new", "created", "render", "rendered", "submitted", "done"}
Nobody == {}

TypeOK ==
    /\ jobState \in [Jobs -> JobStateValues \cup {NoState}]
    /\ scheduled \in [Jobs -> {"none", "live", "over"}]
    /\ ports \in [Jobs -> SUBSET Ports]
    /\ taken \in [Jobs -> 0 .. MaxWanted]
    /\ submission \in [Jobs -> [pc: SubmissionPcs, wanted: 0 .. MaxWanted, allocated: SUBSET Ports]]
    /\ flock \subseteq Jobs /\ Cardinality(flock) <= 1
    /\ requeues \in 0 .. MaxRequeues
    /\ overlooked \subseteq Jobs \X Jobs /\ restarted \subseteq Jobs

Init ==
    /\ jobState = [j \in Jobs |-> NoState]
    /\ scheduled = [j \in Jobs |-> "none"]
    /\ ports = [j \in Jobs |-> {}]
    /\ taken = [j \in Jobs |-> 0]
    /\ submission = [j \in Jobs |-> [pc |-> "new", wanted |-> 0, allocated |-> {}]]
    /\ flock = Nobody
    /\ requeues = 0
    /\ overlooked = {} /\ restarted = {}

Goto(j, pc) == submission' = [submission EXCEPT ![j].pc = pc]

\* Job.objects.create
Create(j) ==
    /\ submission[j].pc = "new"
    /\ \E wanted \in 0 .. MaxWanted :
           submission' = [submission EXCEPT ![j].pc = "created", ![j].wanted = wanted]
    /\ UNCHANGED <<jobState, scheduled, ports, taken, flock, requeues, overlooked, restarted>>

\* Mutant of Holding: only jobs that run hold their ports.
HoldingRunning(k) == jobState[k] \in RunningStates

\* job__state__in=JobState.get_waiting_state_values()
Holding(k) == jobState[k] \in WaitingStates

\* Has ports, or may yet get some, or uses them, and is not seen.
Unseen(k) ==
    /\ jobState[k] \notin WaitingStates
    /\ submission[k].pc \in {"render", "rendered", "submitted"} \/ scheduled[k] = "live"

\* The lock is granted and the rows are read.
Look(j) ==
    /\ submission[j].pc = "created"
    /\ flock = Nobody
    /\ flock' = {j}
    /\ submission' = [submission EXCEPT ![j].pc = "render",
                                        ![j].allocated = UNION {ports[k] : k \in {x \in Jobs : Holding(x)}}]
    /\ overlooked' = overlooked \cup {<<j, k>> : k \in {x \in Jobs \ {j} : Unseen(x)}}
    /\ UNCHANGED <<jobState, scheduled, ports, taken, requeues, restarted>>

\* Mutant of Appended: the value is not added to the allocated ones.
AppendedNot(j, v) == submission[j].allocated

\* allocated_values.append(value)
Appended(j, v) == submission[j].allocated \cup {v}

\* next_csres_value and JobCSRES.objects.create, for the next port of the file.
Take(j) ==
    /\ submission[j].pc = "render" /\ taken[j] < submission[j].wanted
    /\ \E v \in Ports \ submission[j].allocated :
           /\ ports' = [ports EXCEPT ![j] = @ \cup {v}]
           /\ submission' = [submission EXCEPT ![j].allocated = Appended(j, v)]
    /\ taken' = [taken EXCEPT ![j] = @ + 1]
    /\ UNCHANGED <<jobState, scheduled, flock, requeues, overlooked, restarted>>

\* NoMoreCSResException, or the process is killed: the row never gets a state.
RenderFails(j) ==
    /\ submission[j].pc = "render"
    /\ Goto(j, "done")
    /\ flock' = Nobody
    /\ UNCHANGED <<jobState, scheduled, ports, taken, requeues, overlooked, restarted>>

Rendered(j) ==
    /\ submission[j].pc = "render" /\ taken[j] = submission[j].wanted
    /\ Goto(j, "rendered")
    /\ flock' = Nobody
    /\ UNCHANGED <<jobState, scheduled, ports, taken, requeues, overlooked, restarted>>

\* The scheduler takes the job, or refuses it and the row is saved as completed.
SubmitToScheduler(j) ==
    /\ submission[j].pc = "rendered"
    /\ \/ /\ scheduled' = [scheduled EXCEPT ![j] = "live"]
          /\ Goto(j, "submitted")
          /\ UNCHANGED jobState
       \/ /\ jobState' = [jobState EXCEPT ![j] = "C"]
          /\ Goto(j, "done")
          /\ UNCHANGED scheduled
    /\ UNCHANGED <<ports, taken, flock, requeues, overlooked, restarted>>

\* What LiCO makes of the scheduler's answers on a live job, with one state for
\* those that wait and hold and one for those that run and are suspended.
Alive == {"Q", "R", "UN"}
Shown(j) == IF scheduled[j] = "live" THEN Alive ELSE {"C"}

\* The handler's last save: the state it asked for a moment ago; a job that
\* was over by then is saved as queuing, or by a rerun as completed.
FinalSave(j) ==
    /\ submission[j].pc = "submitted"
    /\ \E s \in Alive \cup Shown(j) : jobState' = [jobState EXCEPT ![j] = s]
    /\ Goto(j, "done")
    /\ UNCHANGED <<scheduled, ports, taken, flock, requeues, overlooked, restarted>>

\* query_job raises, or the process is killed.
FinalSaveFails(j) ==
    /\ submission[j].pc = "submitted"
    /\ Goto(j, "done")
    /\ UNCHANGED <<jobState, scheduled, ports, taken, flock, requeues, overlooked, restarted>>

\* A round of the sync process, which knows the job by its comment.
SyncUpdate(j) ==
    /\ scheduled[j] # "none"
    /\ \E s \in Shown(j) : s # jobState[j] /\ jobState' = [jobState EXCEPT ![j] = s]
    /\ UNCHANGED <<scheduled, ports, taken, submission, flock, requeues, overlooked, restarted>>

JobEnds(j) ==
    /\ scheduled[j] = "live"
    /\ scheduled' = [scheduled EXCEPT ![j] = "over"]
    /\ UNCHANGED <<jobState, ports, taken, submission, flock, requeues, overlooked, restarted>>

\* A requeued job runs its old file again, with the ports it had.
JobRequeued(j) ==
    /\ scheduled[j] = "over"
    /\ requeues < MaxRequeues /\ requeues' = requeues + 1
    /\ scheduled' = [scheduled EXCEPT ![j] = "live"]
    /\ restarted' = restarted \cup {j}
    /\ UNCHANGED <<jobState, ports, taken, submission, flock, overlooked>>

Next == \E j \in Jobs :
    \/ Create(j) \/ Look(j) \/ Take(j) \/ RenderFails(j) \/ Rendered(j)
    \/ SubmitToScheduler(j) \/ FinalSave(j) \/ FinalSaveFails(j)
    \/ SyncUpdate(j) \/ JobEnds(j) \/ JobRequeued(j)

Spec == Init /\ [][Next]_portVars

-----------------------------------------------------------------------------
\* The ports of one job are as many as it asked for, and no two jobs that run
\* have one in common; unless one of them had no waiting state when the other
\* looked, which the lock does not prevent, or runs again after it was over
\* (csres_render.py:54).
PortsApart ==
    /\ \A j \in Jobs : Cardinality(ports[j]) = taken[j]
    /\ \A j, k \in Jobs :
           (j # k /\ scheduled[j] = "live" /\ scheduled[k] = "live" /\ ports[j] \cap ports[k] # {}) =>
               \/ <<j, k>> \in overlooked \/ <<k, j>> \in overlooked
               \/ restarted \cap {j, k} # {}
===============================================================================
