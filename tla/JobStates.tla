----------------------------- MODULE JobStates -----------------------------
(***************************************************************************)
(* The vocabulary of the job application: the states a scheduler reports   *)
(* (library/scheduler .../base/job/job_state.py), the states LiCO keeps in *)
(* the Job table (core/apps/job .../base/job_state.py), the operate states *)
(* (base/job_operate_state.py) and the functions between them.  States are *)
(* the strings the source stores.                                          *)
(***************************************************************************)

\* What the scheduler adapters report (SchedulerJobState), by job state.
SchedCompleted == {"BF", "CA", "CD", "DL", "F", "NF", "OOM", "RV", "TO"}
SchedQueuing   == {"CF", "PD", "PR", "RF", "RH", "RQ", "SE"}
SchedRunning   == {"CG", "R", "RS", "SI", "SO", "ST"}
SchedHold      == {"RD", "HD"}
SchedSuspended == {"S"}
SchedUnknown   == {"UNKNOWN"}

SchedulerJobStates ==
    SchedCompleted \cup SchedQueuing \cup SchedRunning \cup SchedHold
        \cup SchedSuspended \cup SchedUnknown

\* Job.state.  "" is the column's default: the row exists and nothing has
\* been learnt from the scheduler yet.
JobStateValues == {"C", "Q", "R", "H", "S", "UN"}
NoState == ""

FinalStates      == {"C"}
WaitingStates    == {"Q", "R", "H", "S"}
RunningStates    == {"R", "S"}

\* Job.operate_state.
OperateStates == {"creating", "create_fail", "created", "cancelling", "cancelled"}

\* JobState.from_scheduler_job_state, with its KeyError branch.
FromSchedulerJobState(s) ==
    IF s \in SchedCompleted THEN "C"
    ELSE IF s \in SchedQueuing THEN "Q"
    ELSE IF s \in SchedRunning THEN "R"
    ELSE IF s \in SchedHold THEN "H"
    ELSE IF s \in SchedSuspended THEN "S"
    ELSE "UN"
=============================================================================
