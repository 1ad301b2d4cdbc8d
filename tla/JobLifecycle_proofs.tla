------------------------ MODULE JobLifecycle_proofs ------------------------
(***************************************************************************)
(* Proofs about JobLifecycle, for any jobs, requests, bounds and modes.    *)
(***************************************************************************)
EXTENDS JobLifecycle, TLAPS

-----------------------------------------------------------------------------
(* What the operators on rows return.                                      *)

\* The states of a live or finished job, by name.
LEMMA ReportMembers ==
  /\ {"PD", "R", "HD", "S", "UNKNOWN"} \subseteq Live
  /\ {"CD", "CA"} \subseteq Finished
  BY DEF Live, Finished

LEMMA SchedStatesMembers ==
  /\ Live \cup Finished \subseteq SchedStates
  /\ {"none", "gone", "PD", "R", "HD", "S", "UNKNOWN", "CD", "CA"} \subseteq SchedStates
  BY ReportMembers DEF SchedStates

\* Every report of the scheduler translates to a state of the Job table.
LEMMA FromStateType == \A s : FromSchedulerJobState(s) \in JobStateValues
  BY DEF FromSchedulerJobState, JobStateValues

\* update_job_by_scheduler_job turns a row into a row.
LEMMA UpdatedType ==
  ASSUME NEW r \in Row, NEW s \in Live \cup Finished
  PROVE  Updated(r, s) \in Row
  <1>1. s \in SchedulerJobStates
    BY DEF Live, Finished, SchedulerJobStates, SchedCompleted, SchedQueuing,
           SchedRunning, SchedHold, SchedSuspended, SchedUnknown
  <1>2. FromSchedulerJobState(s) \in JobStateValues
    BY FromStateType
  <1> QED
    BY <1>1, <1>2 DEF Updated, Row, OperateStates

\* The submission handlers' changes and the cleaning turn a row into a row.
LEMMA RowOperators ==
  ASSUME NEW r \in Row
  PROVE  /\ Pretended(r) \in Row
         /\ MarkCreated(r) \in Row
         /\ Cleaned(r) \in Row
  BY DEF Pretended, MarkCreated, Cleaned, Row, OperateStates, JobStateValues,
         SchedulerJobStates, SchedQueuing

\* A handler's changes of the operate state, the delete flag and the state of
\* its object.
LEMMA RowChanges ==
  ASSUME NEW r \in Row, NEW op \in OperateStates, NEW s \in JobStateValues
  PROVE  /\ [r EXCEPT !.op = op] \in Row
         /\ [r EXCEPT !.op = op, !.state = s] \in Row
         /\ [r EXCEPT !.state = s, !.op = op] \in Row
         /\ [r EXCEPT !.del = TRUE] \in Row
         /\ r.op \in OperateStates /\ r.state \in JobStateValues \cup {NoState}
  BY DEF Row

LEMMA NewRowType == NewRow \in Row
  BY DEF NewRow, Row, OperateStates

LEMMA OperateStatesMembers ==
  {"creating", "create_fail", "created", "cancelling", "cancelled"} \subseteq OperateStates
  BY DEF OperateStates

LEMMA IdleType == Idle \in Request
  BY NewRowType, OperateStatesMembers DEF Idle, Request

\* A request with a job may change its program counter and its object.
LEMMA RequestChanges ==
  ASSUME NEW q \in Request, q.pc \in {"save", "scancel", "rollback", "restore", "delsave"}
  PROVE  /\ q.job \in Jobs /\ q.mem \in Row /\ q.prev \in OperateStates
         /\ \A pc \in {"save", "scancel", "rollback", "restore", "delsave"}, m \in Row :
              [q EXCEPT !.pc = pc] \in Request /\ [q EXCEPT !.pc = pc, !.mem = m] \in Request
  BY DEF Request

\* A full save keeps the table a table and the reasons reasons.
LEMMA SaveRowType ==
  ASSUME NEW j \in Jobs, NEW r \in Row, NEW why \in Reasons,
         row \in [Jobs -> Row], escaped \in [Jobs -> SUBSET Reasons],
         SaveRow(j, r, why)
  PROVE  /\ row' \in [Jobs -> Row]
         /\ escaped' \in [Jobs -> SUBSET Reasons]
  BY DEF SaveRow

-----------------------------------------------------------------------------
(* Type correctness.                                                       *)

LEMMA InitType == Init => TypeOK
  BY JobLifecycleAssumption, NewRowType, IdleType, SchedStatesMembers
     DEF Init, TypeOK, SchedulerOK, TableOK, HandlersOK, RoundOK, HistoryOK, Submission

LEMMA SchedType ==
  ASSUME TypeOK, SchedNext
  PROVE  TypeOK'
  <1> USE DEF SchedStep, dbVars, roundVars, histVars, TypeOK
  <1>1. /\ TableOK' /\ HandlersOK' /\ RoundOK' /\ HistoryOK'
    <2>1. SchedStep
      BY DEF SchedNext, SchedStart, SchedEnd, SchedUnknownReport, SchedForget,
             ConsoleSubmit, Outage, Recovery
    <2> QED
      BY <2>1 DEF TableOK, HandlersOK, RoundOK, HistoryOK
  <1>2. SchedulerOK'
    <2>1. ASSUME NEW j \in Jobs, NEW s \in SchedStates,
                 sch' = [sch EXCEPT ![j] = s], UNCHANGED <<up, outages>>
          PROVE  SchedulerOK'
      BY <2>1 DEF SchedulerOK
    <2>2. ASSUME NEW j \in Jobs, SchedStart(j) \/ SchedEnd(j) \/ SchedForget(j)
          PROVE  SchedulerOK'
      BY <2>1, <2>2, SchedStatesMembers DEF SchedStart, SchedEnd, SchedForget
    <2>3. ASSUME NEW j \in Jobs, SchedUnknownReport(j) \/ ConsoleSubmit(j)
          PROVE  SchedulerOK'
      BY <2>1, <2>3, SchedStatesMembers DEF SchedUnknownReport, ConsoleSubmit
    <2>4. CASE Outage
      <3>1. outages' \in Nat
        BY <2>4 DEF SchedulerOK, Outage
      <3>2. up' \in BOOLEAN /\ sch' \in [Jobs -> SchedStates]
        BY <2>4, Zenon DEF SchedulerOK, Outage
      <3> QED
        BY <3>1, <3>2 DEF SchedulerOK
    <2>5. CASE Recovery
      BY <2>5 DEF SchedulerOK, Recovery
    <2> QED
      BY <2>2, <2>3, <2>4, <2>5 DEF SchedNext
  <1> QED
    BY <1>1, <1>2

LEMMA SubmissionType ==
  ASSUME TypeOK, NEW j \in Jobs, SubmitCreate(j) \/ SubProgress(j)
  PROVE  TypeOK'
  <1> USE DEF SubStep, dbVars, schedVars, roundVars, TypeOK
  <1>a. sub[j].mem \in Row /\ {"stale", "rerun"} \subseteq Reasons
    BY DEF HandlersOK, Submission, Reasons
  <1>b. /\ sub[j] \in Submission
        /\ \A pc \in {"ready", "sent", "refused", "queried", "done"} :
             [sub[j] EXCEPT !.pc = pc] \in Submission
    BY DEF HandlersOK, Submission
  <1>1. CASE SubmitCreate(j)
    <2>1. [pc |-> "made", mem |-> NewRow] \in Submission
      BY NewRowType DEF Submission
    <2> QED
      BY <1>1, <2>1, NewRowType
         DEF SubmitCreate, SchedulerOK, TableOK, HandlersOK, RoundOK, HistoryOK
  <1>2. CASE SubmitSaveFile(j)
    <2>1. row' \in [Jobs -> Row] /\ escaped' \in [Jobs -> SUBSET Reasons]
      BY <1>2, <1>a, SaveRowType DEF SubmitSaveFile, TableOK, HistoryOK
    <2>2. sub' \in [Jobs -> Submission]
      BY <1>2, <1>b DEF SubmitSaveFile, HandlersOK
    <2> QED
      BY <1>2, <2>1, <2>2 DEF SubmitSaveFile, SchedulerOK, TableOK, HandlersOK, RoundOK, HistoryOK
  <1>3. CASE SubmitToScheduler(j)
    <2>1. sub' \in [Jobs -> Submission]
      BY <1>3, <1>b DEF SubmitToScheduler, HandlersOK
    <2> QED
      BY <1>3, <2>1, SchedStatesMembers
         DEF SubmitToScheduler, SchedulerOK, TableOK, HandlersOK, RoundOK, HistoryOK
  <1>4. CASE SubmitRefused(j)
    <2>1. [sub[j].mem EXCEPT !.op = "create_fail", !.state = "C"] \in Row
      BY <1>a, RowChanges, OperateStatesMembers DEF JobStateValues
    <2>2. [pc  |-> "refused",
           mem |-> [sub[j].mem EXCEPT !.op = "create_fail", !.state = "C"]] \in Submission
      BY <2>1 DEF Submission
    <2> QED
      BY <1>4, <2>2 DEF SubmitRefused, SchedulerOK, TableOK, HandlersOK, RoundOK, HistoryOK
  <1>5. CASE SubmitQuery(j)
    <2> DEFINE seen == Updated(sub[j].mem, sch[j])
               mem  == MarkCreated(IF Kind[j] = "rerun" THEN seen ELSE Pretended(seen))
    <2>1. sch[j] \in Live \cup Finished
      BY <1>5 DEF SubmitQuery, Visible
    <2>2. seen \in Row
      BY <1>a, <2>1, UpdatedType
    <2>3. mem \in Row
      BY <2>2, RowOperators
    <2>4. [pc |-> "queried", mem |-> mem] \in Submission
      BY <2>3 DEF Submission
    <2>5. sub' = [sub EXCEPT ![j] = [pc |-> "queried", mem |-> mem]]
      BY <1>5 DEF SubmitQuery
    <2> HIDE DEF mem
    <2> QED
      BY <1>5, <2>4, <2>5 DEF SubmitQuery, SchedulerOK, TableOK, HandlersOK, RoundOK, HistoryOK
  <1>6. CASE SubmitFinalSave(j)
    <2>1. row' \in [Jobs -> Row] /\ escaped' \in [Jobs -> SUBSET Reasons]
      BY <1>6, <1>a, SaveRowType DEF SubmitFinalSave, TableOK, HistoryOK
    <2>2. [pc |-> "done", mem |-> NewRow] \in Submission
      BY NewRowType DEF Submission
    <2> QED
      BY <1>6, <2>1, <2>2 DEF SubmitFinalSave, SchedulerOK, TableOK, HandlersOK, RoundOK, HistoryOK
  <1>7. CASE SubmitDies(j)
    <2>1. [pc |-> "done", mem |-> NewRow] \in Submission
      BY NewRowType DEF Submission
    <2> QED
      BY <1>7, <2>1 DEF SubmitDies, SchedulerOK, TableOK, HandlersOK, RoundOK, HistoryOK
  <1> QED
    BY <1>1, <1>2, <1>3, <1>4, <1>5, <1>6, <1>7 DEF SubProgress

LEMMA RequestType ==
  ASSUME TypeOK, NEW r \in Requests, ReqBegin(r) \/ ReqProgress(r)
  PROVE  TypeOK'
  <1> USE DEF ReqStep, dbVars, schedVars, roundVars, TypeOK
  <1>a. req[r] \in Request /\ "stale" \in Reasons
    BY DEF HandlersOK, Reasons
  <1>1. ASSUME NEW j \in Jobs, CancelRead(r, j)
        PROVE  TypeOK'
    <2>1. /\ [row[j] EXCEPT !.op = "cancelling"] \in Row
          /\ row[j].op \in OperateStates
      BY RowChanges, OperateStatesMembers DEF TableOK, JobStateValues
    <2>2. [pc |-> "save", job |-> j, prev |-> row[j].op, ids |-> {},
           mem |-> [row[j] EXCEPT !.op = "cancelling"]] \in Request
      BY <2>1 DEF Request
    <2> QED
      BY <1>1, <2>2 DEF CancelRead, SchedulerOK, TableOK, HandlersOK, RoundOK, HistoryOK
  <1>2. ASSUME NEW j \in Jobs, DeleteRead(r, j)
        PROVE  TypeOK'
    <2>1. [row[j] EXCEPT !.del = TRUE] \in Row
      BY RowChanges, OperateStatesMembers DEF TableOK, JobStateValues
    <2>2. [pc |-> "delsave", job |-> j, prev |-> "created", ids |-> {},
           mem |-> [row[j] EXCEPT !.del = TRUE]] \in Request
      BY <2>1, OperateStatesMembers DEF Request
    <2> QED
      BY <1>2, <2>2 DEF DeleteRead, SchedulerOK, TableOK, HandlersOK, RoundOK, HistoryOK
  <1>3. ASSUME NEW j \in Jobs, CommentRead(r, j)
        PROVE  TypeOK'
    <2>1. [pc |-> "restore", job |-> j, prev |-> "created", ids |-> {},
           mem |-> row[j]] \in Request
      BY OperateStatesMembers DEF Request, TableOK
    <2> QED
      BY <1>3, <2>1 DEF CommentRead, SchedulerOK, TableOK, HandlersOK, RoundOK, HistoryOK
  <1>4. ASSUME NEW js \in SUBSET Jobs, BatchCancel(r, js)
        PROVE  TypeOK'
    <2>1. Listed(js) \subseteq Jobs
      BY DEF Listed
    <2>2. [Idle EXCEPT !.pc = "mark", !.ids = Listed(js)] \in Request
      BY <2>1, NewRowType, OperateStatesMembers DEF Idle, Request
    <2>3. Cancelled(Reach(Listed(js), NoId(Listed(js)))) \in [Jobs -> SchedStates]
      BY SchedStatesMembers DEF SchedulerOK, Cancelled
    <2>4. /\ sch' \in [Jobs -> SchedStates]
          /\ req' \in [Requests -> Request]
      BY <1>4, <2>2, <2>3 DEF BatchCancel, SchedulerOK, HandlersOK
    <2> QED
      BY <1>4, <2>4 DEF BatchCancel, SchedulerOK, TableOK, HandlersOK, RoundOK, HistoryOK
  <1>5. CASE CancelSave(r)
    <2>1. /\ req[r].job \in Jobs /\ req[r].mem \in Row
          /\ [req[r] EXCEPT !.pc = "scancel"] \in Request
      BY <1>5, <1>a, RequestChanges, NewRowType DEF CancelSave
    <2>2. row' \in [Jobs -> Row] /\ escaped' \in [Jobs -> SUBSET Reasons]
      BY <1>5, <1>a, <2>1, SaveRowType DEF CancelSave, TableOK, HistoryOK
    <2> QED
      BY <1>5, <2>1, <2>2 DEF CancelSave, SchedulerOK, TableOK, HandlersOK, RoundOK, HistoryOK
  <1>6. CASE CancelAccepted(r)
    <2>1. Cancelled(Reach({req[r].job}, ~req[r].mem.ident)) \in [Jobs -> SchedStates]
      BY SchedStatesMembers DEF SchedulerOK, Cancelled
    <2>2. sch' \in [Jobs -> SchedStates]
      BY <1>6, <2>1 DEF CancelAccepted, SchedulerOK
    <2> QED
      BY <1>6, <2>2, IdleType
         DEF CancelAccepted, SchedulerOK, TableOK, HandlersOK, RoundOK, HistoryOK
  <1>7. CASE CancelRejected(r)
    <2>1. [req[r] EXCEPT !.pc = "rollback"] \in Request
      BY <1>7, <1>a, RequestChanges, NewRowType DEF CancelRejected
    <2> QED
      BY <1>7, <2>1 DEF CancelRejected, SchedulerOK, TableOK, HandlersOK, RoundOK, HistoryOK
  <1>8. CASE CancelRollbackRead(r)
    <2> DEFINE back == [row[req[r].job] EXCEPT !.op = req[r].prev]
    <2>1. req[r].job \in Jobs /\ req[r].prev \in OperateStates
      BY <1>8, <1>a, RequestChanges, NewRowType DEF CancelRollbackRead
    <2>2. back \in Row
      BY <2>1, RowChanges DEF TableOK, JobStateValues
    <2>3. [req[r] EXCEPT !.pc = "restore", !.mem = back] \in Request
      BY <1>8, <1>a, <2>2, RequestChanges DEF CancelRollbackRead
    <2> QED
      BY <1>8, <2>3 DEF CancelRollbackRead, SchedulerOK, TableOK, HandlersOK, RoundOK, HistoryOK
  <1>9. CASE RestoreSave(r)
    <2>1. req[r].job \in Jobs /\ req[r].mem \in Row
      BY <1>9, <1>a, RequestChanges, NewRowType DEF RestoreSave
    <2>2. row' \in [Jobs -> Row] /\ escaped' \in [Jobs -> SUBSET Reasons]
      BY <1>9, <1>a, <2>1, SaveRowType DEF RestoreSave, TableOK, HistoryOK
    <2> QED
      BY <1>9, <2>2, IdleType DEF RestoreSave, SchedulerOK, TableOK, HandlersOK, RoundOK, HistoryOK
  <1>10. CASE DeleteSave(r)
    <2>1. req[r].job \in Jobs /\ req[r].mem \in Row
      BY <1>10, <1>a, RequestChanges, NewRowType DEF DeleteSave
    <2>2. row' \in [Jobs -> Row] /\ escaped' \in [Jobs -> SUBSET Reasons]
      BY <1>10, <1>a, <2>1, SaveRowType DEF DeleteSave, TableOK, HistoryOK
    <2> QED
      BY <1>10, <2>1, <2>2, IdleType
         DEF DeleteSave, SchedulerOK, TableOK, HandlersOK, RoundOK, HistoryOK
  <1>11. CASE BatchCancelMark(r)
    <2>1. \A j \in Jobs : [row[j] EXCEPT !.op = "cancelling"] \in Row
      BY RowChanges, OperateStatesMembers DEF TableOK, JobStateValues
    <2>2. row' \in [Jobs -> Row]
      BY <1>11, <2>1 DEF TableOK, BatchCancelMark
    <2> QED
      BY <1>11, <2>2, IdleType
         DEF BatchCancelMark, SchedulerOK, TableOK, HandlersOK, RoundOK, HistoryOK
  <1>12. CASE RequestDies(r)
    BY <1>12, IdleType DEF RequestDies, SchedulerOK, TableOK, HandlersOK, RoundOK, HistoryOK
  <1> QED
    BY <1>1, <1>2, <1>3, <1>4, <1>5, <1>6, <1>7, <1>8, <1>9, <1>10, <1>11, <1>12
       DEF ReqBegin, ReqProgress

LEMMA JobActionType ==
  ASSUME TypeOK, NEW js \in SUBSET Jobs, NEW a \in SchedulerActions, JobAction(js, a)
  PROVE  TypeOK'
  <1>1. To(a) \in SchedStates
    BY SchedStatesMembers DEF To, SchedulerActions
  <1>2. sch' \in [Jobs -> SchedStates]
    BY <1>1 DEF TypeOK, SchedulerOK, JobAction
  <1> QED
    BY <1>2 DEF TypeOK, JobAction, SchedStep, dbVars, roundVars, histVars,
                SchedulerOK, TableOK, HandlersOK, RoundOK, HistoryOK

\* What Drop does to the round.
LEMMA DropType ==
  ASSUME RoundOK, NEW j \in Jobs, Drop(j)
  PROVE  /\ todo' \subseteq Jobs /\ unknown' \subseteq Jobs
         /\ snap' \in [Jobs -> Row]
         /\ obs' \in [Jobs -> Live \cup Finished \cup {"none"}]
  BY NewRowType DEF RoundOK, Drop

LEMMA SeenType ==
  ASSUME RoundOK, HistoryOK, NEW j \in Jobs, Seen(j)
  PROVE  /\ cache' \in [Jobs -> {"no", "young", "old"}]
         /\ absent' \in [Jobs -> 0 .. 2]
  BY DEF RoundOK, HistoryOK, Seen

LEMMA SyncType ==
  ASSUME TypeOK, SyncNext
  PROVE  TypeOK'
  <1> USE DEF SyncStep, schedVars, dbVars, histVars, TypeOK
  <1>1. CASE SyncList
    <2>1. {j \in Jobs : Waiting(j)} \subseteq Jobs
      OBVIOUS
    <2>2. todo' \subseteq Jobs /\ pending' \subseteq Jobs /\ snap' \in [Jobs -> Row]
      BY <1>1, NewRowType DEF SyncList, TableOK
    <2>3. ypc' \in {"ask", "handle"} /\ ycur' = NoJob
      BY <1>1 DEF SyncList, RoundOK
    <2> QED
      BY <1>1, <2>2, <2>3 DEF SyncList, SchedulerOK, TableOK, HandlersOK, RoundOK, HistoryOK
  <1>2. CASE SyncAskFull
    <2>1. obs' \in [Jobs -> Live \cup Finished \cup {"none"}] /\ pending' \subseteq Jobs
      BY <1>2 DEF SyncAskFull, Visible
    <2>2. ypc' = "handle" /\ ycur' = NoJob
      BY <1>2 DEF SyncAskFull, RoundOK
    <2> QED
      BY <1>2, <2>1, <2>2 DEF SyncAskFull, SchedulerOK, TableOK, HandlersOK, RoundOK, HistoryOK
  <1>3. CASE SyncAbort
    <2>1. ypc' = "idle" /\ ycur' = NoJob
      <3>1. ypc \in {"ask", "handle", "idle"} => ycur = NoJob
        BY DEF RoundOK
      <3> QED
        BY <1>3, <3>1 DEF SyncAbort
    <2> QED
      BY <1>3, <2>1, NewRowType
         DEF SyncAbort, SchedulerOK, TableOK, HandlersOK, RoundOK, HistoryOK
  <1>4. ASSUME NEW j \in Jobs, SyncLookup(j)
        PROVE  TypeOK'
    <2>1. snap' \in [Jobs -> Row] /\ unknown' \subseteq Jobs
      BY <1>4 DEF SyncLookup, RoundOK, TableOK
    <2> QED
      BY <1>4, <2>1 DEF SyncLookup, SchedulerOK, TableOK, HandlersOK, RoundOK, HistoryOK
  <1>5. ASSUME NEW j \in Jobs, SyncAskOwns(j)
        PROVE  TypeOK'
    <2>1. obs' \in [Jobs -> Live \cup Finished \cup {"none"}]
      BY <1>5 DEF SyncAskOwns, Visible, RoundOK
    <2>2. todo' \subseteq Jobs /\ snap' \in [Jobs -> Row]
      BY <1>5, NewRowType DEF SyncAskOwns, RoundOK
    <2> QED
      BY <1>5, <2>1, <2>2 DEF SyncAskOwns, SchedulerOK, TableOK, HandlersOK, RoundOK, HistoryOK
  <1>6. ASSUME NEW j \in Jobs, SyncCreateRow(j)
        PROVE  TypeOK'
    <2> DEFINE mem == [Updated(NewRow, obs[j]) EXCEPT !.op = "created"]
    <2>1. obs[j] \in Live \cup Finished
      BY <1>6 DEF SyncCreateRow, RoundOK
    <2>2. Updated(NewRow, obs[j]) \in Row
      BY <2>1, UpdatedType, NewRowType
    <2>3. mem \in Row
      BY <2>2, RowChanges, OperateStatesMembers DEF JobStateValues
    <2>4. /\ todo' \subseteq Jobs /\ unknown' \subseteq Jobs /\ snap' \in [Jobs -> Row]
          /\ obs' \in [Jobs -> Live \cup Finished \cup {"none"}]
      BY <1>6, DropType DEF SyncCreateRow
    <2>5. ymem' = mem
      BY <1>6 DEF SyncCreateRow
    <2> HIDE DEF mem
    <2>6. RoundOK'
      BY <1>6, <2>3, <2>4, <2>5 DEF SyncCreateRow, RoundOK
    <2>7. TableOK' /\ HandlersOK' /\ HistoryOK' /\ SchedulerOK'
      BY <1>6, NewRowType, IdleType DEF SyncCreateRow, SchedulerOK, TableOK, HandlersOK, RoundOK, HistoryOK
    <2> QED
      BY <2>6, <2>7
  <1>7. CASE SyncSaveConsole
    <2>1. ycur \in Jobs /\ ymem \in Row
      BY <1>7 DEF SyncSaveConsole, RoundOK
    <2>2. \/ ypc' = "handle" /\ ycur' = NoJob
          \/ ypc' = "charge" /\ ycur' \in Jobs
      BY <1>7, <2>1 DEF SyncSaveConsole
    <2>3. row' \in [Jobs -> Row]
      BY <1>7, <2>1 DEF SyncSaveConsole, TableOK
    <2> QED
      BY <1>7, <2>2, <2>3, NewRowType DEF SyncSaveConsole, SchedulerOK, TableOK, HandlersOK, RoundOK, HistoryOK
  <1>8. ASSUME NEW j \in Jobs, SyncMissing(j)
        PROVE  TypeOK'
    <2>1. /\ todo' \subseteq Jobs /\ unknown' \subseteq Jobs /\ snap' \in [Jobs -> Row]
          /\ obs' \in [Jobs -> Live \cup Finished \cup {"none"}]
      BY <1>8, DropType DEF SyncMissing
    <2>2. /\ cache' \in [Jobs -> {"no", "young", "old"}]
          /\ absent' \in [Jobs -> 0 .. 2]
      BY <1>8 DEF SyncMissing, RoundOK, HistoryOK
    <2> QED
      BY <1>8, <2>1, <2>2 DEF SyncMissing, SchedulerOK, TableOK, HandlersOK, RoundOK, HistoryOK
  <1>9. ASSUME NEW j \in Jobs, SyncReloadMissing(j)
        PROVE  TypeOK'
    <2>1. /\ todo' \subseteq Jobs /\ unknown' \subseteq Jobs /\ snap' \in [Jobs -> Row]
          /\ obs' \in [Jobs -> Live \cup Finished \cup {"none"}]
      BY <1>9, DropType DEF SyncReloadMissing
    <2>2. /\ cache' \in [Jobs -> {"no", "young", "old"}]
          /\ absent' \in [Jobs -> 0 .. 2]
      BY <1>9 DEF SyncReloadMissing, RoundOK, HistoryOK
    <2>3. ymem' \in Row
      <3>1. row[j] \in Row
        BY DEF TableOK
      <3>2. (IF row[j].op = "cancelling" THEN "cancelled" ELSE row[j].op) \in OperateStates
        BY <3>1, OperateStatesMembers DEF Row
      <3> QED
        BY <1>9, <3>1, <3>2 DEF SyncReloadMissing, Row, JobStateValues
    <2>4. ypc' \in {"saveMissing", "saveCancelled"} /\ ycur' \in Jobs
      BY <1>9 DEF SyncReloadMissing
    <2> QED
      BY <1>9, <2>1, <2>2, <2>3, <2>4 DEF SyncReloadMissing, SchedulerOK, TableOK, HandlersOK, RoundOK, HistoryOK
  <1>10. CASE SyncSaveMissing
    <2>1. ycur \in Jobs /\ ymem \in Row
      BY <1>10 DEF SyncSaveMissing, RoundOK
    <2>2. row' \in [Jobs -> Row]
      BY <1>10, <2>1 DEF SyncSaveMissing, TableOK, Row
    <2> QED
      BY <1>10, <2>2, NewRowType DEF SyncSaveMissing, SchedulerOK, TableOK, HandlersOK, RoundOK, HistoryOK
  <1>11. ASSUME NEW j \in Jobs, SyncSkip(j)
        PROVE  TypeOK'
    <2>1. /\ todo' \subseteq Jobs /\ unknown' \subseteq Jobs /\ snap' \in [Jobs -> Row]
          /\ obs' \in [Jobs -> Live \cup Finished \cup {"none"}]
      BY <1>11, DropType DEF SyncSkip
    <2>2. /\ cache' \in [Jobs -> {"no", "young", "old"}]
          /\ absent' \in [Jobs -> 0 .. 2]
      BY <1>11, SeenType DEF SyncSkip
    <2> QED
      BY <1>11, <2>1, <2>2 DEF SyncSkip, SchedulerOK, TableOK, HandlersOK, RoundOK, HistoryOK
  <1>12. ASSUME NEW j \in Jobs, SyncUpdate(j)
        PROVE  TypeOK'
    <2>1. /\ todo' \subseteq Jobs /\ unknown' \subseteq Jobs /\ snap' \in [Jobs -> Row]
          /\ obs' \in [Jobs -> Live \cup Finished \cup {"none"}]
      BY <1>12, DropType DEF SyncUpdate
    <2>2. /\ cache' \in [Jobs -> {"no", "young", "old"}]
          /\ absent' \in [Jobs -> 0 .. 2]
      BY <1>12, SeenType DEF SyncUpdate
    <2>3. obs[j] \in Live \cup Finished
      BY <1>12 DEF SyncUpdate, RoundOK
    <2>4. Updated(row[j], obs[j]) \in Row
      BY <2>3, UpdatedType DEF TableOK
    <2>5. row' \in [Jobs -> Row]
      BY <1>12, <2>4 DEF SyncUpdate, SaveUpdate, TableOK
    <2>6. \/ ypc' = "handle" /\ ycur' = NoJob
          \/ ypc' = "charge" /\ ycur' \in Jobs
      BY <1>12 DEF SyncUpdate, Handling, RoundOK
    <2>7. charged' \subseteq Jobs /\ escaped' \in [Jobs -> SUBSET Reasons]
      BY <1>12 DEF SyncUpdate, HistoryOK
    <2> QED
      BY <1>12, <2>1, <2>2, <2>5, <2>6, <2>7 DEF SyncUpdate, SchedulerOK, TableOK, HandlersOK, RoundOK, HistoryOK
  <1>13. CASE SyncCharge
    <2>1. ycur \in Jobs /\ "client" \in Reasons
      BY <1>13 DEF SyncCharge, RoundOK, Reasons
    <2>2. charged' \subseteq Jobs /\ escaped' \in [Jobs -> SUBSET Reasons]
      BY <1>13, <2>1 DEF SyncCharge, HistoryOK
    <2> QED
      BY <1>13, <2>2 DEF SyncCharge, SchedulerOK, TableOK, HandlersOK, RoundOK, HistoryOK
  <1>14. CASE SyncClean
    <2>1. \A j \in Jobs : Cleaned(row[j]) \in Row
      BY RowOperators DEF TableOK
    <2>2. row' \in [Jobs -> Row]
      BY <1>14, <2>1 DEF SyncClean
    <2> QED
      BY <1>14, <2>2 DEF SyncClean, roundVars, SchedulerOK, TableOK, HandlersOK, RoundOK, HistoryOK
  <1> QED
    BY <1>1, <1>2, <1>3, <1>4, <1>5, <1>6, <1>7, <1>8, <1>9, <1>10, <1>11, <1>12,
       <1>13, <1>14 DEF SyncNext

LEMMA ClockAndCrashType ==
  ASSUME TypeOK, SyncCrash \/ \E j \in Jobs : GraceExpires(j)
  PROVE  TypeOK'
  <1> USE DEF schedVars, dbVars, histVars, TypeOK
  <1>1. CASE SyncCrash
    <2>1. escaped' \in [Jobs -> SUBSET Reasons]
      BY <1>1 DEF SyncCrash, HistoryOK, RoundOK, Reasons
    <2>2. RoundOK'
      BY <1>1, NewRowType DEF SyncCrash, RoundOK
    <2> QED
      BY <1>1, <2>1, <2>2 DEF SyncCrash, SchedulerOK, TableOK, HandlersOK, HistoryOK
  <1>2. ASSUME NEW j \in Jobs, GraceExpires(j)
        PROVE  TypeOK'
    BY <1>2 DEF GraceExpires, roundVars, SchedulerOK, TableOK, HandlersOK, RoundOK, HistoryOK
  <1> QED
    BY <1>1, <1>2

LEMMA StutterType == ASSUME TypeOK, UNCHANGED vars PROVE TypeOK'
  BY DEF vars, schedVars, dbVars, roundVars, histVars, TypeOK, SchedulerOK, TableOK, HandlersOK, RoundOK, HistoryOK

LEMMA TypeStep == TypeOK /\ [Next]_vars => TypeOK'
  BY SchedType, SubmissionType, RequestType, JobActionType, SyncType, ClockAndCrashType,
     StutterType DEF Next

\* The objects of every handler stay rows, handlers in the middle of their work
\* and the sync process between two writes always have their job.
THEOREM TypeCorrect == Spec => []TypeOK
  <1>1. Init => TypeOK
    BY InitType
  <1> QED
    BY <1>1, TypeStep, PTL DEF Spec

-----------------------------------------------------------------------------
(* A job is completed by its absence only after two rounds without it.     *)
(* GraceIsContinuous alone is not inductive: a job in the cache must have  *)
(* been missed at least once.                                              *)

CacheMeansAbsent == \A j \in Jobs : cache[j] # "no" => absent[j] \in {1, 2}
GraceInv == CacheMeansAbsent /\ GraceIsContinuous

\* What the sync process does with cache, absent and a missing job in a step.
LEMMA GraceSteps ==
  ASSUME TypeOK, GraceInv,
         \/ UNCHANGED <<cache, absent>>
         \/ \E j \in Jobs : Seen(j)
         \/ \E j \in Jobs : SyncMissing(j)
         \/ \E j \in Jobs : GraceExpires(j),
         \/ UNCHANGED <<ypc, ycur>> /\ UNCHANGED absent
         \/ ypc' \notin {"saveMissing", "saveCancelled"}
  PROVE  GraceInv'
  <1> USE DEF TypeOK, RoundOK, HistoryOK
  <1>1. CacheMeansAbsent'
    <2>1. CASE UNCHANGED <<cache, absent>>
      BY <2>1 DEF GraceInv, CacheMeansAbsent
    <2>2. ASSUME NEW j \in Jobs, Seen(j)
          PROVE  CacheMeansAbsent'
      BY <2>2 DEF GraceInv, CacheMeansAbsent, Seen
    <2>3. ASSUME NEW j \in Jobs, SyncMissing(j)
          PROVE  CacheMeansAbsent'
      BY <2>3 DEF GraceInv, CacheMeansAbsent, SyncMissing
    <2>4. ASSUME NEW j \in Jobs, GraceExpires(j)
          PROVE  CacheMeansAbsent'
      BY <2>4 DEF GraceInv, CacheMeansAbsent, GraceExpires, histVars
    <2> QED
      BY <2>1, <2>2, <2>3, <2>4
  <1>2. GraceIsContinuous'
    BY DEF GraceInv, GraceIsContinuous
  <1> QED
    BY <1>1, <1>2 DEF GraceInv

LEMMA GraceReload ==
  ASSUME TypeOK, GraceInv, NEW j \in Jobs, SyncReloadMissing(j)
  PROVE  GraceInv'
  <1>1. absent[j] \in {1, 2}
    BY DEF SyncReloadMissing, GraceInv, CacheMeansAbsent
  <1>2. absent' = [absent EXCEPT ![j] = 2] /\ cache' = [cache EXCEPT ![j] = "no"] /\ ycur' = j
    <2>1. (IF absent[j] = 0 THEN 1 ELSE 2) = 2
      BY <1>1
    <2> QED
      BY <2>1, Zenon DEF SyncReloadMissing
  <1> QED
    BY <1>2 DEF GraceInv, CacheMeansAbsent, GraceIsContinuous, TypeOK, RoundOK, HistoryOK

LEMMA GraceSync ==
  ASSUME TypeOK, GraceInv, SyncNext
  PROVE  GraceInv'
  <1> USE DEF histVars
  <1>1. CASE SyncList \/ SyncAskFull \/ SyncAbort \/ SyncCharge \/ SyncClean
    <2>1. UNCHANGED <<cache, absent>>
      BY <1>1 DEF SyncList, SyncAskFull, SyncAbort, SyncCharge, SyncClean
    <2>2. ypc' \notin {"saveMissing", "saveCancelled"}
      BY <1>1 DEF SyncList, SyncAskFull, SyncAbort, SyncCharge, SyncClean
    <2> QED
      BY <2>1, <2>2, GraceSteps
  <1>2. CASE SyncSaveConsole \/ SyncSaveMissing
    BY <1>2, GraceSteps DEF SyncSaveConsole, SyncSaveMissing
  <1>3. ASSUME NEW j \in Jobs, SyncLookup(j) \/ SyncAskOwns(j) \/ SyncCreateRow(j)
        PROVE  GraceInv'
    BY <1>3, GraceSteps DEF SyncLookup, SyncAskOwns, SyncCreateRow
  <1>4. ASSUME NEW j \in Jobs, SyncMissing(j)
        PROVE  GraceInv'
    BY <1>4, GraceSteps DEF SyncMissing, Handling
  <1>5. ASSUME NEW j \in Jobs, SyncReloadMissing(j)
        PROVE  GraceInv'
    BY <1>5, GraceReload
  <1>6. ASSUME NEW j \in Jobs, SyncSkip(j) \/ SyncUpdate(j)
        PROVE  GraceInv'
    BY <1>6, GraceSteps DEF SyncSkip, SyncUpdate, Handling
  <1> QED
    BY <1>1, <1>2, <1>3, <1>4, <1>5, <1>6 DEF SyncNext

LEMMA GraceOthers ==
  ASSUME TypeOK, GraceInv,
         \/ SchedNext
         \/ \E j \in Jobs : SubmitCreate(j) \/ SubProgress(j) \/ GraceExpires(j)
         \/ \E r \in Requests : ReqBegin(r) \/ ReqProgress(r)
         \/ \E js \in SUBSET Jobs, a \in SchedulerActions : JobAction(js, a)
  PROVE  GraceInv'
  <1>1. CASE SchedNext
    BY <1>1, GraceSteps
       DEF SchedNext, SchedStart, SchedEnd, SchedUnknownReport, SchedForget,
           ConsoleSubmit, Outage, Recovery, SchedStep, roundVars, histVars
  <1>2. ASSUME NEW j \in Jobs, SubmitCreate(j) \/ SubProgress(j)
        PROVE  GraceInv'
    BY <1>2, GraceSteps
       DEF SubProgress, SubmitCreate, SubmitSaveFile, SubmitToScheduler, SubmitRefused,
           SubmitQuery, SubmitFinalSave, SubmitDies, SubStep, roundVars
  <1>3. ASSUME NEW j \in Jobs, GraceExpires(j)
        PROVE  GraceInv'
    BY <1>3, GraceSteps DEF GraceExpires, roundVars, histVars
  <1>4. ASSUME NEW r \in Requests, ReqBegin(r)
        PROVE  GraceInv'
    BY <1>4, GraceSteps
       DEF ReqBegin, CancelRead, DeleteRead, CommentRead, BatchCancel, ReqStep, roundVars
  <1>5. ASSUME NEW r \in Requests, ReqProgress(r)
        PROVE  GraceInv'
    BY <1>5, GraceSteps
       DEF ReqProgress, CancelSave, CancelAccepted, CancelRejected, CancelRollbackRead,
           RestoreSave, DeleteSave, BatchCancelMark, RequestDies, ReqStep, roundVars
  <1>6. ASSUME NEW js \in SUBSET Jobs, NEW a \in SchedulerActions, JobAction(js, a)
        PROVE  GraceInv'
    BY <1>6, GraceSteps DEF JobAction, SchedStep, roundVars, histVars
  <1> QED
    BY <1>1, <1>2, <1>3, <1>4, <1>5, <1>6

\* Whatever the outages, crashes and interleavings, the sync process never
\* completes a job that the last round but one still saw in the scheduler.
THEOREM GraceHolds == Spec => []GraceIsContinuous
  <1>1. Init => TypeOK /\ GraceInv
    BY InitType DEF Init, GraceInv, CacheMeansAbsent, GraceIsContinuous
  <1>2. TypeOK /\ GraceInv /\ TypeOK' /\ [Next]_vars => GraceInv'
    <2> SUFFICES ASSUME TypeOK, GraceInv, [Next]_vars PROVE GraceInv'
      OBVIOUS
    <2>1. CASE SyncNext
      BY <2>1, GraceSync
    <2>2. CASE SyncCrash
      BY <2>2 DEF SyncCrash, GraceInv, CacheMeansAbsent, GraceIsContinuous
    <2>3. CASE UNCHANGED vars
      BY <2>3 DEF vars, roundVars, histVars, GraceInv, CacheMeansAbsent, GraceIsContinuous
    <2> QED
      BY <2>1, <2>2, <2>3, GraceOthers DEF Next
  <1>3. GraceInv => GraceIsContinuous
    BY DEF GraceInv
  <1> QED
    BY <1>1, <1>2, <1>3, TypeCorrect, PTL DEF Spec

-----------------------------------------------------------------------------
(* A delete sticks.  The strengthening says what the other processes hold: *)
(* nobody has an object of a stuck row in which delete_flag is not set.    *)

Saving == {"save", "restore", "delsave"}
Busy   == Saving \cup {"scancel", "rollback"}

\* A job whose handler has not begun is unknown to everyone.
NotBegun ==
  \A j \in Jobs : Kind[j] # "console" /\ sub[j].pc = "none" =>
      j \notin created /\ sch[j] = "none" /\ obs[j] = "none"

\* Requests work on existing rows, and a delete's object has the flag.
RequestsOnRows ==
  \A r \in Requests : req[r].pc \in Busy =>
      req[r].job \in created /\ (req[r].pc = "delsave" => req[r].mem.del)

\* A stuck row has the flag, and so has every object somebody may save on it.
StickyHeld ==
  \A j \in sticky :
     /\ j \in created /\ row[j].del /\ ~Submitting(j)
     /\ \A q \in Requests : req[q].job = j /\ req[q].pc \in Saving => req[q].mem.del
     /\ ~(ypc = "saveConsole" /\ ycur = j)

DeleteInv == NotBegun /\ RequestsOnRows /\ StickyHeld

LEMMA NoneIsNoReport == "none" \notin Live \cup Finished
  BY DEF Live, Finished

LEMMA FromIsReport == \A a \in SchedulerActions : "none" \notin From(a)
  BY DEF From, SchedulerActions, Finished

\* Steps that write neither rows nor handlers, and make no console row.
LEMMA DeleteFrame ==
  ASSUME RequestsOnRows, StickyHeld, UNCHANGED <<created, row, sub, req, sticky>>,
         UNCHANGED <<ypc, ycur>> \/ ypc' # "saveConsole"
  PROVE  RequestsOnRows' /\ StickyHeld'
  BY DEF RequestsOnRows, StickyHeld, Submitting

\* The scheduler moves only jobs it knows, or takes a console job.
LEMMA NotBegunSched ==
  ASSUME NotBegun, UNCHANGED <<created, sub, obs>>,
         \A j \in Jobs : sch'[j] # sch[j] => sch[j] # "none" \/ Kind[j] = "console"
  PROVE  NotBegun'
  BY DEF NotBegun

LEMMA DeleteSched ==
  ASSUME TypeOK, DeleteInv, SchedNext
  PROVE  DeleteInv'
  <1>1. SchedStep
    BY DEF SchedNext, SchedStart, SchedEnd, SchedUnknownReport, SchedForget,
           ConsoleSubmit, Outage, Recovery
  <1>2. UNCHANGED <<created, row, sub, req, sticky, obs, ypc, ycur>>
    BY <1>1 DEF SchedStep, dbVars, roundVars, histVars
  <1>3. NotBegun'
    <2>1. ASSUME NEW j \in Jobs, NEW s, sch[j] # "none" \/ Kind[j] = "console",
                 sch' = [sch EXCEPT ![j] = s]
          PROVE  NotBegun'
      BY <1>2, <2>1, NotBegunSched DEF DeleteInv, TypeOK, SchedulerOK
    <2>2. ASSUME NEW j \in Jobs, SchedStart(j) \/ SchedEnd(j) \/ SchedForget(j)
          PROVE  NotBegun'
      BY <2>1, <2>2 DEF SchedStart, SchedEnd, SchedForget, Finished
    <2>3. ASSUME NEW j \in Jobs, SchedUnknownReport(j) \/ ConsoleSubmit(j)
          PROVE  NotBegun'
      BY <2>1, <2>3 DEF SchedUnknownReport, ConsoleSubmit
    <2>4. CASE Outage \/ Recovery
      BY <1>2, <2>4, NotBegunSched DEF DeleteInv, Outage, Recovery
    <2> QED
      BY <2>2, <2>3, <2>4 DEF SchedNext
  <1> QED
    BY <1>2, <1>3, DeleteFrame DEF DeleteInv

\* A handler that has begun: its row is nobody's stuck row.
LEMMA DeleteSubmission ==
  ASSUME TypeOK, DeleteInv, NEW j \in Jobs, SubmitCreate(j) \/ SubProgress(j)
  PROVE  DeleteInv'
  <1> USE DEF SubStep, dbVars, schedVars, roundVars, TypeOK
  <1>1. CASE SubmitCreate(j)
    <2>1. j \notin created /\ j \notin sticky
      BY <1>1 DEF SubmitCreate, DeleteInv, NotBegun, StickyHeld
    <2> QED
      BY <1>1, <2>1
         DEF SubmitCreate, DeleteInv, NotBegun, RequestsOnRows, StickyHeld, Submitting,
             TableOK, HandlersOK, HistoryOK
  <1>2. CASE SubProgress(j)
    <2>1. Submitting(j) /\ j \notin sticky
      BY <1>2 DEF SubProgress, SubmitSaveFile, SubmitToScheduler, SubmitRefused,
                  SubmitQuery, SubmitFinalSave, SubmitDies, Submitting, DeleteInv, StickyHeld
    <2>2. UNCHANGED <<created, req, sticky, ypc, ycur, obs>>
      BY <1>2 DEF SubProgress, SubmitSaveFile, SubmitToScheduler, SubmitRefused,
                  SubmitQuery, SubmitFinalSave, SubmitDies
    <2>3. \A k \in Jobs \ {j} : row'[k] = row[k] /\ sub'[k] = sub[k] /\ sch'[k] = sch[k]
      <3>1. CASE SubmitSaveFile(j) \/ SubmitFinalSave(j)
        BY <3>1 DEF SubmitSaveFile, SubmitFinalSave, SaveRow, TableOK, HandlersOK
      <3>2. CASE SubmitToScheduler(j)
        BY <3>2 DEF SubmitToScheduler, SchedulerOK, HandlersOK
      <3>3. CASE SubmitRefused(j) \/ SubmitDies(j)
        BY <3>3 DEF SubmitRefused, SubmitDies, HandlersOK
      <3>4. CASE SubmitQuery(j)
        BY <3>4 DEF SubmitQuery, HandlersOK
      <3> QED
        BY <1>2, <3>1, <3>2, <3>3, <3>4 DEF SubProgress
    <2>4. sub'[j].pc # "none"
      <3>1. CASE SubmitSaveFile(j) \/ SubmitToScheduler(j)
        BY <3>1 DEF SubmitSaveFile, SubmitToScheduler, HandlersOK, Submission
      <3>2. CASE SubmitRefused(j) \/ SubmitQuery(j) \/ SubmitFinalSave(j) \/ SubmitDies(j)
        BY <3>2 DEF SubmitRefused, SubmitQuery, SubmitFinalSave, SubmitDies, HandlersOK
      <3> QED
        BY <1>2, <3>1, <3>2 DEF SubProgress
    <2>5. NotBegun'
      BY <2>2, <2>3, <2>4 DEF DeleteInv, NotBegun
    <2>6. RequestsOnRows' /\ StickyHeld'
      BY <2>1, <2>2, <2>3 DEF DeleteInv, RequestsOnRows, StickyHeld, Submitting, HistoryOK
    <2> QED
      BY <2>5, <2>6 DEF DeleteInv
  <1> QED
    BY <1>1, <1>2

\* What a request's step must respect: only its own entry of req changes, to
\* one without an object to save or one with delete_flag where the row is stuck.
LEMMA DeleteRequestStep ==
  ASSUME TypeOK, RequestsOnRows, StickyHeld, NEW r \in Requests, NEW q,
         req' = [req EXCEPT ![r] = q],
         UNCHANGED <<created, sub, ypc, ycur>>,
         q.pc \in Busy => q.job \in created /\ (q.pc = "delsave" => q.mem.del),
         q.pc \in Saving /\ q.job \in sticky => q.mem.del,
         sticky' = sticky,
         \A j \in sticky : row'[j].del
  PROVE  RequestsOnRows' /\ StickyHeld'
  BY DEF TypeOK, HandlersOK, RequestsOnRows, StickyHeld, Submitting

\* A full save by a request writes delete_flag on a stuck row.
LEMMA DeleteRequestSave ==
  ASSUME TypeOK, RequestsOnRows, StickyHeld, NEW r \in Requests, NEW why,
         req[r].pc \in Saving, SaveRow(req[r].job, req[r].mem, why)
  PROVE  \A j \in sticky : row'[j].del
  BY DEF TypeOK, HandlersOK, TableOK, HistoryOK, SaveRow, StickyHeld

LEMMA DeleteRequest ==
  ASSUME TypeOK, DeleteInv, NEW r \in Requests, ReqBegin(r) \/ ReqProgress(r)
  PROVE  RequestsOnRows' /\ StickyHeld'
  <1> USE DEF ReqStep, dbVars, schedVars, roundVars, DeleteInv
  <1>a. UNCHANGED <<created, sub, ypc, ycur>>
    BY DEF ReqBegin, ReqProgress, CancelRead, DeleteRead, CommentRead, BatchCancel,
           CancelSave, CancelAccepted, CancelRejected, CancelRollbackRead,
           RestoreSave, DeleteSave, BatchCancelMark, RequestDies
  <1>b. Idle.pc = "idle" /\ "idle" \notin Busy /\ Saving \subseteq Busy
    BY DEF Idle, Busy, Saving
  <1>c. req[r] \in Request /\ \A j \in sticky : row[j].del
    BY DEF TypeOK, HandlersOK, StickyHeld
  <1>1. ASSUME NEW j \in Jobs, CancelRead(r, j)
        PROVE  RequestsOnRows' /\ StickyHeld'
    <2> DEFINE q == [pc |-> "save", job |-> j, prev |-> row[j].op, ids |-> {},
                     mem |-> [row[j] EXCEPT !.op = "cancelling"]]
    <2>1. j \in created /\ j \notin sticky
      BY <1>1, <1>c DEF CancelRead
    <2>2. req' = [req EXCEPT ![r] = q] /\ UNCHANGED <<row, sticky>>
      BY <1>1 DEF CancelRead
    <2> QED
      BY <1>a, <1>c, <2>1, <2>2, DeleteRequestStep
  <1>2. ASSUME NEW j \in Jobs, DeleteRead(r, j)
        PROVE  RequestsOnRows' /\ StickyHeld'
    <2> DEFINE q == [pc |-> "delsave", job |-> j, prev |-> "created", ids |-> {},
                     mem |-> [row[j] EXCEPT !.del = TRUE]]
    <2>1. j \in created /\ q.mem.del
      BY <1>2 DEF DeleteRead, TypeOK, TableOK, Row
    <2>2. req' = [req EXCEPT ![r] = q] /\ UNCHANGED <<row, sticky>>
      BY <1>2 DEF DeleteRead
    <2> QED
      BY <1>a, <1>c, <2>1, <2>2, DeleteRequestStep
  <1>3. ASSUME NEW j \in Jobs, CommentRead(r, j)
        PROVE  RequestsOnRows' /\ StickyHeld'
    <2> DEFINE q == [pc |-> "restore", job |-> j, prev |-> "created", ids |-> {},
                     mem |-> row[j]]
    <2>1. j \in created
      BY <1>3 DEF CommentRead
    <2>2. req' = [req EXCEPT ![r] = q] /\ UNCHANGED <<row, sticky>>
      BY <1>3 DEF CommentRead
    <2> QED
      BY <1>a, <1>c, <2>1, <2>2, DeleteRequestStep
  <1>4. ASSUME NEW js \in SUBSET Jobs, BatchCancel(r, js)
        PROVE  RequestsOnRows' /\ StickyHeld'
    <2> DEFINE q == [Idle EXCEPT !.pc = "mark", !.ids = Listed(js)]
    <2>1. q.pc \notin Busy
      BY DEF Idle, Busy, Saving
    <2>2. UNCHANGED <<row, sticky>> /\ (req' = [req EXCEPT ![r] = q] \/ req' = req)
      BY <1>4 DEF BatchCancel
    <2>3. CASE req' = [req EXCEPT ![r] = q]
      BY <1>a, <1>b, <1>c, <2>1, <2>2, <2>3, DeleteRequestStep
    <2>4. CASE req' = req
      BY <1>a, <2>2, <2>4, DeleteFrame
    <2> QED
      BY <2>2, <2>3, <2>4
  <1>5. CASE CancelSave(r)
    <2> DEFINE q == [req[r] EXCEPT !.pc = "scancel"]
    <2>1. q.pc = "scancel" /\ q.job = req[r].job /\ q.job \in created
      BY <1>5, <1>c DEF CancelSave, RequestsOnRows, Busy, Saving, Request
    <2>2. q.pc \notin Saving /\ q.pc # "delsave"
      BY <2>1 DEF Saving
    <2>3. \A j \in sticky : row'[j].del
      BY <1>5, DeleteRequestSave DEF CancelSave, Saving
    <2>4. req' = [req EXCEPT ![r] = q] /\ sticky' = sticky
      BY <1>5 DEF CancelSave
    <2> HIDE DEF q
    <2> QED
      BY <1>a, <2>1, <2>2, <2>3, <2>4, DeleteRequestStep
  <1>6. CASE CancelAccepted(r) \/ RequestDies(r)
    <2>1. req' = [req EXCEPT ![r] = Idle] /\ UNCHANGED <<row, sticky>>
      BY <1>6 DEF CancelAccepted, RequestDies
    <2> QED
      BY <1>a, <1>b, <1>c, <2>1, DeleteRequestStep
  <1>7. CASE CancelRejected(r)
    <2> DEFINE q == [req[r] EXCEPT !.pc = "rollback"]
    <2>1. q.pc = "rollback" /\ q.job = req[r].job /\ q.job \in created
      BY <1>7, <1>c DEF CancelRejected, RequestsOnRows, Busy, Saving, Request
    <2>2. q.pc \notin Saving /\ q.pc # "delsave"
      BY <2>1 DEF Saving
    <2>3. req' = [req EXCEPT ![r] = q] /\ UNCHANGED <<row, sticky>>
      BY <1>7 DEF CancelRejected
    <2> HIDE DEF q
    <2> QED
      BY <1>a, <1>c, <2>1, <2>2, <2>3, DeleteRequestStep
  <1>8. CASE CancelRollbackRead(r)
    <2> DEFINE q == [req[r] EXCEPT !.pc = "restore",
                                   !.mem = [row[req[r].job] EXCEPT !.op = req[r].prev]]
    <2>1. req[r].job \in Jobs /\ req[r].job \in created
      BY <1>8, <1>c, RequestChanges DEF CancelRollbackRead, RequestsOnRows, Busy
    <2>2. q.pc = "restore" /\ q.job = req[r].job /\ q.mem.del = row[req[r].job].del
      BY <1>c, <2>1 DEF Request, TypeOK, TableOK, Row
    <2>3. req' = [req EXCEPT ![r] = q] /\ UNCHANGED <<row, sticky>>
      BY <1>8 DEF CancelRollbackRead
    <2> HIDE DEF q
    <2> QED
      BY <1>a, <1>c, <2>1, <2>2, <2>3, DeleteRequestStep
  <1>9. CASE RestoreSave(r)
    <2>1. req' = [req EXCEPT ![r] = Idle] /\ sticky' = sticky
      BY <1>9 DEF RestoreSave
    <2>2. \A j \in sticky : row'[j].del
      BY <1>9, DeleteRequestSave DEF RestoreSave, Saving
    <2> QED
      BY <1>a, <1>b, <2>1, <2>2, DeleteRequestStep
  <1>10. CASE DeleteSave(r)
    <2> DEFINE j == req[r].job
    <2>1. j \in Jobs /\ j \in created /\ req[r].mem.del
      BY <1>10, <1>c, RequestChanges DEF DeleteSave, RequestsOnRows, Busy, Saving
    <2>2. req' = [req EXCEPT ![r] = Idle]
      BY <1>10 DEF DeleteSave
    <2>3. \A k \in sticky : row'[k].del
      BY <1>10, DeleteRequestSave DEF DeleteSave, Saving
    <2>4. row'[j].del
      BY <1>10, <2>1 DEF DeleteSave, SaveRow, TypeOK, TableOK
    <2>5. RequestsOnRows'
      BY <1>a, <1>b, <2>2 DEF RequestsOnRows, TypeOK, HandlersOK
    <2>6. ASSUME NEW k \in sticky' PROVE
              /\ k \in created' /\ row'[k].del /\ ~Submitting(k)'
              /\ \A q \in Requests : req'[q].job = k /\ req'[q].pc \in Saving => req'[q].mem.del
              /\ ~(ypc' = "saveConsole" /\ ycur' = k)
      <3>1. CASE k \in sticky
        BY <1>a, <1>b, <2>2, <2>3, <3>1 DEF StickyHeld, Submitting, TypeOK, HandlersOK
      <3>2. CASE k = j /\ ~OthersHold(r, j)
        BY <1>a, <1>b, <2>1, <2>2, <2>4, <3>2
           DEF OthersHold, Submitting, TypeOK, HandlersOK, Saving
      <3> QED
        BY <1>10, <2>6, <3>1, <3>2 DEF DeleteSave
    <2> QED
      BY <2>5, <2>6 DEF StickyHeld
  <1>11. CASE BatchCancelMark(r)
    <2>1. req' = [req EXCEPT ![r] = Idle] /\ sticky' = sticky
      BY <1>11 DEF BatchCancelMark
    <2>2. \A j \in sticky : row'[j].del
      BY <1>11, <1>c DEF BatchCancelMark, TypeOK, TableOK, HistoryOK
    <2> QED
      BY <1>a, <1>b, <2>1, <2>2, DeleteRequestStep
  <1> QED
    BY <1>1, <1>2, <1>3, <1>4, <1>5, <1>6, <1>7, <1>8, <1>9, <1>10, <1>11
       DEF ReqBegin, ReqProgress

LEMMA NotBegunRequest ==
  ASSUME TypeOK, DeleteInv, NEW r \in Requests, ReqBegin(r) \/ ReqProgress(r)
  PROVE  NotBegun'
  <1>1. UNCHANGED <<created, sub, obs>>
    BY DEF ReqBegin, ReqProgress, CancelRead, DeleteRead, CommentRead, BatchCancel,
           CancelSave, CancelAccepted, CancelRejected, CancelRollbackRead,
           RestoreSave, DeleteSave, BatchCancelMark, RequestDies, ReqStep, dbVars, roundVars
  <1>2. sch' = sch \/ \E ks \in SUBSET Jobs : sch' = Cancelled(ks)
    <2>1. \A js, b : Reach(js, b) \in SUBSET Jobs
      BY DEF Reach, Visible
    <2>2. CASE CancelAccepted(r)
      BY <2>1, <2>2 DEF CancelAccepted
    <2>3. ASSUME NEW js \in SUBSET Jobs, BatchCancel(r, js)
          PROVE  sch' = sch \/ \E ks \in SUBSET Jobs : sch' = Cancelled(ks)
      BY <2>1, <2>3 DEF BatchCancel
    <2> QED
      BY <2>2, <2>3
         DEF ReqBegin, ReqProgress, CancelRead, DeleteRead, CommentRead, CancelSave,
             CancelRejected, CancelRollbackRead, RestoreSave, DeleteSave,
             BatchCancelMark, RequestDies, schedVars
  <1>3. \A j \in Jobs : sch'[j] # sch[j] => sch[j] # "none"
    BY <1>2, NoneIsNoReport DEF Cancelled
  <1> QED
    BY <1>1, <1>3, NotBegunSched DEF DeleteInv

LEMMA DeleteJobAction ==
  ASSUME TypeOK, DeleteInv, NEW js \in SUBSET Jobs, NEW a \in SchedulerActions,
         JobAction(js, a)
  PROVE  DeleteInv'
  <1>1. UNCHANGED <<created, row, sub, req, sticky, obs, ypc, ycur>>
    BY DEF JobAction, SchedStep, dbVars, roundVars, histVars
  <1>2. \A j \in Jobs : sch'[j] # sch[j] => sch[j] # "none"
    BY FromIsReport DEF JobAction
  <1> QED
    BY <1>1, <1>2, NotBegunSched, DeleteFrame DEF DeleteInv

\* The sync process's saves on existing rows leave delete_flag alone.
LEMMA DeleteSyncWrite ==
  ASSUME RequestsOnRows, StickyHeld, UNCHANGED <<created, sub, req, sticky>>,
         \A j \in sticky : row'[j].del = row[j].del,
         UNCHANGED <<ypc, ycur>> \/ ypc' # "saveConsole"
  PROVE  RequestsOnRows' /\ StickyHeld'
  BY DEF RequestsOnRows, StickyHeld, Submitting

\* A round forgets reports or takes them from the scheduler.
LEMMA NotBegunSync ==
  ASSUME NotBegun, UNCHANGED <<created, sub, sch>>,
         \A j \in Jobs : obs'[j] \in {"none", sch[j], obs[j]}
  PROVE  NotBegun'
  BY DEF NotBegun

LEMMA DeleteSync ==
  ASSUME TypeOK, DeleteInv, SyncNext
  PROVE  DeleteInv'
  <1> USE DEF SyncStep, schedVars, dbVars, histVars, DeleteInv
  <1>a. obs \in [Jobs -> Live \cup Finished \cup {"none"}] /\ row \in [Jobs -> Row]
        /\ sticky \subseteq Jobs
    BY DEF TypeOK, RoundOK, TableOK, HistoryOK
  <1>1. CASE SyncList
    <2>1. NotBegun'
      BY <1>1, NotBegunSync DEF SyncList
    <2>2. UNCHANGED <<created, row, sub, req, sticky>> /\ ypc' # "saveConsole"
      BY <1>1 DEF SyncList
    <2> QED
      BY <2>1, <2>2, DeleteFrame
  <1>2. CASE SyncAskFull
    <2>1. NotBegun'
      BY <1>2, NotBegunSync DEF SyncAskFull
    <2>2. UNCHANGED <<created, row, sub, req, sticky>> /\ ypc' # "saveConsole"
      BY <1>2 DEF SyncAskFull
    <2> QED
      BY <2>1, <2>2, DeleteFrame
  <1>3. CASE SyncAbort
    <2>1. NotBegun'
      BY <1>3, NotBegunSync DEF SyncAbort
    <2>2. UNCHANGED <<created, row, sub, req, sticky>> /\ ypc' # "saveConsole"
      BY <1>3 DEF SyncAbort
    <2> QED
      BY <2>1, <2>2, DeleteFrame
  <1>4. ASSUME NEW j \in Jobs, SyncLookup(j)
        PROVE  DeleteInv'
    <2>1. NotBegun'
      BY <1>4, NotBegunSync DEF SyncLookup
    <2>2. UNCHANGED <<created, row, sub, req, sticky, ypc, ycur>>
      BY <1>4 DEF SyncLookup
    <2> QED
      BY <2>1, <2>2, DeleteFrame
  <1>5. ASSUME NEW j \in Jobs, SyncAskOwns(j)
        PROVE  DeleteInv'
    <2>1. UNCHANGED <<created, row, sub, req, sticky, ypc, ycur, sch>>
      BY <1>5 DEF SyncAskOwns
    <2>2. NotBegun'
      <3>1. \A k \in Jobs : obs'[k] \in {"none", sch[k], obs[k]}
        BY <1>5, <1>a DEF SyncAskOwns
      <3> QED
        BY <2>1, <3>1, NotBegunSync
    <2> QED
      BY <2>1, <2>2, DeleteFrame
  <1>6. ASSUME NEW j \in Jobs, SyncCreateRow(j)
        PROVE  DeleteInv'
    <2>1. Kind[j] = "console" \/ sub[j].pc # "none"
      BY <1>6 DEF SyncCreateRow, NotBegun
    <2>2. NotBegun'
      BY <1>6, <1>a, <2>1 DEF SyncCreateRow, Drop, NotBegun
    <2>3. /\ created' = created \cup {j} /\ row' = [row EXCEPT ![j] = NewRow] /\ sub' = sub
          /\ sticky' = sticky \ {j} /\ ycur' = j
          /\ req' = [r \in Requests |-> IF req[r].job = j THEN Idle ELSE req[r]]
      BY <1>6 DEF SyncCreateRow
    <2>4. Idle.pc = "idle" /\ "idle" \notin Busy /\ "idle" \notin Saving
      BY DEF Idle, Busy, Saving
    <2>5. RequestsOnRows'
      BY <2>3, <2>4 DEF RequestsOnRows, TypeOK, HandlersOK, Idle
    <2>6. StickyHeld'
      BY <1>a, <2>3, <2>4 DEF StickyHeld, Submitting
    <2> QED
      BY <2>2, <2>5, <2>6
  <1>7. CASE SyncSaveConsole
    <2>1. NotBegun'
      BY <1>7, NotBegunSync DEF SyncSaveConsole
    <2>2. ycur \notin sticky
      BY <1>7 DEF SyncSaveConsole, StickyHeld
    <2>3. UNCHANGED <<created, sub, req, sticky>> /\ ypc' # "saveConsole"
      BY <1>7 DEF SyncSaveConsole
    <2>4. \A j \in sticky : row'[j].del = row[j].del
      BY <1>7, <1>a, <2>2 DEF SyncSaveConsole
    <2> QED
      BY <2>1, <2>3, <2>4, DeleteSyncWrite
  <1>8. ASSUME NEW j \in Jobs, SyncMissing(j) \/ SyncSkip(j)
        PROVE  DeleteInv'
    <2>1. UNCHANGED <<created, row, sub, req, sticky, ypc, ycur, sch>> /\ Drop(j)
      BY <1>8 DEF SyncMissing, SyncSkip
    <2>2. NotBegun'
      BY <1>a, <2>1, NotBegunSync DEF Drop
    <2> QED
      BY <2>1, <2>2, DeleteFrame
  <1>9. ASSUME NEW j \in Jobs, SyncReloadMissing(j)
        PROVE  DeleteInv'
    <2>1. UNCHANGED <<created, row, sub, req, sticky, sch>> /\ ypc' # "saveConsole" /\ Drop(j)
      BY <1>9 DEF SyncReloadMissing
    <2>2. NotBegun'
      BY <1>a, <2>1, NotBegunSync DEF Drop
    <2> QED
      BY <2>1, <2>2, DeleteFrame
  <1>10. CASE SyncSaveMissing
    <2>1. NotBegun'
      BY <1>10, NotBegunSync DEF SyncSaveMissing
    <2>2. UNCHANGED <<created, sub, req, sticky>> /\ ypc' # "saveConsole"
      BY <1>10 DEF SyncSaveMissing
    <2>3. \A j \in sticky : row'[j].del = row[j].del
      BY <1>10, <1>a DEF SyncSaveMissing, Row
    <2> QED
      BY <2>1, <2>2, <2>3, DeleteSyncWrite
  <1>11. ASSUME NEW j \in Jobs, SyncUpdate(j)
        PROVE  DeleteInv'
    <2>1. UNCHANGED <<created, sub, req, sticky, sch>> /\ Drop(j) /\ SaveUpdate(j)
      BY <1>11 DEF SyncUpdate
    <2>2. ypc' # "saveConsole"
      BY <1>11 DEF SyncUpdate, Handling
    <2>3. NotBegun'
      BY <1>a, <2>1, NotBegunSync DEF Drop
    <2>4. \A k \in sticky : row'[k].del = row[k].del
      BY <1>a, <2>1 DEF SaveUpdate, Updated, Row
    <2> QED
      BY <2>1, <2>2, <2>3, <2>4, DeleteSyncWrite
  <1>12. CASE SyncCharge
    <2>1. NotBegun'
      BY <1>12, NotBegunSync DEF SyncCharge
    <2>2. UNCHANGED <<created, row, sub, req, sticky>> /\ ypc' # "saveConsole"
      BY <1>12 DEF SyncCharge
    <2> QED
      BY <2>1, <2>2, DeleteFrame
  <1>13. CASE SyncClean
    <2>1. NotBegun'
      BY <1>13, NotBegunSync DEF SyncClean, roundVars
    <2>2. UNCHANGED <<created, sub, req, sticky>> /\ ypc' # "saveConsole"
      BY <1>13 DEF SyncClean
    <2>3. \A j \in sticky : row'[j].del = row[j].del
      BY <1>13, <1>a DEF SyncClean, Cleaned, Row
    <2> QED
      BY <2>1, <2>2, <2>3, DeleteSyncWrite
  <1> QED
    BY <1>1, <1>2, <1>3, <1>4, <1>5, <1>6, <1>7, <1>8, <1>9, <1>10, <1>11, <1>12,
       <1>13 DEF SyncNext

LEMMA DeleteClockAndCrash ==
  ASSUME TypeOK, DeleteInv,
         SyncCrash \/ (\E j \in Jobs : GraceExpires(j)) \/ UNCHANGED vars
  PROVE  DeleteInv'
  <1>1. UNCHANGED <<created, row, sub, req, sticky, sch>>
    BY DEF SyncCrash, GraceExpires, vars, schedVars, dbVars, histVars
  <1>2. UNCHANGED <<ypc, ycur>> \/ ypc' # "saveConsole"
    BY DEF SyncCrash, GraceExpires, vars, roundVars
  <1>3. \A j \in Jobs : obs'[j] \in {"none", sch[j], obs[j]}
    BY DEF SyncCrash, GraceExpires, vars, roundVars
  <1> QED
    BY <1>1, <1>2, <1>3, DeleteFrame, NotBegunSync DEF DeleteInv

\* A delete made while nobody else held an object of the row survives every
\* later save: the sync process's, a cancel's and its roll-back's, a comment's.
THEOREM DeleteHolds == Spec => []DeletesStick
  <1>1. Init => DeleteInv
    BY DEF Init, DeleteInv, NotBegun, RequestsOnRows, StickyHeld, Idle, Busy, Saving
  <1>2. TypeOK /\ DeleteInv /\ [Next]_vars => DeleteInv'
    <2> SUFFICES ASSUME TypeOK, DeleteInv, [Next]_vars PROVE DeleteInv'
      OBVIOUS
    <2>1. ASSUME NEW r \in Requests, ReqBegin(r) \/ ReqProgress(r)
          PROVE  DeleteInv'
      BY <2>1, DeleteRequest, NotBegunRequest DEF DeleteInv
    <2> QED
      BY <2>1, DeleteSched, DeleteSubmission, DeleteJobAction, DeleteSync,
         DeleteClockAndCrash DEF Next
  <1>3. DeleteInv => DeletesStick
    BY DEF DeleteInv, StickyHeld, DeletesStick
  <1> QED
    BY <1>1, <1>2, <1>3, TypeCorrect, PTL DEF Spec

-----------------------------------------------------------------------------
(* Completions are charged.  The strengthening follows a completed state   *)
(* through every object that holds it: the row, a submission handler's, a  *)
(* request's, the sync process's.  For a job that is neither rerun nor may *)
(* be requeued such an object exists only while the job is over and no     *)
(* report of this round says otherwise, so the report that would forget    *)
(* the charge cannot come, and an old object saved later completes the row *)
(* of a job whose completion is accounted for.                             *)

Completed(r) == r.sched \in SchedCompleted

\* A completed scheduler state stands beside the final state; Done is Completed.
Agrees(r) == Completed(r) => r.state \in FinalStates

\* The scheduler does not run the job again.
Plain(j) == Kind[j] # "rerun" /\ "requeue" \notin Api

\* What CompletionsCharged asks of a completed row.
Accounted(j) ==
  \/ j \in charged
  \/ ypc = "charge" /\ ycur = j
  \/ \E why \in escaped[j] : (why = "rerun" => Kind[j] = "rerun") /\ (why = "stale" => ~Plain(j))

RowsAgree ==
  /\ \A j \in Jobs : Agrees(row[j]) /\ Agrees(sub[j].mem)
  /\ \A r \in Requests : Agrees(req[r].mem)
  /\ ypc = "saveConsole" => Agrees(ymem)
  /\ ypc \in {"saveMissing", "saveCancelled"} => ymem.state = "C"

\* The scheduler learns of a job from its handler alone, and a handler whose
\* object is completed is a rerun's: JobSubmitView pretends.
SubmissionInv == \A j \in Jobs :
  /\ sub[j].pc # "none" => Kind[j] # "console"
  /\ Kind[j] # "console" /\ sub[j].pc \in {"none", "made", "ready", "refused"} => sch[j] = "none"
  /\ Completed(sub[j].mem) => Kind[j] = "rerun"

\* A request, or the sync process on a new row, may save a completed object of j.
Held(j) ==
  \/ \E r \in Requests : req[r].job = j /\ req[r].pc \in Saving /\ Completed(req[r].mem)
  \/ ypc = "saveConsole" /\ ycur = j /\ Completed(ymem)

OverInv == \A j \in Jobs : Plain(j) =>
  /\ obs[j] \in Finished => Over(j)
  /\ Completed(row[j]) \/ Held(j) => Over(j) /\ obs[j] \notin Live

AccountInv ==
  /\ \A j \in Jobs : Completed(row[j]) => Accounted(j)
  /\ \A r \in Requests :
       req[r].pc \in Saving /\ Completed(req[r].mem) /\ Plain(req[r].job) => Accounted(req[r].job)

ChargeInv == RowsAgree /\ SubmissionInv /\ OverInv /\ AccountInv

LEMMA ReportsApart ==
  /\ Live \cap Finished = {} /\ "none" \notin Live \cup Finished /\ "gone" \notin Live \cup Finished
  /\ \A s \in Live \cup Finished : s \in SchedCompleted <=> s \in Finished
  BY DEF Live, Finished, SchedCompleted

\* What the operators make of a completed state.
LEMMA UpdatedCompletes ==
  ASSUME NEW r \in Row, NEW s \in Live \cup Finished
  PROVE  /\ Agrees(Updated(r, s)) /\ (Completed(Updated(r, s)) <=> s \in Finished)
         /\ Charges(Updated(r, s)) <=> s \in Finished
  <1>1. Updated(r, s).sched = s /\ Updated(r, s).state = FromSchedulerJobState(s)
    BY DEF Updated, Row
  <1>2. FromSchedulerJobState(s) = "C" <=> s \in Finished
    BY DEF FromSchedulerJobState, Live, Finished, SchedCompleted, SchedQueuing, SchedRunning,
           SchedHold, SchedSuspended
  <1> QED
    BY <1>1, <1>2, ReportsApart DEF Agrees, Completed, Charges, FinalStates

LEMMA ChangesComplete ==
  ASSUME NEW r \in Row, Agrees(r), NEW op \in OperateStates
  PROVE  /\ Agrees([r EXCEPT !.op = op]) /\ (Completed([r EXCEPT !.op = op]) <=> Completed(r))
         /\ Agrees([r EXCEPT !.del = TRUE]) /\ (Completed([r EXCEPT !.del = TRUE]) <=> Completed(r))
         /\ Agrees(Cleaned(r)) /\ (Completed(Cleaned(r)) <=> Completed(r))
         /\ Agrees(MarkCreated(r)) /\ (Completed(MarkCreated(r)) <=> Completed(r))
         /\ Agrees(Pretended(r)) /\ ~Completed(Pretended(r))
         /\ Done(r) <=> Completed(r)
  <1>1. /\ [r EXCEPT !.op = op].sched = r.sched /\ [r EXCEPT !.op = op].state = r.state
        /\ [r EXCEPT !.del = TRUE].sched = r.sched /\ [r EXCEPT !.del = TRUE].state = r.state
        /\ Cleaned(r).sched = r.sched /\ Cleaned(r).state = r.state
        /\ MarkCreated(r).sched = r.sched /\ MarkCreated(r).state = r.state
    BY DEF Row, Cleaned, MarkCreated
  <1>2. ~Completed(Pretended(r))
    <2>1. CASE r.state \in FinalStates
      <3>1. Pretended(r).sched = "PD"
        BY <2>1 DEF Pretended, Row
      <3> QED
        BY <3>1 DEF Completed, SchedCompleted
    <2>2. CASE r.state \notin FinalStates
      BY <2>2 DEF Pretended, Agrees
    <2> QED
      BY <2>1, <2>2
  <1> QED
    BY <1>1, <1>2 DEF Agrees, Completed, Done

LEMMA NewIncomplete == Agrees(NewRow) /\ ~Completed(NewRow)
  BY DEF NewRow, Agrees, Completed, SchedCompleted, NoState

-----------------------------------------------------------------------------
(* What a step must keep, for each owner of an object.                     *)

RowsKept == \A j \in Jobs :
  /\ Agrees(row'[j])
  /\ Completed(row'[j]) =>
       \/ Completed(row[j])
       \/ Accounted(j)' /\ (Plain(j) => Held(j) \/ obs[j] \in Finished)

RequestsKept == \A r \in Requests :
  \/ req'[r] = req[r]
  \/ /\ Agrees(req'[r].mem)
     /\ req'[r].pc \in Saving =>
          req'[r].job \in Jobs /\ (Completed(req'[r].mem) => Completed(row[req'[r].job]))

SubmissionsKept == SubmissionInv' /\ \A j \in Jobs : Agrees(sub'[j].mem)

SyncKept ==
  \/ UNCHANGED <<ypc, ycur, ymem>>
  \/ ypc' \notin {"saveConsole", "saveMissing", "saveCancelled"}
  \/ ypc' \in {"saveMissing", "saveCancelled"} /\ ymem'.state = "C"
  \/ /\ ypc' = "saveConsole" /\ Agrees(ymem')
     /\ Completed(ymem') => obs[ycur'] \in Finished

SchedulerKept == \A j \in Jobs : Plain(j) /\ Over(j) => Over(j)'

ReportsKept == \A j \in Jobs : obs'[j] \in {"none", obs[j], sch[j]}

AccountsKept == \A j \in Jobs :
  Accounted(j) => Accounted(j)' \/ (obs[j] \in Live /\ ~Completed(row'[j]))

LEMMA ChargeStep ==
  ASSUME TypeOK, TypeOK', ChargeInv, RowsKept, RequestsKept, SubmissionsKept, SyncKept,
         SchedulerKept, ReportsKept, AccountsKept
  PROVE  ChargeInv'
  <1>a. /\ obs \in [Jobs -> Live \cup Finished \cup {"none"}] /\ sch \in [Jobs -> SchedStates]
        /\ req \in [Requests -> Request] /\ req' \in [Requests -> Request]
        /\ \A r \in Requests : req[r].pc \in Saving => req[r].job \in Jobs
    BY DEF TypeOK, RoundOK, SchedulerOK, HandlersOK, Request, Saving
  <1>b. RowsAgree /\ SubmissionInv /\ OverInv /\ AccountInv
    BY DEF ChargeInv
  <1>1. RowsAgree'
    BY <1>b DEF RowsAgree, RowsKept, RequestsKept, SubmissionsKept, SyncKept
  <1>2. \A j \in Jobs : Plain(j) /\ Held(j)' => Completed(row[j]) \/ Held(j) \/ obs[j] \in Finished
    <2> SUFFICES ASSUME NEW j \in Jobs, Plain(j), Held(j)'
                 PROVE  Completed(row[j]) \/ Held(j) \/ obs[j] \in Finished
      OBVIOUS
    <2>1. ASSUME NEW r \in Requests, req'[r].job = j, req'[r].pc \in Saving, Completed(req'[r].mem)
          PROVE  Completed(row[j]) \/ Held(j)
      BY <2>1 DEF RequestsKept, Held
    <2>2. ASSUME ypc' = "saveConsole", ycur' = j, Completed(ymem')
          PROVE  Held(j) \/ obs[j] \in Finished
      BY <2>2 DEF SyncKept, Held
    <2> QED
      BY <2>1, <2>2 DEF Held
  <1>3. OverInv'
    <2> SUFFICES ASSUME NEW j \in Jobs, Plain(j)
                 PROVE  /\ obs'[j] \in Finished => Over(j)'
                        /\ Completed(row'[j]) \/ Held(j)' => Over(j)' /\ obs'[j] \notin Live
      BY DEF OverInv, Plain
    <2>1. /\ obs[j] \in Finished => Over(j)
          /\ Completed(row[j]) \/ Held(j) => Over(j) /\ obs[j] \notin Live
          /\ Over(j) => Over(j)' /\ sch[j] \notin Live
          /\ sch[j] \in Finished => Over(j)
      BY <1>b, ReportsApart DEF OverInv, SchedulerKept, Over
    <2>2. obs'[j] \in Finished => Over(j)'
      BY <2>1, ReportsApart DEF ReportsKept
    <2>3. Completed(row'[j]) \/ Held(j)' => Completed(row[j]) \/ Held(j) \/ obs[j] \in Finished
      BY <1>2 DEF RowsKept
    <2>4. Completed(row'[j]) \/ Held(j)' => Over(j)' /\ obs'[j] \notin Live
      BY <2>1, <2>3, ReportsApart DEF ReportsKept
    <2> QED
      BY <2>2, <2>4
  <1>4. \A j \in Jobs : Completed(row'[j]) => Accounted(j)'
    BY <1>b DEF AccountInv, RowsKept, AccountsKept
  <1>5. ASSUME NEW r \in Requests, NEW j, req'[r].job = j, req'[r].pc \in Saving,
               Completed(req'[r].mem), Plain(j)
        PROVE  Accounted(j)'
    <2>1. j \in Jobs /\ (Completed(row[j]) \/ Held(j)) /\ Accounted(j)
      <3>1. CASE req'[r] = req[r]
        BY <1>a, <1>b, <1>5, <3>1 DEF AccountInv, Held
      <3>2. CASE req'[r] # req[r]
        BY <1>a, <1>b, <1>5, <3>2 DEF AccountInv, RequestsKept
      <3> QED
        BY <3>1, <3>2
    <2>2. obs[j] \notin Live
      BY <1>b, <1>5, <2>1 DEF OverInv
    <2> QED
      BY <2>1, <2>2 DEF AccountsKept
  <1>6. AccountInv'
    <2> SUFFICES ASSUME NEW r \in Requests, NEW j, (req[r].job = j)', (req[r].pc \in Saving)',
                        Completed(req[r].mem)', Plain(j)
                 PROVE  Accounted(j)'
      BY <1>4 DEF AccountInv, Plain
    <2> QED
      BY <1>5 DEF Completed, Saving
  <1> QED
    BY <1>1, <1>3, <1>6 DEF ChargeInv, SubmissionsKept

\* What a step leaves alone it keeps.
LEMMA Untouched ==
  ASSUME TypeOK, ChargeInv
  PROVE  /\ UNCHANGED row => RowsKept
         /\ UNCHANGED req => RequestsKept
         /\ UNCHANGED <<ypc, ycur, ymem>> => SyncKept
         /\ UNCHANGED sch => SchedulerKept
         /\ UNCHANGED obs => ReportsKept
  <1>a. ChargeInv => \A j \in Jobs : Agrees(row[j])
    BY DEF ChargeInv, RowsAgree
  <1> QED
    BY <1>a DEF RowsKept, RequestsKept, SyncKept, SchedulerKept, Over, ReportsKept

LEMMA SubmissionsUntouched ==
  ASSUME ChargeInv, UNCHANGED sub,
         \A j \in Jobs : Kind[j] # "console" /\ sch[j] = "none" => sch'[j] = "none"
  PROVE  SubmissionsKept
  BY DEF ChargeInv, RowsAgree, SubmissionInv, SubmissionsKept

LEMMA AccountsGrow ==
  ASSUME charged \subseteq charged', \A j \in Jobs : escaped[j] \subseteq escaped'[j],
         ypc # "charge" \/ UNCHANGED <<ypc, ycur>>
  PROVE  AccountsKept
  <1>1. \A j \in Jobs : Accounted(j) => Accounted(j)'
    BY DEF Accounted, Plain
  <1> QED
    BY <1>1 DEF AccountsKept

-----------------------------------------------------------------------------
(* The scheduler: only a requeue brings a job back that is over.           *)

LEMMA ChargeSchedFrame ==
  ASSUME TypeOK, TypeOK', ChargeInv, SchedStep, SchedulerKept,
         \A j \in Jobs : Kind[j] # "console" /\ sch[j] = "none" => sch'[j] = "none"
  PROVE  ChargeInv'
  <1>1. UNCHANGED <<row, sub, req, ypc, ycur, ymem, obs, charged, escaped>>
    BY DEF SchedStep, dbVars, roundVars, histVars
  <1>2. RowsKept /\ RequestsKept /\ SyncKept /\ ReportsKept
    BY <1>1, Untouched
  <1>3. SubmissionsKept
    BY <1>1, SubmissionsUntouched
  <1>4. AccountsKept
    BY <1>1, AccountsGrow
  <1> QED
    BY <1>2, <1>3, <1>4, ChargeStep

LEMMA ChargeSched ==
  ASSUME TypeOK, TypeOK', ChargeInv, SchedNext
  PROVE  ChargeInv'
  <1>a. sch \in [Jobs -> SchedStates]
    BY DEF TypeOK, SchedulerOK
  <1>1. SchedStep
    BY DEF SchedNext, SchedStart, SchedEnd, SchedUnknownReport, SchedForget,
           ConsoleSubmit, Outage, Recovery
  <1>2. \A j \in Jobs : /\ Over(j) => Over(j)'
                        /\ Kind[j] # "console" /\ sch[j] = "none" => sch'[j] = "none"
    <2>1. ASSUME NEW j \in Jobs, SchedStart(j) \/ SchedEnd(j) \/ SchedUnknownReport(j)
          PROVE  /\ sch[j] \in {"PD", "R", "UNKNOWN"} /\ \E s : sch' = [sch EXCEPT ![j] = s]
      BY <2>1 DEF SchedStart, SchedEnd, SchedUnknownReport
    <2>2. ASSUME NEW j \in Jobs, SchedForget(j)
          PROVE  sch[j] \in Finished /\ sch' = [sch EXCEPT ![j] = "gone"]
      BY <2>2 DEF SchedForget
    <2>3. ASSUME NEW j \in Jobs, ConsoleSubmit(j)
          PROVE  Kind[j] = "console" /\ sch[j] = "none" /\ sch' = [sch EXCEPT ![j] = "PD"]
      BY <2>3 DEF ConsoleSubmit
    <2>4. CASE Outage \/ Recovery
      BY <2>4 DEF Outage, Recovery, Over
    <2>5. {"none", "gone", "PD", "R", "UNKNOWN"} \cap Finished = {}
      BY DEF Finished
    <2>6. CASE \E j \in Jobs : SchedStart(j) \/ SchedEnd(j) \/ SchedUnknownReport(j)
      BY <1>a, <2>1, <2>5, <2>6 DEF Over
    <2>7. CASE \E j \in Jobs : SchedForget(j)
      BY <1>a, <2>2, <2>5, <2>7 DEF Over
    <2>8. CASE \E j \in Jobs : ConsoleSubmit(j)
      BY <1>a, <2>3, <2>5, <2>8 DEF Over
    <2> QED
      BY <2>4, <2>6, <2>7, <2>8 DEF SchedNext
  <1>3. SchedulerKept
    BY <1>2 DEF SchedulerKept
  <1> QED
    BY <1>1, <1>2, <1>3, ChargeSchedFrame

LEMMA FromIsLive ==
  \A a \in SchedulerActions : a # "requeue" => From(a) \subseteq Live /\ "gone" \notin From(a)
  BY DEF From, SchedulerActions, Live

LEMMA ChargeJobAction ==
  ASSUME TypeOK, TypeOK', ChargeInv,
         NEW js \in SUBSET Jobs, NEW a \in SchedulerActions, JobAction(js, a)
  PROVE  ChargeInv'
  <1>1. SchedStep /\ a \in Api
    BY DEF JobAction
  <1>2. \A j \in Jobs : sch'[j] = sch[j] \/ sch[j] \in From(a)
    BY DEF JobAction
  <1>3. SchedulerKept
    <2> SUFFICES ASSUME NEW j \in Jobs, Plain(j), Over(j)
                 PROVE  Over(j)'
      BY DEF SchedulerKept
    <2>1. sch[j] \notin From(a)
      BY <1>1, FromIsLive, ReportsApart DEF Plain, Over
    <2> QED
      BY <1>2, <2>1 DEF Over
  <1>4. \A j \in Jobs : Kind[j] # "console" /\ sch[j] = "none" => sch'[j] = "none"
    BY <1>2, FromIsReport
  <1> QED
    BY <1>1, <1>3, <1>4, ChargeSchedFrame

-----------------------------------------------------------------------------
(* The submission handlers.                                                *)

\* A full save completes a row only with an object that accounts for it.
LEMMA SaveRowKeeps ==
  ASSUME TypeOK, ChargeInv, NEW j \in Jobs, NEW m \in Row, NEW why \in Reasons,
         SaveRow(j, m, why), Agrees(m), UNCHANGED <<charged, ypc, ycur>>,
         Completed(m) => /\ Plain(j) => Held(j)
                         /\ \/ Accounted(j)
                            \/ (why = "rerun" => Kind[j] = "rerun") /\ (why = "stale" => ~Plain(j))
  PROVE  RowsKept /\ AccountsKept
  <1>a. /\ row \in [Jobs -> Row] /\ escaped \in [Jobs -> SUBSET Reasons]
        /\ \A k \in Jobs : Agrees(row[k])
    BY DEF TypeOK, TableOK, HistoryOK, ChargeInv, RowsAgree
  <1>b. /\ row' = [row EXCEPT ![j] = m]
        /\ escaped' = IF Done(m) /\ ~Done(row[j])
                      THEN [escaped EXCEPT ![j] = @ \cup {why}] ELSE escaped
    BY DEF SaveRow
  <1>1. \A k \in Jobs : escaped[k] \subseteq escaped'[k]
    BY <1>a, <1>b
  <1>2. AccountsKept
    BY <1>1, AccountsGrow
  <1>3. \A k \in Jobs : Accounted(k) => Accounted(k)'
    BY <1>1 DEF Accounted, Plain
  <1>4. Completed(m) => Completed(row[j]) \/ Accounted(j)'
    <2> SUFFICES ASSUME Completed(m), ~Completed(row[j]), ~Accounted(j)
                 PROVE  Accounted(j)'
      BY <1>3
    <2>1. Done(m) /\ ~Done(row[j])
      BY <1>a, OperateStatesMembers, ChangesComplete
    <2>2. why \in escaped'[j]
      BY <1>a, <1>b, <2>1
    <2> QED
      BY <2>2 DEF Accounted, Plain
  <1>5. RowsKept
    BY <1>a, <1>b, <1>4 DEF RowsKept
  <1> QED
    BY <1>2, <1>5

\* What a submission handler leaves to the others.
LEMMA SubmissionFrame ==
  ASSUME TypeOK, ChargeInv, SubStep
  PROVE  /\ RequestsKept /\ SyncKept /\ ReportsKept
         /\ UNCHANGED <<charged, ypc, ycur>>
         /\ UNCHANGED escaped => AccountsKept
  <1>1. UNCHANGED <<req, ypc, ycur, ymem, obs, charged>>
    BY DEF SubStep, roundVars
  <1> QED
    BY <1>1, Untouched, AccountsGrow

\* The handler of j gets an object and a place in its work.
LEMMA SubmissionMoves ==
  ASSUME TypeOK, ChargeInv, NEW j \in Jobs, NEW pc, NEW m,
         sub' = [sub EXCEPT ![j] = [pc |-> pc, mem |-> m]],
         Kind[j] # "console", Agrees(m), Completed(m) => Kind[j] = "rerun",
         \A k \in Jobs \ {j} : sch'[k] = sch[k],
         pc \in {"none", "made", "ready", "refused"} => sch'[j] = "none"
  PROVE  SubmissionsKept
  BY DEF TypeOK, HandlersOK, ChargeInv, RowsAgree, SubmissionInv, SubmissionsKept

LEMMA ChargeSubmission ==
  ASSUME TypeOK, TypeOK', ChargeInv, NEW j \in Jobs, SubmitCreate(j) \/ SubProgress(j)
  PROVE  ChargeInv'
  <1> USE DEF schedVars, dbVars
  <1>a. /\ sub \in [Jobs -> Submission] /\ sub[j].mem \in Row
        /\ sch \in [Jobs -> SchedStates] /\ row \in [Jobs -> Row]
        /\ {"stale", "rerun"} \subseteq Reasons
    BY DEF TypeOK, HandlersOK, Submission, SchedulerOK, TableOK, Reasons
  <1>b. /\ Agrees(sub[j].mem) /\ (Completed(sub[j].mem) => Kind[j] = "rerun")
        /\ sub[j].pc # "none" => Kind[j] # "console"
        /\ Kind[j] # "console" /\ sub[j].pc \in {"none", "made", "ready", "refused"}
             => sch[j] = "none"
    BY DEF ChargeInv, RowsAgree, SubmissionInv
  <1>c. SubStep
    BY DEF SubmitCreate, SubProgress, SubmitSaveFile, SubmitToScheduler, SubmitRefused,
           SubmitQuery, SubmitFinalSave, SubmitDies
  <1>d. /\ RequestsKept /\ SyncKept /\ ReportsKept /\ UNCHANGED <<charged, ypc, ycur>>
        /\ UNCHANGED escaped => AccountsKept
    BY <1>c, SubmissionFrame
  <1>e. /\ UNCHANGED sch => SchedulerKept
        /\ UNCHANGED row => RowsKept
    BY Untouched
  <1>f. Kind[j] = "rerun" => ~Plain(j)
    BY DEF Plain
  <1>g. \A pc : [sub[j] EXCEPT !.pc = pc] = [pc |-> pc, mem |-> sub[j].mem]
    BY <1>a DEF Submission
  <1>1. CASE SubmitCreate(j)
    <2>1. RowsKept
      BY <1>1, <1>a, NewIncomplete DEF SubmitCreate, RowsKept, ChargeInv, RowsAgree
    <2>2. SubmissionsKept
      <3>1. /\ sub' = [sub EXCEPT ![j] = [pc |-> "made", mem |-> NewRow]]
            /\ Kind[j] # "console" /\ sub[j].pc = "none" /\ sch' = sch
        BY <1>1 DEF SubmitCreate
      <3> QED
        BY <3>1, <1>b, NewIncomplete, SubmissionMoves
    <2>3. UNCHANGED <<sch, escaped>>
      BY <1>1 DEF SubmitCreate
    <2> QED
      BY <1>d, <1>e, <2>1, <2>2, <2>3, ChargeStep
  <1>2. CASE SubmitSaveFile(j)
    <2>1. SaveRow(j, sub[j].mem, "stale") /\ sch' = sch /\ sub[j].pc = "made"
      BY <1>2 DEF SubmitSaveFile
    <2>2. RowsKept /\ AccountsKept
      BY <1>a, <1>b, <1>d, <1>f, <2>1, SaveRowKeeps
    <2>3. sub' = [sub EXCEPT ![j] = [pc |-> "ready", mem |-> sub[j].mem]]
      BY <1>2, <1>g DEF SubmitSaveFile
    <2>4. SubmissionsKept
      BY <1>b, <2>1, <2>3, SubmissionMoves
    <2> QED
      BY <1>d, <1>e, <2>1, <2>2, <2>4, ChargeStep
  <1>3. CASE SubmitToScheduler(j)
    <2>1. /\ sch' = [sch EXCEPT ![j] = "PD"] /\ sub[j].pc = "ready"
          /\ UNCHANGED <<row, escaped>>
      BY <1>3 DEF SubmitToScheduler
    <2>2. sub' = [sub EXCEPT ![j] = [pc |-> "sent", mem |-> sub[j].mem]]
      BY <1>3, <1>g DEF SubmitToScheduler
    <2>3. SubmissionsKept
      BY <1>a, <1>b, <2>1, <2>2, SubmissionMoves
    <2>4. SchedulerKept
      <3>1. ~Over(j)
        BY <1>b, <2>1, NoneIsNoReport DEF Over
      <3> QED
        BY <1>a, <2>1, <3>1 DEF SchedulerKept, Over
    <2> QED
      BY <1>d, <1>e, <2>1, <2>3, <2>4, ChargeStep
  <1>4. CASE SubmitRefused(j)
    <2> DEFINE m == [sub[j].mem EXCEPT !.op = "create_fail", !.state = "C"]
    <2>1. /\ sub' = [sub EXCEPT ![j] = [pc |-> "refused", mem |-> m]] /\ sub[j].pc = "ready"
          /\ UNCHANGED <<sch, row, escaped>>
      BY <1>4 DEF SubmitRefused
    <2>2. Agrees(m) /\ (Completed(m) => Kind[j] = "rerun")
      <3>1. m.state = "C" /\ m.sched = sub[j].mem.sched
        BY <1>a DEF Row
      <3> QED
        BY <1>b, <3>1 DEF Agrees, Completed, FinalStates
    <2> HIDE DEF m
    <2>3. SubmissionsKept
      BY <1>b, <2>1, <2>2, SubmissionMoves
    <2> QED
      BY <1>d, <1>e, <2>1, <2>3, ChargeStep
  <1>5. CASE SubmitQuery(j)
    <2> DEFINE seen == Updated(sub[j].mem, sch[j])
               m    == MarkCreated(IF Kind[j] = "rerun" THEN seen ELSE Pretended(seen))
    <2>1. /\ sub' = [sub EXCEPT ![j] = [pc |-> "queried", mem |-> m]] /\ sub[j].pc = "sent"
          /\ UNCHANGED <<sch, row, escaped>> /\ sch[j] \in Live \cup Finished
      BY <1>5 DEF SubmitQuery, Visible
    <2>2. seen \in Row /\ Agrees(seen)
      BY <1>a, <2>1, UpdatedType, UpdatedCompletes
    <2>3. Agrees(m) /\ (Completed(m) => Kind[j] = "rerun")
      <3> HIDE DEF seen
      <3>1. /\ Pretended(seen) \in Row /\ Agrees(Pretended(seen)) /\ ~Completed(Pretended(seen))
        BY <2>2, RowOperators, ChangesComplete, OperateStatesMembers
      <3>2. CASE Kind[j] = "rerun"
        BY <2>2, <3>2, ChangesComplete, OperateStatesMembers
      <3>3. CASE Kind[j] # "rerun"
        BY <3>1, <3>3, ChangesComplete, OperateStatesMembers
      <3> QED
        BY <3>2, <3>3
    <2> HIDE DEF m
    <2>4. SubmissionsKept
      BY <1>b, <2>1, <2>3, SubmissionMoves
    <2> QED
      BY <1>d, <1>e, <2>1, <2>4, ChargeStep
  <1>6. CASE SubmitFinalSave(j)
    <2>1. /\ SaveRow(j, sub[j].mem, "rerun") /\ sch' = sch /\ sub[j].pc # "none"
          /\ sub' = [sub EXCEPT ![j] = [pc |-> "done", mem |-> NewRow]]
      BY <1>6 DEF SubmitFinalSave
    <2>2. RowsKept /\ AccountsKept
      BY <1>a, <1>b, <1>d, <1>f, <2>1, SaveRowKeeps
    <2>3. SubmissionsKept
      BY <1>b, <2>1, NewIncomplete, SubmissionMoves
    <2> QED
      BY <1>d, <1>e, <2>1, <2>2, <2>3, ChargeStep
  <1>7. CASE SubmitDies(j)
    <2>1. /\ UNCHANGED <<sch, row, escaped>> /\ sub[j].pc # "none"
          /\ sub' = [sub EXCEPT ![j] = [pc |-> "done", mem |-> NewRow]]
      BY <1>7 DEF SubmitDies
    <2>2. SubmissionsKept
      BY <1>b, <2>1, NewIncomplete, SubmissionMoves
    <2> QED
      BY <1>d, <1>e, <2>1, <2>2, ChargeStep
  <1> QED
    BY <1>1, <1>2, <1>3, <1>4, <1>5, <1>6, <1>7 DEF SubProgress

-----------------------------------------------------------------------------
(* The requests.                                                           *)

\* A request ends, or goes on with an object no more completed than the row.
LEMMA RequestMoves ==
  ASSUME TypeOK, NEW r \in Requests, NEW q \in Request,
         req' = [req EXCEPT ![r] = q], Agrees(q.mem),
         q.pc \in Saving => q.job \in Jobs /\ (Completed(q.mem) => Completed(row[q.job]))
  PROVE  RequestsKept
  BY DEF TypeOK, HandlersOK, RequestsKept

\* What every request leaves alone.
LEMMA RequestFrame ==
  ASSUME TypeOK, ChargeInv, ReqStep
  PROVE  /\ SyncKept /\ ReportsKept
         /\ UNCHANGED <<charged, ypc, ycur>>
         /\ UNCHANGED escaped => AccountsKept
         /\ UNCHANGED row => RowsKept
         /\ UNCHANGED sch => SchedulerKept /\ SubmissionsKept
         /\ \A ks : sch' = Cancelled(ks) => SchedulerKept /\ SubmissionsKept
  <1>1. UNCHANGED <<sub, ypc, ycur, ymem, obs, charged>>
    BY DEF ReqStep, roundVars
  <1>2. ASSUME NEW ks, sch' = Cancelled(ks)
        PROVE  SchedulerKept /\ SubmissionsKept
    <2>1. \A j \in Jobs : sch'[j] = sch[j] \/ (sch[j] \in Live /\ sch'[j] = "CA")
      BY <1>2 DEF Cancelled
    <2>2. SchedulerKept
      BY <2>1, ReportsApart DEF SchedulerKept, Over
    <2>3. SubmissionsKept
      BY <1>1, <2>1, ReportsApart, SubmissionsUntouched
    <2> QED
      BY <2>2, <2>3
  <1> QED
    BY <1>1, <1>2, Untouched, AccountsGrow, SubmissionsUntouched

\* A request that reads or talks to the scheduler writes no row.
LEMMA ChargeQuietRequest ==
  ASSUME TypeOK, TypeOK', ChargeInv, ReqStep, UNCHANGED <<row, escaped>>, RequestsKept,
         UNCHANGED sch \/ \E ks : sch' = Cancelled(ks)
  PROVE  ChargeInv'
  BY RequestFrame, ChargeStep

\* A request's full save of the object it holds.
LEMMA ChargeSavingRequest ==
  ASSUME TypeOK, TypeOK', ChargeInv, ReqStep, UNCHANGED sch, NEW r \in Requests,
         req[r].pc \in Saving, SaveRow(req[r].job, req[r].mem, "stale"), RequestsKept
  PROVE  ChargeInv'
  <1>a. /\ req[r] \in Request /\ "stale" \in Reasons
        /\ req[r].job \in Jobs /\ req[r].mem \in Row
    BY RequestChanges, NewRowType DEF TypeOK, HandlersOK, Reasons, Saving
  <1>b. Agrees(req[r].mem)
    BY DEF ChargeInv, RowsAgree
  <1>1. Completed(req[r].mem) =>
          /\ Held(req[r].job)
          /\ Plain(req[r].job) => Accounted(req[r].job)
    BY DEF Held, ChargeInv, AccountInv
  <1>2. RowsKept /\ AccountsKept
    BY <1>a, <1>b, <1>1, RequestFrame, SaveRowKeeps
  <1> QED
    BY <1>2, RequestFrame, ChargeStep

LEMMA IdleIncomplete ==
  /\ Idle.pc = "idle" /\ "idle" \notin Saving /\ Agrees(Idle.mem)
  /\ \A ids : [Idle EXCEPT !.pc = "mark", !.ids = ids].mem = NewRow
  /\ \A ids : [Idle EXCEPT !.pc = "mark", !.ids = ids].pc = "mark"
  /\ "mark" \notin Saving
  BY NewIncomplete DEF Idle, Saving

LEMMA ChargeRequest ==
  ASSUME TypeOK, TypeOK', ChargeInv, NEW r \in Requests, ReqBegin(r) \/ ReqProgress(r)
  PROVE  ChargeInv'
  <1> USE DEF schedVars, dbVars
  <1>a. /\ req \in [Requests -> Request] /\ req' \in [Requests -> Request]
        /\ req[r] \in Request /\ row \in [Jobs -> Row]
        /\ \A j \in Jobs : row[j] \in Row /\ row[j].op \in OperateStates
    BY DEF TypeOK, HandlersOK, TableOK, Row
  <1>b. /\ \A j \in Jobs : Agrees(row[j])
        /\ Agrees(req[r].mem)
    BY DEF ChargeInv, RowsAgree
  <1>c. ReqStep
    BY DEF ReqBegin, ReqProgress, CancelRead, DeleteRead, CommentRead, BatchCancel,
           CancelSave, CancelAccepted, CancelRejected, CancelRollbackRead, RestoreSave,
           DeleteSave, BatchCancelMark, RequestDies
  <1>d. req' = [req EXCEPT ![r] = Idle] => RequestsKept
    BY IdleType, IdleIncomplete, RequestMoves
  <1>e. ASSUME NEW q, req' = [req EXCEPT ![r] = q]
        PROVE  q \in Request
    BY <1>a, <1>e
  <1>1. ASSUME NEW j \in Jobs, CancelRead(r, j)
        PROVE  ChargeInv'
    <2> DEFINE m == [row[j] EXCEPT !.op = "cancelling"]
               q == [pc |-> "save", job |-> j, prev |-> row[j].op, ids |-> {}, mem |-> m]
    <2>1. req' = [req EXCEPT ![r] = q] /\ UNCHANGED <<sch, row, escaped>>
      BY <1>1 DEF CancelRead
    <2>2. Agrees(m) /\ (Completed(m) <=> Completed(row[j]))
      BY <1>a, <1>b, ChangesComplete, OperateStatesMembers
    <2> HIDE DEF m
    <2>3. q \in Request
      BY <1>e, <2>1
    <2>4. RequestsKept
      BY <2>1, <2>2, <2>3, RequestMoves
    <2> QED
      BY <1>c, <2>1, <2>4, ChargeQuietRequest
  <1>2. ASSUME NEW j \in Jobs, DeleteRead(r, j)
        PROVE  ChargeInv'
    <2> DEFINE m == [row[j] EXCEPT !.del = TRUE]
               q == [pc |-> "delsave", job |-> j, prev |-> "created", ids |-> {}, mem |-> m]
    <2>1. req' = [req EXCEPT ![r] = q] /\ UNCHANGED <<sch, row, escaped>>
      BY <1>2 DEF DeleteRead
    <2>2. Agrees(m) /\ (Completed(m) <=> Completed(row[j]))
      BY <1>a, <1>b, ChangesComplete, OperateStatesMembers
    <2> HIDE DEF m
    <2>3. q \in Request
      BY <1>e, <2>1
    <2>4. RequestsKept
      BY <2>1, <2>2, <2>3, RequestMoves
    <2> QED
      BY <1>c, <2>1, <2>4, ChargeQuietRequest
  <1>3. ASSUME NEW j \in Jobs, CommentRead(r, j)
        PROVE  ChargeInv'
    <2> DEFINE q == [pc |-> "restore", job |-> j, prev |-> "created", ids |-> {}, mem |-> row[j]]
    <2>1. req' = [req EXCEPT ![r] = q] /\ UNCHANGED <<sch, row, escaped>>
      BY <1>3 DEF CommentRead
    <2>2. q \in Request
      BY <1>e, <2>1
    <2>3. RequestsKept
      BY <1>b, <2>1, <2>2, RequestMoves
    <2> QED
      BY <1>c, <2>1, <2>3, ChargeQuietRequest
  <1>4. ASSUME NEW js \in SUBSET Jobs, BatchCancel(r, js)
        PROVE  ChargeInv'
    <2> DEFINE q == [Idle EXCEPT !.pc = "mark", !.ids = Listed(js)]
    <2>1. /\ req' = [req EXCEPT ![r] = q] \/ req' = req
          /\ UNCHANGED <<row, escaped>>
          /\ UNCHANGED sch \/ \E ks : sch' = Cancelled(ks)
      BY <1>4 DEF BatchCancel
    <2>2. q.mem = NewRow /\ q.pc \notin Saving
      BY IdleIncomplete
    <2> HIDE DEF q
    <2>3. RequestsKept
      <3>1. CASE req' = [req EXCEPT ![r] = q]
        BY <1>e, <2>2, <3>1, NewIncomplete, RequestMoves
      <3>2. CASE req' = req
        BY <3>2, Untouched
      <3> QED
        BY <2>1, <3>1, <3>2
    <2> QED
      BY <1>c, <2>1, <2>3, ChargeQuietRequest
  <1>5. CASE CancelSave(r)
    <2>1. /\ SaveRow(req[r].job, req[r].mem, "stale") /\ UNCHANGED sch
          /\ req' = [req EXCEPT ![r] = [req[r] EXCEPT !.pc = "scancel"]]
          /\ req[r].pc = "save"
      BY <1>5 DEF CancelSave
    <2>2. [req[r] EXCEPT !.pc = "scancel"].mem = req[r].mem
          /\ [req[r] EXCEPT !.pc = "scancel"].pc = "scancel"
      BY <1>a DEF Request
    <2>3. [req[r] EXCEPT !.pc = "scancel"] \in Request
      BY <1>e, <2>1
    <2>4. RequestsKept
      BY <1>b, <2>1, <2>2, <2>3, RequestMoves DEF Saving
    <2> QED
      BY <1>c, <2>1, <2>4, ChargeSavingRequest DEF Saving
  <1>6. CASE CancelAccepted(r)
    <2>1. /\ req' = [req EXCEPT ![r] = Idle] /\ UNCHANGED <<row, escaped>>
          /\ UNCHANGED sch \/ \E ks : sch' = Cancelled(ks)
      BY <1>6 DEF CancelAccepted
    <2> QED
      BY <1>c, <1>d, <2>1, ChargeQuietRequest
  <1>7. CASE CancelRejected(r)
    <2>1. /\ UNCHANGED <<sch, row, escaped>>
          /\ req' = [req EXCEPT ![r] = [req[r] EXCEPT !.pc = "rollback"]]
      BY <1>7 DEF CancelRejected
    <2>2. [req[r] EXCEPT !.pc = "rollback"].mem = req[r].mem
          /\ [req[r] EXCEPT !.pc = "rollback"].pc = "rollback"
      BY <1>a DEF Request
    <2>3. [req[r] EXCEPT !.pc = "rollback"] \in Request
      BY <1>e, <2>1
    <2>4. RequestsKept
      BY <1>b, <2>1, <2>2, <2>3, RequestMoves DEF Saving
    <2> QED
      BY <1>c, <2>1, <2>4, ChargeQuietRequest
  <1>8. CASE CancelRollbackRead(r)
    <2> DEFINE m == [row[req[r].job] EXCEPT !.op = req[r].prev]
               q == [req[r] EXCEPT !.pc = "restore", !.mem = m]
    <2>1. req' = [req EXCEPT ![r] = q] /\ UNCHANGED <<sch, row, escaped>>
      BY <1>8 DEF CancelRollbackRead
    <2>2. req[r].job \in Jobs /\ req[r].prev \in OperateStates
      BY <1>8, <1>a, RequestChanges, NewRowType DEF CancelRollbackRead
    <2>3. Agrees(m) /\ (Completed(m) <=> Completed(row[req[r].job]))
      BY <1>a, <1>b, <2>2, ChangesComplete
    <2> HIDE DEF m
    <2>4. q.mem = m /\ q.job = req[r].job
      BY <1>a DEF Request
    <2> HIDE DEF q
    <2>5. q \in Request
      BY <1>e, <2>1
    <2>6. RequestsKept
      BY <2>1, <2>2, <2>3, <2>4, <2>5, RequestMoves
    <2> QED
      BY <1>c, <2>1, <2>6, ChargeQuietRequest
  <1>9. CASE RestoreSave(r) \/ DeleteSave(r)
    <2>1. /\ SaveRow(req[r].job, req[r].mem, "stale") /\ UNCHANGED sch
          /\ req' = [req EXCEPT ![r] = Idle] /\ req[r].pc \in {"restore", "delsave"}
      BY <1>9 DEF RestoreSave, DeleteSave
    <2> QED
      BY <1>c, <1>d, <2>1, ChargeSavingRequest DEF Saving
  <1>10. CASE BatchCancelMark(r)
    <2>1. /\ UNCHANGED <<sch, escaped>> /\ req' = [req EXCEPT ![r] = Idle]
          /\ \A j \in Jobs : row'[j] = row[j] \/ row'[j] = [row[j] EXCEPT !.op = "cancelling"]
      BY <1>10 DEF BatchCancelMark
    <2>2. \A j \in Jobs : Agrees([row[j] EXCEPT !.op = "cancelling"])
            /\ (Completed([row[j] EXCEPT !.op = "cancelling"]) <=> Completed(row[j]))
      BY <1>a, <1>b, ChangesComplete, OperateStatesMembers
    <2>3. RowsKept
      BY <1>b, <2>1, <2>2 DEF RowsKept
    <2> QED
      BY <1>c, <1>d, <2>1, <2>3, RequestFrame, ChargeStep
  <1>11. CASE RequestDies(r)
    <2>1. req' = [req EXCEPT ![r] = Idle] /\ UNCHANGED <<sch, row, escaped>>
      BY <1>11 DEF RequestDies
    <2> QED
      BY <1>c, <1>d, <2>1, ChargeQuietRequest
  <1> QED
    BY <1>1, <1>2, <1>3, <1>4, <1>5, <1>6, <1>7, <1>8, <1>9, <1>10, <1>11
       DEF ReqBegin, ReqProgress

-----------------------------------------------------------------------------
(* The sync process.                                                       *)

\* What every step of it leaves alone.
LEMMA RoundFrame ==
  ASSUME TypeOK, ChargeInv, SyncStep
  PROVE  RequestsKept /\ SubmissionsKept /\ SchedulerKept
  BY Untouched, SubmissionsUntouched DEF SyncStep, schedVars

\* A step of a round that writes no row and no account.
LEMMA ChargeQuietRound ==
  ASSUME TypeOK, TypeOK', ChargeInv, SyncStep, UNCHANGED <<row, charged, escaped>>,
         ReportsKept, SyncKept, ypc # "charge" \/ UNCHANGED <<ypc, ycur>>
  PROVE  ChargeInv'
  BY RoundFrame, Untouched, AccountsGrow, ChargeStep

LEMMA DropKeepsReports ==
  ASSUME TypeOK, NEW j \in Jobs, Drop(j)
  PROVE  ReportsKept
  BY DEF TypeOK, RoundOK, Drop, ReportsKept

LEMMA ChargeUpdate ==
  ASSUME TypeOK, TypeOK', ChargeInv, NEW j \in Jobs, SyncUpdate(j)
  PROVE  ChargeInv'
  <1>a. /\ row \in [Jobs -> Row] /\ snap \in [Jobs -> Row]
        /\ escaped \in [Jobs -> SUBSET Reasons] /\ \A k \in Jobs : Agrees(row[k])
        /\ obs[j] \in Live \cup Finished
    BY DEF TypeOK, TableOK, RoundOK, HistoryOK, ChargeInv, RowsAgree, SyncUpdate
  <1>b. /\ SyncStep /\ Drop(j) /\ ypc = "handle" /\ UNCHANGED ymem
        /\ row' = [row EXCEPT ![j] = Updated(row[j], obs[j])]
    BY DEF SyncUpdate, SaveUpdate, Handling
  <1>1. /\ Charges(Updated(snap[j], obs[j])) <=> obs[j] \in Finished
        /\ Agrees(Updated(row[j], obs[j]))
        /\ Completed(Updated(row[j], obs[j])) <=> obs[j] \in Finished
    BY <1>a, UpdatedCompletes
  <1>2. CASE obs[j] \in Finished
    <2>1. ypc' = "charge" /\ ycur' = j /\ UNCHANGED <<charged, escaped>>
      BY <1>1, <1>2 DEF SyncUpdate
    <2>2. RowsKept
      BY <1>a, <1>b, <1>1, <1>2, <2>1 DEF RowsKept, Accounted
    <2>3. AccountsKept
      BY <1>b, <2>1, AccountsGrow
    <2>4. SyncKept
      BY <2>1 DEF SyncKept
    <2> QED
      BY <1>b, <2>2, <2>3, <2>4, RoundFrame, DropKeepsReports, ChargeStep
  <1>3. CASE obs[j] \in Live
    <2>1. obs[j] \notin SchedCompleted /\ obs[j] \notin Finished
      BY <1>3, ReportsApart
    <2>2. /\ UNCHANGED <<ypc, ycur>> /\ charged' = charged \ {j}
          /\ escaped' = [escaped EXCEPT ![j] = {}]
      BY <1>1, <2>1 DEF SyncUpdate
    <2>3. RowsKept
      BY <1>a, <1>b, <1>1, <2>1 DEF RowsKept
    <2>4. AccountsKept
      <3>1. ~Completed(row'[j])
        BY <1>a, <1>b, <1>1, <2>1
      <3>2. ASSUME NEW k \in Jobs, k # j, Accounted(k)
            PROVE  Accounted(k)'
        BY <1>a, <1>b, <2>2, <3>2 DEF Accounted, Plain
      <3> QED
        BY <1>3, <3>1, <3>2 DEF AccountsKept
    <2>5. SyncKept
      BY <1>b, <2>2 DEF SyncKept
    <2> QED
      BY <1>b, <2>3, <2>4, <2>5, RoundFrame, DropKeepsReports, ChargeStep
  <1> QED
    BY <1>a, <1>2, <1>3

LEMMA ChargeCreateRow ==
  ASSUME TypeOK, TypeOK', ChargeInv, NEW j \in Jobs, SyncCreateRow(j)
  PROVE  ChargeInv'
  <1>a. /\ row \in [Jobs -> Row] /\ obs[j] \in Live \cup Finished
        /\ \A k \in Jobs : Agrees(row[k])
    BY DEF TypeOK, TableOK, RoundOK, ChargeInv, RowsAgree, SyncCreateRow
  <1>b. /\ Drop(j) /\ UNCHANGED <<sch, sub, charged, escaped>> /\ ypc = "handle"
        /\ row' = [row EXCEPT ![j] = NewRow] /\ ypc' = "saveConsole" /\ ycur' = j
        /\ ymem' = [Updated(NewRow, obs[j]) EXCEPT !.op = "created"]
        /\ req' = [r \in Requests |-> IF req[r].job = j THEN Idle ELSE req[r]]
    BY DEF SyncCreateRow, Handling, schedVars
  <1>1. RowsKept
    BY <1>a, <1>b, NewIncomplete DEF RowsKept
  <1>2. RequestsKept
    BY <1>b, IdleIncomplete DEF RequestsKept, TypeOK, HandlersOK
  <1>3. SyncKept
    <2>1. /\ Updated(NewRow, obs[j]) \in Row /\ Agrees(Updated(NewRow, obs[j]))
          /\ Completed(Updated(NewRow, obs[j])) <=> obs[j] \in Finished
      BY <1>a, NewRowType, UpdatedType, UpdatedCompletes
    <2>2. Agrees(ymem') /\ (Completed(ymem') <=> obs[j] \in Finished)
      BY <1>b, <2>1, ChangesComplete, OperateStatesMembers
    <2> QED
      BY <1>b, <2>2 DEF SyncKept
  <1>4. SubmissionsKept /\ SchedulerKept /\ AccountsKept
    BY <1>b, SubmissionsUntouched, Untouched, AccountsGrow
  <1> QED
    BY <1>b, <1>1, <1>2, <1>3, <1>4, DropKeepsReports, ChargeStep

LEMMA ChargeSync ==
  ASSUME TypeOK, TypeOK', ChargeInv, SyncNext
  PROVE  ChargeInv'
  <1> USE DEF dbVars, histVars
  <1>a. /\ row \in [Jobs -> Row] /\ obs \in [Jobs -> Live \cup Finished \cup {"none"}]
        /\ escaped \in [Jobs -> SUBSET Reasons]
        /\ \A k \in Jobs : Agrees(row[k])
    BY DEF TypeOK, TableOK, RoundOK, HistoryOK, ChargeInv, RowsAgree
  <1>b. ypc \notin {"idle", "ask", "handle"} => ycur \in Jobs
    BY DEF TypeOK, RoundOK
  <1>1. CASE SyncList
    <2>1. /\ SyncStep /\ UNCHANGED <<row, obs, charged, escaped, ycur, ymem>>
          /\ ypc = "idle" /\ ypc' \in {"handle", "ask"}
      BY <1>1 DEF SyncList
    <2> QED
      BY <2>1, Untouched, ChargeQuietRound DEF SyncKept
  <1>2. CASE SyncAskFull
    <2>1. /\ SyncStep /\ UNCHANGED <<row, charged, escaped, ycur, ymem>>
          /\ ypc = "ask" /\ ypc' = "handle" /\ ReportsKept
      BY <1>2 DEF SyncAskFull, ReportsKept
    <2> QED
      BY <2>1, ChargeQuietRound DEF SyncKept
  <1>3. CASE SyncAbort
    <2>1. /\ SyncStep /\ UNCHANGED <<row, charged, escaped, ycur, ymem>>
          /\ ypc # "charge" /\ ypc' = "idle" /\ ReportsKept
      BY <1>3 DEF SyncAbort, ReportsKept
    <2> QED
      BY <2>1, ChargeQuietRound DEF SyncKept
  <1>4. ASSUME NEW j \in Jobs, SyncLookup(j)
        PROVE  ChargeInv'
    <2>1. SyncStep /\ UNCHANGED <<row, obs, charged, escaped, ypc, ycur, ymem>>
      BY <1>4 DEF SyncLookup
    <2> QED
      BY <2>1, Untouched, ChargeQuietRound
  <1>5. ASSUME NEW j \in Jobs, SyncAskOwns(j)
        PROVE  ChargeInv'
    <2>1. /\ SyncStep /\ UNCHANGED <<row, charged, escaped, ypc, ycur, ymem>>
          /\ UNCHANGED obs \/ obs' = [obs EXCEPT ![j] = sch[j]]
               \/ obs' = [obs EXCEPT ![j] = "none"]
      BY <1>5 DEF SyncAskOwns
    <2>2. ReportsKept
      BY <1>a, <2>1 DEF ReportsKept
    <2> QED
      BY <2>1, <2>2, Untouched, ChargeQuietRound
  <1>6. ASSUME NEW j \in Jobs, SyncMissing(j) \/ SyncSkip(j)
        PROVE  ChargeInv'
    <2>1. SyncStep /\ Drop(j) /\ UNCHANGED <<row, charged, escaped, ypc, ycur, ymem>>
      BY <1>6 DEF SyncMissing, SyncSkip
    <2> QED
      BY <2>1, Untouched, DropKeepsReports, ChargeQuietRound
  <1>7. ASSUME NEW j \in Jobs, SyncReloadMissing(j)
        PROVE  ChargeInv'
    <2>1. /\ SyncStep /\ Drop(j) /\ UNCHANGED <<row, charged, escaped>> /\ ypc = "handle"
          /\ ypc' \in {"saveMissing", "saveCancelled"}
      BY <1>7 DEF SyncReloadMissing, Handling
    <2>2. ymem'.state = "C"
      BY <1>7, <1>a DEF SyncReloadMissing, Row
    <2> QED
      BY <2>1, <2>2, DropKeepsReports, ChargeQuietRound DEF SyncKept
  <1>8. CASE SyncSaveConsole
    <2>1. /\ SyncStep /\ UNCHANGED <<obs, charged, escaped>> /\ ypc = "saveConsole"
          /\ row' = [row EXCEPT ![ycur] = ymem] /\ ypc' \in {"charge", "handle"}
          /\ Charges(ymem) => ypc' = "charge" /\ ycur' = ycur
      BY <1>8 DEF SyncSaveConsole
    <2>2. Agrees(ymem) /\ (Completed(ymem) => Held(ycur) /\ Charges(ymem))
      BY <2>1 DEF ChargeInv, RowsAgree, Agrees, Charges, Held
    <2>3. RowsKept
      BY <1>a, <1>b, <2>1, <2>2 DEF RowsKept, Accounted
    <2>4. SyncKept
      BY <2>1 DEF SyncKept
    <2> QED
      BY <2>1, <2>3, <2>4, RoundFrame, Untouched, AccountsGrow, ChargeStep
  <1>9. CASE SyncSaveMissing
    <2>1. /\ SyncStep /\ UNCHANGED <<obs, charged, escaped>> /\ ypc' = "handle"
          /\ ypc \in {"saveMissing", "saveCancelled"} /\ ymem.state = "C"
      BY <1>9 DEF SyncSaveMissing, ChargeInv, RowsAgree
    <2>2. /\ row'[ycur].sched = row[ycur].sched /\ row'[ycur].state = "C"
          /\ \A k \in Jobs \ {ycur} : row'[k] = row[k]
      BY <1>9, <1>a, <1>b, <2>1 DEF SyncSaveMissing, Row
    <2>3. \A k \in Jobs : Agrees(row'[k]) /\ (Completed(row'[k]) => Completed(row[k]))
      BY <1>a, <2>2 DEF Agrees, Completed, FinalStates
    <2>4. RowsKept /\ SyncKept
      BY <2>1, <2>3 DEF RowsKept, SyncKept
    <2> QED
      BY <2>1, <2>4, RoundFrame, Untouched, AccountsGrow, ChargeStep
  <1>10. CASE SyncCharge
    <2>1. /\ SyncStep /\ UNCHANGED <<row, obs>> /\ ypc = "charge" /\ ypc' = "handle"
          /\ \/ charged' = charged \cup {ycur} /\ UNCHANGED escaped
             \/ escaped' = [escaped EXCEPT ![ycur] = @ \cup {"client"}] /\ UNCHANGED charged
      BY <1>10 DEF SyncCharge
    <2>2. AccountsKept
      BY <1>a, <1>b, <2>1 DEF AccountsKept, Accounted, Plain
    <2>3. SyncKept
      BY <2>1 DEF SyncKept
    <2> QED
      BY <2>1, <2>2, <2>3, RoundFrame, Untouched, ChargeStep
  <1>11. CASE SyncClean
    <2>1. /\ SyncStep /\ UNCHANGED <<obs, charged, escaped>> /\ ypc = "handle" /\ ypc' = "idle"
          /\ row' = [k \in Jobs |-> Cleaned(row[k])]
      BY <1>11 DEF SyncClean, roundVars
    <2>2. \A k \in Jobs : Agrees(row'[k]) /\ (Completed(row'[k]) => Completed(row[k]))
      BY <1>a, <2>1, ChangesComplete, OperateStatesMembers
    <2>3. RowsKept /\ SyncKept
      BY <2>1, <2>2 DEF RowsKept, SyncKept
    <2> QED
      BY <2>1, <2>3, RoundFrame, Untouched, AccountsGrow, ChargeStep
  <1> QED
    BY <1>1, <1>2, <1>3, <1>4, <1>5, <1>6, <1>7, <1>8, <1>9, <1>10, <1>11,
       ChargeUpdate, ChargeCreateRow DEF SyncNext

LEMMA ChargeClockAndCrash ==
  ASSUME TypeOK, TypeOK', ChargeInv,
         SyncCrash \/ (\E j \in Jobs : GraceExpires(j)) \/ UNCHANGED vars
  PROVE  ChargeInv'
  <1>a. escaped \in [Jobs -> SUBSET Reasons] /\ (ypc = "charge" => ycur \in Jobs)
    BY DEF TypeOK, RoundOK, HistoryOK
  <1>1. /\ UNCHANGED <<row, req, sub, sch, charged>>
    BY DEF SyncCrash, GraceExpires, vars, schedVars, dbVars, histVars
  <1>2. RowsKept /\ RequestsKept /\ SubmissionsKept /\ SchedulerKept
    BY <1>1, Untouched, SubmissionsUntouched
  <1>3. CASE SyncCrash
    <2>1. SyncKept /\ ReportsKept
      BY <1>3 DEF SyncCrash, SyncKept, ReportsKept
    <2>2. AccountsKept
      BY <1>a, <1>1, <1>3 DEF SyncCrash, AccountsKept, Accounted, Plain
    <2> QED
      BY <1>2, <2>1, <2>2, ChargeStep
  <1>4. CASE UNCHANGED <<ypc, roundVars, escaped>>
    <2>1. UNCHANGED <<ypc, ycur, ymem, obs, escaped>>
      BY <1>4 DEF roundVars
    <2> QED
      BY <1>1, <1>2, <2>1, Untouched, AccountsGrow, ChargeStep
  <1> QED
    BY <1>3, <1>4 DEF GraceExpires, vars, histVars

-----------------------------------------------------------------------------

LEMMA ChargeHolds == Spec => [](TypeOK /\ ChargeInv)
  <1>1. Init => ChargeInv
    <2> SUFFICES ASSUME Init PROVE ChargeInv
      OBVIOUS
    <2>1. /\ \A j \in Jobs : row[j] = NewRow /\ sub[j].mem = NewRow /\ sub[j].pc = "none"
                             /\ sch[j] = "none" /\ obs[j] = "none"
          /\ \A r \in Requests : req[r] = Idle
          /\ ypc = "idle"
      BY DEF Init
    <2>2. \A j \in Jobs : ~Held(j)
      BY <2>1, IdleIncomplete DEF Held
    <2> QED
      BY <2>1, <2>2, NewIncomplete, IdleIncomplete, NoneIsNoReport
         DEF ChargeInv, RowsAgree, SubmissionInv, OverInv, AccountInv
  <1>2. TypeOK /\ TypeOK' /\ ChargeInv /\ [Next]_vars => ChargeInv'
    <2> SUFFICES ASSUME TypeOK, TypeOK', ChargeInv, [Next]_vars PROVE ChargeInv'
      OBVIOUS
    <2> QED
      BY ChargeSched, ChargeSubmission, ChargeRequest, ChargeJobAction, ChargeSync,
         ChargeClockAndCrash DEF Next
  <1> QED
    BY <1>1, <1>2, TypeCorrect, PTL DEF Spec

\* Every completion that a row records is charged, or about to be, or was lost
\* by one of the four ways CompletionsCharged names: in every interleaving of the
\* submissions, the requests, the sync process and the scheduler, in both modes.
THEOREM CompletionsAreCharged == Spec => []CompletionsCharged
  <1>1. TypeOK /\ ChargeInv => CompletionsCharged
    <2> SUFFICES ASSUME TypeOK, ChargeInv, NEW j \in created, Done(row[j])
                 PROVE  Accounted(j)
      BY DEF CompletionsCharged, Accounted, Plain
    <2>1. j \in Jobs /\ row[j] \in Row /\ Agrees(row[j])
      BY DEF TypeOK, TableOK, ChargeInv, RowsAgree
    <2>2. Completed(row[j])
      BY <2>1, ChangesComplete, OperateStatesMembers
    <2> QED
      BY <2>1, <2>2 DEF ChargeInv, AccountInv
  <1> QED
    BY <1>1, ChargeHolds, PTL

-----------------------------------------------------------------------------
(* The sync process keeps a cancel.  What it is about to save, it may save: *)
(* a new row is a console job's, since the others have theirs before the    *)
(* scheduler knows them, and a missing job's object says "cancelled".       *)

KeepInv == \A j \in Jobs :
  /\ Kind[j] # "console" /\ sub[j].pc # "none" => j \in created
  /\ SyncMode = "full" /\ j \in pending => Kind[j] = "console" \/ sub[j].pc # "none"
  /\ j \in unknown => Kind[j] = "console"
  /\ ypc = "saveConsole" /\ ycur = j => Kind[j] = "console"
  /\ ypc = "saveCancelled" => ymem.op = "cancelled"

LEMMA KeepFrame ==
  ASSUME KeepInv, UNCHANGED <<sub, pending, unknown, ypc, ycur, ymem>>, created \subseteq created'
  PROVE  KeepInv'
  BY DEF KeepInv

LEMMA KeepSubmission ==
  ASSUME TypeOK, KeepInv, NEW j \in Jobs, SubmitCreate(j) \/ SubProgress(j)
  PROVE  KeepInv'
  <1>1. UNCHANGED <<pending, unknown, ypc, ycur, ymem>>
    BY DEF SubmitCreate, SubProgress, SubmitSaveFile, SubmitToScheduler, SubmitRefused,
           SubmitQuery, SubmitFinalSave, SubmitDies, SubStep, roundVars
  <1>2. /\ \A k \in Jobs \ {j} : sub'[k] = sub[k]
        /\ sub'[j].pc # "none" /\ created \subseteq created'
        /\ j \in created' \/ sub[j].pc # "none"
    BY DEF TypeOK, HandlersOK, Submission, SubmitCreate, SubProgress, SubmitSaveFile,
           SubmitToScheduler, SubmitRefused, SubmitQuery, SubmitFinalSave, SubmitDies, dbVars
  <1> QED
    BY <1>1, <1>2 DEF KeepInv

LEMMA KeepSync ==
  ASSUME TypeOK, ChargeInv, KeepInv, SyncNext
  PROVE  KeepInv'
  <1> USE DEF dbVars, histVars, SyncStep
  <1>a. row \in [Jobs -> Row] /\ unknown \subseteq Jobs
    BY DEF TypeOK, TableOK, RoundOK
  <1>1. CASE SyncList \/ SyncAbort
    BY <1>1 DEF SyncList, SyncAbort, KeepInv
  <1>2. CASE SyncAskFull
    <2>1. pending' \subseteq Visible /\ UNCHANGED <<created, sub, unknown>> /\ ypc' = "handle"
      BY <1>2 DEF SyncAskFull
    <2>2. \A j \in Visible : Kind[j] = "console" \/ sub[j].pc # "none"
      BY NoneIsNoReport DEF Visible, ChargeInv, SubmissionInv
    <2> QED
      BY <2>1, <2>2 DEF KeepInv
  <1>3. ASSUME NEW j \in Jobs, SyncLookup(j)
        PROVE  KeepInv'
    <2>1. /\ UNCHANGED <<created, sub, ypc, ycur, ymem>> /\ pending' = pending \ {j}
          /\ SyncMode = "full" /\ j \in pending
          /\ \/ unknown' = unknown
             \/ unknown' = unknown \cup {j} /\ (j \notin created \/ Kind[j] = "console")
      BY <1>3 DEF SyncLookup
    <2> QED
      BY <2>1 DEF KeepInv
  <1>4. ASSUME NEW j \in Jobs, SyncAskOwns(j)
        PROVE  KeepInv'
    BY <1>4 DEF SyncAskOwns, KeepInv
  <1>5. ASSUME NEW j \in Jobs, SyncCreateRow(j)
        PROVE  KeepInv'
    BY <1>5 DEF SyncCreateRow, Drop, KeepInv
  <1>6. ASSUME NEW j \in Jobs, SyncMissing(j) \/ SyncSkip(j) \/ SyncUpdate(j)
        PROVE  KeepInv'
    <2>1. /\ UNCHANGED <<created, sub, pending>> /\ unknown' \subseteq unknown
          /\ UNCHANGED <<ypc, ycur, ymem>> \/ ypc' = "charge"
      BY <1>6 DEF SyncMissing, SyncSkip, SyncUpdate, Drop
    <2> QED
      BY <2>1 DEF KeepInv
  <1>7. ASSUME NEW j \in Jobs, SyncReloadMissing(j)
        PROVE  KeepInv'
    <2>1. /\ UNCHANGED <<created, sub, pending>> /\ unknown' \subseteq unknown
          /\ ypc' # "saveConsole" /\ (ypc' = "saveCancelled" => row[j].op = "cancelling")
          /\ ymem' = [row[j] EXCEPT !.state = "C", !.op = IF @ = "cancelling" THEN "cancelled" ELSE @]
      BY <1>7 DEF SyncReloadMissing, Drop
    <2>2. row[j].op = "cancelling" => ymem'.op = "cancelled"
      BY <1>a, <2>1 DEF Row
    <2> QED
      BY <2>1, <2>2 DEF KeepInv
  <1>8. CASE SyncSaveConsole \/ SyncSaveMissing \/ SyncCharge \/ SyncClean
    <2>1. UNCHANGED <<created, sub, pending, unknown>> /\ ypc' \in {"charge", "handle", "idle"}
      BY <1>8 DEF SyncSaveConsole, SyncSaveMissing, SyncCharge, SyncClean, roundVars
    <2> QED
      BY <2>1 DEF KeepInv
  <1> QED
    BY <1>1, <1>2, <1>3, <1>4, <1>5, <1>6, <1>7, <1>8 DEF SyncNext

LEMMA KeepStep == TypeOK /\ ChargeInv /\ KeepInv /\ [Next]_vars => KeepInv'
  <1> SUFFICES ASSUME TypeOK, ChargeInv, KeepInv, [Next]_vars PROVE KeepInv'
    OBVIOUS
  <1>1. CASE SchedNext \/ UNCHANGED vars \/ \E j \in Jobs : GraceExpires(j)
    <2>1. UNCHANGED <<created, sub, pending, unknown, ypc, ycur, ymem>>
      BY <1>1 DEF SchedNext, SchedStart, SchedEnd, SchedUnknownReport, SchedForget, ConsoleSubmit,
                  Outage, Recovery, GraceExpires, SchedStep, vars, roundVars, dbVars
    <2> QED
      BY <2>1, KeepFrame
  <1>2. ASSUME NEW js \in SUBSET Jobs, NEW a \in SchedulerActions, JobAction(js, a)
        PROVE  KeepInv'
    <2>1. UNCHANGED <<created, sub, pending, unknown, ypc, ycur, ymem>>
      BY <1>2 DEF JobAction, SchedStep, roundVars, dbVars
    <2> QED
      BY <2>1, KeepFrame
  <1>3. ASSUME NEW r \in Requests, ReqBegin(r) \/ ReqProgress(r)
        PROVE  KeepInv'
    <2>1. UNCHANGED <<created, sub, pending, unknown, ypc, ycur, ymem>>
      BY <1>3 DEF ReqBegin, ReqProgress, CancelRead, DeleteRead, CommentRead, BatchCancel,
           CancelSave, CancelAccepted, CancelRejected, CancelRollbackRead, RestoreSave,
           DeleteSave, BatchCancelMark, RequestDies, ReqStep, roundVars, dbVars
    <2> QED
      BY <2>1, KeepFrame
  <1>4. CASE SyncCrash
    BY <1>4 DEF SyncCrash, KeepInv, dbVars
  <1> QED
    BY <1>1, <1>2, <1>3, <1>4, KeepSubmission, KeepSync DEF Next

\* A row of a job of LiCO's leaves "cancelling" in a step that is no handler's
\* only as "cancelled" and final.
KeepsCancel ==
  \A j \in created :
     Kind[j] # "console" /\ UNCHANGED <<sub, req>>
       /\ row[j].op = "cancelling" /\ row'[j].op # "cancelling"
     => row'[j].op = "cancelled" /\ row'[j].state \in FinalStates

\* The saves of the sync process, one by one.
LEMMA SyncSaves ==
  ASSUME TypeOK, ChargeInv, KeepInv, SyncNext
  PROVE  KeepsCancel
  <1> SUFFICES ASSUME NEW j \in Jobs, Kind[j] # "console", UNCHANGED <<sub, req>>,
                      row[j].op = "cancelling", row'[j].op # "cancelling"
               PROVE  row'[j].op = "cancelled" /\ row'[j].state \in FinalStates
    BY DEF KeepsCancel, TypeOK, TableOK
  <1>a. /\ row \in [Jobs -> Row] /\ snap \in [Jobs -> Row] /\ row'[j] # row[j]
        /\ "C" \in FinalStates
    BY DEF TypeOK, TableOK, RoundOK, FinalStates
  <1>1. CASE UNCHANGED row
    BY <1>1, <1>a
  <1>2. ASSUME NEW k \in Jobs, SyncCreateRow(k)
        PROVE  FALSE
    BY <1>2, <1>a DEF SyncCreateRow, KeepInv
  <1>3. CASE SyncSaveConsole
    BY <1>3, <1>a DEF SyncSaveConsole, KeepInv
  <1>4. CASE SyncSaveMissing
    <2>1. /\ ymem.state = "C" /\ (ypc = "saveCancelled" => ymem.op = "cancelled")
          /\ row' = [row EXCEPT ![ycur] =
                       [row[ycur] EXCEPT !.state = ymem.state,
                                         !.op = IF ypc = "saveCancelled" THEN ymem.op ELSE @]]
      BY <1>4 DEF SyncSaveMissing, KeepInv, ChargeInv, RowsAgree
    <2>2. j = ycur
      BY <1>a, <2>1
    <2> QED
      BY <1>a, <2>1, <2>2 DEF Row
  <1>5. ASSUME NEW k \in Jobs, SyncUpdate(k)
        PROVE  row'[j].op = "cancelled" /\ row'[j].state \in FinalStates
    <2>1. row' = [row EXCEPT ![k] = Updated(row[k], obs[k])]
      BY <1>5 DEF SyncUpdate, SaveUpdate
    <2>2. k = j /\ row'[j] = Updated(row[j], obs[j])
      BY <1>a, <2>1
    <2>3. /\ row'[j].op = IF obs[j] = "CA" THEN "cancelled" ELSE row[j].op
          /\ row'[j].state = FromSchedulerJobState(obs[j])
      BY <1>a, <2>2 DEF Updated, Row
    <2>4. FromSchedulerJobState("CA") = "C"
      BY DEF FromSchedulerJobState, SchedCompleted
    <2> QED
      BY <1>a, <2>3, <2>4
  <1>6. CASE SyncClean
    <2>1. row'[j] = Cleaned(row[j])
      BY <1>6 DEF SyncClean
    <2> QED
      BY <1>a, <2>1 DEF Cleaned, Row
  <1> QED
    BY <1>1, <1>2, <1>3, <1>4, <1>5, <1>6
       DEF SyncNext, SyncList, SyncAskFull, SyncAbort, SyncCharge, SyncLookup, SyncAskOwns,
           SyncMissing, SyncReloadMissing, SyncSkip, dbVars

\* Every other step that writes a row is a handler's.
LEMMA OtherSaves ==
  ASSUME TypeOK, [Next]_vars, UNCHANGED <<sub, req>>
  PROVE  UNCHANGED row \/ SyncNext
  <1>1. ASSUME NEW j \in Jobs, SubmitCreate(j) \/ SubProgress(j)
        PROVE  UNCHANGED row
    <2>1. SubmitToScheduler(j) \/ SubmitRefused(j) \/ SubmitQuery(j) \/ SubmitDies(j)
            \/ sub'[j].pc # sub[j].pc
      BY <1>1 DEF SubmitCreate, SubProgress, SubmitSaveFile, SubmitFinalSave, TypeOK, HandlersOK,
                  Submission
    <2> QED
      BY <2>1 DEF SubmitToScheduler, SubmitRefused, SubmitQuery, SubmitDies, dbVars
  <1>2. ASSUME NEW r \in Requests, ReqBegin(r)
        PROVE  UNCHANGED row
    BY <1>2 DEF ReqBegin, CancelRead, DeleteRead, CommentRead, BatchCancel, dbVars
  <1>3. ASSUME NEW r \in Requests, ReqProgress(r)
        PROVE  UNCHANGED row
    <2>1. req[r] \in Request /\ req \in [Requests -> Request] /\ Idle.pc = "idle"
      BY DEF TypeOK, HandlersOK, Idle
    <2>2. CASE CancelSave(r)
      <3>1. [req[r] EXCEPT !.pc = "scancel"].pc = "scancel"
        BY <2>1 DEF Request
      <3> QED
        BY <2>1, <2>2, <3>1 DEF CancelSave
    <2>3. CASE RestoreSave(r) \/ DeleteSave(r) \/ BatchCancelMark(r)
      BY <2>1, <2>3 DEF RestoreSave, DeleteSave, BatchCancelMark
    <2> QED
      BY <1>3, <2>2, <2>3
         DEF ReqProgress, CancelAccepted, CancelRejected, CancelRollbackRead, RequestDies, dbVars
  <1>4. CASE SchedNext \/ SyncCrash \/ UNCHANGED vars \/ \E j \in Jobs : GraceExpires(j)
    BY <1>4 DEF SchedNext, SchedStart, SchedEnd, SchedUnknownReport, SchedForget, ConsoleSubmit,
                Outage, Recovery, SyncCrash, GraceExpires, SchedStep, vars, dbVars
  <1>5. ASSUME NEW js \in SUBSET Jobs, NEW a \in SchedulerActions, JobAction(js, a)
        PROVE  UNCHANGED row
    BY <1>5 DEF JobAction, SchedStep, dbVars
  <1> QED
    BY <1>1, <1>2, <1>3, <1>4, <1>5 DEF Next

\* The sync process never overwrites the "cancelling" of a request it did not
\* see: its updates leave the column alone, the completion of a missing job
\* reloads the row first, and the rows it saves whole are new ones.
THEOREM SyncKeepsCancels == Spec => SyncKeepsCancel
  <1>1. Init => KeepInv
    BY DEF Init, KeepInv
  <1>2. TypeOK /\ ChargeInv /\ KeepInv /\ [Next]_vars => [KeepsCancel]_vars
    <2> SUFFICES ASSUME TypeOK, ChargeInv, KeepInv, [Next]_vars PROVE KeepsCancel
      OBVIOUS
    <2>1. CASE UNCHANGED <<sub, req>>
      BY <2>1, SyncSaves, OtherSaves DEF KeepsCancel
    <2>2. CASE ~UNCHANGED <<sub, req>>
      BY <2>2 DEF KeepsCancel
    <2> QED
      BY <2>1, <2>2
  <1>3. [KeepsCancel]_vars <=>
          [\A j \in created :
             /\ Kind[j] # "console"
             /\ UNCHANGED <<sub, req>>
             /\ row[j].op = "cancelling" /\ row'[j].op # "cancelling"
             => row'[j].op = "cancelled" /\ row'[j].state \in FinalStates]_vars
    BY DEF KeepsCancel
  <1> QED
    BY <1>1, <1>2, <1>3, KeepStep, ChargeHolds, PTL DEF Spec, SyncKeepsCancel
=============================================================================
