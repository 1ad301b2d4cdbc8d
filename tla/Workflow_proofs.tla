----------------------------- MODULE Workflow_proofs -----------------------------
(***************************************************************************)
(* Proofs about Workflow, for any steps, requests, policies and bounds.    *)
(***************************************************************************)
EXTENDS Workflow, FiniteSetTheorems, TLAPS

-----------------------------------------------------------------------------
(* Types.                                                                  *)

ScanRecord ==
  [pc : ScanPcs, pos : Nat, wf : WorkflowRow, read : [StepJobs -> StoredIds],
   running : Nat, failed : BOOLEAN, cancelled : BOOLEAN, new : StoredIds]

\* None and SubmitFailed are no ids of jobs.
LEMMA IdFacts ==
  /\ None \notin JobIds /\ SubmitFailed \notin JobIds /\ None # SubmitFailed
  /\ None \in StoredIds /\ SubmitFailed \in StoredIds /\ JobIds \subseteq StoredIds
  <1>1. \A k \in JobIds : k >= 1
    BY DEF JobIds
  <1> QED
    BY <1>1 DEF None, SubmitFailed, StoredIds

LEMMA SizeType == Size \in Nat /\ StepOf \in [StepJobs -> Nat] /\ IsFiniteSet(StepJobs)
  <1>1. Size \in Nat /\ StepOf \in [StepJobs -> Nat]
    BY WorkflowAssumption DEF StepJobs
  <1>2. IsFiniteSet(1 .. Size)
    BY <1>1, FS_Interval
  <1> QED
    BY <1>1, <1>2 DEF StepJobs

LEMMA RestingType == Resting \in ScanRecord /\ NoObject \in WorkflowRow
  BY IdFacts DEF Resting, ScanRecord, ScanPcs, NoObject, WorkflowRow, Statuses, Finished

\* What a scan changes in its record keeps it one.
LEMMA ScanChanges ==
  ASSUME NEW s \in ScanRecord, NEW pc \in ScanPcs, NEW p \in Nat
  PROVE  /\ [s EXCEPT !.pc = pc] \in ScanRecord
         /\ [s EXCEPT !.pos = p, !.pc = pc] \in ScanRecord
         /\ \A n \in StoredIds : [s EXCEPT !.new = n, !.pc = pc] \in ScanRecord
         /\ \A f \in [StepJobs -> StoredIds] : [s EXCEPT !.read = f, !.pc = pc] \in ScanRecord
  BY DEF ScanRecord

LEMMA EnteringType ==
  ASSUME NEW s \in ScanRecord
  PROVE  Entering(s) \in ScanRecord
  BY DEF Entering, ScanRecord, ScanPcs

\* What Moved does, in the three cases.
LEMMA MovedCases ==
  ASSUME NEW s \in ScanRecord
  PROVE  \/ Moved(s) = Resting
         \/ /\ s.running < s.wf.max /\ ~(LastOfStep(s.pos) /\ s.running > 0)
            /\ \/ s.pos = Size /\ Moved(s) = [s EXCEPT !.pc = "finish"]
               \/ /\ s.pos # Size
                  /\ Moved(s) = [s EXCEPT !.pos = s.pos + 1,
                                          !.pc = IF LastOfStep(s.pos) THEN "step" ELSE "visit"]
  BY DEF Moved, ScanRecord, WorkflowRow

LEMMA MovedType ==
  ASSUME NEW s \in ScanRecord
  PROVE  Moved(s) \in ScanRecord
  <1>1. s.pos + 1 \in Nat
    BY DEF ScanRecord
  <1>2. {"finish", "step", "visit"} \subseteq ScanPcs
    BY DEF ScanPcs
  <1>3. (IF LastOfStep(s.pos) THEN "step" ELSE "visit") \in ScanPcs
    BY <1>2
  <1>4. [s EXCEPT !.pc = "finish"] \in ScanRecord
    BY <1>2, ScanChanges
  <1>5. [s EXCEPT !.pos = s.pos + 1, !.pc = IF LastOfStep(s.pos) THEN "step" ELSE "visit"]
          \in ScanRecord
    BY <1>1, <1>3, ScanChanges
  <1> QED
    BY <1>4, <1>5, MovedCases, RestingType

LEMMA InitType == Init => TypeOK
  <1> SUFFICES ASSUME Init PROVE TypeOK
    OBVIOUS
  <1>1. InitialMax \in Nat
    BY WorkflowAssumption
  <1>2. workflow \in WorkflowRow
    BY <1>1 DEF Init, WorkflowRow, Statuses, Finished
  <1>3. req \in [Requests -> [op : {"none", "run", "rerun", "cancel", "edit"}, wf : WorkflowRow]]
    BY RestingType DEF Init, NoRequest
  <1> QED
    BY <1>2, <1>3, RestingType, IdFacts DEF Init, TypeOK, ScanRecord, JobValues

LEMMA JobType ==
  ASSUME TypeOK, JobNext
  PROVE  TypeOK'
  <1>1. job' \in [JobIds -> JobValues]
    BY DEF TypeOK, JobNext, JobEnds, JobUnknown, JobCancelled, JobDeleted, JobValues
  <1>2. UNCHANGED <<workflow, jobId, scan, req, counters, history>>
    BY DEF JobNext, JobEnds, JobUnknown, JobCancelled, JobDeleted, JobStep
  <1> QED
    BY <1>1, <1>2 DEF TypeOK, counters, history

ReqNext(r) ==
  \/ \E op \in {"run", "rerun", "cancel"} : OperateRead(r, op)
  \/ \E m \in EditedMax : EditRead(r, m)
  \/ ReqFinish(r)

LEMMA ReqType ==
  ASSUME TypeOK, NEW r \in Requests, ReqNext(r)
  PROVE  TypeOK'
  <1> DEFINE Ops == {"none", "run", "rerun", "cancel", "edit"}
  <1> USE DEF ReqStep
  <1>1. ASSUME NEW op \in {"run", "rerun", "cancel"}, OperateRead(r, op)
        PROVE  TypeOK'
    <2>1. runs' \in Nat
      BY <1>1 DEF OperateRead, TypeOK
    <2>2. [op |-> op, wf |-> workflow] \in [op : Ops, wf : WorkflowRow]
      BY <1>1 DEF TypeOK
    <2>3. req' \in [Requests -> [op : Ops, wf : WorkflowRow]]
      BY <1>1, <2>2 DEF OperateRead, TypeOK
    <2> QED
      BY <1>1, <2>1, <2>3 DEF OperateRead, TypeOK
  <1>2. ASSUME NEW m \in EditedMax, EditRead(r, m)
        PROVE  TypeOK'
    <2>1. m \in Nat
      BY WorkflowAssumption
    <2>2. [op |-> "edit", wf |-> [workflow EXCEPT !.max = m]] \in [op : Ops, wf : WorkflowRow]
      BY <2>1 DEF TypeOK, WorkflowRow
    <2>3. req' \in [Requests -> [op : Ops, wf : WorkflowRow]]
      BY <1>2, <2>2 DEF EditRead, TypeOK
    <2> QED
      BY <1>2, <2>3 DEF EditRead, TypeOK
  <1>3. ASSUME ReqFinish(r)
        PROVE  TypeOK'
    <2>1. NoRequest \in [op : Ops, wf : WorkflowRow]
      BY RestingType DEF NoRequest
    <2>2. req' = [req EXCEPT ![r] = NoRequest]
      BY <1>3 DEF ReqFinish, OperateCommit, EditSave, RequestDies
    <2>3. req' \in [Requests -> [op : Ops, wf : WorkflowRow]]
      BY <2>1, <2>2 DEF TypeOK
    <2>4. req[r].wf \in WorkflowRow
      BY DEF TypeOK
    <2>5. CASE OperateCommit(r)
      <3>1. workflow' \in WorkflowRow
        BY <2>4, <2>5 DEF OperateCommit, WorkflowRow, Statuses
      <3>2. jobId' \in [StepJobs -> StoredIds] /\ asked' \in BOOLEAN
        BY <2>5, IdFacts DEF OperateCommit, TypeOK
      <3> QED
        BY <2>3, <2>5, <3>1, <3>2 DEF OperateCommit, TypeOK
    <2>6. CASE EditSave(r)
      BY <2>3, <2>4, <2>6 DEF EditSave, TypeOK
    <2>7. CASE RequestDies(r)
      BY <2>3, <2>7 DEF RequestDies, TypeOK
    <2> QED
      BY <1>3, <2>5, <2>6, <2>7 DEF ReqFinish
  <1> QED
    BY <1>1, <1>2, <1>3 DEF ReqNext

LEMMA ScanType ==
  ASSUME TypeOK, ScanNext \/ ScanCrash
  PROVE  TypeOK'
  <1> USE DEF ScanStep, history
  <1>a. scan \in ScanRecord /\ scan.wf \in WorkflowRow /\ scan.pos \in Nat /\ workflow \in WorkflowRow
        /\ jobId \in [StepJobs -> StoredIds] /\ job \in [JobIds -> JobValues]
    BY DEF TypeOK, ScanRecord
  <1>b. \A pc \in ScanPcs : [scan EXCEPT !.pc = pc] \in ScanRecord
    BY <1>a, ScanChanges
  <1>c. CancelNext => scan' \in ScanRecord
    <2>1. (IF LastOfStep(scan.pos) THEN "cancelStep" ELSE "cancelAsk") \in ScanPcs
      BY DEF ScanPcs
    <2>2. scan.pos + 1 \in Nat
      BY <1>a
    <2>3. [scan EXCEPT !.pos = scan.pos + 1,
                       !.pc = IF LastOfStep(scan.pos) THEN "cancelStep" ELSE "cancelAsk"]
            \in ScanRecord
      BY <1>a, <2>1, <2>2, ScanChanges
    <2> QED
      BY <1>a, <2>3, EnteringType DEF CancelNext
  <1>d. {"cancelAsk", "cancelSend", "visit", "submitted"} \subseteq ScanPcs
    BY DEF ScanPcs
  <1>e. SUFFICES ASSUME TRUE
                 PROVE  /\ workflow' \in WorkflowRow /\ scan' \in ScanRecord
                        /\ jobId' \in [StepJobs -> StoredIds] /\ job' \in [JobIds -> JobValues]
                        /\ UNCHANGED <<req, runs>>
                        /\ errors' \in Nat /\ crashes' \in Nat
                        /\ blind' \in BOOLEAN /\ ended' \in BOOLEAN
                        /\ UNCHANGED asked /\ lost' \subseteq JobIds
    BY DEF TypeOK, ScanRecord
  <1>f. errors \in Nat /\ crashes \in Nat /\ errors + 1 \in Nat /\ crashes + 1 \in Nat
        /\ blind \in BOOLEAN /\ ended \in BOOLEAN /\ lost \subseteq JobIds
    BY DEF TypeOK
  <1>1. CASE ScanRead
    <2> DEFINE s == [Resting EXCEPT !.wf = workflow,
                                    !.cancelled = (workflow.status = "cancelling")]
    <2>1. s \in ScanRecord
      BY <1>a, RestingType DEF ScanRecord
    <2>2. [s EXCEPT !.pc = "start"] \in ScanRecord /\ [s EXCEPT !.pc = "cancelStep"] \in ScanRecord
          /\ Entering(s) \in ScanRecord
      BY <2>1, ScanChanges, EnteringType DEF ScanPcs
    <2>3. scan' \in {[s EXCEPT !.pc = "start"], [s EXCEPT !.pc = "cancelStep"], Entering(s)}
      BY <1>1 DEF ScanRead
    <2> QED
      BY <1>1, <1>a, <1>f, <2>2, <2>3 DEF ScanRead
  <1>2. CASE ScanStart
    <2>1. [scan.wf EXCEPT !.status = Running] \in WorkflowRow
      BY <1>a DEF WorkflowRow, Statuses
    <2>2. [scan EXCEPT !.wf.status = Running] \in ScanRecord
      BY <1>a, <2>1 DEF ScanRecord
    <2> QED
      BY <1>2, <1>a, <1>f, <2>1, <2>2, EnteringType DEF ScanStart
  <1>3. CASE CancelReadStep
    BY <1>3, <1>a, <1>d, <1>f, ScanChanges DEF CancelReadStep
  <1>4. CASE CancelAsk
    BY <1>4, <1>a, <1>b, <1>c, <1>d, <1>f DEF CancelAsk
  <1>5. CASE CancelSend
    <2>1. job' \in [JobIds -> JobValues]
      BY <1>5, <1>a DEF CancelSend, JobValues
    <2> QED
      BY <1>5, <1>a, <1>c, <1>f, <2>1 DEF CancelSend
  <1>6. CASE ReadStep
    BY <1>6, <1>a, <1>d, <1>f, ScanChanges DEF ReadStep
  <1>7. CASE Submit
    <2>1. PICK k \in JobIds, t \in {"waiting", "create_fail"} :
             /\ job' = [job EXCEPT ![k] = t]
             /\ scan' = [scan EXCEPT !.new = k, !.pc = "submitted"]
      BY <1>7 DEF Submit
    <2>2. job' \in [JobIds -> JobValues] /\ scan' \in ScanRecord
      BY <1>a, <1>d, <2>1, IdFacts, ScanChanges DEF JobValues
    <2> QED
      BY <1>7, <1>a, <1>f, <2>2 DEF Submit
  <1>8. CASE SubmitRaises
    <2>1. scan' \in ScanRecord
      BY <1>8, <1>a, <1>d, IdFacts, ScanChanges DEF SubmitRaises
    <2>2. job' \in [JobIds -> JobValues] /\ lost' \subseteq JobIds
      BY <1>8, <1>a, <1>f DEF SubmitRaises, JobValues
    <2> QED
      BY <1>8, <1>a, <1>f, <2>1, <2>2 DEF SubmitRaises
  <1>9. CASE SaveStepJob
    <2>1. jobId' \in [StepJobs -> StoredIds]
      BY <1>9, <1>a DEF SaveStepJob, StepJobSaved, ScanRecord
    <2> DEFINE f == scan.failed \/ RunPolicy = "all_completed"
    <2>a. f \in BOOLEAN /\ scan.running + 1 \in Nat
      BY <1>a DEF ScanRecord
    <2>b. [scan EXCEPT !.new = None, !.failed = f] \in ScanRecord
      <3> HIDE DEF f
      <3> QED
        BY <1>a, <2>a, IdFacts DEF ScanRecord
    <2>c. [scan EXCEPT !.new = None, !.running = scan.running + 1] \in ScanRecord
      BY <1>a, <2>a, IdFacts DEF ScanRecord
    <2>3. scan' \in ScanRecord
      BY <1>9, <2>b, <2>c, MovedType DEF SaveStepJob
    <2> QED
      BY <1>9, <1>a, <1>f, <2>1, <2>3 DEF SaveStepJob, StepJobSaved
  <1>10. CASE SkipSubmit
    BY <1>10, <1>a, <1>f, MovedType DEF SkipSubmit
  <1>11. CASE SkipFailed
    <2>1. [scan EXCEPT !.failed = scan.failed \/ RunPolicy = "all_completed"] \in ScanRecord
      BY <1>a DEF ScanRecord
    <2> QED
      BY <1>11, <1>a, <1>f, <2>1, MovedType DEF SkipFailed
  <1>12. ASSUME NEW k \in JobIds, Query(k)
         PROVE  scan' \in ScanRecord /\ blind' \in BOOLEAN
    <2> DEFINE r == IF JobRunning(job[k]) THEN scan.running + 1 ELSE scan.running
               f == scan.failed \/ (job[k] = "create_fail" /\ RunPolicy = "all_completed")
               c == scan.cancelled \/ job[k] = "cancelled"
    <2>1. r \in Nat /\ f \in BOOLEAN /\ c \in BOOLEAN
      BY <1>a DEF ScanRecord
    <2>2. [scan EXCEPT !.running = r, !.failed = f, !.cancelled = c] \in ScanRecord
      BY <1>a, <2>1 DEF ScanRecord
    <2>3. scan' = Moved([scan EXCEPT !.running = r, !.failed = f, !.cancelled = c])
      BY <1>12 DEF Query
    <2> QED
      BY <1>12, <1>f, <2>2, <2>3, MovedType DEF Query
  <1>13. ASSUME NEW k \in JobIds, QueryRaises(k)
         PROVE  scan' \in ScanRecord /\ errors' \in Nat
    BY <1>13, <1>a, <1>f, MovedType DEF QueryRaises
  <1>14. CASE ScanFinish
    <2>1. [scan.wf EXCEPT !.status = Outcome(scan)] \in WorkflowRow
      BY <1>a DEF WorkflowRow, Outcome, Statuses, Finished
    <2> QED
      BY <1>14, <1>a, <1>f, <2>1, RestingType DEF ScanFinish
  <1>15. CASE ScanCrash
    BY <1>15, <1>a, <1>f, RestingType DEF ScanCrash
  <1>16. ASSUME NEW k \in JobIds, Query(k) \/ QueryRaises(k)
         PROVE  scan' \in ScanRecord /\ blind' \in BOOLEAN /\ errors' \in Nat
                /\ UNCHANGED <<workflow, jobId, job, req, runs, crashes, ended, asked, lost>>
    BY <1>12, <1>13, <1>16, <1>f DEF Query, QueryRaises
  <1> QED
    BY <1>1, <1>2, <1>3, <1>4, <1>5, <1>6, <1>7, <1>8, <1>9, <1>10, <1>11, <1>14, <1>15,
       <1>16, <1>a, <1>f DEF ScanNext

LEMMA StepType == TypeOK /\ [Next]_vars => TypeOK'
  <1>1. TypeOK /\ UNCHANGED vars => TypeOK'
    BY DEF TypeOK, vars, counters, history
  <1> QED
    BY <1>1, JobType, ScanType, ReqType DEF Next, ReqNext

\* Every variable has its type.
THEOREM TypeCorrect == Spec => []TypeOK
  BY InitType, StepType, PTL DEF Spec

-----------------------------------------------------------------------------
(* The invariants behind the properties.  What is said of requests supposes   *)
(* that they do not overlap.                                               *)

\* Requests do not overlap.
RequestsApart ==
  \A r, s \in Requests : req[r].op # "none" /\ req[s].op # "none" => r = s

\* Nobody works on a workflow that is over but a request that will start it.
RowInv ==
  /\ scan.pc # "idle" => workflow.status \notin Finished
  /\ \A r \in Requests :
       /\ req[r].op # "none" /\ req[r].wf.status \in Finished => workflow.status \in Finished
       /\ req[r].op \in {"run", "rerun"} => req[r].wf.status \in Finished

CancelInv ==
  asked => /\ workflow.status \notin {"starting", Running}
           /\ scan.pc # "start"
           /\ \A r \in Requests :
                req[r].op = "edit" => req[r].wf.status \notin {"starting", Running}

Looping == {"step", "visit", "submitted"}
Cancelling == {"cancelStep", "cancelAsk", "cancelSend"}

PosInv ==
  /\ scan.pc \in Looping \cup Cancelling => scan.pos \in StepJobs
  /\ scan.pc \in Cancelling \cup {"start", "step", "finish"} => scan.running = 0
  /\ scan.pc = "step" => \A i \in StepJobs : i < scan.pos => StepOf[i] < StepOf[scan.pos]
  /\ scan.pc \in {"visit", "submitted"} =>
       \A i \in StepJobs : i >= scan.pos => scan.read[i] = jobId[i]
  /\ scan.pc = "submitted" =>
       /\ ~scan.failed /\ ~scan.cancelled
       /\ jobId[scan.pos] = None /\ scan.new # None

UsedInv ==
  /\ \A i \in StepJobs : Tracked(i) => job[jobId[i]] # "unused"
  /\ scan.pc = "submitted" /\ scan.new \in JobIds => job[scan.new] # "unused"

Passed(i) == Settled(i) \/ (jobId[i] = None /\ (scan.failed \/ scan.cancelled))

PassedInv ==
  /\ scan.pc \in Looping /\ ~blind =>
       \A i \in StepJobs :
         StepOf[i] < StepOf[scan.pos] \/ (i < scan.pos /\ scan.running = 0) => Passed(i)
  /\ scan.pc = "finish" /\ ~blind => \A i \in StepJobs : Passed(i)

PrefixInv ==
  /\ \A i, k \in StepJobs : i < k /\ jobId[i] = None => jobId[k] = None
  /\ scan.pc \in Looping =>
       \A i \in StepJobs : i < scan.pos => jobId[i] # None \/ scan.failed \/ scan.cancelled

Alive(i) == Tracked(i) /\ job[jobId[i]] \notin Over
AliveBefore(p) == {i \in StepJobs : i < p /\ Alive(i)}

CountInv ==
  scan.pc \in Looping =>
    /\ scan.running < scan.wf.max \/ (scan.pos = 1 /\ scan.running = 0)
    /\ blind \/ Cardinality(AliveBefore(scan.pos)) <= scan.running

EndedInv ==
  workflow.status \in Finished => ended \/ \A i \in StepJobs : ~Alive(i)

ScanInv == PosInv /\ UsedInv /\ PassedInv /\ PrefixInv /\ CountInv

-----------------------------------------------------------------------------
(* The row and the requests on it.                                         *)

LEMMA JobFrame == JobNext => UNCHANGED <<workflow, jobId, scan, req, counters, history>>
  BY DEF JobNext, JobEnds, JobUnknown, JobCancelled, JobDeleted, JobStep

\* The steps of the scanner that neither read nor write the row.
ScanWorks ==
  \/ CancelReadStep \/ CancelAsk \/ CancelSend \/ ReadStep \/ Submit \/ SubmitRaises
  \/ SaveStepJob \/ SkipSubmit \/ SkipFailed
  \/ \E k \in JobIds : Query(k) \/ QueryRaises(k)

LEMMA ScanWorksFrame ==
  ASSUME ScanWorks
  PROVE  /\ scan.pc \notin {"idle", "start"}
         /\ UNCHANGED <<workflow, req, asked, ended>>
  BY DEF ScanWorks, CancelReadStep, CancelAsk, CancelSend, ReadStep, Submit, SubmitRaises,
         SaveStepJob, StepJobSaved, SkipSubmit, SkipFailed, Query, QueryRaises, MaySubmit,
         Visiting, ScanStep, history

\* The scanner leaves the step job it is at, having noted s, with v as its id.
Leaves(s) ==
  LET v == jobId'[scan.pos]
  IN /\ scan.pc \in {"visit", "submitted"} /\ scan.pos \in StepJobs
     /\ s \in ScanRecord /\ scan' = Moved(s)
     /\ s.pos = scan.pos /\ s.wf = scan.wf /\ s.read = scan.read
     /\ s.running \in {scan.running, scan.running + 1}
     /\ (scan.failed => s.failed) /\ (scan.cancelled => s.cancelled)
     /\ job' = job /\ (blind => blind')
     /\ \A i \in StepJobs : i # scan.pos => jobId'[i] = jobId[i]
     /\ v # None \/ s.failed \/ s.cancelled
     /\ scan.pc = "visit" \/ jobId[scan.pos] # None => v = jobId[scan.pos]
     /\ v \in JobIds => job[v] # "unused"
     /\ \/ blind' \/ s.running = scan.running + 1 \/ v \in {None, SubmitFailed}
        \/ v \in JobIds /\ job[v] \in Over

VisitEnds ==
  \/ SaveStepJob \/ SkipSubmit \/ SkipFailed \/ \E k \in JobIds : Query(k) \/ QueryRaises(k)

LEMMA VisitLeaves ==
  ASSUME TypeOK, PosInv, UsedInv, VisitEnds
  PROVE  \E s \in ScanRecord : Leaves(s)
  <1>a. scan \in ScanRecord /\ scan.running \in Nat /\ scan.failed \in BOOLEAN
        /\ scan.cancelled \in BOOLEAN /\ blind \in BOOLEAN
        /\ jobId \in [StepJobs -> StoredIds] /\ job \in [JobIds -> JobValues]
        /\ scan.new \in StoredIds /\ scan.running + 1 \in Nat
    BY DEF TypeOK, ScanRecord
  <1>b. scan.pc \in {"visit", "submitted"}
    BY DEF VisitEnds, SaveStepJob, SkipSubmit, SkipFailed, Query, QueryRaises, Visiting
  <1>c. scan.pos \in StepJobs
    BY <1>b DEF PosInv, Looping
  <1>d. scan.pc = "visit" => scan.read[scan.pos] = jobId[scan.pos]
    <2>1. scan.pos >= scan.pos
      BY <1>a DEF ScanRecord
    <2> QED
      BY <1>c, <2>1 DEF PosInv
  <1> DEFINE f == scan.failed \/ RunPolicy = "all_completed"
  <1>e. f \in BOOLEAN
    OBVIOUS
  <1>f. [scan EXCEPT !.failed = f] \in ScanRecord /\ [scan EXCEPT !.new = None, !.failed = f] \in ScanRecord
    <2> HIDE DEF f
    <2> QED
      BY <1>a, <1>e, IdFacts DEF ScanRecord
  <1>1. CASE SaveStepJob
    <2>1. jobId' = [jobId EXCEPT ![scan.pos] = scan.new] /\ job' = job /\ blind' = blind
      BY <1>1 DEF SaveStepJob, StepJobSaved, history
    <2>2. /\ jobId'[scan.pos] = scan.new
          /\ \A i \in StepJobs : i # scan.pos => jobId'[i] = jobId[i]
      BY <1>a, <1>c, <2>1
    <2>3. scan.new # None /\ jobId[scan.pos] = None /\ scan.pc # "visit"
          /\ (scan.new \in JobIds => job[scan.new] # "unused")
      BY <1>1 DEF SaveStepJob, PosInv, UsedInv
    <2>4. CASE scan.new = SubmitFailed
      <3> DEFINE s == [scan EXCEPT !.new = None, !.failed = f]
      <3>1. scan' = Moved(s)
        BY <1>1, <2>4 DEF SaveStepJob
      <3>2. /\ s.pos = scan.pos /\ s.wf = scan.wf /\ s.read = scan.read
            /\ s.running = scan.running
            /\ (scan.failed => s.failed) /\ (scan.cancelled => s.cancelled)
        BY <1>a DEF ScanRecord
      <3> HIDE DEF s
      <3>3. Leaves(s)
        BY <1>b, <1>c, <1>f, <2>1, <2>2, <2>3, <2>4, <3>1, <3>2 DEF Leaves, s
      <3> QED
        BY <1>f, <3>3 DEF s
    <2>5. CASE scan.new # SubmitFailed
      <3> DEFINE s == [scan EXCEPT !.new = None, !.running = scan.running + 1]
      <3>1. scan' = Moved(s)
        BY <1>1, <2>5 DEF SaveStepJob
      <3>2. /\ s.pos = scan.pos /\ s.wf = scan.wf /\ s.read = scan.read
            /\ s.running = scan.running + 1
            /\ (scan.failed => s.failed) /\ (scan.cancelled => s.cancelled)
        BY <1>a DEF ScanRecord
      <3>3. s \in ScanRecord
        BY <1>a, IdFacts DEF ScanRecord
      <3> HIDE DEF s
      <3>4. Leaves(s)
        BY <1>b, <1>c, <2>1, <2>2, <2>3, <3>1, <3>2, <3>3 DEF Leaves
      <3> QED
        BY <3>3, <3>4
    <2> QED
      BY <2>4, <2>5
  <1>2. CASE SkipSubmit
    <2>1. UNCHANGED <<jobId, job, blind>> /\ scan' = Moved(scan) /\ jobId[scan.pos] = None
          /\ (scan.failed \/ scan.cancelled)
      BY <1>2, <1>d DEF SkipSubmit, Visiting, history
    <2> QED
      BY <1>a, <1>b, <1>c, <2>1, IdFacts DEF Leaves
  <1>3. CASE SkipFailed
    <2> DEFINE s == [scan EXCEPT !.failed = f]
    <2>1. UNCHANGED <<jobId, job, blind>> /\ scan' = Moved(s) /\ jobId[scan.pos] = SubmitFailed
      BY <1>3, <1>d DEF SkipFailed, Visiting, history
    <2>2. /\ s.pos = scan.pos /\ s.wf = scan.wf /\ s.read = scan.read
          /\ s.running = scan.running
          /\ (scan.failed => s.failed) /\ (scan.cancelled => s.cancelled)
      BY <1>a DEF ScanRecord
    <2>3. s \in ScanRecord
      BY <1>f
    <2> HIDE DEF s
    <2>4. Leaves(s)
      BY <1>b, <1>c, <2>1, <2>2, <2>3, IdFacts DEF Leaves
    <2> QED
      BY <2>3, <2>4
  <1>4. ASSUME NEW k \in JobIds, Query(k)
        PROVE  \E s \in ScanRecord : Leaves(s)
    <2> DEFINE r == IF JobRunning(job[k]) THEN scan.running + 1 ELSE scan.running
               g == scan.failed \/ (job[k] = "create_fail" /\ RunPolicy = "all_completed")
               c == scan.cancelled \/ job[k] = "cancelled"
               s == [scan EXCEPT !.running = r, !.failed = g, !.cancelled = c]
    <2>1. r \in {scan.running, scan.running + 1} /\ r \in Nat /\ g \in BOOLEAN /\ c \in BOOLEAN
      BY <1>a
    <2>2. /\ UNCHANGED <<jobId, job>> /\ scan' = Moved(s) /\ jobId[scan.pos] = k
          /\ blind' = (blind \/ job[k] = "UN") /\ job[k] # "deleted"
      BY <1>4, <1>d DEF Query, Visiting
    <2>3. job[k] # "unused"
      BY <1>c, <2>2 DEF UsedInv, Tracked
    <2>4. blind' \/ r = scan.running + 1 \/ job[k] \in Over
      BY <1>a, <2>2, <2>3 DEF JobRunning, Over, JobValues
    <2>5. (scan.failed => g) /\ (scan.cancelled => c)
      OBVIOUS
    <2>6. /\ s \in ScanRecord
          /\ s.pos = scan.pos /\ s.wf = scan.wf /\ s.read = scan.read
          /\ s.running = r /\ s.failed = g /\ s.cancelled = c
      <3> HIDE DEF r, g, c
      <3> QED
        BY <1>a, <2>1 DEF ScanRecord
    <2> HIDE DEF s, r, g, c
    <2>7. k # None
      BY IdFacts
    <2>8. Leaves(s)
      BY <1>b, <1>c, <2>1, <2>2, <2>3, <2>4, <2>5, <2>6, <2>7 DEF Leaves
    <2> QED
      BY <2>6, <2>8
  <1>5. ASSUME NEW k \in JobIds, QueryRaises(k)
        PROVE  \E s \in ScanRecord : Leaves(s)
    <2>1. /\ UNCHANGED <<jobId, job>> /\ scan' = Moved(scan) /\ jobId[scan.pos] = k
          /\ blind' = (blind \/ job[k] \notin Over)
      BY <1>5, <1>d DEF QueryRaises, Visiting
    <2>2. job[k] # "unused" /\ k # None
      BY <1>c, <2>1, IdFacts DEF UsedInv, Tracked
    <2> QED
      BY <1>a, <1>b, <1>c, <2>1, <2>2 DEF Leaves
  <1> QED
    BY <1>1, <1>2, <1>3, <1>4, <1>5 DEF VisitEnds

-----------------------------------------------------------------------------
(* The loop of a scan.                                                     *)

\* The steps are in order: the last step job of a step is followed by a later
\* step, another one by a step job of the same step.
LEMMA StepOrder ==
  ASSUME NEW p \in StepJobs
  PROVE  /\ p \in Nat /\ p >= 1 /\ p <= Size
         /\ \A i \in StepJobs : StepOf[i] \in Nat /\ i \in Nat
         /\ \A i \in StepJobs : i <= p => StepOf[i] <= StepOf[p]
         /\ \A i \in StepJobs : i >= p => StepOf[p] <= StepOf[i]
         /\ p # Size => /\ p + 1 \in StepJobs
                        /\ LastOfStep(p) => StepOf[p] < StepOf[p + 1]
                        /\ ~LastOfStep(p) => StepOf[p] = StepOf[p + 1]
  <1>1. /\ Size \in Nat /\ StepOf \in [StepJobs -> Nat]
        /\ \A i, k \in StepJobs : i < k => StepOf[i] <= StepOf[k]
    BY WorkflowAssumption DEF StepJobs
  <1>2. p \in Nat /\ p >= 1 /\ p <= Size
    BY <1>1 DEF StepJobs
  <1>3. \A i \in StepJobs : i \in Nat
    BY DEF StepJobs
  <1>4. p # Size => p + 1 \in StepJobs
    BY <1>1, <1>2 DEF StepJobs
  <1>5. \A i \in StepJobs : i <= p => StepOf[i] <= StepOf[p]
    BY <1>1, <1>2, <1>3
  <1>6. \A i \in StepJobs : i >= p => StepOf[p] <= StepOf[i]
    BY <1>1, <1>2, <1>3
  <1>7. p # Size => StepOf[p] <= StepOf[p + 1]
    BY <1>1, <1>2, <1>4
  <1> QED
    BY <1>1, <1>2, <1>3, <1>4, <1>5, <1>6, <1>7 DEF LastOfStep

LEMMA AliveFinite ==
  \A p \in Nat : IsFiniteSet(AliveBefore(p)) /\ Cardinality(AliveBefore(p)) \in Nat
  BY SizeType, FS_Subset, FS_CardinalityType DEF AliveBefore

\* The jobs before the next step job are those before this one and its own.
LEMMA AliveMore ==
  ASSUME TypeOK, NEW p \in StepJobs, job' = job,
         \A i \in StepJobs : i # p => jobId'[i] = jobId[i]
  PROVE  LET before == AliveBefore(p)
             after  == {i \in StepJobs : i < p + 1 /\ Alive(i)'}
         IN  /\ Cardinality(after) <= Cardinality(before) + 1
             /\ ~Alive(p)' => Cardinality(after) <= Cardinality(before)
  <1> DEFINE before == AliveBefore(p)
             after  == {i \in StepJobs : i < p + 1 /\ Alive(i)'}
  <1>1. \A i \in StepJobs : i # p => (Alive(i)' <=> Alive(i))
    BY DEF Alive, Tracked
  <1>2. after \subseteq before \cup {p} /\ (~Alive(p)' => after \subseteq before)
    BY <1>1, StepOrder DEF AliveBefore
  <1>3. IsFiniteSet(before) /\ Cardinality(before) \in Nat
    BY StepOrder, AliveFinite
  <1>4. IsFiniteSet(before \cup {p}) /\ Cardinality(before \cup {p}) <= Cardinality(before) + 1
    BY <1>3, FS_AddElement
  <1>5. Cardinality(after) <= Cardinality(before \cup {p})
        /\ Cardinality(after) \in Nat /\ Cardinality(before \cup {p}) \in Nat
    BY <1>2, <1>4, FS_Subset, FS_CardinalityType
  <1>6. ~Alive(p)' => Cardinality(after) <= Cardinality(before)
    BY <1>2, <1>3, FS_Subset
  <1> HIDE DEF before, after
  <1>7. Cardinality(after) <= Cardinality(before) + 1
    BY <1>3, <1>4, <1>5
  <1> QED
    BY <1>6, <1>7 DEF before, after

LEMMA LeaveInv ==
  ASSUME TypeOK, TypeOK', ScanInv, NEW s \in ScanRecord, Leaves(s)
  PROVE  ScanInv'
  <1>p. PICK p \in StepJobs : p = scan.pos
    BY DEF Leaves
  <1> DEFINE v == jobId'[p]
  <1>a. p = scan.pos /\ scan.pc \in {"visit", "submitted"} /\ s.pos = p
    BY <1>p DEF Leaves
  <1>o. /\ p \in Nat /\ p >= 1 /\ p <= Size
        /\ \A i \in StepJobs : StepOf[i] \in Nat /\ i \in Nat
        /\ \A i \in StepJobs : i <= p => StepOf[i] <= StepOf[p]
        /\ p # Size => /\ p + 1 \in StepJobs
                       /\ LastOfStep(p) => StepOf[p] < StepOf[p + 1]
                       /\ ~LastOfStep(p) => StepOf[p] = StepOf[p + 1]
    BY <1>p, StepOrder
  <1>b. /\ s.pc \in ScanPcs /\ s.running \in Nat /\ s.read \in [StepJobs -> StoredIds]
        /\ s.failed \in BOOLEAN /\ s.cancelled \in BOOLEAN /\ scan.running \in Nat
        /\ s.wf.max \in Nat /\ s.wf = scan.wf
    BY DEF TypeOK, ScanRecord, WorkflowRow, Leaves
  <1>c. blind \in BOOLEAN /\ blind' \in BOOLEAN /\ (blind => blind')
    BY DEF TypeOK, Leaves
  <1>d. \A i \in StepJobs : i # p => /\ (Settled(i) => Settled(i)')
                                     /\ jobId'[i] = jobId[i]
    BY <1>a DEF Leaves, Settled, Tracked
  <1>e. s.running = 0 => scan.running = 0
    BY <1>b DEF Leaves
  <1>1. \A i \in StepJobs : Tracked(i)' => job'[jobId'[i]] # "unused"
    BY <1>d DEF Leaves, ScanInv, UsedInv, Tracked
  <1>2. \A i, k \in StepJobs : i < k /\ jobId'[i] = None => jobId'[k] = None
    <2> SUFFICES ASSUME NEW i \in StepJobs, NEW k \in StepJobs, i < k, jobId'[i] = None
                 PROVE  jobId'[k] = None
      OBVIOUS
    <2>1. jobId[i] = None
      BY <1>d DEF Leaves
    <2>2. jobId[k] = None
      BY <2>1 DEF ScanInv, PrefixInv
    <2>3. CASE k # p
      BY <1>d, <2>2, <2>3
    <2>4. CASE k = p
      <3>1. scan.failed \/ scan.cancelled
        BY <1>a, <2>1, <2>4 DEF ScanInv, PrefixInv, Looping
      <3>2. scan.pc = "visit"
        BY <1>a, <3>1 DEF ScanInv, PosInv
      <3> QED
        BY <2>2, <2>4, <3>2 DEF Leaves
    <2> QED
      BY <2>3, <2>4
  <1>3. CASE Moved(s) = Resting
    <2>1. scan'.pc = "idle" /\ scan'.running = 0
      BY <1>3 DEF Leaves, Resting
    <2> QED
      BY <1>1, <1>2, <2>1
         DEF ScanInv, PosInv, UsedInv, PassedInv, PrefixInv, CountInv, Looping, Cancelling
  \* The step job itself, and those before it when nothing runs.
  <1>4. ASSUME ~blind', s.running = 0 \/ ~Alive(p)',
               scan'.failed = s.failed, scan'.cancelled = s.cancelled
        PROVE  s.running = scan.running + 1 \/ Passed(p)'
    <2>1. s.running = scan.running + 1 \/ v \in {None, SubmitFailed}
          \/ (v \in JobIds /\ job'[v] \in Over)
      BY <1>4, <1>a DEF Leaves
    <2>2. v = None => s.failed \/ s.cancelled
      BY <1>a DEF Leaves
    <2> QED
      BY <1>4, <2>1, <2>2 DEF Passed, Settled, Tracked
  <1>5. ASSUME NEW i \in StepJobs, i # p, Passed(i),
               scan'.failed = s.failed, scan'.cancelled = s.cancelled
        PROVE  Passed(i)'
    BY <1>5, <1>d DEF Passed, Leaves
  <1>6. CASE s.pos = Size /\ Moved(s) = [s EXCEPT !.pc = "finish"]
             /\ ~(LastOfStep(s.pos) /\ s.running > 0)
    <2>1. s.running = 0 /\ scan.running = 0 /\ s.running # scan.running + 1
      BY <1>6, <1>b, <1>e DEF LastOfStep
    <2>2. /\ scan'.pc = "finish" /\ scan'.running = 0
          /\ scan'.failed = s.failed /\ scan'.cancelled = s.cancelled
      BY <1>6, <2>1 DEF Leaves, ScanRecord
    <2>3. ASSUME ~blind', NEW i \in StepJobs
          PROVE  Passed(i)'
      <3>1. CASE i = p
        BY <1>4, <2>1, <2>2, <2>3, <3>1
      <3>2. CASE i # p
        <4>1. i < p
          BY <1>6, <1>a, <3>2, StepOrder
        <4>2. Passed(i)
          BY <1>a, <1>c, <2>1, <2>3, <4>1 DEF ScanInv, PassedInv, Looping
        <4> QED
          BY <1>5, <2>2, <3>2, <4>2
      <3> QED
        BY <3>1, <3>2
    <2> QED
      BY <1>1, <1>2, <2>2, <2>3
         DEF ScanInv, PosInv, UsedInv, PassedInv, PrefixInv, CountInv, Looping, Cancelling
  <1>7. CASE /\ s.running < s.wf.max /\ ~(LastOfStep(s.pos) /\ s.running > 0)
             /\ s.pos # Size
             /\ Moved(s) = [s EXCEPT !.pos = s.pos + 1,
                                     !.pc = IF LastOfStep(s.pos) THEN "step" ELSE "visit"]
    <2> DEFINE last == LastOfStep(p)
    <2>1. /\ scan'.pos = p + 1 /\ scan'.pc = IF last THEN "step" ELSE "visit"
          /\ scan'.running = s.running /\ scan'.wf = s.wf /\ scan'.read = s.read
          /\ scan'.failed = s.failed /\ scan'.cancelled = s.cancelled
      BY <1>7, <1>a DEF Leaves, ScanRecord
    <2>a. p # Size
      BY <1>7, <1>a
    <2>2. p + 1 \in StepJobs
      BY <2>a, <1>o
    <2>3. last => s.running = 0
      BY <1>7, <1>a, <1>b
    <2>4. \A i \in StepJobs : (i < p + 1 <=> i <= p) /\ (i < p + 1 /\ i # p => i < p)
          /\ (i >= p + 1 => i >= p /\ i # p)
      BY <1>o
    <2>5. PosInv'
      <3>1. last => \A i \in StepJobs : i < p + 1 => StepOf[i] < StepOf[p + 1]
        <4> SUFFICES ASSUME last, NEW i \in StepJobs, i < p + 1
                     PROVE  StepOf[i] < StepOf[p + 1]
          OBVIOUS
        <4>1. StepOf[i] <= StepOf[p] /\ StepOf[p] < StepOf[p + 1]
          BY <2>a, <1>o, <2>4
        <4> QED
          BY <1>o, <2>2, <4>1
      <3>2. ~last => \A i \in StepJobs : i >= p + 1 => scan'.read[i] = jobId'[i]
        BY <1>a, <1>d, <2>1, <2>4 DEF ScanInv, PosInv, Leaves
      <3> QED
        BY <2>1, <2>2, <2>3, <3>1, <3>2 DEF PosInv, Looping, Cancelling
    <2>6. UsedInv'
      BY <1>1, <2>1 DEF UsedInv
    <2>7. PassedInv'
      <3> SUFFICES ASSUME ~blind', NEW i \in StepJobs,
                          StepOf[i] < StepOf[p + 1] \/ (i < p + 1 /\ s.running = 0)
                   PROVE  Passed(i)'
        BY <2>1 DEF PassedInv, Looping
      <3>1. StepOf[i] < StepOf[p] \/ (i <= p /\ s.running = 0)
        <4>1. CASE last
          <5>1. i < p + 1
            <6>1. i >= p + 1 => StepOf[p + 1] <= StepOf[i]
              BY <2>2, StepOrder
            <6> QED
              BY <1>o, <2>2, <6>1
          <5> QED
            BY <2>3, <2>4, <4>1, <5>1
        <4>2. CASE ~last
          <5>1. StepOf[p] = StepOf[p + 1]
            BY <2>a, <1>o, <4>2
          <5> QED
            BY <2>4, <5>1
        <4> QED
          BY <4>1, <4>2
      <3>2. CASE i = p
        <4>1. s.running = 0 /\ s.running # scan.running + 1
          BY <1>b, <3>1, <3>2, <1>a, <1>e, StepOrder
        <4> QED
          BY <1>4, <2>1, <3>2, <4>1
      <3>3. CASE i # p
        <4>1. StepOf[i] < StepOf[p] \/ (i < p /\ scan.running = 0)
          BY <1>e, <2>4, <3>1, <3>3
        <4>2. Passed(i)
          BY <1>a, <1>c, <4>1 DEF ScanInv, PassedInv, Looping
        <4> QED
          BY <1>5, <2>1, <3>3, <4>2
      <3> QED
        BY <3>2, <3>3
    <2>8. PrefixInv'
      <3>1. ASSUME NEW i \in StepJobs, i < p + 1
            PROVE  jobId'[i] # None \/ s.failed \/ s.cancelled
        <4>1. CASE i = p
          BY <1>a, <4>1 DEF Leaves
        <4>2. CASE i # p
          <5>1. jobId[i] # None \/ scan.failed \/ scan.cancelled
            BY <1>a, <2>4, <3>1, <4>2 DEF ScanInv, PrefixInv, Looping
          <5> QED
            BY <1>d, <4>2, <5>1 DEF Leaves
        <4> QED
          BY <4>1, <4>2
      <3> QED
        BY <1>2, <2>1, <3>1 DEF PrefixInv
    <2>9. CountInv'
      <3> DEFINE after == {i \in StepJobs : i < p + 1 /\ Alive(i)'}
      <3>1. AliveBefore(scan.pos)' = after
        BY <2>1 DEF AliveBefore
      <3>2. job' = job
        BY DEF Leaves
      <3>3. /\ Cardinality(after) <= Cardinality(AliveBefore(p)) + 1
            /\ ~Alive(p)' => Cardinality(after) <= Cardinality(AliveBefore(p))
        BY <1>a, <1>d, <3>2, AliveMore
      <3>4. Cardinality(AliveBefore(p)) \in Nat
        BY <1>a, StepOrder, AliveFinite
      <3>5. IsFiniteSet(after) /\ Cardinality(after) \in Nat
        BY SizeType, FS_Subset, FS_CardinalityType
      <3>6. blind \/ Cardinality(AliveBefore(p)) <= scan.running
        BY <1>a DEF ScanInv, CountInv, Looping
      <3>7. blind' \/ s.running = scan.running + 1 \/ ~Alive(p)'
        BY <1>a, IdFacts DEF Leaves, Alive, Tracked
      <3>8. s.running \in {scan.running, scan.running + 1}
        BY DEF Leaves
      <3> HIDE DEF after
      <3>9. blind' \/ Cardinality(after) <= s.running
        BY <1>b, <1>c, <3>3, <3>4, <3>5, <3>6, <3>7, <3>8
      <3> QED
        BY <1>7, <2>1, <3>1, <3>9 DEF CountInv
    <2> QED
      BY <2>5, <2>6, <2>7, <2>8, <2>9 DEF ScanInv
  <1> QED
    BY <1>3, <1>6, <1>7, <1>a, MovedCases

\* A job that is over stays over, and one that was submitted stays so.
JobsAdvance ==
  \A k \in JobIds : /\ job[k] \in Over => job'[k] \in Over
                    /\ job'[k] = "unused" => job[k] = "unused"

LEMMA StepsAdvance ==
  ASSUME TypeOK
  PROVE  /\ JobNext => JobsAdvance
         /\ CancelSend \/ Submit \/ SubmitRaises => JobsAdvance
         /\ job' = job => JobsAdvance
  <1>1. job \in [JobIds -> JobValues]
    BY DEF TypeOK
  <1>2. JobNext => JobsAdvance
    BY <1>1 DEF JobsAdvance, JobNext, JobEnds, JobUnknown, JobCancelled, JobDeleted, Over
  <1>3. CancelSend => JobsAdvance
    BY <1>1 DEF JobsAdvance, CancelSend, Over
  <1>4. Submit \/ SubmitRaises => JobsAdvance
    BY <1>1 DEF JobsAdvance, Submit, SubmitRaises, Fresh, Over
  <1> QED
    BY <1>2, <1>3, <1>4 DEF JobsAdvance

\* Then what was settled is so, and no job comes alive that was not.
LEMMA AdvanceKeeps ==
  ASSUME TypeOK, JobsAdvance, jobId' = jobId
  PROVE  /\ \A i \in StepJobs : (Settled(i) => Settled(i)') /\ (Alive(i)' => Alive(i))
         /\ (\A i \in StepJobs : Tracked(i) => job[jobId[i]] # "unused") =>
              \A i \in StepJobs : Tracked(i)' => job'[jobId'[i]] # "unused"
         /\ \A p \in Nat : LET after == {i \in StepJobs : i < p /\ Alive(i)'}
                           IN  /\ Cardinality(after) \in Nat
                               /\ Cardinality(after) <= Cardinality(AliveBefore(p))
  <1>1. \A i \in StepJobs : (Settled(i) => Settled(i)') /\ (Alive(i)' => Alive(i))
    BY DEF JobsAdvance, Settled, Alive, Tracked
  <1>2. (\A i \in StepJobs : Tracked(i) => job[jobId[i]] # "unused") =>
          \A i \in StepJobs : Tracked(i)' => job'[jobId'[i]] # "unused"
    BY DEF JobsAdvance, Tracked
  <1>3. ASSUME NEW p \in Nat
        PROVE  LET after == {i \in StepJobs : i < p /\ Alive(i)'}
               IN  /\ Cardinality(after) \in Nat
                   /\ Cardinality(after) <= Cardinality(AliveBefore(p))
    <2> DEFINE after == {i \in StepJobs : i < p /\ Alive(i)'}
    <2>1. after \subseteq AliveBefore(p)
      BY <1>1 DEF AliveBefore
    <2>2. IsFiniteSet(AliveBefore(p))
      BY AliveFinite
    <2> HIDE DEF after
    <2>3. Cardinality(after) \in Nat /\ Cardinality(after) <= Cardinality(AliveBefore(p))
      BY <2>1, <2>2, FS_Subset, FS_CardinalityType
    <2> QED
      BY <2>3 DEF after
  <1> QED
    BY <1>1, <1>2, <1>3

\* The scanner stays at a step job, in the loop.
LEMMA StayInv ==
  ASSUME TypeOK, TypeOK', ScanInv, JobsAdvance, jobId' = jobId, blind' = blind,
         scan.pc \in Looping => scan'.pc \in Looping,
         scan'.pc \in Looping => scan.pc \in Looping,
         scan'.pc = "finish" => scan.pc = "finish",
         scan'.pos = scan.pos, scan'.running = scan.running, scan'.wf = scan.wf,
         scan'.failed = scan.failed, scan'.cancelled = scan.cancelled
  PROVE  PassedInv' /\ PrefixInv' /\ CountInv'
  <1>1. \A i \in StepJobs : Passed(i) => Passed(i)'
    BY AdvanceKeeps DEF Passed
  <1>2. PassedInv'
    BY <1>1 DEF ScanInv, PassedInv
  <1>3. PrefixInv'
    BY DEF ScanInv, PrefixInv
  <1>4. CountInv'
    <2>a. scan.pos \in Nat /\ scan.running \in Nat
      BY DEF TypeOK, ScanRecord
    <2> DEFINE after == {i \in StepJobs : i < scan.pos /\ Alive(i)'}
    <2>1. AliveBefore(scan.pos)' = after
      BY DEF AliveBefore
    <2>2. Cardinality(after) \in Nat /\ Cardinality(after) <= Cardinality(AliveBefore(scan.pos))
      BY <2>a, AdvanceKeeps
    <2>3. Cardinality(AliveBefore(scan.pos)) \in Nat
      BY <2>a, AliveFinite
    <2> HIDE DEF after
    <2> QED
      BY <2>a, <2>1, <2>2, <2>3 DEF ScanInv, CountInv
  <1> QED
    BY <1>2, <1>3, <1>4

\* Nothing of the scanner changes.
LEMMA FrameInv ==
  ASSUME TypeOK, TypeOK', ScanInv, JobsAdvance, UNCHANGED <<jobId, scan, blind>>
  PROVE  ScanInv'
  <1>1. PassedInv' /\ PrefixInv' /\ CountInv'
    BY StayInv
  <1>2. PosInv'
    BY DEF ScanInv, PosInv
  <1>3. UsedInv'
    BY AdvanceKeeps DEF ScanInv, UsedInv, JobsAdvance
  <1> QED
    BY <1>1, <1>2, <1>3 DEF ScanInv

\* The scanner is outside the loop.
LEMMA OutsideInv ==
  ASSUME TypeOK, TypeOK', ScanInv, JobsAdvance, jobId' = jobId,
         scan'.pc \in Cancelling \cup {"idle", "start"},
         scan'.pc \in Cancelling => scan'.pos \in StepJobs,
         scan'.pc # "idle" => scan'.running = 0
  PROVE  ScanInv'
  <1>1. scan'.pc \notin Looping \cup {"finish"}
    BY DEF Looping, Cancelling
  <1>2. PosInv'
    BY <1>1 DEF PosInv, Looping, Cancelling
  <1>3. UsedInv'
    BY <1>1, AdvanceKeeps DEF ScanInv, UsedInv, Looping
  <1>4. PassedInv' /\ PrefixInv' /\ CountInv'
    BY <1>1 DEF ScanInv, PassedInv, PrefixInv, CountInv
  <1> QED
    BY <1>2, <1>3, <1>4 DEF ScanInv

\* The scanner enters the loop.
LEMMA EnterInv ==
  ASSUME TypeOK, TypeOK', ScanInv, JobsAdvance, jobId' = jobId,
         NEW s \in ScanRecord, s.running = 0, scan' = Entering(s)
  PROVE  ScanInv'
  <1>1. /\ scan'.pos = 1 /\ scan'.running = 0
        /\ scan'.pc = IF Size = 0 THEN "finish" ELSE "step"
    BY DEF Entering, ScanRecord
  <1>2. Size = 0 => StepJobs = {}
    BY DEF StepJobs
  <1>3. Size # 0 => 1 \in StepJobs
    BY SizeType DEF StepJobs
  <1>4. \A i \in StepJobs : i \in Nat /\ i >= 1 /\ ~(i < 1)
    BY DEF StepJobs
  <1>5. \A i \in StepJobs : StepOf[1] <= StepOf[i] /\ StepOf[1] \in Nat /\ StepOf[i] \in Nat
    BY <1>2, <1>3, <1>4, StepOrder
  <1>6. PosInv'
    BY <1>1, <1>3, <1>4 DEF PosInv, Looping, Cancelling
  <1>7. UsedInv'
    BY <1>1, AdvanceKeeps DEF ScanInv, UsedInv
  <1>8. PassedInv'
    BY <1>1, <1>2, <1>4, <1>5 DEF PassedInv
  <1>9. PrefixInv'
    BY <1>1, <1>4 DEF ScanInv, PrefixInv
  <1>10. CountInv'
    <2>1. AliveBefore(scan.pos)' = {}
      BY <1>1, <1>4 DEF AliveBefore
    <2> QED
      BY <1>1, <2>1, FS_EmptySet DEF CountInv
  <1> QED
    BY <1>6, <1>7, <1>8, <1>9, <1>10 DEF ScanInv

\* cancel_workflow goes on to the next step job, or to the loop.
LEMMA CancelNextInv ==
  ASSUME TypeOK, TypeOK', ScanInv, JobsAdvance, jobId' = jobId,
         scan.pc \in Cancelling, CancelNext
  PROVE  ScanInv'
  <1>a. scan \in ScanRecord /\ scan.running = 0 /\ scan.pos \in StepJobs
    BY DEF TypeOK, ScanRecord, ScanInv, PosInv, Cancelling
  <1>1. CASE scan.pos = Size
    BY <1>1, <1>a, EnterInv DEF CancelNext
  <1>2. CASE scan.pos # Size
    <2>1. scan' = [scan EXCEPT !.pos = scan.pos + 1,
                               !.pc = IF LastOfStep(scan.pos) THEN "cancelStep" ELSE "cancelAsk"]
      BY <1>2 DEF CancelNext
    <2>2. scan'.pos = scan.pos + 1 /\ scan'.running = 0 /\ scan'.pc \in Cancelling
      BY <1>a, <2>1 DEF ScanRecord, Cancelling
    <2>3. scan'.pos \in StepJobs
      BY <1>2, <1>a, <2>2, StepOrder
    <2> QED
      BY <2>2, <2>3, OutsideInv
  <1> QED
    BY <1>1, <1>2

LEMMA ScanWorksInv ==
  ASSUME TypeOK, TypeOK', ScanInv, ScanWorks
  PROVE  ScanInv'
  <1>a. scan \in ScanRecord
    BY DEF TypeOK, ScanRecord
  <1>1. CASE VisitEnds
    BY <1>1, VisitLeaves, LeaveInv DEF ScanInv
  <1>2. CASE CancelReadStep
    <2>1. scan'.pc = "cancelAsk" /\ scan'.pos = scan.pos /\ scan'.running = scan.running
          /\ scan.pc = "cancelStep" /\ UNCHANGED <<jobId, job>>
      BY <1>2, <1>a DEF CancelReadStep, ScanRecord
    <2> QED
      BY <2>1, StepsAdvance, OutsideInv DEF ScanInv, PosInv, Cancelling
  <1>3. CASE CancelAsk
    <2>1. scan.pc \in Cancelling /\ UNCHANGED <<jobId, job>>
      BY <1>3 DEF CancelAsk, Cancelling
    <2>2. CancelNext \/ scan' = [scan EXCEPT !.pc = "cancelSend"]
      BY <1>3 DEF CancelAsk
    <2>3. CASE scan' = [scan EXCEPT !.pc = "cancelSend"]
      <3>1. scan'.pc = "cancelSend" /\ scan'.pos = scan.pos /\ scan'.running = scan.running
        BY <1>a, <2>3 DEF ScanRecord
      <3> QED
        BY <2>1, <3>1, StepsAdvance, OutsideInv DEF ScanInv, PosInv, Cancelling
    <2> QED
      BY <2>1, <2>2, <2>3, StepsAdvance, CancelNextInv
  <1>4. CASE CancelSend
    <2>1. scan.pc \in Cancelling /\ UNCHANGED jobId /\ CancelNext
      BY <1>4 DEF CancelSend, Cancelling
    <2> QED
      BY <1>4, <2>1, StepsAdvance, CancelNextInv
  <1>5. CASE ReadStep
    <2>1. /\ scan.pc = "step" /\ scan'.pc = "visit" /\ scan'.read = jobId
          /\ scan'.pos = scan.pos /\ scan'.running = scan.running /\ scan'.wf = scan.wf
          /\ scan'.failed = scan.failed /\ scan'.cancelled = scan.cancelled
          /\ UNCHANGED <<jobId, job, blind>>
      BY <1>5, <1>a DEF ReadStep, ScanRecord, history
    <2>2. JobsAdvance
      BY <2>1, StepsAdvance
    <2>3. PosInv'
      BY <2>1 DEF ScanInv, PosInv, Looping, Cancelling
    <2>4. UsedInv'
      BY <2>1 DEF ScanInv, UsedInv, Tracked
    <2>5. PassedInv' /\ PrefixInv' /\ CountInv'
      BY <2>1, <2>2, StayInv DEF Looping
    <2> QED
      BY <2>3, <2>4, <2>5 DEF ScanInv
  <1>6. CASE Submit \/ SubmitRaises
    <2>1. PICK n \in JobIds \cup {SubmitFailed} :
             /\ scan' = [scan EXCEPT !.new = n, !.pc = "submitted"]
             /\ n \in JobIds => job'[n] # "unused"
      <3>1. CASE Submit
        <4>1. PICK k \in JobIds, v \in {"waiting", "create_fail"} :
                 /\ job' = [job EXCEPT ![k] = v]
                 /\ scan' = [scan EXCEPT !.new = k, !.pc = "submitted"]
          BY <3>1 DEF Submit
        <4>2. job'[k] # "unused"
          BY <4>1 DEF TypeOK
        <4> QED
          BY <4>1, <4>2
      <3>2. CASE SubmitRaises
        BY <3>2, IdFacts DEF SubmitRaises
      <3> QED
        BY <1>6, <3>1, <3>2
    <2>2. /\ scan.pc = "visit" /\ scan.read[scan.pos] = None
          /\ ~scan.failed /\ ~scan.cancelled /\ UNCHANGED <<jobId, blind>>
      BY <1>6 DEF Submit, SubmitRaises, MaySubmit, Visiting, history
    <2>3. n # None /\ n \in StoredIds
      BY IdFacts
    <2>4. /\ scan'.pc = "submitted" /\ scan'.new = n /\ scan'.read = scan.read
          /\ scan'.pos = scan.pos /\ scan'.running = scan.running /\ scan'.wf = scan.wf
          /\ scan'.failed = scan.failed /\ scan'.cancelled = scan.cancelled
      BY <1>a, <2>1 DEF ScanRecord
    <2>5. scan.pos \in StepJobs /\ scan.pos >= scan.pos
      BY <1>a, <2>2 DEF ScanInv, PosInv, Looping, ScanRecord
    <2>6. jobId[scan.pos] = None
      BY <2>2, <2>5 DEF ScanInv, PosInv
    <2>7. JobsAdvance
      BY <1>6, StepsAdvance
    <2>8. PosInv'
      BY <2>2, <2>3, <2>4, <2>5, <2>6 DEF ScanInv, PosInv, Looping, Cancelling
    <2>9. UsedInv'
      BY <2>1, <2>2, <2>4, <2>7, AdvanceKeeps DEF ScanInv, UsedInv
    <2>10. PassedInv' /\ PrefixInv' /\ CountInv'
      BY <2>2, <2>4, <2>7, StayInv DEF Looping
    <2> QED
      BY <2>8, <2>9, <2>10 DEF ScanInv
  <1> QED
    BY <1>1, <1>2, <1>3, <1>4, <1>5, <1>6 DEF ScanWorks, VisitEnds

LEMMA ScanEndsInv ==
  ASSUME TypeOK, TypeOK', ScanInv, ScanRead \/ ScanStart \/ ScanFinish \/ ScanCrash
  PROVE  ScanInv'
  <1>a. scan \in ScanRecord /\ workflow \in WorkflowRow
    BY DEF TypeOK, ScanRecord
  <1>b. UNCHANGED <<jobId, job>> /\ JobsAdvance
    BY StepsAdvance DEF ScanRead, ScanStart, ScanFinish, ScanCrash
  <1>1. CASE ScanRead
    <2> DEFINE s == [Resting EXCEPT !.wf = workflow,
                                    !.cancelled = (workflow.status = "cancelling")]
    <2>1. s \in ScanRecord
      BY <1>a, RestingType DEF ScanRecord
    <2>2. s.running = 0 /\ s.pos = 1
      BY DEF Resting
    <2>3. \/ scan' = [s EXCEPT !.pc = "start"]
          \/ Size > 0 /\ scan' = [s EXCEPT !.pc = "cancelStep"]
          \/ scan' = Entering(s)
      BY <1>1 DEF ScanRead
    <2> HIDE DEF s
    <2>4. CASE scan' = Entering(s)
      BY <1>b, <2>1, <2>2, <2>4, EnterInv
    <2>5. CASE scan' = [s EXCEPT !.pc = "start"]
      <3>1. scan'.pc = "start" /\ scan'.running = 0
        BY <2>1, <2>2, <2>5 DEF ScanRecord
      <3> QED
        BY <1>b, <3>1, OutsideInv DEF Cancelling
    <2>6. CASE Size > 0 /\ scan' = [s EXCEPT !.pc = "cancelStep"]
      <3>1. scan'.pc = "cancelStep" /\ scan'.running = 0 /\ scan'.pos = 1
        BY <2>1, <2>2, <2>6 DEF ScanRecord
      <3>2. 1 \in StepJobs
        BY <2>6, SizeType DEF StepJobs
      <3> QED
        BY <1>b, <3>1, <3>2, OutsideInv DEF Cancelling
    <2> QED
      BY <2>3, <2>4, <2>5, <2>6
  <1>2. CASE ScanStart
    <2> DEFINE w == [scan.wf EXCEPT !.status = Running]
               s == [scan EXCEPT !.wf = w]
    <2>1. w \in WorkflowRow
      BY <1>a DEF ScanRecord, WorkflowRow, Statuses
    <2>2. s \in ScanRecord /\ s.running = scan.running
      <3> HIDE DEF w
      <3> QED
        BY <1>a, <2>1 DEF ScanRecord
    <2>3. scan' = Entering(s) /\ s.running = 0
      BY <1>2, <2>2 DEF ScanStart, ScanInv, PosInv
    <2> QED
      BY <1>b, <2>2, <2>3, EnterInv
  <1>3. CASE ScanFinish \/ ScanCrash
    <2>1. scan' = Resting
      BY <1>3 DEF ScanFinish, ScanCrash
    <2>2. scan'.pc = "idle"
      BY <2>1 DEF Resting
    <2> QED
      BY <1>b, <2>2, OutsideInv DEF Cancelling
  <1> QED
    BY <1>1, <1>2, <1>3

-----------------------------------------------------------------------------
(* The row, the requests, and the whole invariant.                         *)

WorkflowInv == TypeOK /\ ScanInv /\ RowInv /\ CancelInv /\ EndedInv /\ JobsTracked

\* What a request does, case by case; workers other than r are idle.
LEMMA ReqCases ==
  ASSUME TypeOK, RowInv, RequestsApart, NEW r \in Requests, ReqNext(r)
  PROVE  /\ UNCHANGED <<job, scan, blind, ended, lost>>
         /\ \A q \in Requests : q # r => req'[q] = req[q]
         /\ \/ /\ req'[r].op \in {"run", "rerun", "cancel"} /\ req'[r].wf = workflow
               /\ req'[r].op # "cancel" => workflow.status \in Finished
               /\ UNCHANGED <<workflow, jobId, asked>>
            \/ /\ req'[r].op = "edit" /\ req'[r].wf.status = workflow.status
               /\ UNCHANGED <<workflow, jobId, asked>>
            \/ /\ \A q \in Requests : req'[q].op = "none"
               /\ \/ UNCHANGED <<workflow, jobId, asked>>
                  \/ /\ workflow'.status = req[r].wf.status
                     /\ req[r].op = "edit" /\ UNCHANGED <<jobId, asked>>
                  \/ /\ workflow'.status = "cancelling" /\ jobId' = jobId
                     /\ asked' => scan.pc # "start"
                  \/ /\ workflow'.status = "starting" /\ asked' = FALSE
                     /\ workflow.status \in Finished
                     /\ jobId' \in {jobId, [i \in StepJobs |-> None]}
  <1>a. /\ req \in [Requests -> [op : {"none", "run", "rerun", "cancel", "edit"}, wf : WorkflowRow]]
        /\ workflow \in WorkflowRow
    BY DEF TypeOK
  <1>1. ASSUME NEW op \in {"run", "rerun", "cancel"}, OperateRead(r, op)
        PROVE  /\ UNCHANGED <<job, scan, blind, ended, lost, workflow, jobId, asked>>
               /\ \A q \in Requests : q # r => req'[q] = req[q]
               /\ req'[r].op = op /\ req'[r].wf = workflow
               /\ op # "cancel" => workflow.status \in Finished
    BY <1>a, <1>1 DEF OperateRead, ReqStep, Supports, Finished
  <1>2. ASSUME NEW m \in EditedMax, EditRead(r, m)
        PROVE  /\ UNCHANGED <<job, scan, blind, ended, lost, workflow, jobId, asked>>
               /\ \A q \in Requests : q # r => req'[q] = req[q]
               /\ req'[r].op = "edit" /\ req'[r].wf.status = workflow.status
    BY <1>a, <1>2 DEF EditRead, ReqStep, WorkflowRow
  <1>3. CASE ReqFinish(r)
    <2>1. /\ req' = [req EXCEPT ![r] = NoRequest] /\ req[r].op # "none"
          /\ UNCHANGED <<job, scan, blind, ended, lost>>
      BY <1>3 DEF ReqFinish, OperateCommit, EditSave, RequestDies, ReqStep
    <2>2. \A q \in Requests : q # r => req'[q] = req[q] /\ req[q].op = "none"
      BY <1>a, <2>1 DEF RequestsApart
    <2>3. \A q \in Requests : req'[q].op = "none"
      BY <1>a, <2>1, <2>2 DEF NoRequest
    <2>4. CASE OperateCommit(r)
      <3>1. req[r].op \in {"run", "rerun"} => workflow.status \in Finished
        BY <2>1, <2>4 DEF RowInv
      <3>2. workflow'.status = IF req[r].op = "cancel" THEN "cancelling" ELSE "starting"
        BY <1>a, <2>4 DEF OperateCommit, WorkflowRow
      <3>3. /\ req[r].op \in {"run", "rerun", "cancel"}
            /\ jobId' = IF req[r].op = "rerun" THEN [i \in StepJobs |-> None] ELSE jobId
            /\ asked' = (req[r].op = "cancel" /\ scan.pc # "start")
        BY <2>4 DEF OperateCommit
      <3> QED
        BY <2>1, <2>2, <2>3, <3>1, <3>2, <3>3
    <2>5. CASE EditSave(r) \/ RequestDies(r)
      BY <2>1, <2>2, <2>3, <2>5 DEF EditSave, RequestDies
    <2> QED
      BY <1>3, <2>4, <2>5 DEF ReqFinish
  <1> QED
    BY <1>1, <1>2, <1>3 DEF ReqNext

\* What a step of the scanner does to the row.
LEMMA ScanRowCases ==
  ASSUME TypeOK, PosInv, UsedInv, ScanNext \/ ScanCrash
  PROVE  /\ UNCHANGED <<req, asked>>
         /\ \/ scan.pc = "start" /\ workflow'.status = Running /\ scan'.pc \in {"step", "finish"}
            \/ scan.pc = "finish" /\ workflow'.status = Outcome(scan) /\ scan'.pc = "idle"
            \/ /\ workflow' = workflow
               /\ scan.pc = "idle" =>
                    /\ workflow.status \notin Finished
                    /\ scan'.pc = "start" => workflow.status = "starting"
               /\ scan.pc # "idle" => scan'.pc # "start"
  <1>a. scan \in ScanRecord
    BY DEF TypeOK, ScanRecord
  <1>1. CASE ScanRead
    <2>1. /\ workflow' = workflow /\ scan.pc = "idle" /\ workflow.status \notin Finished
          /\ UNCHANGED <<req, asked>>
      BY <1>1 DEF ScanRead, ScanStep
    <2> DEFINE s == [Resting EXCEPT !.wf = workflow,
                                    !.cancelled = (workflow.status = "cancelling")]
    <2>2. s \in ScanRecord
      BY RestingType DEF ScanRecord, TypeOK
    <2>3. scan'.pc = "start" => workflow.status = "starting"
      <3>1. \/ workflow.status = "starting"
            \/ scan' = [s EXCEPT !.pc = "cancelStep"]
            \/ scan' = Entering(s)
        BY <1>1 DEF ScanRead
      <3> HIDE DEF s
      <3> QED
        BY <2>2, <3>1 DEF Entering, ScanRecord
    <2> QED
      BY <2>1, <2>3
  <1>2. CASE ScanStart
    <2>1. scan.pc = "start" /\ UNCHANGED <<req, asked>>
      BY <1>2 DEF ScanStart, ScanStep, history
    <2>2. workflow'.status = Running
      BY <1>2, <1>a DEF ScanStart, ScanRecord, WorkflowRow
    <2>3. scan'.pc \in {"step", "finish"}
      BY <1>2, <1>a DEF ScanStart, Entering, ScanRecord
    <2> QED
      BY <2>1, <2>2, <2>3
  <1>3. CASE ScanFinish
    <2>1. scan.pc = "finish" /\ UNCHANGED <<req, asked>> /\ scan'.pc = "idle"
      BY <1>3 DEF ScanFinish, ScanStep, Resting
    <2>2. workflow'.status = Outcome(scan)
      BY <1>3, <1>a DEF ScanFinish, ScanRecord, WorkflowRow
    <2> QED
      BY <2>1, <2>2
  <1>4. CASE ScanCrash
    BY <1>4 DEF ScanCrash, Resting
  <1>5. CASE ScanWorks
    <2>1. scan'.pc # "start"
      <3>1. CASE VisitEnds
        <4>1. PICK s \in ScanRecord : Leaves(s)
          BY <3>1, VisitLeaves
        <4>2. scan' = Moved(s)
          BY <4>1 DEF Leaves
        <4>3. \/ Moved(s) = Resting
              \/ Moved(s) = [s EXCEPT !.pc = "finish"]
              \/ Moved(s) = [s EXCEPT !.pos = s.pos + 1,
                                      !.pc = IF LastOfStep(s.pos) THEN "step" ELSE "visit"]
          BY MovedCases
        <4>4. Resting.pc = "idle"
          BY DEF Resting
        <4> QED
          BY <4>2, <4>3, <4>4 DEF ScanRecord
      <3>2. CASE CancelReadStep \/ ReadStep \/ Submit \/ SubmitRaises
        BY <1>a, <3>2 DEF CancelReadStep, ReadStep, Submit, SubmitRaises, ScanRecord
      <3>3. CASE CancelAsk \/ CancelSend
        <4>1. CancelNext \/ scan' = [scan EXCEPT !.pc = "cancelSend"]
          BY <3>3 DEF CancelAsk, CancelSend
        <4> QED
          BY <1>a, <4>1 DEF CancelNext, Entering, ScanRecord
      <3> QED
        BY <1>5, <3>1, <3>2, <3>3 DEF ScanWorks, VisitEnds
    <2> QED
      BY <1>5, <2>1, ScanWorksFrame
  <1> QED
    BY <1>1, <1>2, <1>3, <1>4, <1>5 DEF ScanNext, ScanWorks

\* The jobs that may still run are alive.
LEMMA ActiveAlive ==
  ASSUME NEW k \in JobIds, NEW i \in StepJobs, jobId[i] = k,
         job[k] \in {"waiting", "stopping", "UN"}
  PROVE  Alive(i)
  BY DEF Alive, Tracked, Over

LEMMA RequestInv ==
  ASSUME WorkflowInv, TypeOK', RequestsApart, NEW r \in Requests, ReqNext(r)
  PROVE  WorkflowInv'
  <1>a. TypeOK /\ ScanInv /\ RowInv /\ CancelInv /\ EndedInv /\ JobsTracked
    BY DEF WorkflowInv
  <1>b. req \in [Requests -> [op : {"none", "run", "rerun", "cancel", "edit"}, wf : WorkflowRow]]
    BY <1>a DEF TypeOK
  <1>c. /\ UNCHANGED <<job, scan, blind, ended, lost>>
        /\ \A q \in Requests : q # r => req'[q] = req[q]
    BY <1>a, ReqCases
  <1>d. JobsAdvance
    BY <1>a, <1>c, StepsAdvance
  <1>1. CASE /\ req'[r].op \in {"run", "rerun", "cancel"} /\ req'[r].wf = workflow
             /\ req'[r].op # "cancel" => workflow.status \in Finished
             /\ UNCHANGED <<workflow, jobId, asked>>
    <2>1. ScanInv'
      BY <1>1, <1>a, <1>c, <1>d, FrameInv
    <2>2. RowInv'
      BY <1>1, <1>a, <1>c DEF RowInv
    <2>3. CancelInv'
      BY <1>1, <1>a, <1>c DEF CancelInv
    <2>4. EndedInv' /\ JobsTracked'
      BY <1>1, <1>a, <1>c DEF EndedInv, JobsTracked, Alive, Tracked
    <2> QED
      BY <2>1, <2>2, <2>3, <2>4 DEF WorkflowInv
  <1>2. CASE /\ req'[r].op = "edit" /\ req'[r].wf.status = workflow.status
             /\ UNCHANGED <<workflow, jobId, asked>>
    <2>1. ScanInv'
      BY <1>2, <1>a, <1>c, <1>d, FrameInv
    <2>2. RowInv'
      BY <1>2, <1>a, <1>c DEF RowInv
    <2>3. CancelInv'
      BY <1>2, <1>a, <1>c DEF CancelInv
    <2>4. EndedInv' /\ JobsTracked'
      BY <1>2, <1>a, <1>c DEF EndedInv, JobsTracked, Alive, Tracked
    <2> QED
      BY <2>1, <2>2, <2>3, <2>4 DEF WorkflowInv
  <1>3. ASSUME \A q \in Requests : req'[q].op = "none",
               jobId' = jobId, req[r].op # "none",
               scan.pc # "idle" => workflow'.status \notin Finished,
               asked' => workflow'.status \notin {"starting", Running} /\ scan.pc # "start",
               workflow'.status \in Finished => workflow.status \in Finished
        PROVE  WorkflowInv'
    <2>1. ScanInv'
      BY <1>3, <1>a, <1>c, <1>d, FrameInv
    <2>2. RowInv' /\ CancelInv'
      BY <1>3, <1>c DEF RowInv, CancelInv
    <2>3. EndedInv' /\ JobsTracked'
      BY <1>3, <1>a, <1>c DEF EndedInv, JobsTracked, Alive, Tracked
    <2> QED
      BY <2>1, <2>2, <2>3 DEF WorkflowInv
  <1>4. CASE /\ \A q \in Requests : req'[q].op = "none"
             /\ UNCHANGED <<workflow, jobId, asked>>
    <2>1. ScanInv'
      BY <1>4, <1>a, <1>c, <1>d, FrameInv
    <2>2. RowInv' /\ CancelInv'
      BY <1>4, <1>a, <1>c DEF RowInv, CancelInv
    <2>3. EndedInv' /\ JobsTracked'
      BY <1>4, <1>a, <1>c DEF EndedInv, JobsTracked, Alive, Tracked
    <2> QED
      BY <2>1, <2>2, <2>3 DEF WorkflowInv
  <1>5. CASE /\ \A q \in Requests : req'[q].op = "none"
             /\ workflow'.status = req[r].wf.status
             /\ req[r].op = "edit" /\ UNCHANGED <<jobId, asked>>
    BY <1>3, <1>5, <1>a DEF RowInv, CancelInv
  <1>6. CASE /\ \A q \in Requests : req'[q].op = "none"
             /\ workflow'.status = "cancelling" /\ jobId' = jobId
             /\ asked' => scan.pc # "start"
    <2>1. ScanInv'
      BY <1>6, <1>a, <1>c, <1>d, FrameInv
    <2>2. "cancelling" \notin Finished \cup {"starting", Running}
      BY DEF Finished, Running
    <2>3. RowInv' /\ CancelInv'
      BY <1>6, <1>c, <2>2 DEF RowInv, CancelInv
    <2>4. EndedInv' /\ JobsTracked'
      BY <1>6, <1>a, <1>c, <2>2 DEF EndedInv, JobsTracked
    <2> QED
      BY <2>1, <2>3, <2>4 DEF WorkflowInv
  <1>7. CASE /\ \A q \in Requests : req'[q].op = "none"
             /\ workflow'.status = "starting" /\ asked' = FALSE
             /\ workflow.status \in Finished
             /\ jobId' \in {jobId, [i \in StepJobs |-> None]}
    <2>1. scan.pc = "idle"
      BY <1>7, <1>a DEF RowInv
    <2>2. "starting" \notin Finished
      BY DEF Finished
    <2>3. RowInv' /\ CancelInv' /\ EndedInv'
      BY <1>7, <1>c, <2>2 DEF RowInv, CancelInv, EndedInv
    <2>4. CASE jobId' = jobId
      <3>1. ScanInv'
        BY <2>4, <1>a, <1>c, <1>d, FrameInv
      <3>2. JobsTracked'
        BY <2>4, <1>a, <1>c DEF JobsTracked
      <3> QED
        BY <2>3, <3>1, <3>2 DEF WorkflowInv
    <2>5. CASE jobId' = [i \in StepJobs |-> None]
      <3>1. \A i \in StepJobs : jobId'[i] = None /\ ~Tracked(i)'
        BY <2>5, IdFacts DEF Tracked
      <3>2. ScanInv'
        BY <2>1, <1>c, <3>1
           DEF ScanInv, PosInv, UsedInv, PassedInv, PrefixInv, CountInv, Looping, Cancelling
      <3>3. JobsTracked'
        <4> SUFFICES ASSUME NEW k \in JobIds, job[k] \in {"waiting", "stopping", "UN"}, ~ended, k \notin lost
                     PROVE  FALSE
          BY <1>c DEF JobsTracked
        <4>1. PICK i \in StepJobs : jobId[i] = k
          BY <1>a, <2>1 DEF JobsTracked
        <4>2. Alive(i)
          BY <4>1, ActiveAlive
        <4> QED
          BY <1>7, <1>a, <4>2 DEF EndedInv
      <3> QED
        BY <2>3, <3>2, <3>3 DEF WorkflowInv
    <2> QED
      BY <1>7, <2>4, <2>5
  <1> QED
    BY <1>a, <1>1, <1>2, <1>4, <1>5, <1>6, <1>7, ReqCases

LEMMA JobsInv ==
  ASSUME WorkflowInv, TypeOK', JobNext
  PROVE  WorkflowInv'
  <1>a. /\ TypeOK /\ ScanInv /\ RowInv /\ CancelInv /\ EndedInv /\ JobsTracked
        /\ job \in [JobIds -> JobValues]
    BY DEF WorkflowInv, TypeOK
  <1>b. UNCHANGED <<workflow, jobId, scan, req, blind, ended, asked, lost>>
    BY JobFrame DEF history
  <1>c. JobsAdvance
    BY <1>a, StepsAdvance
  <1>1. ScanInv'
    BY <1>a, <1>b, <1>c, FrameInv
  <1>2. RowInv' /\ CancelInv'
    BY <1>a, <1>b DEF RowInv, CancelInv
  <1>3. EndedInv'
    BY <1>a, <1>b, <1>c, AdvanceKeeps DEF EndedInv
  <1>4. \A k \in JobIds : job'[k] \in {"waiting", "stopping", "UN"} =>
                            job[k] \in {"waiting", "stopping", "UN"}
    BY <1>a DEF JobNext, JobEnds, JobUnknown, JobCancelled, JobDeleted
  <1>5. JobsTracked'
    BY <1>a, <1>b, <1>4 DEF JobsTracked
  <1> QED
    BY <1>1, <1>2, <1>3, <1>5 DEF WorkflowInv

\* The scanner loses no job: what it submits it stores, or the kill is noted.
LEMMA ScanTracks ==
  ASSUME TypeOK, PosInv, JobsTracked, ScanNext \/ ScanCrash
  PROVE  JobsTracked'
  <1> DEFINE active == {"waiting", "stopping", "UN"}
  <1>a. scan \in ScanRecord /\ job \in [JobIds -> JobValues] /\ jobId \in [StepJobs -> StoredIds]
        /\ ended \in BOOLEAN /\ blind \in BOOLEAN
    BY DEF TypeOK, ScanRecord
  <1>b. ended => ended'
    BY DEF ScanNext, ScanRead, ScanStart, CancelReadStep, CancelAsk, CancelSend, ReadStep, Submit,
           SubmitRaises, SaveStepJob, SkipSubmit, SkipFailed, Query, QueryRaises, ScanFinish,
           ScanCrash, history
  <1>1. CASE Submit
    <2>1. PICK n \in JobIds, v \in {"waiting", "create_fail"} :
             /\ job' = [job EXCEPT ![n] = v]
             /\ scan' = [scan EXCEPT !.new = n, !.pc = "submitted"]
      BY <1>1 DEF Submit
    <2>2. scan'.pc = "submitted" /\ scan'.new = n
      BY <1>a, <2>1 DEF ScanRecord
    <2>3. scan.pc = "visit" /\ UNCHANGED <<jobId, ended, lost>>
      BY <1>1 DEF Submit, MaySubmit, Visiting, history
    <2>4. \A k \in JobIds : k # n => job'[k] = job[k]
      BY <1>a, <2>1
    <2> QED
      BY <2>2, <2>3, <2>4 DEF JobsTracked
  <1>2. CASE SubmitRaises
    <2>1. scan.pc = "visit" /\ UNCHANGED <<jobId, ended>>
      BY <1>2 DEF SubmitRaises, MaySubmit, Visiting
    <2>2. \A k \in JobIds : k \in lost' \/ (k \notin lost /\ job'[k] = job[k])
      BY <1>2, <1>a DEF SubmitRaises
    <2> QED
      BY <2>1, <2>2 DEF JobsTracked
  <1>3. CASE SaveStepJob
    <2>1. /\ jobId' = [jobId EXCEPT ![scan.pos] = scan.new] /\ scan.pc = "submitted"
          /\ UNCHANGED <<job, ended, lost>>
      BY <1>3 DEF SaveStepJob, StepJobSaved, history
    <2>2. scan.pos \in StepJobs /\ jobId[scan.pos] = None
      BY <2>1 DEF PosInv, Looping
    <2>3. jobId'[scan.pos] = scan.new /\ \A i \in StepJobs : i # scan.pos => jobId'[i] = jobId[i]
      BY <1>a, <2>1, <2>2
    <2> QED
      BY <2>1, <2>2, <2>3, IdFacts DEF JobsTracked
  <1>4. CASE ScanCrash
    <2>1. /\ UNCHANGED <<jobId, job, ended>>
          /\ lost' = IF scan.pc = "submitted" THEN lost \cup ({scan.new} \cap JobIds) ELSE lost
      BY <1>4 DEF ScanCrash
    <2> QED
      BY <2>1 DEF JobsTracked
  <1>5. CASE CancelSend
    <2>1. scan.pc = "cancelSend" /\ UNCHANGED <<jobId, ended, lost>>
      BY <1>5 DEF CancelSend, history
    <2>2. \A k \in JobIds : job'[k] \in active => job[k] \in active
      BY <1>5, <1>a DEF CancelSend
    <2> QED
      BY <2>1, <2>2 DEF JobsTracked
  <1>6. CASE \/ ScanRead \/ ScanStart \/ CancelReadStep \/ CancelAsk \/ ReadStep
             \/ SkipSubmit \/ SkipFailed \/ ScanFinish
             \/ \E k \in JobIds : Query(k) \/ QueryRaises(k)
    <2>1. scan.pc # "submitted" /\ UNCHANGED <<jobId, job, lost>>
      BY <1>6 DEF ScanRead, ScanStart, CancelReadStep, CancelAsk, ReadStep, SkipSubmit,
                  SkipFailed, ScanFinish, Query, QueryRaises, Visiting, history
    <2> QED
      BY <1>b, <2>1 DEF JobsTracked
  <1> QED
    BY <1>1, <1>2, <1>3, <1>4, <1>5, <1>6 DEF ScanNext

\* A scan that ends the workflow has seen every job of it.
LEMMA FinishSettled ==
  ASSUME PassedInv, scan.pc = "finish", ~blind, NEW i \in StepJobs
  PROVE  /\ jobId[i] = None \/ Settled(i)
         /\ ~Alive(i)
         /\ ~scan.failed /\ ~scan.cancelled => Settled(i)
  BY IdFacts DEF PassedInv, Passed, Settled, Alive, Tracked

LEMMA ScannerInv ==
  ASSUME WorkflowInv, TypeOK', ScanNext \/ ScanCrash
  PROVE  WorkflowInv'
  <1>a. /\ TypeOK /\ ScanInv /\ RowInv /\ CancelInv /\ EndedInv /\ JobsTracked
        /\ PosInv /\ UsedInv /\ PassedInv /\ scan \in ScanRecord
    BY DEF WorkflowInv, ScanInv, TypeOK, ScanRecord
  <1>1. ScanInv'
    BY <1>a, ScanWorksInv, ScanEndsInv DEF ScanNext, ScanWorks
  <1>2. JobsTracked'
    BY <1>a, ScanTracks
  <1>3. UNCHANGED <<req, asked>>
    BY <1>a, ScanRowCases
  <1>4. CASE scan.pc = "start" /\ workflow'.status = Running /\ scan'.pc \in {"step", "finish"}
    <2>1. Running \notin Finished
      BY DEF Finished, Running
    <2>2. RowInv' /\ CancelInv' /\ EndedInv'
      BY <1>a, <1>3, <1>4, <2>1 DEF RowInv, CancelInv, EndedInv
    <2> QED
      BY <1>1, <1>2, <2>2 DEF WorkflowInv
  <1>5. CASE scan.pc = "finish" /\ workflow'.status = Outcome(scan) /\ scan'.pc = "idle"
    <2>1. Outcome(scan) \in Finished \ {"starting", Running}
      BY DEF Outcome, Finished, Running
    <2>2. RowInv' /\ CancelInv'
      BY <1>a, <1>3, <1>5, <2>1 DEF RowInv, CancelInv
    <2>3. CASE ScanFinish
      <3>1. ended' = (ended \/ blind) /\ UNCHANGED <<jobId, job>>
        BY <2>3 DEF ScanFinish
      <3>2. ~blind => \A i \in StepJobs : ~Alive(i)
        BY <1>5, <1>a, FinishSettled
      <3> QED
        BY <1>1, <1>2, <2>2, <3>1, <3>2 DEF WorkflowInv, EndedInv, Alive, Tracked
    <2>4. CASE ~ScanFinish
      \* Then the row did not change, and it was not over.
      <3>1. workflow' = workflow
        BY <1>5, <2>4 DEF ScanNext, ScanRead, ScanStart, CancelReadStep, CancelAsk, CancelSend,
             ReadStep, Submit, SubmitRaises, SaveStepJob, StepJobSaved, SkipSubmit, SkipFailed,
             Query, QueryRaises, ScanCrash, MaySubmit, Visiting
      <3> QED
        BY <1>5, <1>a, <2>1, <3>1 DEF RowInv
    <2> QED
      BY <2>3, <2>4
  <1>6. CASE /\ workflow' = workflow
             /\ scan.pc = "idle" => /\ workflow.status \notin Finished
                                    /\ scan'.pc = "start" => workflow.status = "starting"
             /\ scan.pc # "idle" => scan'.pc # "start"
    <2>1. workflow.status \notin Finished
      BY <1>6, <1>a DEF RowInv
    <2>2. RowInv' /\ CancelInv' /\ EndedInv'
      BY <1>6, <1>a, <1>3, <2>1 DEF RowInv, CancelInv, EndedInv
    <2> QED
      BY <1>1, <1>2, <2>2 DEF WorkflowInv
  <1> QED
    BY <1>a, <1>4, <1>5, <1>6, ScanRowCases

LEMMA InitInv == Init => WorkflowInv
  <1> SUFFICES ASSUME Init PROVE WorkflowInv
    OBVIOUS
  <1>1. TypeOK
    BY InitType
  <1>2. scan.pc = "idle"
    BY DEF Init, Resting
  <1>3. \A i \in StepJobs : jobId[i] = None /\ ~Tracked(i)
    BY IdFacts DEF Init, Tracked
  <1>4. ScanInv
    BY <1>2, <1>3
       DEF ScanInv, PosInv, UsedInv, PassedInv, PrefixInv, CountInv, Looping, Cancelling
  <1>5. RowInv /\ CancelInv
    BY <1>2 DEF RowInv, CancelInv, Init, NoRequest
  <1>6. EndedInv
    BY <1>3 DEF EndedInv, Alive
  <1>7. JobsTracked
    BY DEF JobsTracked, Init
  <1> QED
    BY <1>1, <1>4, <1>5, <1>6, <1>7 DEF WorkflowInv

LEMMA StepInv == WorkflowInv /\ RequestsApart /\ [Next]_vars => WorkflowInv'
  <1> SUFFICES ASSUME WorkflowInv, RequestsApart, [Next]_vars
               PROVE  WorkflowInv'
    OBVIOUS
  <1>1. TypeOK'
    BY StepType DEF WorkflowInv
  <1>2. CASE UNCHANGED vars
    <2>1. UNCHANGED <<workflow, jobId, job, scan, req, blind, ended, asked, lost>>
      BY <1>2 DEF vars, history
    <2>2. ScanInv'
      BY <1>1, <2>1, StepsAdvance, FrameInv DEF WorkflowInv
    <2>3. RowInv' /\ CancelInv'
      BY <2>1 DEF WorkflowInv, RowInv, CancelInv
    <2>4. EndedInv' /\ JobsTracked'
      BY <2>1 DEF WorkflowInv, EndedInv, JobsTracked, Alive, Tracked
    <2> QED
      BY <1>1, <2>2, <2>3, <2>4 DEF WorkflowInv
  <1> QED
    BY <1>1, <1>2, JobsInv, ScannerInv, RequestInv DEF Next, ReqNext

\* While no two requests on the workflow overlap, its invariant holds.
THEOREM InvCorrect == Spec /\ []RequestsApart => []WorkflowInv
  BY InitInv, StepInv, PTL DEF Spec

-----------------------------------------------------------------------------
(* The properties.                                                         *)

\* The step job a submission is for has no job yet, nor has any after it.
LEMMA SubmittedLast ==
  ASSUME TypeOK, ScanInv, scan.pc = "submitted", NEW i \in StepJobs, jobId[i] # None
  PROVE  i < scan.pos
  <1>1. scan.pos \in StepJobs /\ jobId[scan.pos] = None
    BY DEF ScanInv, PosInv, Looping
  <1>2. scan.pos \in Nat /\ i \in Nat
    BY <1>1 DEF StepJobs
  <1>3. ~(scan.pos < i)
    BY <1>1 DEF ScanInv, PrefixInv
  <1> QED
    BY <1>1, <1>2, <1>3

LEMMA InvInOrder == WorkflowInv => StepsInOrder
  <1> SUFFICES ASSUME WorkflowInv, scan.pc = "submitted", ~blind, NEW i \in StepJobs,
                      StepOf[i] < StepOf[scan.pos]
               PROVE  Settled(i)
    BY DEF StepsInOrder
  <1>1. ~scan.failed /\ ~scan.cancelled
    BY DEF WorkflowInv, ScanInv, PosInv
  <1>2. Passed(i)
    BY DEF WorkflowInv, ScanInv, PassedInv, Looping
  <1> QED
    BY <1>1, <1>2 DEF Passed

LEMMA InvMax == WorkflowInv => MaxSubmitJobs
  <1> SUFFICES ASSUME WorkflowInv, scan.pc = "submitted", ~blind
               PROVE  LET run == {i \in StepJobs : Tracked(i) /\ JobRunning(job[jobId[i]])}
                      IN  Cardinality(run) < scan.wf.max \/ run = {}
    BY DEF MaxSubmitJobs
  <1> DEFINE run == {i \in StepJobs : Tracked(i) /\ JobRunning(job[jobId[i]])}
             before == AliveBefore(scan.pos)
  <1>a. /\ TypeOK /\ ScanInv /\ scan.pos \in Nat /\ scan.running \in Nat /\ scan.wf.max \in Nat
    BY DEF WorkflowInv, TypeOK, WorkflowRow
  <1>1. run \subseteq before
    <2> SUFFICES ASSUME NEW i \in run PROVE i \in before
      OBVIOUS
    <2>1. Alive(i)
      BY DEF Alive, JobRunning, Over
    <2>2. i < scan.pos
      BY <1>a, SubmittedLast, IdFacts DEF Tracked
    <2> QED
      BY <2>1, <2>2 DEF AliveBefore
  <1>2. IsFiniteSet(before) /\ Cardinality(before) \in Nat
    BY <1>a, AliveFinite
  <1>3. Cardinality(run) \in Nat /\ Cardinality(run) <= Cardinality(before)
    BY <1>1, <1>2, FS_Subset, FS_CardinalityType
  <1>4. /\ scan.running < scan.wf.max \/ scan.pos = 1
        /\ Cardinality(before) <= scan.running
    BY <1>a DEF ScanInv, CountInv, Looping
  <1>5. scan.pos = 1 => before = {}
    BY DEF AliveBefore, StepJobs
  <1> HIDE DEF run, before
  <1>6. Cardinality(run) < scan.wf.max \/ run = {}
    BY <1>1, <1>2, <1>3, <1>4, <1>5, <1>a
  <1> QED
    BY <1>6 DEF run

\* A job is submitted only when all jobs of the earlier steps are over, unless
\* a query of this scan raised or said UN: WorkflowScanner goes through the
\* steps in order and returns at the first one with a running job.
THEOREM StepsAreInOrder == Spec /\ []RequestsApart => []StepsInOrder
  BY InvCorrect, InvInOrder, PTL

\* When a job is submitted, the jobs that run are fewer than max_submit_jobs,
\* or there are none, with the same exception.
THEOREM MaxIsKept == Spec /\ []RequestsApart => []MaxSubmitJobs
  BY InvCorrect, InvMax, PTL

\* A job that is not over is one the workflow knows or is about to store, but
\* for lost submissions and for reruns of a workflow that had ended blind.
THEOREM JobsAreTracked == Spec /\ []RequestsApart => []JobsTracked
  <1>1. WorkflowInv => JobsTracked
    BY DEF WorkflowInv
  <1> QED
    BY <1>1, InvCorrect, PTL

\* A cancel that was answered, but for one that came while "starting" was
\* being replaced, is not undone by the scanner or by an edit.
THEOREM CancelIsKept == Spec /\ []RequestsApart => []CancelNotLost
  <1>1. WorkflowInv => CancelNotLost
    BY DEF WorkflowInv, CancelInv, CancelNotLost
  <1> QED
    BY <1>1, InvCorrect, PTL

EndStep ==
  scan.pc = "finish" /\ workflow'.status # scan.wf.status =>
     \/ blind
     \/ /\ \A i \in StepJobs : jobId[i] = None \/ Settled(i)
        /\ workflow'.status = "completed" => \A i \in StepJobs : Settled(i)

LEMMA InvEnds == WorkflowInv /\ RequestsApart /\ [Next]_vars => EndStep
  <1> SUFFICES ASSUME WorkflowInv, RequestsApart, [Next]_vars, scan.pc = "finish", ~blind
               PROVE  /\ \A i \in StepJobs : jobId[i] = None \/ Settled(i)
                      /\ workflow'.status = "completed" => \A i \in StepJobs : Settled(i)
    BY DEF EndStep
  <1>a. TypeOK /\ PosInv /\ UsedInv /\ PassedInv /\ RowInv /\ WorkflowInv'
    BY StepInv DEF WorkflowInv, ScanInv
  <1>1. \A i \in StepJobs : jobId[i] = None \/ Settled(i)
    BY <1>a, FinishSettled
  <1>2. workflow.status # "completed"
    BY <1>a DEF RowInv, Finished
  <1>3. ASSUME workflow'.status = "completed"
        PROVE  ~scan.failed /\ ~scan.cancelled
    <2>1. CASE ScanNext \/ ScanCrash
      <3>1. workflow'.status = Outcome(scan)
        BY <2>1, <1>3, <1>2, <1>a, ScanRowCases
      <3> QED
        BY <3>1, <1>3 DEF Outcome
    <2>2. CASE JobNext \/ UNCHANGED vars
      BY <2>2, <1>2, <1>3, JobFrame DEF vars
    <2>3. ASSUME NEW r \in Requests, ReqNext(r)
          PROVE  FALSE
      <3>1. scan' = scan
        BY <2>3, <1>a, ReqCases
      <3> QED
        BY <3>1, <1>3, <1>a DEF WorkflowInv, RowInv, Finished
    <2> QED
      BY <2>1, <2>2, <2>3 DEF Next, ReqNext
  <1> QED
    BY <1>1, <1>3, <1>a, FinishSettled

\* The scanner ends a workflow only when every job of it is over, and as
\* completed only when every step job has been submitted, with the same
\* exception of a query that raised or said UN.
THEOREM EndsAreOver == Spec /\ []RequestsApart => EndsWhenOver
  <1>1. WorkflowInv /\ RequestsApart /\ [Next]_vars => [EndStep]_vars
    BY InvEnds
  <1>2. Spec /\ []RequestsApart => [][EndStep]_vars
    BY <1>1, InvCorrect, PTL DEF Spec
  <1> QED
    BY <1>2 DEF EndsWhenOver, EndStep

-----------------------------------------------------------------------------
(* Requests that cannot overlap.                                           *)

\* One worker serves the requests on a workflow: then none overlap, and all of
\* the above holds without a condition.
THEOREM OneWorker ==
  ASSUME \A r, q \in Requests : r = q
  PROVE  Spec => [](StepsInOrder /\ MaxSubmitJobs /\ JobsTracked /\ CancelNotLost) /\ EndsWhenOver
  <1>1. RequestsApart
    BY DEF RequestsApart
  <1> QED
    BY <1>1, StepsAreInOrder, MaxIsKept, JobsAreTracked, CancelIsKept, EndsAreOver, PTL
=============================================================================
