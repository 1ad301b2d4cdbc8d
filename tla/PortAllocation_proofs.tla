------------------------- MODULE PortAllocation_proofs ------------------------
(***************************************************************************)
(* Proofs about PortAllocation, for any jobs, ports and bounds.            *)
(***************************************************************************)
EXTENDS PortAllocation, FiniteSetTheorems, TLAPS

-----------------------------------------------------------------------------
(* The inductive invariant.                                                *)

SubmissionRecord == [pc: SubmissionPcs, wanted: 0 .. MaxWanted, allocated: SUBSET Ports]
SubmissionType == [Jobs -> SubmissionRecord]

\* The lock has the one holder that renders.
LockInv ==
    /\ flock = Nobody \/ \E j \in Jobs : flock = {j}
    /\ \A j \in Jobs : submission[j].pc = "render" <=> j \in flock

\* Before it renders a job has no ports, and before it is submitted the
\* scheduler does not know it.
EarlyInv == \A j \in Jobs :
    /\ submission[j].pc \in {"new", "created"} => ports[j] = {} /\ taken[j] = 0
    /\ submission[j].pc \in {"new", "created", "render", "rendered"} => scheduled[j] = "none"

\* The rows of a job are as many as the values given to its file, and while it
\* renders they are all among the values it knows to be allocated.
CountInv == \A j \in Jobs :
    /\ IsFiniteSet(ports[j]) /\ Cardinality(ports[j]) = taken[j]
    /\ submission[j].pc = "render" => ports[j] \subseteq submission[j].allocated

\* The job will not run, unless it is requeued, or was.
Gone(k) == (submission[k].pc = "done" /\ scheduled[k] # "live") \/ k \in restarted

\* A job that renders knows the ports of every other one it could not overlook.
SeenInv == \A j, k \in Jobs :
    submission[j].pc = "render" /\ j # k =>
        ports[k] \subseteq submission[j].allocated \/ <<j, k>> \in overlooked \/ Gone(k)

ApartInv == \A j, k \in Jobs :
    j # k => \/ ports[j] \cap ports[k] = {}
             \/ <<j, k>> \in overlooked \/ <<k, j>> \in overlooked
             \/ Gone(j) \/ Gone(k)

PortInv == TypeOK /\ LockInv /\ EarlyInv /\ CountInv /\ SeenInv /\ ApartInv

-----------------------------------------------------------------------------
(* Types.                                                                  *)

LEMMA StateValues == Alive \subseteq JobStateValues /\ "C" \in JobStateValues
                     /\ \A j : Shown(j) \subseteq JobStateValues
  BY DEF Alive, Shown, JobStateValues

\* One holder is at most one.
LEMMA OneHolder ==
  ASSUME LockInv
  PROVE  flock \subseteq Jobs /\ Cardinality(flock) <= 1
  <1>1. CASE flock = Nobody
    BY <1>1, FS_EmptySet DEF Nobody
  <1>2. CASE \E j \in Jobs : flock = {j}
    <2>1. PICK j \in Jobs : flock = {j}
      BY <1>2
    <2>2. Cardinality({j}) = 1
      BY FS_Singleton
    <2> QED
      BY <2>1, <2>2
  <1> QED
    BY <1>1, <1>2 DEF LockInv

LEMMA InitInv == PortAssumption /\ Init => PortInv
  <1> SUFFICES ASSUME PortAssumption, Init PROVE PortInv
    OBVIOUS
  <1>1. 0 \in 0 .. MaxWanted /\ 0 \in 0 .. MaxRequeues
    BY DEF PortAssumption
  <1>2. TypeOK
    BY <1>1, FS_EmptySet DEF TypeOK, Init, SubmissionPcs, Nobody
  <1>3. LockInv /\ EarlyInv
    BY DEF LockInv, EarlyInv, Init, Nobody
  <1>4. CountInv
    BY FS_EmptySet DEF CountInv, Init
  <1>5. SeenInv /\ ApartInv
    BY DEF SeenInv, ApartInv, Init
  <1> QED
    BY <1>2, <1>3, <1>4, <1>5 DEF PortInv

\* The steps of a submission that leave the rows, and those of others: no job
\* that is gone comes back but by a requeue.
Onward ==
    /\ UNCHANGED <<ports, taken, overlooked>>
    /\ restarted \subseteq restarted'
    /\ \A k \in Jobs : /\ Gone(k) => Gone(k)'
                       /\ submission'[k].allocated = submission[k].allocated
                       /\ submission'[k].pc = "render" => submission[k].pc = "render"

LEMMA OnwardKeeps ==
  ASSUME PortInv, Onward
  PROVE  CountInv' /\ SeenInv' /\ ApartInv'
  <1>1. CountInv'
    BY DEF PortInv, CountInv, Onward
  <1>2. SeenInv'
    BY DEF PortInv, SeenInv, Onward
  <1>3. ApartInv'
    BY DEF PortInv, ApartInv, Onward
  <1> QED
    BY <1>1, <1>2, <1>3

\* The record of one submission changes.
LEMMA Replaced ==
  ASSUME submission \in SubmissionType, NEW j \in Jobs, NEW rec \in SubmissionRecord,
         submission' = [submission EXCEPT ![j] = rec]
  PROVE  /\ submission' \in SubmissionType
         /\ submission'[j] = rec
         /\ \A k \in Jobs : k # j => submission'[k] = submission[k]
  BY DEF SubmissionType

\* A handler that goes on to a later step of the submission.
LEMMA GotoFacts ==
  ASSUME submission \in SubmissionType, NEW j \in Jobs,
         NEW pc \in {"created", "render", "rendered", "submitted", "done"}, Goto(j, pc)
  PROVE  /\ submission' \in SubmissionType
         /\ submission'[j].pc = pc
         /\ \A k \in Jobs : k # j => submission'[k] = submission[k]
         /\ \A k \in Jobs : submission'[k].allocated = submission[k].allocated
  <1> DEFINE rec == [submission[j] EXCEPT !.pc = pc]
  <1>1. /\ rec \in SubmissionRecord /\ rec.pc = pc
        /\ rec.allocated = submission[j].allocated
    BY DEF SubmissionType, SubmissionRecord, SubmissionPcs
  <1>2. submission' = [submission EXCEPT ![j] = rec]
    BY DEF Goto
  <1> HIDE DEF rec
  <1> QED
    BY <1>1, <1>2, Replaced

-----------------------------------------------------------------------------
(* The steps.                                                              *)

LEMMA CreateInv ==
  ASSUME PortAssumption, PortInv, NEW j \in Jobs, Create(j)
  PROVE  PortInv'
  <1>a. TypeOK /\ LockInv /\ EarlyInv /\ submission \in SubmissionType
    BY DEF PortInv, TypeOK, SubmissionType, SubmissionRecord
  <1>1. PICK wanted \in 0 .. MaxWanted :
           submission' = [submission EXCEPT ![j].pc = "created", ![j].wanted = wanted]
    BY DEF Create
  <1> DEFINE rec == [submission[j] EXCEPT !.pc = "created", !.wanted = wanted]
  <1>2. /\ rec \in SubmissionRecord /\ rec.pc = "created"
        /\ rec.allocated = submission[j].allocated
    BY <1>a DEF SubmissionType, SubmissionRecord, SubmissionPcs
  <1>3. submission' = [submission EXCEPT ![j] = rec]
    BY <1>a, <1>1 DEF SubmissionType, SubmissionRecord
  <1> HIDE DEF rec
  <1>4. /\ submission[j].pc = "new"
        /\ UNCHANGED <<jobState, scheduled, ports, taken, flock, requeues, overlooked, restarted>>
    BY DEF Create
  <1>5. /\ submission' \in SubmissionType /\ submission'[j] = rec
        /\ \A k \in Jobs : k # j => submission'[k] = submission[k]
    BY <1>a, <1>2, <1>3, Replaced
  <1>6. TypeOK'
    BY <1>a, <1>4, <1>5 DEF TypeOK, SubmissionType, SubmissionRecord
  <1>7. LockInv' /\ EarlyInv'
    BY <1>a, <1>2, <1>4, <1>5 DEF LockInv, EarlyInv
  <1>8. Onward
    BY <1>2, <1>4, <1>5 DEF Onward, Gone
  <1> QED
    BY <1>6, <1>7, <1>8, OnwardKeeps DEF PortInv

\* The lock is granted when nobody renders, and what is not seen then either
\* has no ports yet, is gone, or is overlooked.
LEMMA LookInv ==
  ASSUME PortAssumption, PortInv, NEW j \in Jobs, Look(j)
  PROVE  PortInv'
  <1>a. TypeOK /\ LockInv /\ EarlyInv /\ CountInv /\ SeenInv /\ ApartInv
        /\ submission \in SubmissionType
    BY DEF PortInv, TypeOK, SubmissionType, SubmissionRecord
  <1> DEFINE held == UNION {ports[k] : k \in {x \in Jobs : Holding(x)}}
             rec == [submission[j] EXCEPT !.pc = "render", !.allocated = held]
  <1>1. held \in SUBSET Ports /\ \A k \in Jobs : Holding(k) => ports[k] \subseteq held
    BY <1>a DEF TypeOK
  <1>2. /\ submission[j].pc = "created" /\ flock = Nobody /\ flock' = {j}
        /\ submission' = [submission EXCEPT ![j].pc = "render", ![j].allocated = held]
        /\ overlooked' = overlooked \cup {<<j, k>> : k \in {x \in Jobs \ {j} : Unseen(x)}}
        /\ UNCHANGED <<jobState, scheduled, ports, taken, requeues, restarted>>
    BY DEF Look
  <1> HIDE DEF held
  <1>3. rec \in SubmissionRecord /\ rec.pc = "render" /\ rec.allocated = held
    BY <1>a, <1>1 DEF SubmissionType, SubmissionRecord, SubmissionPcs
  <1>4. submission' = [submission EXCEPT ![j] = rec]
    BY <1>a, <1>2 DEF SubmissionType, SubmissionRecord
  <1> HIDE DEF rec
  <1>5. /\ submission' \in SubmissionType /\ submission'[j] = rec
        /\ \A k \in Jobs : k # j => submission'[k] = submission[k]
    BY <1>a, <1>3, <1>4, Replaced
  <1>6. /\ overlooked' \subseteq Jobs \X Jobs /\ overlooked \subseteq overlooked'
        /\ \A k \in Jobs : k # j /\ Unseen(k) => <<j, k>> \in overlooked'
    BY <1>a, <1>2 DEF TypeOK
  <1>7. LockInv'
    BY <1>a, <1>2, <1>3, <1>5 DEF LockInv, Nobody
  <1>8. flock' \subseteq Jobs /\ Cardinality(flock') <= 1
    BY <1>2, FS_Singleton
  <1>9. TypeOK'
    BY <1>a, <1>2, <1>5, <1>6, <1>8 DEF TypeOK, SubmissionType, SubmissionRecord
  <1>10. EarlyInv'
    BY <1>a, <1>2, <1>3, <1>5 DEF EarlyInv
  <1>11. CountInv'
    BY <1>a, <1>2, <1>3, <1>5 DEF CountInv, EarlyInv
  <1>12. \A k \in Jobs : Gone(k) => Gone(k)'
    BY <1>2, <1>5 DEF Gone
  <1>13. SeenInv'
    <2> SUFFICES ASSUME NEW i \in Jobs, NEW k \in Jobs, i # k, submission'[i].pc = "render"
                 PROVE  \/ ports[k] \subseteq submission'[i].allocated
                        \/ <<i, k>> \in overlooked' \/ Gone(k)
      BY <1>2, <1>12 DEF SeenInv
    <2>1. i = j
      BY <1>a, <1>2, <1>5 DEF LockInv, Nobody
    <2>2. CASE Holding(k)
      BY <1>1, <1>3, <1>5, <2>1, <2>2
    <2>3. CASE Unseen(k)
      BY <1>6, <2>1, <2>3
    <2>4. CASE ~Holding(k) /\ ~Unseen(k)
      <3>1. submission[k].pc \in {"new", "created", "done"} /\ scheduled[k] # "live"
        BY <1>a, <2>4 DEF Holding, Unseen, SubmissionType, SubmissionRecord, SubmissionPcs
      <3> QED
        BY <1>a, <3>1 DEF EarlyInv, Gone
    <2> QED
      BY <2>2, <2>3, <2>4
  <1>14. ApartInv'
    BY <1>a, <1>2, <1>6, <1>12 DEF ApartInv
  <1> QED
    BY <1>7, <1>9, <1>10, <1>11, <1>13, <1>14 DEF PortInv

\* A value nobody it knows of has: the new row is apart from the others'.
LEMMA TakeInv ==
  ASSUME PortAssumption, PortInv, NEW j \in Jobs, Take(j)
  PROVE  PortInv'
  <1>a. TypeOK /\ LockInv /\ EarlyInv /\ CountInv /\ SeenInv /\ ApartInv
        /\ submission \in SubmissionType
    BY DEF PortInv, TypeOK, SubmissionType, SubmissionRecord
  <1>1. PICK v \in Ports \ submission[j].allocated :
           /\ ports' = [ports EXCEPT ![j] = @ \cup {v}]
           /\ submission' = [submission EXCEPT ![j].allocated = submission[j].allocated \cup {v}]
    BY DEF Take, Appended
  <1>2. /\ submission[j].pc = "render" /\ taken[j] < submission[j].wanted
        /\ taken' = [taken EXCEPT ![j] = @ + 1]
        /\ UNCHANGED <<jobState, scheduled, flock, requeues, overlooked, restarted>>
    BY DEF Take
  <1> DEFINE more == submission[j].allocated \cup {v}
             rec == [submission[j] EXCEPT !.allocated = more]
  <1>3. /\ rec \in SubmissionRecord /\ rec.pc = "render" /\ rec.allocated = more
    BY <1>a, <1>2 DEF SubmissionType, SubmissionRecord
  <1>4. submission' = [submission EXCEPT ![j] = rec]
    BY <1>1
  <1> HIDE DEF rec
  <1>5. /\ submission' \in SubmissionType /\ submission'[j] = rec
        /\ \A k \in Jobs : k # j => submission'[k] = submission[k]
    BY <1>a, <1>3, <1>4, Replaced
  <1>6. /\ ports' \in [Jobs -> SUBSET Ports] /\ ports'[j] = ports[j] \cup {v}
        /\ \A k \in Jobs : k # j => ports'[k] = ports[k]
    BY <1>a, <1>1 DEF TypeOK
  <1>7. /\ taken' \in [Jobs -> 0 .. MaxWanted] /\ taken'[j] = taken[j] + 1
        /\ \A k \in Jobs : k # j => taken'[k] = taken[k]
    <2>1. taken[j] \in 0 .. MaxWanted /\ submission[j].wanted \in 0 .. MaxWanted
          /\ MaxWanted \in Nat
      BY <1>a DEF TypeOK, SubmissionType, SubmissionRecord, PortAssumption
    <2>2. taken[j] + 1 \in 0 .. MaxWanted
      BY <1>2, <2>1
    <2> QED
      BY <1>a, <1>2, <2>2 DEF TypeOK
  <1>8. TypeOK'
    BY <1>a, <1>2, <1>5, <1>6, <1>7 DEF TypeOK, SubmissionType, SubmissionRecord
  <1>9. LockInv' /\ EarlyInv'
    BY <1>a, <1>2, <1>3, <1>5, <1>6, <1>7 DEF LockInv, EarlyInv
  <1>10. v \notin ports[j]
    BY <1>a, <1>2 DEF CountInv
  <1>11. CountInv'
    <2>1. IsFiniteSet(ports'[j]) /\ Cardinality(ports'[j]) = taken'[j]
      <3>1. IsFiniteSet(ports[j]) /\ Cardinality(ports[j]) = taken[j]
        BY <1>a DEF CountInv
      <3>2. /\ IsFiniteSet(ports[j] \cup {v})
            /\ Cardinality(ports[j] \cup {v}) = Cardinality(ports[j]) + 1
        BY <1>10, <3>1, FS_AddElement
      <3> QED
        BY <1>6, <1>7, <3>1, <3>2
    <2>2. ports'[j] \subseteq submission'[j].allocated
      BY <1>a, <1>2, <1>3, <1>5, <1>6 DEF CountInv
    <2> QED
      BY <1>a, <1>5, <1>6, <1>7, <2>1, <2>2 DEF CountInv
  <1>12. \A k \in Jobs : Gone(k) => Gone(k)'
    BY <1>2, <1>3, <1>5 DEF Gone
  \* Only j renders.
  <1>13. \A k \in Jobs : submission'[k].pc = "render" => k = j
    BY <1>a, <1>2, <1>3, <1>5 DEF LockInv, Nobody
  <1>14. SeenInv'
    BY <1>a, <1>2, <1>3, <1>5, <1>6, <1>12, <1>13 DEF SeenInv
  <1>15. ASSUME NEW k \in Jobs, k # j
         PROVE  \/ ports'[j] \cap ports[k] = {} \/ <<j, k>> \in overlooked
                \/ <<k, j>> \in overlooked \/ Gone(j) \/ Gone(k)
    <2>1. v \notin ports[k] \/ <<j, k>> \in overlooked \/ Gone(k)
      BY <1>a, <1>2, <1>15 DEF SeenInv
    <2> QED
      BY <1>a, <1>6, <1>15, <2>1 DEF ApartInv
  <1>16. ApartInv'
    <2> SUFFICES ASSUME NEW i \in Jobs, NEW k \in Jobs, i # k
                 PROVE  \/ ports'[i] \cap ports'[k] = {}
                        \/ <<i, k>> \in overlooked \/ <<k, i>> \in overlooked
                        \/ Gone(i) \/ Gone(k)
      BY <1>2, <1>12 DEF ApartInv
    <2> QED
      BY <1>a, <1>6, <1>15 DEF ApartInv
  <1> QED
    BY <1>8, <1>9, <1>11, <1>14, <1>16 DEF PortInv

\* The handler leaves the lock.
LEMMA LeaveInv ==
  ASSUME PortAssumption, PortInv, NEW j \in Jobs, RenderFails(j) \/ Rendered(j)
  PROVE  PortInv'
  <1>a. TypeOK /\ LockInv /\ EarlyInv /\ submission \in SubmissionType
    BY DEF PortInv, TypeOK, SubmissionType, SubmissionRecord
  <1>1. PICK pc \in {"rendered", "done"} : Goto(j, pc)
    BY DEF RenderFails, Rendered
  <1>2. /\ submission[j].pc = "render" /\ flock' = Nobody
        /\ UNCHANGED <<jobState, scheduled, ports, taken, requeues, overlooked, restarted>>
    BY DEF RenderFails, Rendered
  <1>3. /\ submission' \in SubmissionType /\ submission'[j].pc = pc
        /\ \A k \in Jobs : k # j => submission'[k] = submission[k]
        /\ \A k \in Jobs : submission'[k].allocated = submission[k].allocated
    BY <1>a, <1>1, GotoFacts
  <1>4. flock = {j}
    BY <1>a, <1>2 DEF LockInv, Nobody
  <1>5. LockInv'
    BY <1>a, <1>2, <1>3, <1>4 DEF LockInv, Nobody
  <1>6. TypeOK'
    BY <1>a, <1>2, <1>3, FS_EmptySet DEF TypeOK, SubmissionType, SubmissionRecord, Nobody
  <1>7. EarlyInv'
    BY <1>a, <1>2, <1>3 DEF EarlyInv
  <1>8. Onward
    BY <1>2, <1>3 DEF Onward, Gone
  <1> QED
    BY <1>5, <1>6, <1>7, <1>8, OnwardKeeps DEF PortInv

\* After the lock: the scheduler has the job, and the row gets its state.
LEMMA SaveInv ==
  ASSUME PortAssumption, PortInv, NEW j \in Jobs,
         SubmitToScheduler(j) \/ FinalSave(j) \/ FinalSaveFails(j)
  PROVE  PortInv'
  <1>a. TypeOK /\ LockInv /\ EarlyInv /\ submission \in SubmissionType
    BY DEF PortInv, TypeOK, SubmissionType, SubmissionRecord
  <1>1. PICK pc \in {"submitted", "done"} : Goto(j, pc)
    BY DEF SubmitToScheduler, FinalSave, FinalSaveFails
  <1>2. /\ submission[j].pc \in {"rendered", "submitted"}
        /\ UNCHANGED <<ports, taken, flock, requeues, overlooked, restarted>>
    BY DEF SubmitToScheduler, FinalSave, FinalSaveFails
  <1>3. /\ submission' \in SubmissionType /\ submission'[j].pc = pc
        /\ \A k \in Jobs : k # j => submission'[k] = submission[k]
        /\ \A k \in Jobs : submission'[k].allocated = submission[k].allocated
    BY <1>a, <1>1, GotoFacts
  <1>4. /\ scheduled' \in [Jobs -> {"none", "live", "over"}]
        /\ \A k \in Jobs : k # j => scheduled'[k] = scheduled[k]
    BY <1>a DEF SubmitToScheduler, FinalSave, FinalSaveFails, TypeOK
  <1>5. jobState' \in [Jobs -> JobStateValues \cup {NoState}]
    BY <1>a, StateValues DEF SubmitToScheduler, FinalSave, FinalSaveFails, TypeOK
  <1>6. TypeOK'
    BY <1>a, <1>2, <1>3, <1>4, <1>5 DEF TypeOK, SubmissionType, SubmissionRecord
  <1>7. LockInv' /\ EarlyInv'
    BY <1>a, <1>2, <1>3, <1>4 DEF LockInv, EarlyInv
  <1>8. Onward
    BY <1>2, <1>3, <1>4 DEF Onward, Gone
  <1> QED
    BY <1>6, <1>7, <1>8, OnwardKeeps DEF PortInv

\* The scheduler and the sync process.
LEMMA OtherInv ==
  ASSUME PortAssumption, PortInv, NEW j \in Jobs,
         SyncUpdate(j) \/ JobEnds(j) \/ JobRequeued(j)
  PROVE  PortInv'
  <1>a. TypeOK /\ LockInv /\ EarlyInv /\ submission \in SubmissionType
    BY DEF PortInv, TypeOK, SubmissionType, SubmissionRecord
  <1>1. UNCHANGED <<ports, taken, submission, flock, overlooked>>
    BY DEF SyncUpdate, JobEnds, JobRequeued
  <1>2. /\ scheduled' \in [Jobs -> {"none", "live", "over"}]
        /\ \A k \in Jobs : scheduled[k] = "none" => scheduled'[k] = "none"
        /\ \A k \in Jobs : scheduled'[k] = "live" => scheduled[k] = "live" \/ k \in restarted'
        /\ restarted \subseteq restarted' /\ restarted' \subseteq Jobs
    BY <1>a DEF SyncUpdate, JobEnds, JobRequeued, TypeOK
  <1>3. jobState' \in [Jobs -> JobStateValues \cup {NoState}]
    BY <1>a, StateValues DEF SyncUpdate, JobEnds, JobRequeued, TypeOK
  <1>4. requeues' \in 0 .. MaxRequeues
    BY <1>a DEF SyncUpdate, JobEnds, JobRequeued, TypeOK, PortAssumption
  <1>5. TypeOK'
    BY <1>a, <1>1, <1>2, <1>3, <1>4 DEF TypeOK
  <1>6. LockInv' /\ EarlyInv'
    BY <1>a, <1>1, <1>2 DEF LockInv, EarlyInv
  <1>7. Onward
    BY <1>1, <1>2 DEF Onward, Gone
  <1> QED
    BY <1>5, <1>6, <1>7, OnwardKeeps DEF PortInv

LEMMA StepInv == PortAssumption /\ PortInv /\ [Next]_portVars => PortInv'
  <1>1. PortInv /\ UNCHANGED portVars => PortInv'
    BY DEF PortInv, TypeOK, LockInv, EarlyInv, CountInv, SeenInv, ApartInv, Gone, portVars
  <1> QED
    BY <1>1, CreateInv, LookInv, TakeInv, LeaveInv, SaveInv, OtherInv DEF Next

-----------------------------------------------------------------------------
(* The properties.                                                         *)

LEMMA InvApart == PortInv => PortsApart
  BY DEF PortInv, CountInv, ApartInv, Gone, PortsApart

\* Every variable has its type, and the lock at most one holder.
THEOREM TypeCorrect ==
  ASSUME PortAssumption
  PROVE  Spec => []TypeOK
  <1>1. PortInv => TypeOK
    BY DEF PortInv
  <1> QED
    BY <1>1, InitInv, StepInv, PTL DEF Spec

\* The ports of one job are as many as it asked for, and no two jobs that run
\* share one, but for those that were overlooked between the lock and the first
\* state of their row, or run again after they were over (csres_render.py:54).
THEOREM PortsAreApart ==
  ASSUME PortAssumption
  PROVE  Spec => []PortsApart
  BY InvApart, InitInv, StepInv, PTL DEF Spec
===============================================================================
