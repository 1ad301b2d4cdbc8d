---------------------------- MODULE Resources_proofs --------------------------
(***************************************************************************)
(* Proofs about the services of MCResources, each for any instance of its  *)
(* constants.  What ImageBuild_proofs, PortAllocation_proofs and           *)
(* Cloudtools_proofs prove of a service is carried over to the behaviours  *)
(* of MCResources, of which each is one of one service; what is said of    *)
(* StorageBilling is proved here, after the lemmas on sums it needs.       *)
(***************************************************************************)
EXTENDS MCResources, Billing_proofs, FiniteSetTheorems, WellFoundedInduction, TLAPS

-----------------------------------------------------------------------------
(* Sums over a finite set.  The induction is the search for a smallest set *)
(* for which a fact would fail.                                            *)

Pick(s) == CHOOSE x \in s : TRUE
SumStep(f, g, s) == IF s = {} THEN 0 ELSE f[Pick(s)] + g[s \ {Pick(s)}]
\* What FoldFunction adds up, for every set of indices.
Sums(S, f) == CHOOSE g : g = [s \in SUBSET S |-> SumStep(f, g, s)]

LEMMA FoldIsSums ==
  ASSUME NEW S, NEW f, DOMAIN f = S
  PROVE  Storage!FoldFunction(LAMBDA x, y : x + y, 0, f) = Sums(S, f)[S]
  BY DEF Storage!FoldFunction, Storage!FoldFunctionOnSet, Storage!MapThenFoldSet, Sums, SumStep, Pick

LEMMA PickIn == ASSUME NEW s, s # {} PROVE Pick(s) \in s
  BY DEF Pick

\* Among sets of subsets of a finite set there is always a smallest.
LEMMA SmallestSet ==
  ASSUME NEW S, IsFiniteSet(S), NEW T, T \subseteq SUBSET S, T # {}
  PROVE  \E s \in T : \A t \in T : t \subseteq s => t = s
  <1>1. IsWellFoundedOn(StrictSubsetOrdering(S), SUBSET S)
    BY FS_StrictSubsetOrderingWellFounded, FS_FiniteSubsetsOfFinite
  <1>2. PICK s \in T : \A t \in T : ~ (<<t, s>> \in StrictSubsetOrdering(S))
    BY <1>1, WFMin
  <1>3. ASSUME NEW t \in T, t \subseteq s PROVE t = s
    BY <1>2, <1>3 DEF StrictSubsetOrdering
  <1> QED
    BY <1>3

LEMMA SmallestNumber ==
  ASSUME NEW T, T \subseteq Nat, T # {}
  PROVE  \E n \in T : \A m \in T : ~ (m < n)
  <1>1. PICK n \in T : \A m \in T : ~ (<<m, n>> \in OpToRel(<, Nat))
    BY NatLessThanWellFounded, WFMin
  <1> QED
    BY <1>1 DEF OpToRel

\* The function the fold chooses exists.
LEMMA SumsDefined ==
  ASSUME NEW S, IsFiniteSet(S), NEW f
  PROVE  \A s \in SUBSET S : Sums(S, f)[s] = SumStep(f, Sums(S, f), s)
  <1> DEFINE Upto(g, n) == /\ DOMAIN g = SUBSET S
                           /\ g = [s \in SUBSET S |-> g[s]]
                           /\ \A s \in SUBSET S : Cardinality(s) <= n => g[s] = SumStep(f, g, s)
             Bad == {n \in Nat : ~ \E g : Upto(g, n)}
  <1>0. \A s \in SUBSET S : IsFiniteSet(s) /\ Cardinality(s) \in Nat /\ Cardinality(s) <= Cardinality(S)
    BY FS_Subset, FS_CardinalityType
  <1>1. Bad = {}
    <2> SUFFICES ASSUME Bad # {} PROVE FALSE
      OBVIOUS
    <2>1. PICK n \in Bad : \A m \in Bad : ~ (m < n)
      BY SmallestNumber
    <2>2. CASE n = 0
      <3> DEFINE z == [s \in SUBSET S |-> 0]
      <3>1. \A s \in SUBSET S : Cardinality(s) <= 0 => s = {}
        BY <1>0, FS_EmptySet
      <3>2. Upto(z, 0)
        BY <3>1 DEF SumStep
      <3> QED
        BY <2>1, <2>2, <3>2
    <2>3. CASE n # 0
      <3>a. n \in Nat
        OBVIOUS
      <3>b. n - 1 \in Nat /\ n - 1 < n
        BY <3>a, <2>3
      <3>1. n \in Nat /\ n - 1 \in Nat /\ n - 1 \notin Bad
        BY <2>1, <3>a, <3>b
      <3>2. PICK g : Upto(g, n - 1)
        BY <3>1
      <3> DEFINE h == [s \in SUBSET S |-> IF Cardinality(s) <= n - 1 THEN g[s] ELSE SumStep(f, g, s)]
      <3>3. ASSUME NEW s \in SUBSET S, Cardinality(s) <= n PROVE h[s] = SumStep(f, h, s)
        <4>1. h[s] = SumStep(f, g, s)
          BY <3>2
        <4>2. CASE s = {}
          BY <4>1, <4>2 DEF SumStep
        <4>3. CASE s # {}
          <5>1. Pick(s) \in s
            BY <4>3, PickIn
          <5>2. Cardinality(s \ {Pick(s)}) = Cardinality(s) - 1
            BY <5>1, <1>0, FS_RemoveElement
          <5>3. h[s \ {Pick(s)}] = g[s \ {Pick(s)}]
            BY <5>2, <1>0, <3>1, <3>3
          <5> QED
            BY <4>1, <4>3, <5>3 DEF SumStep
        <4> QED
          BY <4>2, <4>3
      <3>4. Upto(h, n)
        BY <3>3
      <3> QED
        BY <2>1, <3>4
    <2> QED
      BY <2>2, <2>3
  <1>2. PICK g : Upto(g, Cardinality(S))
    BY <1>1, FS_CardinalityType
  <1>3. g = [s \in SUBSET S |-> SumStep(f, g, s)]
    <2>1. \A s \in SUBSET S : g[s] = SumStep(f, g, s)
      BY <1>0, <1>2
    <2> QED
      BY <2>1, <1>2
  <1>4. Sums(S, f) = [s \in SUBSET S |-> SumStep(f, Sums(S, f), s)]
    BY <1>3 DEF Sums
  <1> HIDE DEF Upto, Bad
  <1> DEFINE z == Sums(S, f)
  <1>5. z = [s \in SUBSET S |-> SumStep(f, z, s)]
    BY <1>4, Zenon
  <1> HIDE DEF z
  <1>6. \A s \in SUBSET S : z[s] = SumStep(f, z, s)
    BY <1>5
  <1> QED
    BY <1>6 DEF z

LEMMA EmptySum ==
  ASSUME NEW S, IsFiniteSet(S), NEW f
  PROVE  Sums(S, f)[{}] = 0
  <1>1. Sums(S, f)[{}] = SumStep(f, Sums(S, f), {})
    BY SumsDefined
  <1> QED
    BY <1>1 DEF SumStep

LEMMA SumsAt ==
  ASSUME NEW S, IsFiniteSet(S), NEW f, NEW s \in SUBSET S, s # {}
  PROVE  Pick(s) \in s /\ Sums(S, f)[s] = f[Pick(s)] + Sums(S, f)[s \ {Pick(s)}]
  <1>1. Sums(S, f)[s] = SumStep(f, Sums(S, f), s)
    BY SumsDefined
  <1> QED
    BY <1>1, PickIn DEF SumStep

\* A sum of naturals is one, and what is added to a term is added to the sum.
LEMMA SumAdded ==
  ASSUME NEW S, IsFiniteSet(S), NEW f \in [S -> Nat], NEW u \in S, NEW k \in Nat,
         NEW h \in [S -> Nat], h[u] = f[u] + k, \A x \in S \ {u} : h[x] = f[x]
  PROVE  Sums(S, f)[S] \in Nat /\ Sums(S, h)[S] = Sums(S, f)[S] + k
  <1> DEFINE Right(s) == /\ Sums(S, f)[s] \in Nat
                         /\ Sums(S, h)[s] = Sums(S, f)[s] + (IF u \in s THEN k ELSE 0)
             Bad == {s \in SUBSET S : ~ Right(s)}
  <1>1. ASSUME Bad # {} PROVE FALSE
    <2>0. Bad \subseteq SUBSET S
      OBVIOUS
    <2> HIDE DEF Bad
    <2>1. PICK s \in Bad : \A t \in Bad : t \subseteq s => t = s
      BY <1>1, <2>0, SmallestSet
    <2>a. s \in SUBSET S
      BY <2>0
    <2> USE DEF Bad
    <2>b. Sums(S, f)[{}] = 0 /\ Sums(S, h)[{}] = 0
      BY EmptySum
    <2>2. CASE s = {}
      BY <2>1, <2>2, <2>b
    <2>3. CASE s # {}
      <3> DEFINE p == Pick(s)
                 t == s \ {p}
      <3>c. p \in s
        BY <2>3, PickIn
      <3>a. p \in s /\ Sums(S, f)[s] = f[p] + Sums(S, f)[t]
        BY <2>3, <2>a, <3>c, SumsAt
      <3> HIDE DEF Bad
      <3>b. Sums(S, h)[s] = h[p] + Sums(S, h)[t]
        BY <2>3, <2>a, SumsAt
      <3> USE DEF Bad
      <3>1. /\ p \in s
            /\ Sums(S, f)[s] = f[p] + Sums(S, f)[t]
            /\ Sums(S, h)[s] = h[p] + Sums(S, h)[t]
        BY <3>a, <3>b
      <3>2. Right(t)
        BY <2>1, <3>1
      <3>3. Right(s)
        BY <3>1, <3>2
      <3> QED
        BY <2>1, <3>3
    <2> QED
      BY <2>2, <2>3
  <1> QED
    BY <1>1

LEMMA SumIsNat ==
  ASSUME NEW S, IsFiniteSet(S), NEW f \in [S -> Nat]
  PROVE  Sums(S, f)[S] \in Nat
  <1>1. CASE S = {}
    BY <1>1, EmptySum
  <1>2. CASE S # {}
    <2>1. PICK u \in S : TRUE
      BY <1>2
    <2>2. f[u] \in Nat /\ 0 \in Nat
      OBVIOUS
    <2>3. f[u] = f[u] + 0 /\ \A x \in S \ {u} : f[x] = f[x]
      BY <2>2
    <2> QED
      BY <2>2, <2>3, SumAdded
  <1> QED
    BY <1>1, <1>2

\* A sum of zeros is zero.
LEMMA SumOfZeros ==
  ASSUME NEW S, IsFiniteSet(S), NEW f, f = [x \in S |-> 0]
  PROVE  Sums(S, f)[S] = 0
  <1> DEFINE Bad == {s \in SUBSET S : Sums(S, f)[s] # 0}
  <1>1. ASSUME Bad # {} PROVE FALSE
    <2>0. Bad \subseteq SUBSET S
      OBVIOUS
    <2> HIDE DEF Bad
    <2>1. PICK s \in Bad : \A t \in Bad : t \subseteq s => t = s
      BY <1>1, <2>0, SmallestSet
    <2>a. s \in SUBSET S
      BY <2>0
    <2> USE DEF Bad
    <2>2. s # {}
      BY <2>1, EmptySum
    <2>3. Pick(s) \in s /\ Sums(S, f)[s] = f[Pick(s)] + Sums(S, f)[s \ {Pick(s)}]
      BY <2>1, <2>2, <2>a, SumsAt
    <2>4. s \ {Pick(s)} \notin Bad
      BY <2>1, <2>3
    <2> QED
      BY <2>1, <2>3, <2>4
  <1> QED
    BY <1>1

-----------------------------------------------------------------------------
(* Storage: a user is charged once.  A run that is alone knows the records *)
(* of all users it has still to take, but for those it has made itself.    *)

NightRecords == [pc : {"idle", "begun", "users", "paths"}, todo : SUBSET Payers,
                 known : SUBSET Payers, user : SUBSET Payers, left : 0 .. MaxPaths,
                 booked : 0 .. MaxPaths, credit : Int]

\* What a run has booked and has left are paths of one reading of the policies.
PathsBound == \A n \in Nights : night[n].left + night[n].booked <= MaxPaths

StatementsBound == \A u \in Payers : statements[u] <= MaxPaths * records[u]

NightAlone ==
  /\ \A m, n \in Nights : m # n => night[m].pc = "idle" \/ night[n].pc = "idle"
  /\ \A n \in Nights, u \in Payers :
       /\ night[n].pc \in {"users", "paths"} /\ u \in night[n].todo \ night[n].known => records[u] = 0
       /\ night[n].pc = "paths" /\ u \in night[n].user => records[u] = 0 /\ u \notin night[n].todo
  /\ \A u \in Payers : records[u] <= 1

StorageInv ==
  /\ Storage!TypeOK
  /\ PathsBound /\ StatementsBound
  /\ ~overlapped => NightAlone

LEMMA StorageBounds == MaxPaths \in Nat /\ MaxChanges \in Nat /\ MaxNights \in Nat
  BY ResourcesAssumption DEF Storage!StorageAssumption

LEMMA StorageInit == Storage!Init => StorageInv
  <1> SUFFICES ASSUME Storage!Init PROVE StorageInv
    OBVIOUS
  <1> USE StorageBounds DEF Storage!Init
  <1>1. Storage!NightIdle \in NightRecords
    BY DEF Storage!NightIdle, NightRecords
  <1>2. overlapped \in BOOLEAN
    BY Zenon
  <1>3. Storage!TypeOK
    BY <1>1, <1>2 DEF Storage!TypeOK, NightRecords
  <1> QED
    BY <1>3 DEF StorageInv, PathsBound, StatementsBound, NightAlone, Storage!NightIdle

\* A step of one run, by what it makes of its entry.
LEMMA NightEntry ==
  ASSUME Storage!TypeOK, NEW n \in Nights, NEW e \in NightRecords, night' = [night EXCEPT ![n] = e]
  PROVE  /\ night' \in [Nights -> NightRecords]
         /\ night'[n] = e
         /\ \A m \in Nights \ {n} : night'[m] = night[m]
  BY DEF Storage!TypeOK, NightRecords

LEMMA NightStepInv ==
  ASSUME StorageInv, NEW n \in Nights,
         \/ Storage!NightBegin(n) \/ Storage!NightKnown(n) \/ Storage!NightPath(n)
         \/ Storage!NightCommit(n) \/ Storage!NightEnds(n) \/ Storage!NightFails(n)
         \/ \E u \in Payers : Storage!NightSkips(n, u) \/ Storage!NightTakes(n, u)
  PROVE  StorageInv'
  <1> USE StorageBounds DEF Storage!NightStep
  <1>a. /\ night \in [Nights -> NightRecords] /\ night[n] \in NightRecords
        /\ members \subseteq Payers /\ paths \in 0 .. MaxPaths /\ credit \in Int
        /\ statements \in [Payers -> Nat] /\ records \in [Payers -> Nat]
        /\ rowLock \subseteq Nights /\ \A k, m \in rowLock : k = m
        /\ nights \in 0 .. MaxNights /\ changes \in 0 .. MaxChanges
        /\ jobsBilled \in Nat /\ overlapped \in BOOLEAN
    BY DEF StorageInv, Storage!TypeOK, NightRecords
  <1>b. Storage!NightIdle \in NightRecords /\ Storage!NightIdle.pc = "idle"
        /\ Storage!NightIdle.left + Storage!NightIdle.booked <= MaxPaths
    BY DEF Storage!NightIdle, NightRecords
  <1>c. ASSUME NEW e \in NightRecords, night' = [night EXCEPT ![n] = e],
               e.left + e.booked <= MaxPaths,
               UNCHANGED <<members, paths, changes, jobsBilled>>, credit' \in Int,
               statements' \in [Payers -> Nat], records' \in [Payers -> Nat],
               rowLock' \subseteq Nights, \A k, m \in rowLock' : k = m,
               nights' \in 0 .. MaxNights, overlapped' \in BOOLEAN,
               StatementsBound', ~overlapped' => NightAlone'
        PROVE  StorageInv'
    <2>1. Storage!TypeOK'
      BY <1>a, <1>c, NightEntry DEF StorageInv, Storage!TypeOK, NightRecords
    <2>2. PathsBound'
      BY <1>c, NightEntry DEF StorageInv, PathsBound
    <2> QED
      BY <1>c, <2>1, <2>2 DEF StorageInv
  <1>d. UNCHANGED <<statements, records>> => StatementsBound'
    BY DEF StorageInv, StatementsBound
  <1>e. ASSUME NEW e \in NightRecords, night' = [night EXCEPT ![n] = e], UNCHANGED records,
               night[n].pc # "idle" \/ \A m \in Nights : night[m].pc = "idle", NightAlone,
               \A u \in Payers :
                 /\ e.pc \in {"users", "paths"} /\ u \in e.todo \ e.known => records[u] = 0
                 /\ e.pc = "paths" /\ u \in e.user => records[u] = 0 /\ u \notin e.todo
        PROVE  NightAlone'
    BY <1>e, NightEntry DEF StorageInv, NightAlone
  <1>1. CASE Storage!NightBegin(n)
    <2> DEFINE e == [Storage!NightIdle EXCEPT !.pc = "begun", !.todo = Payers]
    <2>1. e \in NightRecords /\ e.pc = "begun" /\ e.left + e.booked <= MaxPaths
      BY <1>b DEF NightRecords
    <2>2. night' = [night EXCEPT ![n] = e] /\ nights' \in 0 .. MaxNights
          /\ UNCHANGED <<members, paths, changes, jobsBilled, credit, statements, records, rowLock>>
      BY <1>1, <1>a DEF Storage!NightBegin
    <2>3. overlapped' \in BOOLEAN
      BY <1>1, Zenon DEF Storage!NightBegin
    <2>4. ~overlapped' => ~overlapped /\ \A m \in Nights : night[m].pc = "idle"
      BY <1>1, Zenon DEF Storage!NightBegin
    <2> HIDE DEF e
    <2>5. ~overlapped' => NightAlone'
      BY <1>e, <2>1, <2>2, <2>4 DEF StorageInv
    <2> QED
      BY <1>a, <1>c, <1>d, <2>1, <2>2, <2>3, <2>5
  <1>2. CASE Storage!NightKnown(n)
    <2> DEFINE e == [night[n] EXCEPT !.pc = "users", !.known = Storage!Recorded]
    <2>1. e \in NightRecords /\ e.pc = "users" /\ e.left + e.booked <= MaxPaths
          /\ e.known = Storage!Recorded
      BY <1>a DEF NightRecords, Storage!Recorded, StorageInv, PathsBound
    <2>2. /\ night' = [night EXCEPT ![n] = e] /\ night[n].pc = "begun"
          /\ UNCHANGED <<members, paths, changes, jobsBilled, credit, statements, records, rowLock,
                        nights, overlapped>>
      BY <1>2, <1>a DEF Storage!NightKnown
    <2> HIDE DEF e
    <2>3. \A u \in Payers : u \notin e.known => records[u] = 0
      BY <1>a, <2>1 DEF Storage!Recorded
    <2>4. ~overlapped => NightAlone'
      BY <1>e, <2>1, <2>2, <2>3 DEF StorageInv
    <2> QED
      BY <1>a, <1>c, <1>d, <2>1, <2>2, <2>4
  <1>3. CASE Storage!NightPath(n)
    <2> DEFINE e == [night[n] EXCEPT !.left = @ - 1, !.booked = @ + 1,
                                     !.credit = IF night[n].booked = 0 THEN credit - 1 ELSE @ - 1]
    <2>1. /\ e \in NightRecords /\ e.left + e.booked <= MaxPaths
          /\ e.pc = night[n].pc /\ e.todo = night[n].todo /\ e.known = night[n].known
          /\ e.user = night[n].user
      BY <1>3, <1>a DEF NightRecords, StorageInv, PathsBound, Storage!NightPath
    <2>2. /\ night' = [night EXCEPT ![n] = e] /\ night[n].pc = "paths" /\ rowLock' = {n}
          /\ UNCHANGED <<members, paths, changes, jobsBilled, credit, statements, records,
                        nights, overlapped>>
      BY <1>3, <1>a DEF Storage!NightPath
    <2> HIDE DEF e
    <2>3. ~overlapped => NightAlone'
      BY <1>a, <1>e, <2>1, <2>2 DEF StorageInv, NightAlone
    <2> QED
      BY <1>a, <1>c, <1>d, <2>1, <2>2, <2>3
  <1>4. CASE Storage!NightCommit(n)
    <2> DEFINE e == [night[n] EXCEPT !.pc = "users", !.user = {}]
    <2>1. /\ e \in NightRecords /\ e.left + e.booked <= MaxPaths /\ e.pc = "users"
          /\ e.todo = night[n].todo /\ e.known = night[n].known
      BY <1>a DEF NightRecords, StorageInv, PathsBound
    <2>2. /\ night' = [night EXCEPT ![n] = e] /\ night[n].pc = "paths" /\ rowLock' = rowLock \ {n}
          /\ UNCHANGED <<members, paths, changes, jobsBilled, nights, overlapped>>
          /\ credit' = night[n].credit
      BY <1>4, <1>a DEF Storage!NightCommit, Storage!Leave
    <2>3. /\ statements' \in [Payers -> Nat] /\ records' \in [Payers -> Nat]
          /\ \A u \in Payers \ night[n].user : statements'[u] = statements[u] /\ records'[u] = records[u]
          /\ \A u \in night[n].user : /\ statements'[u] = statements[u] + night[n].booked
                                      /\ records'[u] = records[u] + 1
      BY <1>4, <1>a DEF Storage!NightCommit, NightRecords
    <2> HIDE DEF e
    <2>4. StatementsBound'
      <3> SUFFICES ASSUME NEW u \in Payers PROVE statements'[u] <= MaxPaths * records'[u]
        BY DEF StatementsBound
      <3>1. statements[u] <= MaxPaths * records[u] /\ statements[u] \in Nat /\ records[u] \in Nat
        BY <1>a DEF StorageInv, StatementsBound
      <3>2. night[n].booked \in Nat /\ night[n].booked <= MaxPaths
        BY <1>a DEF NightRecords
      <3>3. MaxPaths * (records[u] + 1) = MaxPaths * records[u] + MaxPaths
        BY <3>1
      <3>4. MaxPaths * records[u] \in Nat
        BY <3>1
      <3> QED
        BY <2>3, <3>1, <3>2, <3>3, <3>4
    <2>5. ASSUME ~overlapped PROVE NightAlone'
      <3>1. /\ \A m \in Nights \ {n} : night[m].pc = "idle" /\ night'[m].pc = "idle"
            /\ \A u \in Payers : /\ u \in night[n].todo \ night[n].known => records[u] = 0
                                 /\ u \in night[n].user => records[u] = 0 /\ u \notin night[n].todo
                                 /\ records[u] <= 1
        BY <2>1, <2>2, <2>5, NightEntry DEF StorageInv, NightAlone
      <3>2. night'[n] = e
        BY <2>1, <2>2, NightEntry DEF StorageInv
      <3>3. \A u \in Payers : records'[u] <= 1
        BY <1>a, <2>3, <3>1
      <3>4. \A u \in Payers : u \in night[n].todo \ night[n].known => records'[u] = 0
        BY <1>a, <2>3, <3>1
      <3> QED
        BY <2>1, <3>1, <3>2, <3>3, <3>4 DEF NightAlone
    <2>6. credit' \in Int
      BY <1>a, <2>2 DEF NightRecords
    <2> QED
      BY <1>a, <1>c, <2>1, <2>2, <2>3, <2>4, <2>5, <2>6
  <1>5. CASE Storage!NightEnds(n) \/ Storage!NightFails(n)
    <2>1. /\ night' = [night EXCEPT ![n] = Storage!NightIdle] /\ night[n].pc # "idle"
          /\ rowLock' \subseteq rowLock
          /\ UNCHANGED <<members, paths, changes, jobsBilled, credit, statements, records,
                        nights, overlapped>>
      BY <1>5, <1>a DEF Storage!NightEnds, Storage!NightFails, Storage!Leave
    <2>2. ~overlapped => NightAlone'
      BY <1>b, <1>e, <2>1 DEF StorageInv
    <2> QED
      BY <1>a, <1>b, <1>c, <1>d, <2>1, <2>2
  <1>6. ASSUME NEW u \in Payers, Storage!NightSkips(n, u) PROVE StorageInv'
    <2> DEFINE e == [night[n] EXCEPT !.todo = @ \ {u}]
    <2>1. /\ e \in NightRecords /\ e.left + e.booked <= MaxPaths /\ e.pc = night[n].pc
          /\ e.todo \subseteq night[n].todo /\ e.known = night[n].known /\ e.user = night[n].user
      BY <1>a DEF NightRecords, StorageInv, PathsBound
    <2>2. /\ night' = [night EXCEPT ![n] = e] /\ night[n].pc = "users"
          /\ UNCHANGED <<members, paths, changes, jobsBilled, credit, statements, records, rowLock,
                        nights, overlapped>>
      BY <1>6, <1>a DEF Storage!NightSkips
    <2> HIDE DEF e
    <2>3. ~overlapped => NightAlone'
      BY <1>e, <2>1, <2>2 DEF StorageInv, NightAlone
    <2> QED
      BY <1>a, <1>c, <1>d, <2>1, <2>2, <2>3
  <1>7. ASSUME NEW u \in Payers, Storage!NightTakes(n, u), paths = 0 PROVE StorageInv'
    <2> DEFINE e == [night[n] EXCEPT !.todo = @ \ {u}]
    <2>1. /\ e \in NightRecords /\ e.left + e.booked <= MaxPaths /\ e.pc = night[n].pc
          /\ e.todo = night[n].todo \ {u} /\ e.known = night[n].known /\ e.user = night[n].user
      BY <1>a DEF NightRecords, StorageInv, PathsBound
    <2>2. /\ night' = [night EXCEPT ![n] = e] /\ night[n].pc = "users"
          /\ u \in night[n].todo \ night[n].known /\ records' = [records EXCEPT ![u] = @ + 1]
          /\ UNCHANGED <<members, paths, changes, jobsBilled, credit, statements, rowLock,
                        nights, overlapped>>
      BY <1>7, <1>a DEF Storage!NightTakes
    <2> HIDE DEF e
    <2>3. records' \in [Payers -> Nat] /\ records'[u] = records[u] + 1
          /\ \A v \in Payers \ {u} : records'[v] = records[v]
      BY <1>a, <2>2
    <2>4. StatementsBound'
      <3>1. statements[u] <= MaxPaths * records[u] /\ statements[u] \in Nat /\ records[u] \in Nat
        BY <1>a DEF StorageInv, StatementsBound
      <3>2. MaxPaths * (records[u] + 1) = MaxPaths * records[u] + MaxPaths
            /\ MaxPaths * records[u] \in Nat
        BY <3>1
      <3> QED
        BY <2>2, <2>3, <3>1, <3>2 DEF StorageInv, StatementsBound
    <2>5. ASSUME ~overlapped PROVE NightAlone'
      <3>1. \A m \in Nights \ {n} : night'[m].pc = "idle"
        BY <2>1, <2>2, <2>5, NightEntry DEF StorageInv, NightAlone
      <3>2. night'[n] = e /\ e.pc = "users"
        BY <2>1, <2>2, NightEntry DEF StorageInv
      <3>3. records[u] = 0 /\ \A v \in Payers : records[v] <= 1
        BY <2>2, <2>5 DEF StorageInv, NightAlone
      <3>4. \A v \in Payers : v \in e.todo \ e.known => records'[v] = 0
        BY <2>1, <2>2, <2>3, <2>5 DEF StorageInv, NightAlone
      <3>5. \A v \in Payers : records'[v] <= 1
        BY <2>3, <3>3
      <3> QED
        BY <3>1, <3>2, <3>4, <3>5 DEF NightAlone
    <2> QED
      BY <1>a, <1>c, <2>1, <2>2, <2>3, <2>4, <2>5
  <1>8. ASSUME NEW u \in Payers, Storage!NightTakes(n, u), paths # 0 PROVE StorageInv'
    <2> DEFINE e == [night[n] EXCEPT !.pc = "paths", !.todo = @ \ {u}, !.user = {u},
                                     !.left = paths, !.booked = 0]
    <2>1. /\ e \in NightRecords /\ e.left + e.booked <= MaxPaths /\ e.pc = "paths"
          /\ e.todo = night[n].todo \ {u} /\ e.known = night[n].known /\ e.user = {u}
      <3> DEFINE f == [night[n] EXCEPT !.pc = "paths", !.todo = @ \ {u}]
      <3>1. /\ f \in NightRecords /\ f.pc = "paths" /\ f.todo = night[n].todo \ {u}
            /\ f.known = night[n].known
        BY <1>a DEF NightRecords
      <3>2. e = [f EXCEPT !.user = {u}, !.left = paths, !.booked = 0]
        OBVIOUS
      <3>3. paths \in 0 .. MaxPaths /\ paths \in Nat /\ 0 \in 0 .. MaxPaths /\ {u} \in SUBSET Payers
        BY <1>a
      <3> HIDE DEF e, f
      <3>4. e \in NightRecords
        BY <3>1, <3>2, <3>3 DEF NightRecords
      <3>5. e.pc = f.pc /\ e.todo = f.todo /\ e.known = f.known /\ e.user = {u}
        BY <3>1, <3>2 DEF NightRecords
      <3>6. e.left = paths /\ e.booked = 0
        BY <3>1, <3>2 DEF NightRecords
      <3> QED
        BY <1>a, <3>1, <3>3, <3>4, <3>5, <3>6
    <2>2. /\ night' = [night EXCEPT ![n] = e] /\ night[n].pc = "users"
          /\ u \in night[n].todo \ night[n].known
          /\ UNCHANGED <<members, paths, changes, jobsBilled, credit, statements, records, rowLock,
                        nights, overlapped>>
      BY <1>8, <1>a DEF Storage!NightTakes
    <2> HIDE DEF e
    <2>3. ~overlapped => NightAlone'
      BY <1>e, <2>1, <2>2 DEF StorageInv, NightAlone
    <2> QED
      BY <1>a, <1>c, <1>d, <2>1, <2>2, <2>3
  <1> QED
    BY <1>1, <1>2, <1>3, <1>4, <1>5, <1>6, <1>7, <1>8

LEMMA StorageStep == StorageInv /\ (Storage!Next \/ UNCHANGED storageVars) => StorageInv'
  <1> SUFFICES ASSUME StorageInv, Storage!Next \/ UNCHANGED storageVars PROVE StorageInv'
    OBVIOUS
  <1> USE StorageBounds
  <1>1. ASSUME UNCHANGED <<statements, records, night, rowLock, nights, overlapped>>,
               members' \subseteq Payers, paths' \in 0 .. MaxPaths, credit' \in Int,
               changes' \in 0 .. MaxChanges, jobsBilled' \in Nat
        PROVE  StorageInv'
    BY <1>1 DEF StorageInv, Storage!TypeOK, PathsBound, StatementsBound, NightAlone
  <1>2. /\ members \subseteq Payers /\ paths \in 0 .. MaxPaths /\ credit \in Int
        /\ changes \in 0 .. MaxChanges /\ jobsBilled \in Nat
    BY DEF StorageInv, Storage!TypeOK
  <1>3. ASSUME NEW u \in Payers, Storage!MembersChange(u) PROVE StorageInv'
    BY <1>1, <1>2, <1>3 DEF Storage!MembersChange, Storage!Change
  <1>4. CASE Storage!PoliciesChange
    BY <1>1, <1>2, <1>4 DEF Storage!PoliciesChange, Storage!Change
  <1>5. CASE Storage!JobCharged
    BY <1>1, <1>2, <1>5 DEF Storage!JobCharged, Storage!Change
  <1>6. CASE UNCHANGED storageVars
    BY <1>1, <1>2, <1>6 DEF storageVars
  <1> QED
    BY <1>3, <1>4, <1>5, <1>6, NightStepInv DEF Storage!Next

-----------------------------------------------------------------------------
(* Storage: the balance adds up.  While a run holds the lock of the row    *)
(* nobody else changes the balance it has read.                            *)

RunCredit(n) ==
  /\ night[n].pc = "paths" => /\ \E u \in Payers : night[n].user = {u}
                              /\ night[n].left + night[n].booked > 0
  /\ n \in rowLock <=> night[n].pc = "paths" /\ night[n].booked > 0
  /\ n \in rowLock => night[n].credit = credit - night[n].booked

CreditInv ==
  /\ \A n \in Nights : RunCredit(n)
  /\ credit = 0 - jobsBilled - Sums(Payers, statements)[Payers]

LEMMA FinitePayers == IsFiniteSet(Payers)
  BY ResourcesAssumption DEF Storage!StorageAssumption, Storage!IsFiniteSet, IsFiniteSet

LEMMA CreditInit == Storage!Init => CreditInv
  <1> SUFFICES ASSUME Storage!Init PROVE CreditInv
    OBVIOUS
  <1>1. Sums(Payers, statements)[Payers] = 0
    BY SumOfZeros, FinitePayers DEF Storage!Init
  <1> QED
    BY <1>1 DEF Storage!Init, Storage!NightIdle, CreditInv, RunCredit

LEMMA NightStepCredit ==
  ASSUME StorageInv, CreditInv, NEW n \in Nights,
         \/ Storage!NightBegin(n) \/ Storage!NightKnown(n) \/ Storage!NightPath(n)
         \/ Storage!NightCommit(n) \/ Storage!NightEnds(n) \/ Storage!NightFails(n)
         \/ \E u \in Payers : Storage!NightSkips(n, u) \/ Storage!NightTakes(n, u)
  PROVE  CreditInv'
  <1> USE StorageBounds DEF Storage!NightStep
  <1>a. /\ Storage!TypeOK /\ night \in [Nights -> NightRecords] /\ night[n] \in NightRecords
        /\ paths \in 0 .. MaxPaths /\ credit \in Int /\ jobsBilled \in Nat
        /\ rowLock \subseteq Nights /\ \A k, m \in rowLock : k = m
    BY DEF StorageInv, Storage!TypeOK, NightRecords
  <1>b. Storage!NightIdle \in NightRecords /\ Storage!NightIdle.pc = "idle"
    BY DEF Storage!NightIdle, NightRecords
  <1>c. ASSUME NEW e \in NightRecords, night' = [night EXCEPT ![n] = e],
               UNCHANGED <<credit, statements, jobsBilled>>,
               \A m \in Nights \ {n} : m \in rowLock' <=> m \in rowLock,
               e.pc = "paths" => (\E u \in Payers : e.user = {u}) /\ e.left + e.booked > 0,
               n \in rowLock' <=> e.pc = "paths" /\ e.booked > 0,
               n \in rowLock' => e.credit = credit - e.booked
        PROVE  CreditInv'
    <2>1. RunCredit(n)'
      BY <1>a, <1>c, NightEntry DEF RunCredit
    <2>2. ASSUME NEW m \in Nights \ {n} PROVE RunCredit(m)'
      BY <1>a, <1>c, <2>2, NightEntry DEF RunCredit, CreditInv
    <2> QED
      BY <1>c, <2>1, <2>2 DEF CreditInv
  <1>d. RunCredit(n)
    BY DEF CreditInv
  <1>1. CASE Storage!NightBegin(n)
    <2> DEFINE e == [Storage!NightIdle EXCEPT !.pc = "begun", !.todo = Payers]
    <2>1. e \in NightRecords /\ e.pc = "begun"
      BY <1>b DEF NightRecords
    <2>2. night' = [night EXCEPT ![n] = e] /\ night[n].pc = "idle"
          /\ UNCHANGED <<credit, statements, jobsBilled, rowLock>>
      BY <1>1 DEF Storage!NightBegin
    <2> HIDE DEF e
    <2> QED
      BY <1>c, <1>d, <2>1, <2>2 DEF RunCredit
  <1>2. CASE Storage!NightKnown(n)
    <2> DEFINE e == [night[n] EXCEPT !.pc = "users", !.known = Storage!Recorded]
    <2>1. e \in NightRecords /\ e.pc = "users"
      BY <1>a DEF NightRecords, Storage!Recorded
    <2>2. night' = [night EXCEPT ![n] = e] /\ night[n].pc = "begun"
          /\ UNCHANGED <<credit, statements, jobsBilled, rowLock>>
      BY <1>2 DEF Storage!NightKnown
    <2> HIDE DEF e
    <2> QED
      BY <1>c, <1>d, <2>1, <2>2 DEF RunCredit
  <1>3. ASSUME NEW u \in Payers, Storage!NightSkips(n, u) PROVE CreditInv'
    <2> DEFINE e == [night[n] EXCEPT !.todo = night[n].todo \ {u}]
    <2>1. e \in NightRecords /\ e.pc = night[n].pc
      BY <1>a DEF NightRecords
    <2>2. night' = [night EXCEPT ![n] = e] /\ night[n].pc = "users"
          /\ UNCHANGED <<credit, statements, jobsBilled, rowLock>>
      BY <1>3 DEF Storage!NightSkips
    <2> HIDE DEF e
    <2> QED
      BY <1>c, <1>d, <2>1, <2>2 DEF RunCredit
  <1>4. ASSUME NEW u \in Payers, Storage!NightTakes(n, u) PROVE CreditInv'
    <2>1. night[n].pc = "users" /\ UNCHANGED <<credit, statements, jobsBilled, rowLock>>
      BY <1>4 DEF Storage!NightTakes
    <2>2. CASE paths = 0
      <3> DEFINE e == [night[n] EXCEPT !.todo = night[n].todo \ {u}]
      <3>1. e \in NightRecords /\ e.pc = night[n].pc
        BY <1>a DEF NightRecords
      <3>2. night' = [night EXCEPT ![n] = e]
        BY <1>4, <2>2 DEF Storage!NightTakes
      <3> HIDE DEF e
      <3> QED
        BY <1>c, <1>d, <2>1, <3>1, <3>2 DEF RunCredit
    <2>3. CASE paths # 0
      <3> DEFINE f == [night[n] EXCEPT !.pc = "paths", !.todo = night[n].todo \ {u}]
                 e == [f EXCEPT !.user = {u}, !.left = paths, !.booked = 0]
      <3>2. night' = [night EXCEPT ![n] = e]
        BY <1>a, <1>4, <2>3 DEF Storage!NightTakes
      <3>3. f \in NightRecords /\ f.pc = "paths"
        BY <1>a DEF NightRecords
      <3>4. paths > 0 /\ 0 \in 0 .. MaxPaths
        BY <1>a, <2>3
      <3> HIDE DEF f
      <3>1. /\ e \in NightRecords /\ e.pc = "paths" /\ e.user = {u}
            /\ e.left = paths /\ e.booked = 0 /\ paths > 0
        BY <1>a, <3>3, <3>4 DEF NightRecords
      <3> HIDE DEF e
      <3>5. (\E v \in Payers : e.user = {v}) /\ e.left + e.booked > 0 /\ n \notin rowLock
        BY <1>a, <1>d, <2>1, <3>1 DEF RunCredit
      <3>6. n \in rowLock' <=> e.pc = "paths" /\ e.booked > 0
        BY <2>1, <3>1, <3>5
      <3>7. /\ e.pc = "paths" => (\E v \in Payers : e.user = {v}) /\ e.left + e.booked > 0
            /\ n \in rowLock' => e.credit = credit - e.booked
            /\ \A m \in Nights \ {n} : m \in rowLock' <=> m \in rowLock
        BY <2>1, <3>5
      <3>8. e \in NightRecords
        BY <3>1
      <3> QED
        BY <1>c, <2>1, <3>2, <3>6, <3>7, <3>8
    <2> QED
      BY <2>2, <2>3
  <1>5. CASE Storage!NightPath(n)
    <2> DEFINE c == IF night[n].booked = 0 THEN credit - 1 ELSE night[n].credit - 1
               e == [night[n] EXCEPT !.left = night[n].left - 1, !.booked = night[n].booked + 1,
                                     !.credit = c]
    <2>1. /\ night[n].pc = "paths" /\ night[n].left > 0 /\ rowLock \subseteq {n} /\ rowLock' = {n}
          /\ night' = [night EXCEPT ![n] = e]
          /\ UNCHANGED <<credit, statements, jobsBilled>>
      BY <1>5 DEF Storage!NightPath, Storage!MayLockRow
    <2>2. /\ night[n].left \in 0 .. MaxPaths /\ night[n].booked \in 0 .. MaxPaths
          /\ night[n].credit \in Int /\ night[n].left + night[n].booked <= MaxPaths
      BY <1>a DEF NightRecords, StorageInv, PathsBound
    <2>3. c \in Int /\ c = credit - (night[n].booked + 1)
      BY <1>a, <1>d, <2>1, <2>2 DEF RunCredit
    <2> HIDE DEF c
    <2>c. night[n].left - 1 \in 0 .. MaxPaths /\ night[n].booked + 1 \in 0 .. MaxPaths
      BY <2>1, <2>2
    <2>a. e \in NightRecords
      <3> DEFINE f == [night[n] EXCEPT !.left = night[n].left - 1]
                 g == [f EXCEPT !.booked = night[n].booked + 1]
      <3>1. f \in NightRecords
        BY <1>a, <2>c DEF NightRecords
      <3> HIDE DEF f
      <3>2. g \in NightRecords
        BY <2>c, <3>1 DEF NightRecords
      <3> HIDE DEF g
      <3>3. [g EXCEPT !.credit = c] \in NightRecords
        BY <2>3, <3>2 DEF NightRecords
      <3> QED
        BY <3>3 DEF f, g
    <2>b. /\ e.pc = night[n].pc /\ e.user = night[n].user /\ e.left = night[n].left - 1
          /\ e.booked = night[n].booked + 1 /\ e.credit = c
      BY <1>a DEF NightRecords
    <2> HIDE DEF e
    <2>4. /\ e.pc = "paths" /\ e.user = night[n].user /\ e.left + e.booked > 0
          /\ e.booked > 0 /\ e.credit = credit - e.booked
      BY <2>1, <2>2, <2>3, <2>b
    <2> QED
      BY <1>c, <1>d, <2>1, <2>4, <2>a DEF RunCredit
  <1>6. CASE Storage!NightCommit(n)
    <2> DEFINE e == [night[n] EXCEPT !.pc = "users", !.user = {}]
    <2>1. /\ night[n].pc = "paths" /\ night[n].left = 0 /\ credit' = night[n].credit
          /\ statements' = [u \in Payers |-> IF u \in night[n].user THEN statements[u] + night[n].booked
                                             ELSE statements[u]]
          /\ night' = [night EXCEPT ![n] = e] /\ rowLock' = rowLock \ {n} /\ UNCHANGED jobsBilled
      BY <1>6 DEF Storage!NightCommit, Storage!Leave
    <2>2. e \in NightRecords /\ e.pc = "users"
      BY <1>a DEF NightRecords
    <2> HIDE DEF e
    <2>3. night[n].booked \in Nat
      BY <1>a DEF NightRecords
    <2>4. /\ n \in rowLock /\ credit' = credit - night[n].booked /\ rowLock' = {}
      BY <1>a, <1>d, <2>1, <2>3 DEF RunCredit
    <2>5. PICK u \in Payers : night[n].user = {u}
      BY <1>d, <2>1 DEF RunCredit
    <2>6. Sums(Payers, statements')[Payers] = Sums(Payers, statements)[Payers] + night[n].booked
          /\ Sums(Payers, statements)[Payers] \in Nat
      <3>1. statements \in [Payers -> Nat] /\ IsFiniteSet(Payers)
        BY FinitePayers DEF StorageInv, Storage!TypeOK
      <3>2. \A x \in Payers : statements'[x] = IF x = u THEN statements[x] + night[n].booked
                                               ELSE statements[x]
        BY <2>1, <2>5
      <3>3. statements' \in [Payers -> Nat]
        BY <2>1, <2>3, <3>1
      <3>4. PICK h : h = statements'
        OBVIOUS
      <3>5. /\ h \in [Payers -> Nat] /\ h[u] = statements[u] + night[n].booked
            /\ \A x \in Payers \ {u} : h[x] = statements[x]
        BY <3>2, <3>3, <3>4
      <3>6. Sums(Payers, h)[Payers] = Sums(Payers, statements)[Payers] + night[n].booked
        BY <2>3, <3>1, <3>5, SumAdded
      <3> QED
        BY <3>1, <3>4, <3>6, SumIsNat
    <2>7. credit' = 0 - jobsBilled' - Sums(Payers, statements')[Payers]
      BY <1>a, <2>1, <2>3, <2>4, <2>6 DEF CreditInv
    <2>8. ASSUME NEW m \in Nights PROVE RunCredit(m)'
      <3>1. CASE m = n
        BY <1>a, <2>1, <2>2, <2>4, <3>1, NightEntry DEF RunCredit
      <3>2. CASE m # n
        <4>1. night'[m] = night[m] /\ m \notin rowLock
          BY <1>a, <2>1, <2>2, <2>4, <3>2, NightEntry
        <4> QED
          BY <2>4, <4>1 DEF RunCredit, CreditInv
      <3> QED
        BY <3>1, <3>2
    <2> QED
      BY <2>7, <2>8 DEF CreditInv
  <1>7. CASE Storage!NightEnds(n)
    <2>1. night' = [night EXCEPT ![n] = Storage!NightIdle] /\ night[n].pc = "users"
          /\ UNCHANGED <<credit, statements, jobsBilled, rowLock>>
      BY <1>7 DEF Storage!NightEnds
    <2> QED
      BY <1>b, <1>c, <1>d, <2>1 DEF RunCredit
  <1>8. CASE Storage!NightFails(n)
    <2>1. night' = [night EXCEPT ![n] = Storage!NightIdle] /\ rowLock' = rowLock \ {n}
          /\ UNCHANGED <<credit, statements, jobsBilled>>
      BY <1>8 DEF Storage!NightFails, Storage!Leave
    <2> QED
      BY <1>b, <1>c, <2>1
  <1> QED
    BY <1>1, <1>2, <1>3, <1>4, <1>5, <1>6, <1>7, <1>8

LEMMA CreditStep == StorageInv /\ CreditInv /\ (Storage!Next \/ UNCHANGED storageVars) => CreditInv'
  <1> SUFFICES ASSUME StorageInv, CreditInv, Storage!Next \/ UNCHANGED storageVars PROVE CreditInv'
    OBVIOUS
  <1>1. UNCHANGED <<credit, statements, night, rowLock, jobsBilled>> => CreditInv'
    BY DEF CreditInv, RunCredit
  <1>2. ASSUME NEW u \in Payers, Storage!MembersChange(u) PROVE CreditInv'
    BY <1>1, <1>2 DEF Storage!MembersChange, Storage!Change
  <1>3. CASE Storage!PoliciesChange
    BY <1>1, <1>3 DEF Storage!PoliciesChange, Storage!Change
  <1>4. CASE Storage!JobCharged
    <2>1. /\ rowLock = {} /\ credit' = credit - 1 /\ jobsBilled' = jobsBilled + 1
          /\ UNCHANGED <<statements, night, rowLock>>
      BY <1>4 DEF Storage!JobCharged, Storage!Change
    <2>2. credit \in Int /\ jobsBilled \in Nat /\ statements \in [Payers -> Nat]
      BY DEF StorageInv, Storage!TypeOK
    <2>3. Sums(Payers, statements)[Payers] \in Nat
      BY <2>2, FinitePayers, SumIsNat
    <2> QED
      BY <2>1, <2>2, <2>3 DEF CreditInv, RunCredit
  <1>5. CASE UNCHANGED storageVars
    BY <1>1, <1>5 DEF storageVars
  <1> QED
    BY <1>2, <1>3, <1>4, <1>5, NightStepCredit DEF Storage!Next

-----------------------------------------------------------------------------
(* The services whose proofs are modules of their own: their definitions   *)
(* are the same, expanded, whether MCResources or the module of the proofs *)
(* is asked for them.                                                      *)

BuildP == INSTANCE ImageBuild_proofs
AllocationP == INSTANCE PortAllocation_proofs WITH Jobs <- PortJobs
ToolingP == INSTANCE Cloudtools_proofs

LEMMA SameBuild ==
  /\ \A S : Build!Cardinality(S) = BuildP!Cardinality(S)
  /\ Build!Full <=> BuildP!Full
  /\ Build!Threads = BuildP!Threads
  /\ BuildP!BuildAssumption
  <1>1. \A S : Build!Cardinality(S) = BuildP!Cardinality(S)
    BY DEF Build!Cardinality, BuildP!Cardinality
  <1>2. BuildP!BuildAssumption
    BY ResourcesAssumption DEF Build!BuildAssumption, BuildP!BuildAssumption
  <1> QED
    BY <1>1, <1>2 DEF Build!Full, BuildP!Full, Build!Threads, BuildP!Threads, Build!Running, BuildP!Running

LEMMA BuildRequest ==
  ASSUME NEW r \in Requests, Build!Request(r)
  PROVE  BuildP!Request(r)
  <1>1. Build!PostWorkspace(r) => BuildP!PostWorkspace(r)
    BY SameBuild DEF Build!PostWorkspace, BuildP!PostWorkspace, Build!counters, BuildP!counters,
           Build!Return, BuildP!Return, Build!IdleRequest, BuildP!IdleRequest
  <1>2. Build!PostAdd(r) => BuildP!PostAdd(r)
    BY SameBuild DEF Build!PostAdd, BuildP!PostAdd, Build!counters, BuildP!counters, Build!history,
           BuildP!history, Build!Goto, BuildP!Goto, Build!Return, BuildP!Return, Build!IdleRequest,
           BuildP!IdleRequest
  <1>3. Build!PostInfo(r) => BuildP!PostInfo(r)
    BY DEF Build!PostInfo, BuildP!PostInfo, Build!counters, BuildP!counters, Build!history,
           BuildP!history, Build!Goto, BuildP!Goto
  <1>4. Build!PostSave(r) => BuildP!PostSave(r)
    BY DEF Build!PostSave, BuildP!PostSave, Build!daemon, BuildP!daemon, Build!counters,
           BuildP!counters, Build!Return, BuildP!Return, Build!IdleRequest, BuildP!IdleRequest,
           Build!LockedBy, BuildP!LockedBy, Build!Named, BuildP!Named
  <1>5. Build!CancelWrite(r) => BuildP!CancelWrite(r)
    BY DEF Build!CancelWrite, BuildP!CancelWrite, Build!counters, BuildP!counters,
           Build!Return, BuildP!Return, Build!IdleRequest, BuildP!IdleRequest
  <1> QED
    BY <1>1, <1>2, <1>3, <1>4, <1>5 DEF Build!Request, BuildP!Request

LEMMA BuildDaemon ==
  ASSUME NEW b \in Builds, Build!Daemon(b)
  PROVE  BuildP!Daemon(b)
  <1>1. Build!Submit(b) => BuildP!Submit(b)
    BY DEF Build!Submit, BuildP!Submit, Build!TaskStep, BuildP!TaskStep, Build!counters,
           BuildP!counters
  <1>2. Build!Submitted(b) => BuildP!Submitted(b)
    BY DEF Build!Submitted, BuildP!Submitted, Build!TaskStep, BuildP!TaskStep, Build!counters,
           BuildP!counters
  <1>3. Build!Start(b) => BuildP!Start(b)
    BY SameBuild DEF Build!Start, BuildP!Start, Build!TaskStep, BuildP!TaskStep, Build!counters,
           BuildP!counters
  <1>4. Build!Missed(b) => BuildP!Missed(b)
    BY SameBuild DEF Build!Missed, BuildP!Missed, Build!TaskStep, BuildP!TaskStep, Build!counters,
           BuildP!counters
  <1>5. Build!InitDone(b) => BuildP!InitDone(b)
    BY DEF Build!InitDone, BuildP!InitDone, Build!TaskStep, BuildP!TaskStep, Build!counters,
           BuildP!counters
  <1>6. Build!InitEnds(b) => BuildP!InitEnds(b)
    BY DEF Build!InitEnds, BuildP!InitEnds, Build!TaskStep, BuildP!TaskStep, Build!counters,
           BuildP!counters, Build!Finish, BuildP!Finish
  <1>7. Build!RunEnds(b) => BuildP!RunEnds(b)
    BY DEF Build!RunEnds, BuildP!RunEnds, Build!Ended, BuildP!Ended, Build!TaskStep,
           BuildP!TaskStep, Build!counters, BuildP!counters, Build!Finish, BuildP!Finish
  <1>8. Build!Over(b) => BuildP!Over(b)
    BY DEF Build!Over, BuildP!Over, Build!TaskStep, BuildP!TaskStep, Build!counters,
           BuildP!counters, Build!Removed, BuildP!Removed, Build!Recorded, BuildP!Recorded
  <1> QED
    BY <1>1, <1>2, <1>3, <1>4, <1>5, <1>6, <1>7, <1>8 DEF Build!Daemon, BuildP!Daemon

LEMMA BuildInit == Build!Init => BuildP!Init
  BY DEF Build!Init, BuildP!Init, Build!IdleRequest, BuildP!IdleRequest

LEMMA BuildNext == Build!Next => BuildP!Next
  <1>1. \A r \in Requests : Build!PostUnanswered(r) => BuildP!PostUnanswered(r)
    BY DEF Build!PostUnanswered, BuildP!PostUnanswered, Build!daemon, BuildP!daemon,
           Build!counters, BuildP!counters, Build!Return, BuildP!Return, Build!IdleRequest,
           BuildP!IdleRequest
  <1>2. \A r \in Requests, u \in Users : Build!PostCheck(r, u) => BuildP!PostCheck(r, u)
    BY DEF Build!PostCheck, BuildP!PostCheck, Build!daemon, BuildP!daemon, Build!counters,
           BuildP!counters, Build!history, BuildP!history, Build!LockedBy, BuildP!LockedBy,
           Build!Building, BuildP!Building, Build!Running, BuildP!Running
  <1>3. \A r \in Requests, u \in Users : Build!CancelLook(r, u) => BuildP!CancelLook(r, u)
    BY DEF Build!CancelLook, BuildP!CancelLook, Build!daemon, BuildP!daemon, Build!history,
           BuildP!history
  <1>4. Build!Restart => BuildP!Restart
    BY DEF Build!Restart, BuildP!Restart, Build!history, BuildP!history, Build!IdleRequest,
           BuildP!IdleRequest
  <1> QED
    BY <1>1, <1>2, <1>3, <1>4, BuildRequest, BuildDaemon DEF Build!Next, BuildP!Next

LEMMA SamePorts ==
  /\ \A S : Allocation!Cardinality(S) = AllocationP!Cardinality(S)
  /\ AllocationP!PortAssumption
  <1>1. \A S : Allocation!Cardinality(S) = AllocationP!Cardinality(S)
    BY DEF Allocation!Cardinality, AllocationP!Cardinality
  <1>2. AllocationP!PortAssumption
    BY ResourcesAssumption DEF Allocation!PortAssumption, AllocationP!PortAssumption
  <1> QED
    BY <1>1, <1>2

LEMMA AllocationInit == Allocation!Init => AllocationP!Init
  BY DEF Allocation!Init, AllocationP!Init, Allocation!NoState, AllocationP!NoState,
         Allocation!Nobody, AllocationP!Nobody

LEMMA AllocationNext == Allocation!Next => AllocationP!Next
  <1>1. \A j \in PortJobs : Allocation!Create(j) => AllocationP!Create(j)
    BY DEF Allocation!Create, AllocationP!Create
  <1>2. \A j \in PortJobs : Allocation!Look(j) => AllocationP!Look(j)
    BY DEF Allocation!Look, AllocationP!Look, Allocation!Nobody, AllocationP!Nobody,
           Allocation!Holding, AllocationP!Holding, Allocation!WaitingStates,
           AllocationP!WaitingStates, Allocation!Unseen, AllocationP!Unseen
  <1>3. \A j \in PortJobs : Allocation!Take(j) => AllocationP!Take(j)
    BY DEF Allocation!Take, AllocationP!Take, Allocation!Appended, AllocationP!Appended
  <1>4. \A j \in PortJobs : Allocation!RenderFails(j) => AllocationP!RenderFails(j)
    BY DEF Allocation!RenderFails, AllocationP!RenderFails, Allocation!Nobody,
           AllocationP!Nobody, Allocation!Goto, AllocationP!Goto
  <1>5. \A j \in PortJobs : Allocation!Rendered(j) => AllocationP!Rendered(j)
    BY DEF Allocation!Rendered, AllocationP!Rendered, Allocation!Nobody, AllocationP!Nobody,
           Allocation!Goto, AllocationP!Goto
  <1>6. \A j \in PortJobs : Allocation!SubmitToScheduler(j) => AllocationP!SubmitToScheduler(j)
    BY DEF Allocation!SubmitToScheduler, AllocationP!SubmitToScheduler, Allocation!Goto,
           AllocationP!Goto
  <1>7. \A j \in PortJobs : Allocation!FinalSave(j) => AllocationP!FinalSave(j)
    BY DEF Allocation!FinalSave, AllocationP!FinalSave, Allocation!Goto, AllocationP!Goto,
           Allocation!Alive, AllocationP!Alive, Allocation!Shown, AllocationP!Shown
  <1>8. \A j \in PortJobs : Allocation!FinalSaveFails(j) => AllocationP!FinalSaveFails(j)
    BY DEF Allocation!FinalSaveFails, AllocationP!FinalSaveFails, Allocation!Goto,
           AllocationP!Goto
  <1>9. \A j \in PortJobs : Allocation!SyncUpdate(j) => AllocationP!SyncUpdate(j)
    BY DEF Allocation!SyncUpdate, AllocationP!SyncUpdate, Allocation!Shown, AllocationP!Shown,
           Allocation!Alive, AllocationP!Alive
  <1>10. \A j \in PortJobs : Allocation!JobEnds(j) => AllocationP!JobEnds(j)
    BY DEF Allocation!JobEnds, AllocationP!JobEnds
  <1>11. \A j \in PortJobs : Allocation!JobRequeued(j) => AllocationP!JobRequeued(j)
    BY DEF Allocation!JobRequeued, AllocationP!JobRequeued
  <1> QED
    BY <1>1, <1>2, <1>3, <1>4, <1>5, <1>6, <1>7, <1>8, <1>9, <1>10, <1>11
       DEF Allocation!Next, AllocationP!Next

LEMMA ToolingInit == Tooling!Init => ToolingP!Init
  BY DEF Tooling!Init, ToolingP!Init, Tooling!Sessions, ToolingP!Sessions,
         Tooling!HandlerIdle, ToolingP!HandlerIdle

LEMMA ToolingNext == Tooling!Next => ToolingP!Next
  BY DEF Tooling!Next, ToolingP!Next, Tooling!Sessions, ToolingP!Sessions,
         Tooling!CreateCheck, ToolingP!CreateCheck, Tooling!HandlerIdle, ToolingP!HandlerIdle,
         Tooling!Taken, ToolingP!Taken, Tooling!CreateSave, ToolingP!CreateSave, Tooling!Respond,
         ToolingP!Respond, Tooling!Deleting, ToolingP!Deleting, Tooling!SubmitRead,
         ToolingP!SubmitRead, Tooling!SubmitCheck, ToolingP!SubmitCheck, Tooling!Goto,
         ToolingP!Goto, Tooling!SeenBusy, ToolingP!SeenBusy, Tooling!Busy, ToolingP!Busy,
         Tooling!SubmitPrepare, ToolingP!SubmitPrepare, Tooling!SubmitJob, ToolingP!SubmitJob,
         Tooling!Unnoticed, ToolingP!Unnoticed, Tooling!SubmitSave, ToolingP!SubmitSave,
         Tooling!HandlerFails, ToolingP!HandlerFails, Tooling!DeleteRead, ToolingP!DeleteRead,
         Tooling!DeleteLook, ToolingP!DeleteLook, Tooling!DeleteTree, ToolingP!DeleteTree,
         Tooling!Looked, ToolingP!Looked, Tooling!DeleteRow, ToolingP!DeleteRow,
         Tooling!SessionMoves, ToolingP!SessionMoves

LEMMA SameTools == ToolingP!CloudtoolsAssumption
  BY ResourcesAssumption DEF Tooling!CloudtoolsAssumption, ToolingP!CloudtoolsAssumption

-----------------------------------------------------------------------------
(* The specification of the run: the services side by side, one at work.   *)

resourcesVars == <<part, vars, buildVars, portsVars, storageVars, toolingVars>>

LEMMA ServiceStep ==
  [ResourcesNext]_resourcesVars =>
    /\ [Next]_vars
    /\ BuildP!Next \/ UNCHANGED BuildP!buildVars
    /\ AllocationP!Next \/ UNCHANGED AllocationP!portVars
    /\ Storage!Next \/ UNCHANGED storageVars
    /\ ToolingP!Next \/ UNCHANGED ToolingP!toolVars
  <1> SUFFICES ASSUME [ResourcesNext]_resourcesVars
               PROVE  /\ [Next]_vars
                      /\ BuildP!Next \/ UNCHANGED BuildP!buildVars
                      /\ AllocationP!Next \/ UNCHANGED AllocationP!portVars
                      /\ Storage!Next \/ UNCHANGED storageVars
                      /\ ToolingP!Next \/ UNCHANGED ToolingP!toolVars
    OBVIOUS
  <1>1. /\ [Next]_vars
        /\ Build!Next \/ UNCHANGED buildVars
        /\ Allocation!Next \/ UNCHANGED portsVars
        /\ Storage!Next \/ UNCHANGED storageVars
        /\ Tooling!Next \/ UNCHANGED toolingVars
    BY DEF ResourcesNext, resourcesVars
  <1>2. UNCHANGED buildVars => UNCHANGED BuildP!buildVars
    BY DEF buildVars, BuildP!buildVars, BuildP!daemon, BuildP!counters, BuildP!history
  <1>3. UNCHANGED portsVars => UNCHANGED AllocationP!portVars
    BY DEF portsVars, AllocationP!portVars
  <1>4. UNCHANGED toolingVars => UNCHANGED ToolingP!toolVars
    BY DEF toolingVars, ToolingP!toolVars
  <1> QED
    BY <1>1, <1>2, <1>3, <1>4, BuildNext, AllocationNext, ToolingNext

\* Everything that is invariant at once.
ResourcesInv ==
  /\ IInv /\ BuildP!BuildInv /\ AllocationP!PortInv /\ StorageInv /\ CreditInv /\ ToolingP!ToolInv

LEMMA ResourcesInvHolds == ResourcesSpec => []ResourcesInv
  <1>1. ResourcesInit => ResourcesInv
    <2> SUFFICES ASSUME ResourcesInit PROVE ResourcesInv
      OBVIOUS
    <2>1. IInv
      BY InitInvariant DEF ResourcesInit
    <2>2. BuildP!BuildInv
      BY SameBuild, BuildInit, BuildP!InitInv DEF ResourcesInit
    <2>3. AllocationP!PortInv
      BY SamePorts, AllocationInit, AllocationP!InitInv DEF ResourcesInit
    <2>4. StorageInv /\ CreditInv
      BY StorageInit, CreditInit DEF ResourcesInit
    <2>5. ToolingP!ToolInv
      BY SameTools, ToolingInit, ToolingP!InitInv DEF ResourcesInit
    <2> QED
      BY <2>1, <2>2, <2>3, <2>4, <2>5 DEF ResourcesInv
  <1>2. ResourcesInv /\ [ResourcesNext]_resourcesVars => ResourcesInv'
    <2> SUFFICES ASSUME ResourcesInv, [ResourcesNext]_resourcesVars PROVE ResourcesInv'
      OBVIOUS
    <2>1. IInv'
      BY ServiceStep, StepInvariant DEF ResourcesInv
    <2>2. BuildP!BuildInv'
      BY ServiceStep, SameBuild, BuildP!StepInv DEF ResourcesInv
    <2>3. AllocationP!PortInv'
      BY ServiceStep, SamePorts, AllocationP!StepInv DEF ResourcesInv
    <2>4. StorageInv' /\ CreditInv'
      BY ServiceStep, StorageStep, CreditStep DEF ResourcesInv
    <2>5. ToolingP!ToolInv'
      BY ServiceStep, SameTools, ToolingP!StepInv DEF ResourcesInv
    <2> QED
      BY <2>1, <2>2, <2>3, <2>4, <2>5 DEF ResourcesInv
  <1> QED
    BY <1>1, <1>2, PTL DEF ResourcesSpec, resourcesVars

-----------------------------------------------------------------------------
(* The properties.                                                         *)

\* The state of the service at work is well formed.
THEOREM ResourcesTypes == ResourcesSpec => []ResourcesTypeOK
  <1>1. ResourcesInv => ResourcesTypeOK
    <2> SUFFICES ASSUME ResourcesInv PROVE ResourcesTypeOK
      OBVIOUS
    <2>1. TypeOK
      BY DEF ResourcesInv, IInv
    <2>2. Build!TypeOK
      BY DEF ResourcesInv, BuildP!BuildInv, BuildP!TypeOK, Build!TypeOK, BuildP!RequestPcs, Build!RequestPcs,
             BuildP!TaskPcs, Build!TaskPcs, BuildP!Running, Build!Running, BuildP!Ended, Build!Ended
    <2>3. Allocation!TypeOK
      <3>1. AllocationP!TypeOK
        BY DEF ResourcesInv, AllocationP!PortInv
      <3>2. Allocation!SubmissionPcs = AllocationP!SubmissionPcs
        BY DEF Allocation!SubmissionPcs, AllocationP!SubmissionPcs
      <3> QED
        BY <3>1, <3>2, SamePorts, Zenon
           DEF AllocationP!TypeOK, Allocation!TypeOK, AllocationP!JobStateValues,
               Allocation!JobStateValues, AllocationP!NoState, Allocation!NoState
    <2>4. Storage!TypeOK
      BY DEF ResourcesInv, StorageInv
    <2>5. Tooling!TypeOK
      BY DEF ResourcesInv, ToolingP!ToolInv, ToolingP!TypeOK, Tooling!TypeOK, ToolingP!Sessions,
             Tooling!Sessions, ToolingP!AliveStates, Tooling!AliveStates
    <2> QED
      BY <2>1, <2>2, <2>3, <2>4, <2>5 DEF ResourcesTypeOK
  <1> QED
    BY <1>1, ResourcesInvHolds, PTL

\* A slot of the builder is held only by a build that is still to end, but for
\* an event that overtakes another and a job dropped while it waits for a
\* thread (manager.py:99).
THEOREM SlotsAreHeld == ResourcesSpec => []SlotsHeld
  <1>1. ResourcesInv => SlotsHeld
    BY DEF ResourcesInv, BuildP!BuildInv, BuildP!SlotsHeld, SlotsHeld, Build!SlotsHeld,
           BuildP!Running, Build!Running
  <1> QED
    BY <1>1, ResourcesInvHolds, PTL

\* A build that is over leaves no directory, but for a late cancellation or an
\* entry of infos made too late (manager.py:72, manager.py:83).
THEOREM WorkspacesAreFreed == ResourcesSpec => []WorkspacesFreed
  <1>1. ResourcesInv => WorkspacesFreed
    BY DEF ResourcesInv, BuildP!BuildInv, BuildP!WorkspacesFreed, WorkspacesFreed, Build!WorkspacesFreed
  <1> QED
    BY <1>1, ResourcesInvHolds, PTL

\* A build that runs is the one its user's row names, or that of a request
\* under way, or one that the row lost (build.py:353).
THEOREM BuildsAreKnown == ResourcesSpec => []KnownBuilds
  <1>1. ResourcesInv => KnownBuilds
    BY DEF ResourcesInv, BuildP!BuildInv, BuildP!KnownInv, BuildP!Lively, KnownBuilds, Build!KnownBuilds
  <1> QED
    BY <1>1, ResourcesInvHolds, PTL

\* The ports of a job are as many as it asked for, and no two jobs that run
\* share one, but for those that were overlooked between the lock and the first
\* state of their row, or run again after they were over (csres_render.py:54).
THEOREM PortsAreApart == ResourcesSpec => []PortsApart
  <1>1. ResourcesInv => PortsApart
    BY SamePorts, AllocationP!InvApart DEF ResourcesInv, AllocationP!PortsApart, PortsApart, Allocation!PortsApart
  <1> QED
    BY <1>1, ResourcesInvHolds, PTL

\* The directory of a tool that lives is removed under it only when its job
\* escaped the look of a delete, or two projects came to use the directory
\* (utils.py:208).
THEOREM EnvironmentIsKept == ResourcesSpec => []EnvironmentKept
  <1>1. ResourcesInv => EnvironmentKept
    BY DEF ResourcesInv, ToolingP!ToolInv, ToolingP!KeptInv, EnvironmentKept, Tooling!EnvironmentKept,
           Tooling!AliveStates, ToolingP!Sessions, Tooling!Sessions
  <1> QED
    BY <1>1, ResourcesInvHolds, PTL

\* A user is charged at most once for the day, however often runs fail and are
\* repeated, unless two of them overlap; a charge always leaves its record, and
\* what the statements and the jobs come to is what has left the balance, to
\* the unit (charge_storage.py:61).
THEOREM StorageIsChargedOnce == ResourcesSpec => []StorageOnce
  <1>1. ResourcesInv => StorageOnce
    <2> SUFFICES ASSUME ResourcesInv PROVE StorageOnce
      OBVIOUS
    <2>1. statements \in [Payers -> Nat] /\ overlapped \in BOOLEAN
      BY DEF ResourcesInv, StorageInv, Storage!TypeOK
    <2>2. \A u \in Payers : (records[u] <= 1 \/ overlapped) /\ statements[u] <= MaxPaths * records[u]
      BY DEF ResourcesInv, StorageInv, StatementsBound, NightAlone
    <2>3. Storage!FoldFunction(LAMBDA x, y : x + y, 0, statements) = Sums(Payers, statements)[Payers]
      BY <2>1, FoldIsSums
    <2>4. credit = 0 - jobsBilled - Sums(Payers, statements)[Payers]
      BY DEF ResourcesInv, CreditInv
    <2> QED
      BY <2>2, <2>3, <2>4 DEF StorageOnce, Storage!StorageOnce
  <1> QED
    BY <1>1, ResourcesInvHolds, PTL
=============================================================================
