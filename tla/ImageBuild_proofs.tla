--------------------------- MODULE ImageBuild_proofs --------------------------
(***************************************************************************)
(* Proofs about ImageBuild, for any users, builds, workers and bounds.     *)
(***************************************************************************)
EXTENDS ImageBuild, TLAPS

-----------------------------------------------------------------------------
(* The inductive invariant.                                                *)

RequestRecord == [pc: RequestPcs, user: Users \cup {None}, build: Builds \cup {None}, locks: BOOLEAN]
TaskRecord == [pc: TaskPcs, outcome: {"none"} \cup Ended]

\* A build that is still to end but for the listener.
Lively == {"queued", "pool", "init", "run", "unwatched"}

\* A request that has a build: its workspace is made, then its job is added,
\* then the daemon has answered.
Posting == {"workspace", "added", "answered"}

TaskInv == \A b \in Builds :
    /\ task[b].pc \in Lively => record[b] \in Running
    /\ task[b].pc = "ended" => task[b].outcome \in Ended
    /\ b \in undelivered => task[b].pc \notin {"none", "lost"}
    /\ owner[b] = None => task[b].pc = "none"
    /\ b \in info => task[b].pc # "none"

\* A build that the listener is to end has its entry of infos, or its request
\* is about to make it; and a directory made after a run ended has the entry.
InfoInv == \A b \in Builds :
    /\ task[b].pc \in Lively \cup {"ended"} =>
         b \in info \/ \E r \in Requests : request[r].pc = "added" /\ request[r].build = b
    /\ task[b].pc = "ended" /\ task[b].outcome = "EXECUTED" /\ b \in workspace => b \in info

RequestInv == \A r \in Requests :
    /\ request[r].pc \in {"checked"} \cup Posting => request[r].user \in Users
    /\ request[r].pc \in Posting =>
         request[r].build \in Builds /\ owner[request[r].build] = request[r].user
    /\ request[r].pc = "workspace" => task[request[r].build].pc = "none"
    /\ request[r].pc \in {"added", "answered"} => task[request[r].build].pc # "none"
    /\ request[r].pc = "cancel" =>
         /\ request[r].build \in Builds
         /\ request[r].build \in info \/ task[request[r].build].pc = "over"

\* Two requests never have the same build.
OwnInv == \A r, q \in Requests :
    r # q /\ request[r].pc \in Posting /\ request[q].pc \in Posting =>
        request[r].build # request[q].build

ImageInv == \A u \in Users :
    image[u] # None => owner[image[u]] = u /\ task[image[u]].pc # "none"

\* The build of a row that a request has locked is not being built.
LockInv == \A r \in Requests :
    request[r].locks =>
        /\ request[r].pc \in {"checked"} \cup Posting
        /\ image[request[r].user] \in Builds
        /\ task[image[request[r].user]].pc \notin Lively

KnownInv == \A b \in Builds :
    task[b].pc \in Lively =>
        \/ image[owner[b]] = b
        \/ \E r \in Requests : request[r].pc \in {"added", "answered"} /\ request[r].build = b
        \/ b \in untracked

BuildInv ==
    /\ TypeOK /\ TaskInv /\ InfoInv /\ RequestInv /\ OwnInv /\ ImageInv /\ LockInv /\ KnownInv
    /\ SlotsHeld /\ WorkspacesFreed

LEMMA Typed ==
  ASSUME TypeOK
  PROVE  /\ request \in [Requests -> RequestRecord] /\ task \in [Builds -> TaskRecord]
         /\ image \in [Users -> Builds \cup {None}]
         /\ record \in [Builds -> {"none"} \cup Running \cup Ended]
         /\ owner \in [Builds -> Users \cup {None}]
  BY DEF TypeOK, RequestRecord, TaskRecord

LEMMA InitInv == BuildAssumption /\ Init => BuildInv
  <1> SUFFICES ASSUME BuildAssumption, Init PROVE BuildInv
    OBVIOUS
  <1>1. 0 \in 0 .. MaxRestarts /\ 0 \in 0 .. MaxCancels
    BY DEF BuildAssumption
  <1>2. TypeOK
    BY <1>1 DEF TypeOK, Init, IdleRequest, RequestPcs, TaskPcs
  <1>3. TaskInv /\ InfoInv /\ RequestInv /\ OwnInv /\ ImageInv /\ LockInv /\ KnownInv
    BY DEF TaskInv, InfoInv, RequestInv, OwnInv, ImageInv, LockInv, KnownInv, Init, IdleRequest,
           Lively, Posting
  <1>4. SlotsHeld /\ WorkspacesFreed
    BY DEF SlotsHeld, WorkspacesFreed, Init, Running
  <1> QED
    BY <1>2, <1>3, <1>4 DEF BuildInv

-----------------------------------------------------------------------------
(* The steps of the daemon, but for the end of a build.                    *)

\* One build goes on: from none to none, and from lively to lively or to one
\* that the listener or nobody ends.
Moves(b) ==
    /\ UNCHANGED <<image, request, counters, owner, lateCancel, untracked, info>>
    /\ task' \in [Builds -> TaskRecord]
    /\ \A c \in Builds : c # b => task'[c] = task[c] /\ record'[c] = record[c]
    /\ task[b].pc \in Lively /\ task'[b].pc \in Lively \cup {"ended", "missed"}
    /\ record' = record /\ swapped' = swapped
    /\ undelivered \subseteq undelivered' /\ undelivered' \subseteq undelivered \cup {b}
    /\ task'[b].pc = "ended" => task'[b].outcome \in Ended
    /\ task'[b].pc = "ended" /\ task'[b].outcome = "EXECUTED" => b \notin workspace'
    /\ workspace' \subseteq workspace /\ cancelFile' \subseteq workspace'

LEMMA DaemonMoves ==
  ASSUME TypeOK, NEW b \in Builds,
         Submit(b) \/ Start(b) \/ Missed(b) \/ InitDone(b) \/ InitEnds(b) \/ RunEnds(b)
  PROVE  Moves(b)
  <1> USE Typed DEF TaskStep, Lively, Ended
  <1>1. CASE Submit(b) \/ Start(b) \/ Missed(b)
    BY <1>1 DEF Moves, Submit, Start, Missed, TypeOK, TaskRecord, TaskPcs
  <1>2. CASE InitDone(b)
    BY <1>2 DEF Moves, InitDone, TypeOK, TaskRecord, TaskPcs
  <1>3. CASE InitEnds(b)
    BY <1>3 DEF Moves, InitEnds, Finish, TypeOK, TaskRecord, TaskPcs
  <1>4. CASE RunEnds(b)
    <2>1. PICK outcome \in Ended : task' = [task EXCEPT ![b] = [pc |-> "ended", outcome |-> outcome]]
      BY <1>4 DEF RunEnds, Finish
    <2> QED
      BY <1>4, <2>1 DEF Moves, RunEnds, TypeOK, TaskRecord, TaskPcs
  <1> QED
    BY <1>1, <1>2, <1>3, <1>4

LEMMA MovesInv ==
  ASSUME BuildInv, NEW b \in Builds, Moves(b)
  PROVE  BuildInv'
  <1>a. /\ TypeOK /\ TaskInv /\ InfoInv /\ RequestInv /\ OwnInv /\ ImageInv /\ LockInv /\ KnownInv
        /\ SlotsHeld /\ WorkspacesFreed
    BY DEF BuildInv
  <1>b. /\ UNCHANGED <<image, request, owner, lateCancel, untracked, info, record, swapped>>
        /\ \A c \in Builds : c # b => task'[c] = task[c]
        /\ task[b].pc \in Lively /\ task'[b].pc \in Lively \cup {"ended", "missed"}
        /\ undelivered' \subseteq undelivered \cup {b}
        /\ task'[b].pc = "ended" => task'[b].outcome \in Ended
        /\ task'[b].pc = "ended" /\ task'[b].outcome = "EXECUTED" => b \notin workspace'
        /\ workspace' \subseteq workspace
    BY DEF Moves
  <1>c. \A pc \in Lively \cup {"ended", "missed"} : pc \notin {"none", "lost", "over"}
    BY DEF Lively
  <1>1. TypeOK'
    BY <1>a DEF Moves, TypeOK, TaskRecord, counters
  <1>2. TaskInv'
    BY <1>a, <1>b, <1>c DEF TaskInv
  <1>3. InfoInv'
    BY <1>a, <1>b DEF InfoInv
  <1>4. RequestInv'
    BY <1>a, <1>b, <1>c DEF RequestInv, Posting
  <1>5. OwnInv'
    BY <1>a, <1>b DEF OwnInv
  <1>6. ImageInv'
    <2>1. \A u \in Users : image[u] # None => image[u] \in Builds
      BY <1>a, Typed
    <2> QED
      BY <1>a, <1>b, <1>c, <2>1 DEF ImageInv
  <1>7. LockInv'
    BY <1>a, <1>b DEF LockInv
  <1>8. KnownInv'
    BY <1>a, <1>b DEF KnownInv
  <1>9. SlotsHeld'
    BY <1>a, <1>b DEF SlotsHeld, Lively
  <1>10. WorkspacesFreed'
    BY <1>a, <1>b, <1>c DEF WorkspacesFreed
  <1> QED
    BY <1>1, <1>2, <1>3, <1>4, <1>5, <1>6, <1>7, <1>8, <1>9, <1>10 DEF BuildInv

LEMMA SubmittedInv ==
  ASSUME BuildInv, NEW b \in Builds, Submitted(b)
  PROVE  BuildInv'
  <1>a. /\ TypeOK /\ TaskInv /\ InfoInv /\ RequestInv /\ OwnInv /\ ImageInv /\ LockInv /\ KnownInv
        /\ SlotsHeld /\ WorkspacesFreed /\ task \in [Builds -> TaskRecord]
        /\ record \in [Builds -> {"none"} \cup Running \cup Ended]
    BY Typed DEF BuildInv
  <1>b. /\ UNCHANGED <<image, request, owner, lateCancel, untracked, info, workspace, cancelFile,
                       task, counters>>
        /\ b \in undelivered /\ undelivered' = undelivered \ {b}
        /\ record' = [record EXCEPT ![b] = "SUBMITTED"]
        /\ swapped \subseteq swapped' /\ swapped' \subseteq swapped \cup {b}
        /\ task[b].pc = "over" => b \in swapped'
    BY DEF Submitted, TaskStep
  <1>c. record'[b] = "SUBMITTED" /\ \A c \in Builds : c # b => record'[c] = record[c]
    BY <1>a, <1>b
  <1>1. TypeOK'
    BY <1>a, <1>b DEF TypeOK, Running, counters
  <1>2. TaskInv'
    BY <1>a, <1>b, <1>c DEF TaskInv, Running
  <1>3. InfoInv' /\ RequestInv' /\ OwnInv' /\ ImageInv' /\ LockInv' /\ KnownInv'
    BY <1>a, <1>b DEF InfoInv, RequestInv, OwnInv, ImageInv, LockInv, KnownInv
  <1>4. task[b].pc \in TaskPcs \ {"none", "lost"}
    BY <1>a, <1>b DEF TaskInv, TaskRecord
  <1>5. SlotsHeld'
    BY <1>a, <1>b, <1>c, <1>4 DEF SlotsHeld, TaskPcs
  <1>6. WorkspacesFreed'
    BY <1>a, <1>b DEF WorkspacesFreed
  <1> QED
    BY <1>1, <1>2, <1>3, <1>5, <1>6 DEF BuildInv

\* The listener ends a build: its entry and its directory go together.
LEMMA OverInv ==
  ASSUME BuildInv, NEW b \in Builds, Over(b)
  PROVE  BuildInv'
  <1>a. /\ TypeOK /\ TaskInv /\ InfoInv /\ RequestInv /\ OwnInv /\ ImageInv /\ LockInv /\ KnownInv
        /\ SlotsHeld /\ WorkspacesFreed /\ task \in [Builds -> TaskRecord]
        /\ record \in [Builds -> {"none"} \cup Running \cup Ended]
        /\ request \in [Requests -> RequestRecord] /\ image \in [Users -> Builds \cup {None}]
    BY Typed DEF BuildInv
  <1>b. /\ UNCHANGED <<image, request, owner, lateCancel, untracked, undelivered, swapped, counters>>
        /\ task[b].pc = "ended" /\ task' = [task EXCEPT ![b].pc = "over"]
        /\ record' = [record EXCEPT ![b] = task[b].outcome]
        /\ info' = info \ {b}
        /\ workspace' = workspace \ ({b} \cap info) /\ cancelFile' = cancelFile \ ({b} \cap info)
    BY DEF Over, TaskStep, Recorded, Removed
  <1>c. /\ task' \in [Builds -> TaskRecord] /\ task'[b].pc = "over"
        /\ task'[b].outcome = task[b].outcome
        /\ \A c \in Builds : c # b => task'[c] = task[c]
    BY <1>a, <1>b DEF TaskRecord, TaskPcs
  <1>d. /\ task[b].outcome \in Ended /\ record'[b] = task[b].outcome
        /\ \A c \in Builds : c # b => record'[c] = record[c]
        /\ record' \in [Builds -> {"none"} \cup Running \cup Ended]
    BY <1>a, <1>b DEF TaskInv
  <1>e. Ended = {"EXECUTED", "ERROR"} /\ Running = {"PENDING", "SUBMITTED"}
        /\ "ended" \notin Lively /\ "over" \notin Lively \cup {"none", "lost"}
    BY DEF Ended, Running, Lively
  <1>1. TypeOK'
    BY <1>a, <1>b, <1>c, <1>d DEF TypeOK, TaskRecord, counters
  <1>2. TaskInv'
    BY <1>a, <1>b, <1>c, <1>d, <1>e DEF TaskInv
  <1>3. InfoInv'
    BY <1>a, <1>b, <1>c, <1>e DEF InfoInv
  <1>4. RequestInv'
    BY <1>a, <1>b, <1>c, <1>e DEF RequestInv, Posting
  <1>5. OwnInv'
    BY <1>a, <1>b DEF OwnInv
  <1>6. ImageInv' /\ LockInv'
    BY <1>a, <1>b, <1>c, <1>e DEF ImageInv, LockInv
  <1>7. KnownInv'
    BY <1>a, <1>b, <1>c, <1>e DEF KnownInv
  <1>8. SlotsHeld'
    BY <1>a, <1>b, <1>c, <1>d, <1>e DEF SlotsHeld
  <1>9. WorkspacesFreed'
    <2>1. \A c \in Builds : c # b => (c \in workspace' => c \in workspace) /\ (c \in info' <=> c \in info)
      BY <1>b
    <2>2. b \in workspace' => /\ task[b].outcome = "ERROR"
                              /\ \E r \in Requests : request[r].pc = "added" /\ request[r].build = b
      BY <1>a, <1>b, <1>d, <1>e DEF InfoInv
    <2> QED
      BY <1>a, <1>b, <1>c, <2>1, <2>2 DEF WorkspacesFreed
  <1> QED
    BY <1>1, <1>2, <1>3, <1>4, <1>5, <1>6, <1>7, <1>8, <1>9 DEF BuildInv

\* A restart leaves no build to end, and no request that waits for the daemon.
LEMMA RestartInv ==
  ASSUME BuildAssumption, BuildInv, Restart
  PROVE  BuildInv'
  <1>a. /\ TypeOK /\ TaskInv /\ InfoInv /\ RequestInv /\ OwnInv /\ ImageInv /\ LockInv /\ KnownInv
        /\ SlotsHeld /\ WorkspacesFreed /\ task \in [Builds -> TaskRecord]
        /\ request \in [Requests -> RequestRecord] /\ image \in [Users -> Builds \cup {None}]
    BY Typed DEF BuildInv
  <1>b. /\ UNCHANGED <<image, workspace, cancelFile, owner, lateCancel, untracked, swapped, cancels>>
        /\ record' = [b \in Builds |-> "none"] /\ info' = {} /\ undelivered' = {}
        /\ task' = [b \in Builds |-> IF task[b].pc = "none" THEN task[b]
                                     ELSE [task[b] EXCEPT !.pc = "lost"]]
        /\ request' = [r \in Requests |->
              IF request[r].pc \in {"workspace", "added", "cancel"} THEN IdleRequest ELSE request[r]]
        /\ restarts < MaxRestarts /\ restarts' = restarts + 1
    BY DEF Restart, history
  <1>c. \A b \in Builds : /\ task'[b] \in TaskRecord /\ task'[b].pc \in {"none", "lost"}
                          /\ task'[b].pc = "none" <=> task[b].pc = "none"
    <2> TAKE b \in Builds
    <2>1. CASE task[b].pc = "none"
      BY <1>a, <1>b, <2>1
    <2>2. CASE task[b].pc # "none"
      <3>1. task'[b] = [task[b] EXCEPT !.pc = "lost"]
        BY <1>b, <2>2
      <3> QED
        BY <1>a, <2>2, <3>1 DEF TaskRecord, TaskPcs
    <2> QED
      BY <2>1, <2>2
  <1>d. IdleRequest \in RequestRecord /\ IdleRequest.pc = "idle" /\ ~IdleRequest.locks
    BY DEF IdleRequest, RequestRecord, RequestPcs
  <1>e. \A r \in Requests : \/ request'[r] = IdleRequest
                            \/ request'[r] = request[r]
                               /\ request[r].pc \notin {"workspace", "added", "cancel"}
    BY <1>b
  <1>f. task' \in [Builds -> TaskRecord] /\ request' \in [Requests -> RequestRecord]
    <2>1. \A r \in Requests : request'[r] \in RequestRecord
      BY <1>a, <1>d, <1>e
    <2> QED
      BY <1>b, <1>c, <2>1
  <1>1. TypeOK'
    <2>1. restarts' \in 0 .. MaxRestarts
      BY <1>a, <1>b DEF TypeOK, BuildAssumption
    <2> QED
      BY <1>a, <1>b, <1>f, <2>1 DEF TypeOK, TaskRecord, RequestRecord
  <1>2. TaskInv'
    BY <1>a, <1>b, <1>c DEF TaskInv, Lively
  <1>3. InfoInv' /\ KnownInv'
    BY <1>c DEF InfoInv, KnownInv, Lively
  <1>4. RequestInv'
    BY <1>a, <1>b, <1>c, <1>d, <1>e DEF RequestInv, Posting
  <1>5. OwnInv'
    BY <1>a, <1>d, <1>e DEF OwnInv, Posting
  <1>6. ImageInv'
    BY <1>a, <1>b, <1>c DEF ImageInv
  <1>7. LockInv'
    BY <1>a, <1>b, <1>c, <1>d, <1>e DEF LockInv, Posting, Lively
  <1>8. SlotsHeld' /\ WorkspacesFreed'
    BY <1>b, <1>c DEF SlotsHeld, WorkspacesFreed, Running
  <1> QED
    BY <1>1, <1>2, <1>3, <1>4, <1>5, <1>6, <1>7, <1>8 DEF BuildInv

-----------------------------------------------------------------------------
(* The requests.                                                           *)

\* The record of one request changes.
LEMMA Replaced ==
  ASSUME request \in [Requests -> RequestRecord], NEW r \in Requests, NEW rec \in RequestRecord,
         request' = [request EXCEPT ![r] = rec]
  PROVE  /\ request' \in [Requests -> RequestRecord] /\ request'[r] = rec
         /\ \A q \in Requests : q # r => request'[q] = request[q]
  OBVIOUS

LEMMA GotoFacts ==
  ASSUME request \in [Requests -> RequestRecord], NEW r \in Requests,
         NEW pc \in {"added", "answered"}, Goto(r, pc)
  PROVE  /\ request' \in [Requests -> RequestRecord]
         /\ request'[r].pc = pc /\ request'[r].user = request[r].user
         /\ request'[r].build = request[r].build /\ request'[r].locks = request[r].locks
         /\ \A q \in Requests : q # r => request'[q] = request[q]
  <1> DEFINE rec == [request[r] EXCEPT !.pc = pc]
  <1>1. /\ rec \in RequestRecord /\ rec.pc = pc /\ rec.user = request[r].user
        /\ rec.build = request[r].build /\ rec.locks = request[r].locks
    BY DEF RequestRecord, RequestPcs
  <1>2. request' = [request EXCEPT ![r] = rec]
    BY DEF Goto
  <1> HIDE DEF rec
  <1> QED
    BY <1>1, <1>2, Replaced

LEMMA ReturnFacts ==
  ASSUME request \in [Requests -> RequestRecord], NEW r \in Requests, Return(r)
  PROVE  /\ request' \in [Requests -> RequestRecord]
         /\ request'[r].pc = "idle" /\ ~request'[r].locks
         /\ \A q \in Requests : q # r => request'[q] = request[q]
  <1>1. IdleRequest \in RequestRecord /\ IdleRequest.pc = "idle" /\ ~IdleRequest.locks
    BY DEF IdleRequest, RequestRecord, RequestPcs
  <1> QED
    BY <1>1, Replaced DEF Return

\* A request ends; its build, if it was added, is untracked.
LEMMA ReturnInv ==
  ASSUME BuildInv, NEW r \in Requests, Return(r), request[r].pc # "added",
         UNCHANGED <<image, daemon, counters, owner, swapped, lateCancel>>,
         untracked \subseteq untracked', untracked' \subseteq Builds,
         request[r].pc = "answered" => request[r].build \in untracked'
  PROVE  BuildInv'
  <1>a. /\ TypeOK /\ TaskInv /\ InfoInv /\ RequestInv /\ OwnInv /\ ImageInv /\ LockInv /\ KnownInv
        /\ SlotsHeld /\ WorkspacesFreed /\ request \in [Requests -> RequestRecord]
    BY Typed DEF BuildInv
  <1>b. /\ request' \in [Requests -> RequestRecord]
        /\ request'[r].pc = "idle" /\ ~request'[r].locks
        /\ \A q \in Requests : q # r => request'[q] = request[q]
    BY <1>a, ReturnFacts
  <1>c. UNCHANGED <<image, record, info, workspace, cancelFile, task, undelivered,
                    restarts, cancels, owner, swapped, lateCancel>>
    BY DEF daemon, counters
  <1>1. TypeOK'
    BY <1>a, <1>b, <1>c DEF TypeOK, RequestRecord
  <1>2. TaskInv' /\ ImageInv' /\ SlotsHeld'
    BY <1>a, <1>c DEF TaskInv, ImageInv, SlotsHeld
  <1>3. InfoInv' /\ WorkspacesFreed'
    BY <1>a, <1>b, <1>c DEF InfoInv, WorkspacesFreed
  <1>4. RequestInv'
    BY <1>a, <1>b, <1>c DEF RequestInv, Posting
  <1>5. OwnInv'
    BY <1>a, <1>b DEF OwnInv, Posting
  <1>6. LockInv'
    BY <1>a, <1>b, <1>c DEF LockInv
  <1>7. KnownInv'
    BY <1>a, <1>b, <1>c DEF KnownInv
  <1> QED
    BY <1>1, <1>2, <1>3, <1>4, <1>5, <1>6, <1>7 DEF BuildInv

LEMMA CheckInv ==
  ASSUME BuildAssumption, BuildInv, NEW r \in Requests, NEW u \in Users, PostCheck(r, u)
  PROVE  BuildInv'
  <1>a. /\ TypeOK /\ TaskInv /\ InfoInv /\ RequestInv /\ OwnInv /\ ImageInv /\ LockInv /\ KnownInv
        /\ SlotsHeld /\ WorkspacesFreed /\ request \in [Requests -> RequestRecord]
        /\ image \in [Users -> Builds \cup {None}]
    BY Typed DEF BuildInv
  <1> DEFINE rec == [pc |-> "checked", user |-> u, build |-> None, locks |-> image[u] # None]
  <1>1. /\ rec \in RequestRecord /\ rec.pc = "checked" /\ rec.user = u
        /\ rec.locks = (image[u] # None)
    BY DEF RequestRecord, RequestPcs
  <1>2. /\ request' = [request EXCEPT ![r] = rec] /\ request[r].pc = "idle"
        /\ image[u] # None => ~Building(image[u])
        /\ UNCHANGED <<image, record, info, workspace, cancelFile, task, undelivered,
                       restarts, cancels, owner, swapped, lateCancel, untracked>>
    BY DEF PostCheck, daemon, counters, history
  <1> HIDE DEF rec
  <1>3. /\ request' \in [Requests -> RequestRecord] /\ request'[r] = rec
        /\ \A q \in Requests : q # r => request'[q] = request[q]
    BY <1>a, <1>1, <1>2, Replaced
  <1>4. image[u] # None => image[u] \in Builds /\ task[image[u]].pc \notin Lively
    BY <1>a, <1>2 DEF Building, TaskInv
  <1>5. TypeOK'
    BY <1>a, <1>2, <1>3 DEF TypeOK, RequestRecord
  <1>6. TaskInv' /\ ImageInv' /\ SlotsHeld'
    BY <1>a, <1>2 DEF TaskInv, ImageInv, SlotsHeld
  <1>7. InfoInv' /\ WorkspacesFreed' /\ KnownInv'
    BY <1>a, <1>2, <1>3 DEF InfoInv, WorkspacesFreed, KnownInv
  <1>8. RequestInv'
    BY <1>a, <1>1, <1>2, <1>3 DEF RequestInv, Posting
  <1>9. OwnInv'
    BY <1>a, <1>1, <1>3 DEF OwnInv, Posting
  <1>10. LockInv'
    BY <1>a, <1>1, <1>2, <1>3, <1>4 DEF LockInv
  <1> QED
    BY <1>5, <1>6, <1>7, <1>8, <1>9, <1>10 DEF BuildInv

\* A build is new when its workspace is made.
LEMMA WorkspaceInv ==
  ASSUME BuildAssumption, BuildInv, NEW r \in Requests, PostWorkspace(r)
  PROVE  BuildInv'
  <1>a. /\ TypeOK /\ TaskInv /\ InfoInv /\ RequestInv /\ OwnInv /\ ImageInv /\ LockInv /\ KnownInv
        /\ SlotsHeld /\ WorkspacesFreed /\ request \in [Requests -> RequestRecord]
        /\ owner \in [Builds -> Users \cup {None}] /\ image \in [Users -> Builds \cup {None}]
    BY Typed DEF BuildInv
  <1>0. /\ request[r].pc = "checked" /\ request[r].user \in Users
        /\ UNCHANGED <<image, record, info, cancelFile, task, undelivered, restarts, cancels, swapped,
                       lateCancel, untracked>>
    BY <1>a DEF PostWorkspace, counters, RequestInv
  <1>1. CASE Full
    <2>1. Return(r) /\ UNCHANGED <<workspace, owner>>
      BY <1>1 DEF PostWorkspace
    <2> QED
      BY <1>a, <1>0, <2>1, ReturnInv DEF daemon, counters, TypeOK
  <1>2. CASE ~Full
    <2>1. PICK b \in Builds :
             /\ owner[b] = None /\ owner' = [owner EXCEPT ![b] = request[r].user]
             /\ workspace' = workspace \cup {b}
             /\ request' = [request EXCEPT ![r].pc = "workspace", ![r].build = b]
      BY <1>2 DEF PostWorkspace
    <2> DEFINE rec == [request[r] EXCEPT !.pc = "workspace", !.build = b]
    <2>2. /\ rec \in RequestRecord /\ rec.pc = "workspace" /\ rec.user = request[r].user
          /\ rec.build = b /\ rec.locks = request[r].locks
      BY <1>a DEF RequestRecord, RequestPcs
    <2>3. request' = [request EXCEPT ![r] = rec]
      BY <1>a, <2>1 DEF RequestRecord
    <2> HIDE DEF rec
    <2>4. /\ request' \in [Requests -> RequestRecord] /\ request'[r] = rec
          /\ \A q \in Requests : q # r => request'[q] = request[q]
      BY <1>a, <2>2, <2>3, Replaced
    <2>5. /\ owner' \in [Builds -> Users \cup {None}] /\ owner'[b] = request[r].user
          /\ \A c \in Builds : c # b => owner'[c] = owner[c]
          /\ task[b].pc = "none" /\ b \notin info
      BY <1>a, <1>0, <2>1 DEF TaskInv
    <2>6. \A c \in Builds : owner[c] # None => c # b
      BY <2>1
    <2>7. None \notin Users
      BY DEF BuildAssumption
    <2>8. TypeOK'
      BY <1>a, <1>0, <2>1, <2>4, <2>5 DEF TypeOK, RequestRecord
    <2>9. TaskInv'
      BY <1>a, <1>0, <2>5, <2>7 DEF TaskInv
    <2>10. InfoInv'
      BY <1>a, <1>0, <2>1, <2>2, <2>4, <2>5 DEF InfoInv, Lively
    <2>11. RequestInv'
      BY <1>a, <1>0, <2>1, <2>2, <2>4, <2>5, <2>7 DEF RequestInv, Posting
    <2>12. OwnInv'
      BY <1>a, <1>0, <2>1, <2>2, <2>4, <2>7 DEF OwnInv, RequestInv, Posting
    <2>13. ImageInv'
      BY <1>a, <1>0, <2>1, <2>5, <2>7 DEF ImageInv
    <2>14. LockInv'
      BY <1>a, <1>0, <2>2, <2>4 DEF LockInv, Posting
    <2>15. KnownInv'
      BY <1>a, <1>0, <2>2, <2>4, <2>5 DEF KnownInv, Lively
    <2>16. SlotsHeld'
      BY <1>a, <1>0 DEF SlotsHeld
    <2>17. WorkspacesFreed'
      BY <1>a, <1>0, <2>1, <2>2, <2>4, <2>5 DEF WorkspacesFreed
    <2> QED
      BY <2>8, <2>9, <2>10, <2>11, <2>12, <2>13, <2>14, <2>15, <2>16, <2>17 DEF BuildInv
  <1> QED
    BY <1>1, <1>2

\* The job is added: the build is lively from here on.
LEMMA AddInv ==
  ASSUME BuildAssumption, BuildInv, NEW r \in Requests, PostAdd(r)
  PROVE  BuildInv'
  <1>a. /\ TypeOK /\ TaskInv /\ InfoInv /\ RequestInv /\ OwnInv /\ ImageInv /\ LockInv /\ KnownInv
        /\ SlotsHeld /\ WorkspacesFreed /\ request \in [Requests -> RequestRecord]
        /\ task \in [Builds -> TaskRecord] /\ image \in [Users -> Builds \cup {None}]
        /\ record \in [Builds -> {"none"} \cup Running \cup Ended]
    BY Typed DEF BuildInv
  <1>b. PICK b \in Builds : b = request[r].build
    BY <1>a DEF PostAdd, RequestInv, Posting
  <1>0. /\ request[r].pc = "workspace" /\ task[b].pc = "none" /\ owner[b] = request[r].user
        /\ request[r].user \in Users
        /\ UNCHANGED <<image, info, workspace, cancelFile, undelivered, restarts, cancels,
                       owner, swapped, lateCancel, untracked>>
    BY <1>a, <1>b DEF PostAdd, counters, history, RequestInv, Posting
  <1>1. CASE Full
    <2>1. Return(r) /\ UNCHANGED <<record, task>>
      BY <1>1 DEF PostAdd
    <2> QED
      BY <1>a, <1>0, <2>1, ReturnInv DEF daemon, counters, TypeOK
  <1>2. CASE ~Full
    <2>1. /\ record' = [record EXCEPT ![b] = "PENDING"]
          /\ task' = [task EXCEPT ![b].pc = "queued"]
          /\ Goto(r, "added")
      BY <1>b, <1>2 DEF PostAdd
    <2>2. /\ request' \in [Requests -> RequestRecord]
          /\ request'[r].pc = "added" /\ request'[r].user = request[r].user
          /\ request'[r].build = b /\ request'[r].locks = request[r].locks
          /\ \A q \in Requests : q # r => request'[q] = request[q]
      BY <1>a, <1>b, <2>1, GotoFacts
    <2>3. /\ task' \in [Builds -> TaskRecord] /\ task'[b].pc = "queued"
          /\ record'[b] = "PENDING"
          /\ record' \in [Builds -> {"none"} \cup Running \cup Ended]
          /\ \A c \in Builds : c # b => task'[c] = task[c] /\ record'[c] = record[c]
      BY <1>a, <2>1 DEF TaskRecord, TaskPcs, Running
    <2>4. \A q \in Requests : q # r /\ request[q].pc \in Posting => request[q].build # b
      BY <1>a, <1>b, <1>0 DEF OwnInv, Posting
    <2>5. b \notin info /\ b \notin undelivered /\ \A u \in Users : image[u] # None => image[u] # b
      BY <1>a, <1>0 DEF TaskInv, ImageInv
    <2>6. None \notin Users
      BY DEF BuildAssumption
    <2>7. "PENDING" \in Running /\ "queued" \in Lively /\ "queued" \notin {"none", "lost", "ended", "over"}
      BY DEF Running, Lively
    <2>8. TypeOK'
      BY <1>a, <1>0, <2>2, <2>3 DEF TypeOK, RequestRecord, TaskRecord
    <2>9. TaskInv'
      BY <1>a, <1>0, <2>3, <2>6, <2>7 DEF TaskInv
    <2>10. InfoInv'
      BY <1>a, <1>0, <2>2, <2>3, <2>7 DEF InfoInv
    <2>11. RequestInv'
      BY <1>a, <1>0, <2>2, <2>3, <2>4, <2>5, <2>7 DEF RequestInv, Posting
    <2>12. OwnInv'
      BY <1>a, <1>b, <1>0, <2>2 DEF OwnInv, Posting
    <2>13. ImageInv'
      BY <1>a, <1>0, <2>3, <2>5 DEF ImageInv
    <2>14. LockInv'
      <3> SUFFICES ASSUME NEW q \in Requests, request'[q].locks
                   PROVE  /\ request'[q].pc \in {"checked"} \cup Posting
                          /\ image[request'[q].user] \in Builds
                          /\ task'[image[request'[q].user]].pc \notin Lively
        BY <1>0 DEF LockInv
      <3>1. request[q].locks /\ request'[q].user = request[q].user
        BY <2>2
      <3>2. /\ request[q].pc \in {"checked"} \cup Posting
            /\ image[request[q].user] \in Builds
            /\ task[image[request[q].user]].pc \notin Lively
        BY <1>a, <3>1 DEF LockInv
      <3>3. request[q].user \in Users /\ None \notin Builds
        BY <1>a, <3>2 DEF RequestInv, BuildAssumption
      <3>4. image[request[q].user] # b
        BY <2>5, <3>2, <3>3
      <3>5. request'[q].pc \in {"checked"} \cup Posting
        BY <2>2, <3>2 DEF Posting
      <3> QED
        BY <2>3, <3>1, <3>2, <3>4, <3>5
    <2>15. KnownInv'
      BY <1>a, <1>0, <2>2, <2>3 DEF KnownInv
    <2>16. SlotsHeld'
      BY <1>a, <1>0, <2>3 DEF SlotsHeld
    <2>17. WorkspacesFreed'
      BY <1>a, <1>0, <2>2, <2>3, <2>7 DEF WorkspacesFreed
    <2> QED
      BY <2>8, <2>9, <2>10, <2>11, <2>12, <2>13, <2>14, <2>15, <2>16, <2>17 DEF BuildInv
  <1> QED
    BY <1>1, <1>2

LEMMA InfoStepInv ==
  ASSUME BuildAssumption, BuildInv, NEW r \in Requests, PostInfo(r)
  PROVE  BuildInv'
  <1>a. /\ TypeOK /\ TaskInv /\ InfoInv /\ RequestInv /\ OwnInv /\ ImageInv /\ LockInv /\ KnownInv
        /\ SlotsHeld /\ WorkspacesFreed /\ request \in [Requests -> RequestRecord]
    BY Typed DEF BuildInv
  <1>b. PICK b \in Builds : b = request[r].build
    BY <1>a DEF PostInfo, RequestInv, Posting
  <1>0. /\ request[r].pc = "added" /\ task[b].pc # "none" /\ info' = info \cup {b}
        /\ Goto(r, "answered")
        /\ UNCHANGED <<image, record, workspace, cancelFile, task, undelivered, restarts, cancels,
                       owner, swapped, lateCancel, untracked>>
    BY <1>a, <1>b DEF PostInfo, counters, history, RequestInv, Posting
  <1>1. /\ request' \in [Requests -> RequestRecord]
        /\ request'[r].pc = "answered" /\ request'[r].user = request[r].user
        /\ request'[r].build = b /\ request'[r].locks = request[r].locks
        /\ \A q \in Requests : q # r => request'[q] = request[q]
    BY <1>a, <1>b, <1>0, GotoFacts
  <1>2. TypeOK'
    BY <1>a, <1>0, <1>1 DEF TypeOK, RequestRecord
  <1>3. TaskInv' /\ ImageInv' /\ SlotsHeld'
    BY <1>a, <1>0 DEF TaskInv, ImageInv, SlotsHeld
  <1>4. InfoInv'
    BY <1>a, <1>b, <1>0, <1>1 DEF InfoInv
  <1>5. RequestInv'
    BY <1>a, <1>b, <1>0, <1>1 DEF RequestInv, Posting
  <1>6. OwnInv'
    BY <1>a, <1>b, <1>0, <1>1 DEF OwnInv, Posting
  <1>7. LockInv'
    BY <1>a, <1>0, <1>1 DEF LockInv, Posting
  <1>8. KnownInv'
    BY <1>a, <1>b, <1>0, <1>1 DEF KnownInv
  <1>9. WorkspacesFreed'
    BY <1>a, <1>b, <1>0, <1>1 DEF WorkspacesFreed
  <1> QED
    BY <1>2, <1>3, <1>4, <1>5, <1>6, <1>7, <1>8, <1>9 DEF BuildInv

\* The row names the build: the one it named before is not being built when the
\* request has locked the row, and untracked when it has not.
LEMMA SaveInv ==
  ASSUME BuildAssumption, BuildInv, NEW r \in Requests, PostSave(r)
  PROVE  BuildInv'
  <1>a. /\ TypeOK /\ TaskInv /\ InfoInv /\ RequestInv /\ OwnInv /\ ImageInv /\ LockInv /\ KnownInv
        /\ SlotsHeld /\ WorkspacesFreed /\ request \in [Requests -> RequestRecord]
        /\ image \in [Users -> Builds \cup {None}] /\ owner \in [Builds -> Users \cup {None}]
        /\ task \in [Builds -> TaskRecord]
    BY Typed DEF BuildInv
  <1>b. PICK b \in Builds : b = request[r].build
    BY <1>a DEF PostSave, RequestInv, Posting
  <1>c. PICK u \in Users : u = request[r].user
    BY <1>a DEF PostSave, RequestInv, Posting
  <1>0. /\ request[r].pc = "answered" /\ task[b].pc # "none" /\ owner[b] = u
        /\ ~LockedBy(u, Requests \ {r})
        /\ untracked' = IF image[u] # None /\ ~request[r].locks
                        THEN untracked \cup {image[u]} ELSE untracked
        /\ image' = [image EXCEPT ![u] = b]
        /\ Return(r)
        /\ UNCHANGED <<record, info, workspace, cancelFile, task, undelivered, restarts, cancels,
                       owner, swapped, lateCancel>>
    BY <1>a, <1>b, <1>c DEF PostSave, Named, daemon, counters, RequestInv, Posting
  <1>1. /\ request' \in [Requests -> RequestRecord]
        /\ request'[r].pc = "idle" /\ ~request'[r].locks
        /\ \A q \in Requests : q # r => request'[q] = request[q]
    BY <1>a, <1>0, ReturnFacts
  <1>2. /\ image' \in [Users -> Builds \cup {None}] /\ image'[u] = b
        /\ \A w \in Users : w # u => image'[w] = image[w]
    BY <1>a, <1>0
  <1>3. untracked \subseteq untracked' /\ untracked' \subseteq Builds
    BY <1>a, <1>0 DEF TypeOK
  <1>4. TypeOK'
    BY <1>a, <1>0, <1>1, <1>2, <1>3 DEF TypeOK, RequestRecord
  <1>5. TaskInv' /\ SlotsHeld'
    BY <1>a, <1>0 DEF TaskInv, SlotsHeld
  <1>6. InfoInv' /\ WorkspacesFreed'
    BY <1>a, <1>0, <1>1 DEF InfoInv, WorkspacesFreed
  <1>7. RequestInv'
    BY <1>a, <1>0, <1>1 DEF RequestInv, Posting
  <1>8. OwnInv'
    BY <1>a, <1>1 DEF OwnInv, Posting
  <1>9. ImageInv'
    BY <1>a, <1>0, <1>2 DEF ImageInv
  <1>10. LockInv'
    <2> SUFFICES ASSUME NEW q \in Requests, request'[q].locks
                 PROVE  /\ request'[q].pc \in {"checked"} \cup Posting
                        /\ image'[request'[q].user] \in Builds
                        /\ task[image'[request'[q].user]].pc \notin Lively
      BY <1>0 DEF LockInv
    <2>1. q # r /\ request'[q] = request[q]
      BY <1>1
    <2>2. /\ request[q].pc \in {"checked"} \cup Posting
          /\ image[request[q].user] \in Builds
          /\ task[image[request[q].user]].pc \notin Lively
      BY <1>a, <2>1 DEF LockInv
    <2>3. request[q].user # u
      BY <1>0, <2>1 DEF LockedBy
    <2>4. request[q].user \in Users
      BY <1>a, <2>2 DEF RequestInv
    <2> QED
      BY <1>2, <2>1, <2>2, <2>3, <2>4
  <1>11. KnownInv'
    <2> SUFFICES ASSUME NEW c \in Builds, task[c].pc \in Lively
                 PROVE  \/ image'[owner[c]] = c
                        \/ \E q \in Requests :
                             request'[q].pc \in {"added", "answered"} /\ request'[q].build = c
                        \/ c \in untracked'
      BY <1>0 DEF KnownInv
    <2>1. owner[c] \in Users /\ None \notin Builds
      BY <1>a DEF TaskInv, Lively, BuildAssumption
    <2>2. CASE c = b
      BY <1>0, <1>2, <2>2
    <2>3. CASE c # b /\ image[owner[c]] = c
      <3>1. CASE owner[c] # u
        BY <1>2, <2>1, <2>3, <3>1
      <3>2. CASE owner[c] = u
        <4>1. image[u] = c /\ image[u] # None
          BY <2>1, <2>3, <3>2
        <4>2. ~request[r].locks
          BY <1>a, <1>c, <4>1 DEF LockInv
        <4> QED
          BY <1>0, <4>1, <4>2
      <3> QED
        BY <3>1, <3>2
    <2>4. CASE c \in untracked
      BY <1>3, <2>4
    <2>5. CASE c # b /\ \E q \in Requests :
                 request[q].pc \in {"added", "answered"} /\ request[q].build = c
      BY <1>b, <1>1, <2>5
    <2> QED
      BY <1>a, <2>2, <2>3, <2>4, <2>5 DEF KnownInv
  <1> QED
    BY <1>4, <1>5, <1>6, <1>7, <1>8, <1>9, <1>10, <1>11 DEF BuildInv

LEMMA UnansweredInv ==
  ASSUME BuildInv, NEW r \in Requests, PostUnanswered(r)
  PROVE  BuildInv'
  <1>1. request[r].pc = "answered" /\ request[r].build \in Builds /\ untracked \subseteq Builds
    BY DEF BuildInv, PostUnanswered, RequestInv, Posting, TypeOK
  <1> QED
    BY <1>1, ReturnInv DEF PostUnanswered

\* A cancellation is for a build whose entry exists, or that was over since.
LEMMA LookInv ==
  ASSUME BuildAssumption, BuildInv, NEW r \in Requests, NEW u \in Users, CancelLook(r, u)
  PROVE  BuildInv'
  <1>a. /\ TypeOK /\ TaskInv /\ InfoInv /\ RequestInv /\ OwnInv /\ ImageInv /\ LockInv /\ KnownInv
        /\ SlotsHeld /\ WorkspacesFreed /\ request \in [Requests -> RequestRecord]
    BY Typed DEF BuildInv
  <1> DEFINE rec == [pc |-> "cancel", user |-> u, build |-> image[u], locks |-> FALSE]
  <1>0. /\ request[r].pc = "idle" /\ image[u] \in info /\ image[u] \in Builds
        /\ cancels < MaxCancels /\ cancels' = cancels + 1
        /\ request' = [request EXCEPT ![r] = rec]
        /\ UNCHANGED <<image, record, info, workspace, cancelFile, task, undelivered, restarts,
                       owner, swapped, lateCancel, untracked>>
    BY <1>a DEF CancelLook, daemon, history, TypeOK
  <1>1. rec \in RequestRecord /\ rec.pc = "cancel" /\ rec.build = image[u] /\ ~rec.locks
    BY <1>0 DEF RequestRecord, RequestPcs
  <1> HIDE DEF rec
  <1>2. /\ request' \in [Requests -> RequestRecord] /\ request'[r] = rec
        /\ \A q \in Requests : q # r => request'[q] = request[q]
    BY <1>a, <1>0, <1>1, Replaced
  <1>3. TypeOK'
    <2>1. cancels' \in 0 .. MaxCancels
      BY <1>a, <1>0 DEF TypeOK, BuildAssumption
    <2> QED
      BY <1>a, <1>0, <1>2, <2>1 DEF TypeOK, RequestRecord
  <1>4. TaskInv' /\ ImageInv' /\ SlotsHeld'
    BY <1>a, <1>0 DEF TaskInv, ImageInv, SlotsHeld
  <1>5. InfoInv' /\ WorkspacesFreed' /\ KnownInv'
    BY <1>a, <1>0, <1>2 DEF InfoInv, WorkspacesFreed, KnownInv
  <1>6. RequestInv'
    BY <1>a, <1>0, <1>1, <1>2 DEF RequestInv, Posting
  <1>7. OwnInv' /\ LockInv'
    BY <1>a, <1>0, <1>1, <1>2 DEF OwnInv, LockInv, Posting
  <1> QED
    BY <1>3, <1>4, <1>5, <1>6, <1>7 DEF BuildInv

LEMMA WriteInv ==
  ASSUME BuildAssumption, BuildInv, NEW r \in Requests, CancelWrite(r)
  PROVE  BuildInv'
  <1>a. /\ TypeOK /\ TaskInv /\ InfoInv /\ RequestInv /\ OwnInv /\ ImageInv /\ LockInv /\ KnownInv
        /\ SlotsHeld /\ WorkspacesFreed /\ request \in [Requests -> RequestRecord]
    BY Typed DEF BuildInv
  <1>b. PICK b \in Builds : b = request[r].build
    BY <1>a DEF CancelWrite, RequestInv
  <1>0. /\ request[r].pc = "cancel" /\ (b \in info \/ task[b].pc = "over")
        /\ workspace' = workspace \cup {b} /\ cancelFile' = cancelFile \cup {b}
        /\ lateCancel' = IF task[b].pc = "over" THEN lateCancel \cup {b} ELSE lateCancel
        /\ Return(r)
        /\ UNCHANGED <<image, record, info, task, undelivered, restarts, cancels, owner, swapped,
                       untracked>>
    BY <1>a, <1>b DEF CancelWrite, RequestInv, counters
  <1>1. /\ request' \in [Requests -> RequestRecord]
        /\ request'[r].pc = "idle" /\ ~request'[r].locks
        /\ \A q \in Requests : q # r => request'[q] = request[q]
    BY <1>a, <1>0, ReturnFacts
  <1>2. TypeOK'
    BY <1>a, <1>0, <1>1 DEF TypeOK, RequestRecord
  <1>3. TaskInv' /\ ImageInv' /\ SlotsHeld'
    BY <1>a, <1>0 DEF TaskInv, ImageInv, SlotsHeld
  <1>4. InfoInv'
    BY <1>a, <1>0, <1>1 DEF InfoInv
  <1>5. WorkspacesFreed'
    BY <1>a, <1>0, <1>1 DEF WorkspacesFreed
  <1>6. KnownInv'
    BY <1>a, <1>0, <1>1 DEF KnownInv
  <1>7. RequestInv'
    BY <1>a, <1>0, <1>1 DEF RequestInv, Posting
  <1>8. OwnInv' /\ LockInv'
    BY <1>a, <1>0, <1>1 DEF OwnInv, LockInv, Posting
  <1> QED
    BY <1>2, <1>3, <1>4, <1>5, <1>6, <1>7, <1>8 DEF BuildInv

-----------------------------------------------------------------------------
(* The properties.                                                         *)

LEMMA StepInv == BuildAssumption /\ BuildInv /\ [Next]_buildVars => BuildInv'
  <1> SUFFICES ASSUME BuildAssumption, BuildInv, [Next]_buildVars PROVE BuildInv'
    OBVIOUS
  <1>1. CASE UNCHANGED buildVars
    BY <1>1 DEF BuildInv, TypeOK, TaskInv, InfoInv, RequestInv, OwnInv, ImageInv, LockInv, KnownInv,
                SlotsHeld, WorkspacesFreed, buildVars, daemon, counters, history
  <1>2. ASSUME NEW b \in Builds, Daemon(b) PROVE BuildInv'
    BY <1>2, DaemonMoves, MovesInv, SubmittedInv, OverInv DEF Daemon, BuildInv
  <1>3. ASSUME NEW r \in Requests, Request(r) \/ PostUnanswered(r) PROVE BuildInv'
    BY <1>3, WorkspaceInv, AddInv, InfoStepInv, SaveInv, WriteInv, UnansweredInv DEF Request
  <1> QED
    BY <1>1, <1>2, <1>3, CheckInv, LookInv, RestartInv DEF Next

\* Every variable has its type.
THEOREM TypeCorrect ==
  ASSUME BuildAssumption
  PROVE  Spec => []TypeOK
  <1>1. BuildInv => TypeOK
    BY DEF BuildInv
  <1> QED
    BY <1>1, InitInv, StepInv, PTL DEF Spec

\* A slot is held only by a build that is still to end, but for the two ways to
\* lose one for good: an event that overtakes another, and a job dropped while
\* it waits for a thread (manager.py:99).
THEOREM SlotsAreHeld ==
  ASSUME BuildAssumption
  PROVE  Spec => []SlotsHeld
  <1>1. BuildInv => SlotsHeld
    BY DEF BuildInv
  <1> QED
    BY <1>1, InitInv, StepInv, PTL DEF Spec

\* A build that is over leaves no directory, but for a late cancellation or an
\* entry of infos made too late (manager.py:72, manager.py:83).
THEOREM WorkspacesAreFreed ==
  ASSUME BuildAssumption
  PROVE  Spec => []WorkspacesFreed
  <1>1. BuildInv => WorkspacesFreed
    BY DEF BuildInv
  <1> QED
    BY <1>1, InitInv, StepInv, PTL DEF Spec

\* A build that runs is the one its user's row names, or that of a request
\* under way, or one that the row lost (build.py:353).
THEOREM BuildsAreKnown ==
  ASSUME BuildAssumption
  PROVE  Spec => []KnownBuilds
  <1>1. BuildInv => KnownBuilds
    BY DEF BuildInv, KnownInv, KnownBuilds, Lively
  <1> QED
    BY <1>1, InitInv, StepInv, PTL DEF Spec
===============================================================================
