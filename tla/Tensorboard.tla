------------------------------ MODULE Tensorboard -----------------------------
(***************************************************************************)
(* The tensorboards of one user and one log directory: jobs that the view  *)
(* submits unless one runs already, a HeartBeat row for each that the      *)
(* user's browser keeps fresh, and a scanner that every 15 seconds cancels *)
(* the jobs nobody asked for lately and deletes the rows of those that are *)
(* over.                                                                   *)
(***************************************************************************)
EXTENDS Integers

CONSTANTS
    Openers,    \* API workers on TensorBoardView.post
    MaxBoards,  \* bound: jobs submitted, with the ids 1, 2, ...
    MaxFailures \* bound: calls of the job application that fail

TensorboardAssumption == MaxBoards \in Nat \ {0} /\ MaxFailures \in Nat

Boards == 1 .. MaxBoards

VARIABLES
    board,      \* the jobs, as query_job shows them
    stopping,   \* jobs whose operate_state is cancelling
    heartbeat,  \* HeartBeat rows: "none", "fresh" or "old" by recent_time
    named,      \* rows whose train_dir is still the log directory
    opener,     \* the view: [pc, todo, found, unnamed], found being the job it is about,
                \* unnamed the rows it will save without their directory
    stale,      \* the scanner's rows still to look at
    doomed,     \* the job it is about to cancel, a set of at most one
    failed,
    orphaned    \* history: jobs whose request ended before it created the row

boardVars == <<board, stopping, heartbeat, named, opener, stale, doomed, failed, orphaned>>

OpenerIdle == [pc |-> "idle", todo |-> {}, found |-> 0, unnamed |-> {}]

TypeOK ==
    /\ board \in [Boards -> {"none", "queued", "running", "over", "lost"}]
    /\ stopping \subseteq Boards
    /\ heartbeat \in [Boards -> {"none", "fresh", "old"}]
    /\ named \subseteq Boards
    /\ opener \in [Openers -> [pc: {"idle", "look", "touch", "submit", "submitted"},
                               todo: SUBSET Boards, found: Boards \cup {0},
                               unnamed: SUBSET Boards]]
    /\ stale \subseteq Boards /\ doomed \subseteq Boards /\ \A i, j \in doomed : i = j
    /\ failed \in 0 .. MaxFailures
    /\ orphaned \subseteq Boards

Init ==
    /\ board = [j \in Boards |-> "none"]
    /\ stopping = {}
    /\ heartbeat = [j \in Boards |-> "none"]
    /\ named = {}
    /\ opener = [o \in Openers |-> OpenerIdle]
    /\ stale = {} /\ doomed = {}
    /\ failed = 0
    /\ orphaned = {}

Alive(j) == board[j] \in {"queued", "running"}
HasRow(j) == heartbeat[j] # "none"
Fails == failed < MaxFailures /\ failed' = failed + 1

-----------------------------------------------------------------------------
(* Tensorboard.create_job.                                                 *)

OpenerStep == UNCHANGED <<stopping, stale, doomed>>

OpenList(o) ==
    /\ opener[o].pc = "idle"
    /\ opener' = [opener EXCEPT ![o] = [OpenerIdle EXCEPT !.pc = "look",
                                                         !.todo = {j \in named : HasRow(j)}]]
    /\ OpenerStep
    /\ UNCHANGED <<board, heartbeat, named, failed, orphaned>>

\* query_job of the newest: a board that runs is used again, one that is being
\* cancelled loses its directory, others are passed over, also those not found.
OpenLook(o) ==
    /\ opener[o].pc = "look"
    /\ \E j \in opener[o].todo :
           /\ \A k \in opener[o].todo : k <= j
           /\ LET usable == board[j] = "running" /\ j \notin stopping
              IN opener' = [opener EXCEPT ![o] =
                               [pc |-> IF usable THEN "touch" ELSE "look",
                                todo |-> @.todo \ {j},
                                found |-> IF usable THEN j ELSE 0,
                                unnamed |-> IF j \in stopping /\ board[j] # "lost"
                                            THEN @.unnamed \cup {j} ELSE @.unnamed]]
    /\ OpenerStep
    /\ UNCHANGED <<board, heartbeat, named, failed, orphaned>>

\* What the commit leaves of a row: the object saved has the recent_time it was
\* read with, and a row deleted meanwhile is inserted again.
SavedTimes(j, o) ==
    IF j = opener[o].found THEN {"fresh"}
    ELSE IF j \in opener[o].unnamed /\ heartbeat[j] # "old" THEN {"fresh", "old"}
    ELSE {heartbeat[j]}

Commit(o) ==
    /\ heartbeat' \in {f \in [Boards -> {"none", "fresh", "old"}] :
                         \A j \in Boards : f[j] \in SavedTimes(j, o)}
    /\ named' = (named \ opener[o].unnamed) \cup ({opener[o].found} \cap Boards)

\* The transaction ends, with a board that was found ...
OpenTouch(o) ==
    /\ opener[o].pc = "touch"
    /\ Commit(o)
    /\ opener' = [opener EXCEPT ![o] = OpenerIdle]
    /\ OpenerStep
    /\ UNCHANGED <<board, failed, orphaned>>

\* ... or without.
OpenNone(o) ==
    /\ opener[o].pc = "look" /\ opener[o].todo = {}
    /\ Commit(o)
    /\ opener' = [opener EXCEPT ![o] = [OpenerIdle EXCEPT !.pc = "submit"]]
    /\ OpenerStep
    /\ UNCHANGED <<board, failed, orphaned>>

\* A job is submitted.
OpenSubmit(o) ==
    /\ opener[o].pc = "submit"
    /\ \E j \in Boards :
           /\ board[j] = "none" /\ \A k \in 1 .. j - 1 : board[k] # "none"
           /\ board' = [board EXCEPT ![j] = "queued"]
           /\ opener' = [opener EXCEPT ![o].pc = "submitted", ![o].found = j]
    /\ OpenerStep
    /\ UNCHANGED <<heartbeat, named, failed, orphaned>>

OpenCreate(o) ==
    /\ opener[o].pc = "submitted"
    /\ heartbeat' = [heartbeat EXCEPT ![opener[o].found] = "fresh"]
    /\ named' = named \cup {opener[o].found}
    /\ opener' = [opener EXCEPT ![o] = OpenerIdle]
    /\ OpenerStep
    /\ UNCHANGED <<board, failed, orphaned>>

\* A call fails, or the job has no port: an open transaction is rolled back, a
\* job already submitted stays.
OpenFails(o) ==
    /\ opener[o].pc \in {"look", "submit", "submitted"}
    /\ Fails
    /\ orphaned' = IF opener[o].pc = "submitted" THEN orphaned \cup {opener[o].found} ELSE orphaned
    /\ opener' = [opener EXCEPT ![o] = OpenerIdle]
    /\ OpenerStep
    /\ UNCHANGED <<board, heartbeat, named>>

-----------------------------------------------------------------------------
(* The browser, time, and the jobs.                                        *)

\* HeartBeatView.post, under the lock of the row.
Poll(j) ==
    /\ heartbeat[j] = "old"
    /\ heartbeat' = [heartbeat EXCEPT ![j] = "fresh"]
    /\ UNCHANGED <<board, stopping, named, opener, stale, doomed, failed, orphaned>>

\* TIMEOUT_SECONDS without it.
GrowsOld(j) ==
    /\ heartbeat[j] = "fresh"
    /\ heartbeat' = [heartbeat EXCEPT ![j] = "old"]
    /\ UNCHANGED <<board, stopping, named, opener, stale, doomed, failed, orphaned>>

JobStep == UNCHANGED <<stopping, heartbeat, named, opener, stale, doomed, failed, orphaned>>

JobStarts(j) ==
    /\ board[j] = "queued" /\ board' = [board EXCEPT ![j] = "running"]
    /\ JobStep

JobEnds(j) ==
    /\ Alive(j) /\ board' = [board EXCEPT ![j] = "over"]
    /\ JobStep

\* The user deletes the job: it is not found from then on.
JobDeleted(j) ==
    /\ board[j] = "over" /\ board' = [board EXCEPT ![j] = "lost"]
    /\ JobStep

-----------------------------------------------------------------------------
(* heartbeat_scanner.                                                      *)

ScannerStep == UNCHANGED <<board, named, opener, orphaned>>

ScannerList ==
    /\ stale = {} /\ doomed = {}
    /\ \E j \in Boards : heartbeat[j] = "old"
    /\ stale' = {j \in Boards : heartbeat[j] = "old"}
    /\ ScannerStep
    /\ UNCHANGED <<stopping, heartbeat, doomed, failed>>

\* Mutant of RowDone: what does not run has no need of a row.
RowDoneIdle(j) == board[j] \in {"queued", "over"}

\* ret['state'].lower() == 'c'
RowDone(j) == board[j] = "over"

\* Mutant of ToCancel: only a job that runs is cancelled.
ToCancelRunning(j) == board[j] = "running" /\ j \notin stopping

\* operate_state != 'cancelling'; NotFound is only noted in the log.
ToCancel(j) == Alive(j) /\ j \notin stopping

\* query_job, and what comes of it.
ScannerLook(j) ==
    /\ j \in stale /\ doomed = {}
    /\ stale' = stale \ {j}
    /\ heartbeat' = IF RowDone(j) THEN [heartbeat EXCEPT ![j] = "none"] ELSE heartbeat
    /\ doomed' = IF ~RowDone(j) /\ ToCancel(j) THEN {j} ELSE {}
    /\ ScannerStep
    /\ UNCHANGED <<stopping, failed>>

\* cancel_job; of a job that is over by now it raises, which ends the scan.
ScannerCancel(j) ==
    /\ j \in doomed
    /\ doomed' = {}
    /\ IF Alive(j)
       THEN stopping' = stopping \cup {j} /\ UNCHANGED stale
       ELSE stale' = {} /\ UNCHANGED stopping
    /\ ScannerStep
    /\ UNCHANGED <<heartbeat, failed>>

\* Any other exception ends the scan, too, and the rows after it wait.
ScannerFails ==
    /\ stale \cup doomed # {}
    /\ Fails
    /\ stale' = {} /\ doomed' = {}
    /\ ScannerStep
    /\ UNCHANGED <<stopping, heartbeat>>

-----------------------------------------------------------------------------
Scanner == ScannerList \/ \E j \in Boards : ScannerLook(j) \/ ScannerCancel(j)

Next ==
    \/ \E o \in Openers :
           \/ OpenList(o) \/ OpenLook(o) \/ OpenTouch(o) \/ OpenNone(o)
           \/ OpenSubmit(o) \/ OpenCreate(o) \/ OpenFails(o)
    \/ \E j \in Boards : Poll(j) \/ GrowsOld(j) \/ JobStarts(j) \/ JobEnds(j) \/ JobDeleted(j)
    \/ Scanner \/ ScannerFails

\* The trigger of the scanner; a cancellation takes effect.
Fairness ==
    /\ WF_boardVars(Scanner)
    /\ \A j \in Boards : WF_boardVars(j \in stopping /\ JobEnds(j))

Spec == Init /\ [][Next]_boardVars /\ Fairness

-----------------------------------------------------------------------------
(* Properties.                                                             *)

\* A job that lives has a row, by which the scanner finds it, or its request is
\* under way; unless that request failed after the submission
\* (tensorboard.py:97), and then nothing will ever stop the job.
BoardsWatched ==
    \A j \in Boards :
        Alive(j) =>
            \/ HasRow(j) \/ j \in orphaned
            \/ \E o \in Openers : opener[o].pc = "submitted" /\ opener[o].found = j

\* A board nobody polls is stopped and its row goes, although scans fail, jobs
\* end by themselves and requests save rows they have read before; but for a
\* job deleted first, whose row stays (tasks.py:46).
IdleStopped ==
    \A j \in Boards :
        heartbeat[j] = "old" ~> (heartbeat[j] = "fresh" \/ ~HasRow(j) \/ board[j] = "lost")
===============================================================================
