------------------------------ MODULE MCScanners ------------------------------
(***************************************************************************)
(* The services that something drives again and again (the scanners of     *)
(* alerts and tensorboards, the beat of workflows, the celery workers that *)
(* copy images), for TLC.  They share no state; each behaviour is one of   *)
(* one service, chosen at the start, while the others stay as they begin:  *)
(* the states of the run are the sum of theirs and not the product.        *)
(* Nothing of a service is fair as it begins, so the fairness of those     *)
(* that stay asks for nothing.                                             *)
(***************************************************************************)
EXTENDS Integers

CONSTANTS
    None,
    p1, n1, w1, w2,
    Policies, Nodes, Devices, Workers, Groups, MaxQueue, MaxFailures, MaxRequests,
    i1, c1, c2, c3,
    Images, Copies,
    MaxEdits, MaxTriggers, MaxKills,
    o1,
    Openers, MaxBoards

VARIABLES
    part, \* the service of this behaviour
    window, policies, open, scan, queue, worker, failures, requests, created, notified,
    status, file, creating, copy, deleting, reused, disturbed, abandoned,
    flow, periodic, passed, edit, user, beat, scanner, edits, triggers, kills,
    fired, refused, killed, overlaid,
    board, stopping, heartbeat, named, opener, stale, doomed, failed, orphaned

Alerts == INSTANCE Alert
Copying == INSTANCE ImageCopy
Beats == INSTANCE WorkflowBeat
Viewing == INSTANCE Tensorboard

ASSUME ScannersAssumption ==
    /\ Alerts!AlertAssumption /\ Copying!CopyAssumption
    /\ Beats!BeatAssumption /\ Viewing!TensorboardAssumption

alertVars == <<window, policies, open, scan, queue, worker, failures, requests, created, notified>>
copyVars == <<status, file, creating, copy, deleting, reused, disturbed, abandoned>>
beatVars == <<flow, periodic, passed, edit, user, beat, scanner, edits, triggers, kills,
    fired, refused, killed, overlaid>>
boardVars == <<board, stopping, heartbeat, named, opener, stale, doomed, failed, orphaned>>
vars == <<part, alertVars, copyVars, beatVars, boardVars>>

Init ==
    /\ part \in {"alert", "copy", "beat", "board"}
    /\ Alerts!Init /\ Copying!Init /\ Beats!Init /\ Viewing!Init

Next ==
    /\ UNCHANGED part
    /\ \/ /\ part = "alert" /\ Alerts!Next
          /\ UNCHANGED <<copyVars, beatVars, boardVars>>
       \/ /\ part = "copy" /\ Copying!Next
          /\ UNCHANGED <<alertVars, beatVars, boardVars>>
       \/ /\ part = "beat" /\ Beats!Next
          /\ UNCHANGED <<alertVars, copyVars, boardVars>>
       \/ /\ part = "board" /\ Viewing!Next
          /\ UNCHANGED <<alertVars, copyVars, beatVars>>

Spec ==
    /\ Init /\ [][Next]_vars
    /\ Alerts!Fairness /\ Copying!Fairness /\ Beats!Fairness /\ Viewing!Fairness

-----------------------------------------------------------------------------
(* The properties, as the services state them.                             *)

\* The state of every service is well formed.
TypeOK == Alerts!TypeOK /\ Copying!TypeOK /\ Beats!TypeOK /\ Viewing!TypeOK

\* At most one alert of a policy and node is open (creator_tasks.py:42).
OneOpenAlert == Alerts!OneOpenAlert

\* An alert is committed with its notification (creator_tasks.py:27).
NoticePerAlert == Alerts!NoticePerAlert

\* A condition that lasts is raised (judge.py:42).
LastingRaised == Alerts!LastingRaised

\* SUCCESS means that the file is whole (tasks.py:44).
SuccessHasFile == Copying!SuccessHasFile

\* An image does not stay PENDING or STARTED (tasks.py:33).
ImageSettles == Copying!ImageSettles

\* A deleted image stays deleted (image.py:336).
DeletedStays == Copying!DeletedStays

\* A clocked schedule starts one run at most (scanner.py:87).
OneOffOnce == Beats!OneOffOnce

\* A clocked task is used up, and not in vain (scanner.py:65).
OneOffServed == Beats!OneOffServed

\* A tensorboard that lives has its row (tensorboard.py:97).
BoardsWatched == Viewing!BoardsWatched

\* A tensorboard nobody polls is stopped (tasks.py:29).
IdleStopped == Viewing!IdleStopped
===============================================================================
