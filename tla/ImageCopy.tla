------------------------------- MODULE ImageCopy ------------------------------
(***************************************************************************)
(* The images a user or an administrator imports: the views create a       *)
(* SingularityImage row and queue the celery task copy_image, which copies *)
(* the file to the image's path and keeps the row's status.  The task      *)
(* saves the whole object it read at its start; the views look at the      *)
(* status before they delete an image or queue a second copy.              *)
(***************************************************************************)
EXTENDS Integers

CONSTANTS
    Images,    \* rows, each with a path of its own
    Copies,    \* copy_image tasks: bound, each is used once
    None       \* no image

CopyAssumption == None \notin Images

VARIABLES
    status,   \* SingularityImage.status; "none" before there is a row, "deleted" after
    file,     \* the file at image_path: "none", "part" of a copy, "whole"
    creating, \* images whose row is committed and whose task is not queued
    copy,     \* tasks: [pc, image]
    deleting, \* images a delete request has read and not yet deleted
    reused,   \* history: images a second copy was queued for
    disturbed,\* history: images of which two of these were at work at once
    abandoned \* history: images whose copy ended without a last save

copyVars == <<status, file, creating, copy, deleting, reused, disturbed, abandoned>>
copyHistory == <<reused, disturbed, abandoned>>

Ready == {"SUCCESS", "FAILURE"}
Statuses == {"none", "PENDING", "STARTED", "deleted"} \cup Ready
CopyPcs == {"new", "queued", "got", "started", "copied", "failed", "over"}

TypeOK ==
    /\ status \in [Images -> Statuses]
    /\ file \in [Images -> {"none", "part", "whole"}]
    /\ creating \subseteq Images /\ deleting \subseteq Images
    /\ copy \in [Copies -> [pc: CopyPcs, image: Images \cup {None}]]
    /\ reused \subseteq Images /\ disturbed \subseteq Images /\ abandoned \subseteq Images

Init ==
    /\ status = [i \in Images |-> "none"]
    /\ file = [i \in Images |-> "none"]
    /\ creating = {} /\ deleting = {}
    /\ copy = [c \in Copies |-> [pc |-> "new", image |-> None]]
    /\ reused = {} /\ disturbed = {} /\ abandoned = {}

HasRow(i) == status[i] \notin {"none", "deleted"}
Active(c) == copy[c].pc \in {"queued", "got", "started", "copied", "failed"}
ActiveOn(i) == {c \in Copies : copy[c].image = i /\ Active(c)}

-----------------------------------------------------------------------------
(* The views.                                                              *)

Create(i) ==
    /\ status[i] = "none"
    /\ status' = [status EXCEPT ![i] = "PENDING"]
    /\ creating' = creating \cup {i}
    /\ UNCHANGED <<file, copy, deleting, copyHistory>>

Queue(i) ==
    /\ \E c \in Copies : copy[c].pc = "new"
    /\ LET c == CHOOSE x \in Copies : copy[x].pc = "new"
       IN copy' = [copy EXCEPT ![c] = [pc |-> "queued", image |-> i]]

\* copy_image.delay, after the transaction.
CreateQueue(i) ==
    /\ i \in creating
    /\ Queue(i)
    /\ creating' = creating \ {i}
    /\ UNCHANGED <<status, file, deleting, copyHistory>>

\* The broker refuses, or the worker is killed.
CreateFails(i) ==
    /\ i \in creating
    /\ creating' = creating \ {i}
    /\ abandoned' = abandoned \cup {i}
    /\ UNCHANGED <<status, file, copy, deleting, reused, disturbed>>

\* Mutant of Settled: a queued image may be deleted, too.
SettledPending(i) == status[i] \in Ready \cup {"PENDING"}

\* status in [SUCCESS, FAILURE], or ImageNotReady.
Settled(i) == status[i] \in Ready

\* ImageReupload.put: the status stays, another copy is queued.
Reupload(i) ==
    /\ Settled(i)
    /\ Queue(i)
    /\ reused' = reused \cup {i}
    /\ disturbed' = IF ActiveOn(i) # {} \/ i \in deleting THEN disturbed \cup {i} ELSE disturbed
    /\ UNCHANGED <<status, file, creating, deleting, abandoned>>

\* ImageDetailView.delete reads without a lock ...
DeleteRead(i) ==
    /\ Settled(i)
    /\ i \notin deleting
    /\ deleting' = deleting \cup {i}
    /\ disturbed' = IF ActiveOn(i) # {} THEN disturbed \cup {i} ELSE disturbed
    /\ UNCHANGED <<status, file, creating, copy, reused, abandoned>>

\* ... and removes the file and the row.
DeleteRow(i) ==
    /\ i \in deleting
    /\ deleting' = deleting \ {i}
    /\ status' = [status EXCEPT ![i] = "deleted"]
    /\ file' = [file EXCEPT ![i] = "none"]
    /\ UNCHANGED <<creating, copy, copyHistory>>

-----------------------------------------------------------------------------
(* copy_image.                                                             *)

CopyStep == UNCHANGED <<creating, deleting, reused, disturbed>>
Step(c, from, to) == copy[c].pc = from /\ copy' = [copy EXCEPT ![c].pc = to]

\* Without a row the task raises.
CopyGet(c) ==
    /\ Step(c, "queued", IF HasRow(copy[c].image) THEN "got" ELSE "over")
    /\ CopyStep
    /\ UNCHANGED <<status, file, abandoned>>

\* A save of an object whose row was deleted inserts the row again.
Save(c, s) == status' = [status EXCEPT ![copy[c].image] = s]

CopyStart(c) ==
    /\ Step(c, "got", "started")
    /\ Save(c, "STARTED")
    /\ CopyStep
    /\ UNCHANGED <<file, abandoned>>

\* The user is not known to the host: the exception comes before the try.
CopyRaises(c) ==
    /\ Step(c, "started", "over")
    /\ file[copy[c].image] # "part"
    /\ abandoned' = abandoned \cup {copy[c].image}
    /\ CopyStep
    /\ UNCHANGED <<status, file>>

CopyWrite(c) ==
    /\ copy[c].pc = "started"
    /\ file' = [file EXCEPT ![copy[c].image] = "part"]
    /\ UNCHANGED <<status, copy, abandoned>>
    /\ CopyStep

\* Mutant of Written: the copy is taken for whole when it has begun.
WrittenPart(i) == file[i] \in {"part", "whole"} /\ UNCHANGED file

\* The last byte is written.
Written(i) == file[i] = "part" /\ file' = [file EXCEPT ![i] = "whole"]

CopyDone(c) ==
    /\ Step(c, "started", "copied")
    /\ Written(copy[c].image)
    /\ CopyStep
    /\ UNCHANGED <<status, abandoned>>

CopySucceeds(c) ==
    /\ Step(c, "copied", "over")
    /\ Save(c, "SUCCESS")
    /\ CopyStep
    /\ UNCHANGED <<file, abandoned>>

\* Mutant of FailedStatus: the failed copy keeps the status it had.
FailedStatusKept(c) == UNCHANGED status

\* Mutant of FailedStatus: a status the table has no name for.
FailedStatusSpelt(c) == Save(c, "FAILED")

FailedStatus(c) == Save(c, "FAILURE")

\* An exception while copying: the row is saved first, then the file removed.
CopyFails(c) ==
    /\ copy[c].pc \in {"started", "copied"}
    /\ copy' = [copy EXCEPT ![c].pc = "failed"]
    /\ FailedStatus(c)
    /\ CopyStep
    /\ UNCHANGED <<file, abandoned>>

CopyRemoves(c) ==
    /\ Step(c, "failed", "over")
    /\ file' = [file EXCEPT ![copy[c].image] = "none"]
    /\ CopyStep
    /\ UNCHANGED <<status, abandoned>>

\* The time limit of 600 seconds kills the process of the task.
CopyKilled(c) ==
    /\ copy[c].pc \in {"got", "started", "copied", "failed"}
    /\ copy' = [copy EXCEPT ![c].pc = "over"]
    /\ abandoned' = abandoned \cup {copy[c].image}
    /\ CopyStep
    /\ UNCHANGED <<status, file>>

-----------------------------------------------------------------------------
Copy(c) ==
    \/ CopyGet(c) \/ CopyStart(c) \/ CopyWrite(c) \/ CopyDone(c) \/ CopySucceeds(c)
    \/ CopyFails(c) \/ CopyRemoves(c) \/ CopyRaises(c) \/ CopyKilled(c)

Next ==
    \/ \E i \in Images : Create(i) \/ CreateQueue(i) \/ CreateFails(i) \/ Reupload(i)
                           \/ DeleteRead(i) \/ DeleteRow(i)
    \/ \E c \in Copies : Copy(c)

\* Requests end, the broker delivers, and a copy comes to an end.
Fairness ==
    /\ \A i \in Images : WF_copyVars(CreateQueue(i) \/ CreateFails(i)) /\ WF_copyVars(DeleteRow(i))
    /\ \A c \in Copies : WF_copyVars(Copy(c))

Spec == Init /\ [][Next]_copyVars /\ Fairness

-----------------------------------------------------------------------------
(* Properties.                                                             *)

\* An image shown as SUCCESS has its whole file, once nothing works on it; a
\* copy queued while another copy or a delete is under way may remove or
\* overwrite the file behind the row (image.py:364, tasks.py:44), and one that
\* was killed may leave half of it.
SuccessHasFile ==
    \A i \in Images :
        (status[i] = "SUCCESS" /\ ActiveOn(i) = {} /\ i \notin disturbed \cup abandoned)
          => file[i] = "whole"

\* An image does not stay PENDING or STARTED, whatever fails; unless the task
\* was never queued, was killed, or raised before its try (tasks.py:33): it can
\* then neither be deleted nor copied again (image.py:336).
ImageSettles ==
    \A i \in Images :
        status[i] \in {"PENDING", "STARTED"}
          ~> (status[i] \in Ready \cup {"deleted"} \/ i \in abandoned)

\* A deleted image does not come back by a late save of its task, unless it
\* was deleted under a second copy, which leaves the status in Ready.
DeletedStays ==
    [][\A i \in Images : status[i] = "deleted" /\ i \notin disturbed => status'[i] = "deleted"]_copyVars
===============================================================================
