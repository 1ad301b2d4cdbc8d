------------------------------ MODULE MCResources -----------------------------
(***************************************************************************)
(* What many share and something counts, for TLC: the money of Billing and *)
(* of StorageBilling, the slots of ImageBuild, the ports of                *)
(* PortAllocation.  They share no state; each behaviour is one of one of   *)
(* them, chosen at the start, while the others stay as they begin: the     *)
(* states of the run are the sum of theirs and not the product.            *)
(***************************************************************************)
EXTENDS Billing, TLC

CONSTANTS
    j1, g1, g2, api, command, a1, a2,
    u1, b1, b2, r1, r2,
    Users, Builds, Requests, MaxJobs, MaxRestarts, MaxCancels,
    j2, q1, q2,
    PortJobs, Ports, MaxWanted, MaxRequeues,
    y1, y2, m1, m2,
    Payers, Nights, MaxPaths, MaxChanges, MaxNights,
    p1, p2, h1, h2,
    Projects, Tools, Environments, Handlers, MaxSessions

VARIABLES
    part, \* the one of this behaviour
    image, request, record, info, workspace, cancelFile, task, undelivered, restarts,
    cancels, owner, swapped, lateCancel, untracked,
    jobState, scheduled, ports, taken, submission, flock, requeues, overlooked, restarted,
    members, paths, credit, statements, records, night, rowLock, nights, changes,
    jobsBilled, overlapped,
    project, environment, absolute, tree, session, latest, handler, shared, escaped

Build == INSTANCE ImageBuild
Allocation == INSTANCE PortAllocation WITH Jobs <- PortJobs
Storage == INSTANCE StorageBilling
Tooling == INSTANCE Cloudtools

ASSUME ResourcesAssumption ==
    /\ Build!BuildAssumption /\ Allocation!PortAssumption /\ Storage!StorageAssumption
    /\ Tooling!CloudtoolsAssumption

buildVars == <<image, request, record, info, workspace, cancelFile, task, undelivered, restarts,
    cancels, owner, swapped, lateCancel, untracked>>
portsVars == <<jobState, scheduled, ports, taken, submission, flock, requeues, overlooked, restarted>>
storageVars == <<members, paths, credit, statements, records, night, rowLock, nights, changes,
    jobsBilled, overlapped>>
toolingVars == <<project, environment, absolute, tree, session, latest, handler, shared, escaped>>

\* The workers of the API, and the projects, may trade names.
Interchangeable == Permutations(Handlers) \cup Permutations(Projects)

ResourcesInit ==
    /\ part \in {"billing", "build", "ports", "storage", "tools"}
    /\ Init /\ Build!Init /\ Allocation!Init /\ Storage!Init /\ Tooling!Init

ResourcesNext ==
    /\ UNCHANGED part
    /\ \/ /\ part = "billing" /\ Next
          /\ UNCHANGED <<buildVars, portsVars, storageVars, toolingVars>>
       \/ /\ part = "build" /\ Build!Next
          /\ UNCHANGED <<portsVars, storageVars, toolingVars, vars>>
       \/ /\ part = "ports" /\ Allocation!Next
          /\ UNCHANGED <<buildVars, storageVars, toolingVars, vars>>
       \/ /\ part = "storage" /\ Storage!Next
          /\ UNCHANGED <<buildVars, portsVars, toolingVars, vars>>
       \/ /\ part = "tools" /\ Tooling!Next
          /\ UNCHANGED <<buildVars, portsVars, storageVars, vars>>

ResourcesSpec ==
    ResourcesInit /\ [][ResourcesNext]_<<part, vars, buildVars, portsVars, storageVars, toolingVars>>

-----------------------------------------------------------------------------
(* The properties, as the modules state them.                              *)

\* The state of the one at work is well formed.
ResourcesTypeOK ==
    /\ part = "billing" => TypeOK
    /\ part = "build" => Build!TypeOK
    /\ part = "ports" => Allocation!TypeOK
    /\ part = "storage" => Storage!TypeOK
    /\ part = "tools" => Tooling!TypeOK

\* A build's slot is held by a build that is still to end (manager.py:99).
SlotsHeld == Build!SlotsHeld

\* A build that is over leaves no directory (manager.py:83).
WorkspacesFreed == Build!WorkspacesFreed

\* A build that runs is known to its user's row (build.py:353).
KnownBuilds == Build!KnownBuilds

\* No two jobs that run share a port (csres_render.py:54).
PortsApart == Allocation!PortsApart

\* A user's storage is charged once a day (charge_storage.py:61).
StorageOnce == Storage!StorageOnce

\* No delete removes the environment of a tool that lives (utils.py:208).
EnvironmentKept == Tooling!EnvironmentKept
===============================================================================
