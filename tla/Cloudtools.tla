------------------------------- MODULE Cloudtools ------------------------------
(***************************************************************************)
(* Interactive tools (notebooks and the like) over the job application: a  *)
(* project names an environment, a directory no other project is to use;   *)
(* a tool is started in it as a job; a project with a tool at work is not  *)
(* deleted.  Views look at the directory, at the newest instance and at    *)
(* its job, and act upon what they saw, without a lock.                    *)
(***************************************************************************)
EXTENDS Integers

CONSTANTS
    Projects,     \* rows: bound, each is created once
    Tools,
    Environments, \* directories, none within another
    Handlers,     \* API workers
    None,         \* no project, no tool
    MaxSessions   \* bound: jobs submitted, with the ids 1, 2, ...

CloudtoolsAssumption ==
    /\ None \notin Projects \cup Tools /\ Environments # {}
    /\ MaxSessions \in Nat \ {0}

Sessions == 1 .. MaxSessions

VARIABLES
    project,    \* Project rows: "none" before, "live", "deleted"
    environment,\* Project.environment of each, the directory it stands for
    absolute,   \* projects that spell it as an absolute path, the others as MyFolder/...
    tree,       \* the directories: "none", "empty" or "used"
    session,    \* the jobs: [state, project, tool]
    latest,     \* job of the newest ToolInstance of a project and tool, or 0
    handler,    \* a request: [pc, project, tool, session, todo]
    shared,     \* history: environments two projects came to use
    escaped     \* history: sessions a delete could not see

toolVars == <<project, environment, absolute, tree, session, latest, handler, shared, escaped>>

AliveStates == {"queued", "running", "aside"}
HandlerIdle == [pc |-> "idle", project |-> None, tool |-> None, session |-> 0, todo |-> {}]

TypeOK ==
    /\ project \in [Projects -> {"none", "live", "deleted"}]
    /\ environment \in [Projects -> Environments] /\ absolute \subseteq Projects
    /\ tree \in [Environments -> {"none", "empty", "used"}]
    /\ session \in [Sessions -> [state: {"none", "over"} \cup AliveStates,
                                 project: Projects \cup {None}, tool: Tools \cup {None}]]
    /\ latest \in [Projects -> [Tools -> 0 .. MaxSessions]]
    /\ handler \in [Handlers -> [pc: {"idle", "create", "check", "prepare", "submit", "save",
                                      "look", "row"},
                                 project: Projects \cup {None}, tool: Tools \cup {None},
                                 session: 0 .. MaxSessions, todo: SUBSET Tools]]
    /\ shared \subseteq Environments /\ escaped \subseteq Sessions

Init ==
    /\ project = [p \in Projects |-> "none"]
    /\ environment = [p \in Projects |-> CHOOSE e \in Environments : TRUE] /\ absolute = {}
    /\ tree = [e \in Environments |-> "none"]
    /\ session = [j \in Sessions |-> [state |-> "none", project |-> None, tool |-> None]]
    /\ latest = [p \in Projects |-> [t \in Tools |-> 0]]
    /\ handler = [h \in Handlers |-> HandlerIdle]
    /\ shared = {} /\ escaped = {}

Goto(h, pc) == handler' = [handler EXCEPT ![h].pc = pc]
Respond(h) == handler' = [handler EXCEPT ![h] = HandlerIdle]
Deleting(h, p) == handler[h].pc \in {"look", "row"} /\ handler[h].project = p

-----------------------------------------------------------------------------
(* get_new_created_project.                                                *)

\* The path asked for is compared, as it is spelt, with the paths as stored.
Taken(e, full) ==
    \E p \in Projects : project[p] = "live" /\ environment[p] = e /\ (p \in absolute) = full

\* check_environment: a directory with something in it is in use; a missing one
\* is made, or has to be there already.
CreateCheck(h, p, e) ==
    /\ handler[h].pc = "idle"
    /\ project[p] = "none" /\ \A k \in Handlers : handler[k].project # p
    /\ tree[e] # "used"
    /\ \E full \in BOOLEAN :
           /\ ~Taken(e, full)
           /\ absolute' = IF full THEN absolute \cup {p} ELSE absolute \ {p}
    /\ tree' = [tree EXCEPT ![e] = "empty"]
    /\ environment' = [environment EXCEPT ![p] = e]
    /\ handler' = [handler EXCEPT ![h] = [HandlerIdle EXCEPT !.pc = "create", !.project = p]]
    /\ UNCHANGED <<project, session, latest, shared, escaped>>

CreateSave(h) ==
    LET p == handler[h].project
        e == environment[p]
    IN /\ handler[h].pc = "create"
       /\ project' = [project EXCEPT ![p] = "live"]
       /\ shared' = IF \E q \in Projects \ {p} :
                          /\ environment[q] = e
                          /\ project[q] = "live" \/ \E k \in Handlers : Deleting(k, q)
                    THEN shared \cup {e} ELSE shared
       /\ Respond(h)
       /\ UNCHANGED <<environment, absolute, tree, session, latest, escaped>>

-----------------------------------------------------------------------------
(* CloudToolSubmit.post; ToolSubmit.post of the open API, which checks.     *)

\* Mutant of Busy: a job in the queue is not noticed.
BusyRunning(s) == s = "running"

\* running, queueing, cancelling, suspending; neither waiting, holding nor
\* creating, and a state without a name raises (states "aside").
Busy(s) == s \in {"queued", "running"}

\* The job of the newest instance is asked for; one not found is not busy, nor
\* one whose query fails.
SeenBusy(p, t, answered) == latest[p][t] # 0 /\ answered /\ Busy(session[latest[p][t]].state)

SubmitRead(h, p, t) ==
    /\ handler[h].pc = "idle"
    /\ project[p] = "live"
    /\ \E pc \in {"check", "prepare"} :
           handler' = [handler EXCEPT ![h] =
               [HandlerIdle EXCEPT !.pc = pc, !.project = p, !.tool = t]]
    /\ UNCHANGED <<project, environment, absolute, tree, session, latest, shared, escaped>>

SubmitCheck(h) ==
    /\ handler[h].pc = "check"
    /\ \E answered \in BOOLEAN :
           IF SeenBusy(handler[h].project, handler[h].tool, answered)
           THEN Respond(h) ELSE Goto(h, "prepare")
    /\ UNCHANGED <<project, environment, absolute, tree, session, latest, shared, escaped>>

\* get_job_workspace makes the directories of the job that are not there.
SubmitPrepare(h) ==
    /\ handler[h].pc = "prepare"
    /\ tree' = [tree EXCEPT ![environment[handler[h].project]] = "used"]
    /\ Goto(h, "submit")
    /\ UNCHANGED <<project, environment, absolute, session, latest, shared, escaped>>

\* A delete is past its look at this tool, or done, or has left no directory.
Unnoticed(p, t) ==
    \/ \E k \in Handlers : Deleting(k, p) /\ t \notin handler[k].todo
    \/ project[p] = "deleted" \/ tree[environment[p]] # "used"

SubmitJob(h) ==
    LET p == handler[h].project
        t == handler[h].tool
    IN /\ handler[h].pc = "submit"
       /\ \E j \in Sessions :
              /\ session[j].state = "none" /\ \A k \in 1 .. j - 1 : session[k].state # "none"
              /\ session' = [session EXCEPT ![j] = [state |-> "queued", project |-> p, tool |-> t]]
              /\ escaped' = IF Unnoticed(p, t) THEN escaped \cup {j} ELSE escaped
              /\ handler' = [handler EXCEPT ![h].pc = "save", ![h].session = j]
       /\ UNCHANGED <<project, environment, absolute, tree, latest, shared>>

\* The instance; without its project it is refused, and the job goes on.
SubmitSave(h) ==
    LET p == handler[h].project
    IN /\ handler[h].pc = "save"
       /\ latest' = IF project[p] = "live"
                    THEN [latest EXCEPT ![p][handler[h].tool] = handler[h].session] ELSE latest
       /\ Respond(h)
       /\ UNCHANGED <<project, environment, absolute, tree, session, shared, escaped>>

\* A call fails, also after the submission; or the process of any request is killed.
HandlerFails(h) ==
    /\ handler[h].pc # "idle"
    /\ Respond(h)
    /\ UNCHANGED <<project, environment, absolute, tree, session, latest, shared, escaped>>

-----------------------------------------------------------------------------
(* delete_project.                                                         *)

DeleteRead(h, p) ==
    /\ handler[h].pc = "idle"
    /\ project[p] = "live"
    /\ handler' = [handler EXCEPT ![h] =
           [HandlerIdle EXCEPT !.pc = "look", !.project = p, !.todo = Tools]]
    /\ UNCHANGED <<project, environment, absolute, tree, session, latest, shared, escaped>>

\* check_project_status, one tool after the other.
DeleteLook(h, t) ==
    LET p == handler[h].project
    IN /\ handler[h].pc = "look" /\ t \in handler[h].todo
       /\ \E answered \in BOOLEAN :
              IF SeenBusy(p, t, answered)
              THEN Respond(h) /\ UNCHANGED escaped
              ELSE /\ handler' = [handler EXCEPT ![h].todo = @ \ {t}]
                   /\ escaped' = escaped \cup
                        {j \in Sessions : /\ session[j].project = p /\ session[j].tool = t
                                          /\ \/ latest[p][t] # j \/ ~answered
                                             \/ session[j].state \notin {"queued", "running"}}
       /\ UNCHANGED <<project, environment, absolute, tree, session, latest, shared>>

Looked(h) == handler[h].pc = "look" /\ handler[h].todo = {}

\* delete_env, when the request asks for it
DeleteTree(h) ==
    /\ Looked(h)
    /\ tree' = [tree EXCEPT ![environment[handler[h].project]] = "none"]
    /\ Goto(h, "row")
    /\ UNCHANGED <<project, environment, absolute, session, latest, shared, escaped>>

\* The instances go with the project.
DeleteRow(h) ==
    LET p == handler[h].project
    IN /\ handler[h].pc = "row" \/ Looked(h)
       /\ project' = [project EXCEPT ![p] = "deleted"]
       /\ latest' = [latest EXCEPT ![p] = [t \in Tools |-> 0]]
       /\ absolute' = absolute \ {p}
       /\ Respond(h)
       /\ UNCHANGED <<environment, tree, session, shared, escaped>>

-----------------------------------------------------------------------------
\* The job starts, is held or waits, ends, is requeued.
SessionMoves(j) ==
    /\ \E s \in {<<"queued", "running">>, <<"queued", "aside">>, <<"aside", "queued">>,
                 <<"running", "aside">>, <<"queued", "over">>, <<"running", "over">>,
                 <<"over", "queued">>} :
           session[j].state = s[1] /\ session' = [session EXCEPT ![j].state = s[2]]
    /\ UNCHANGED <<project, environment, absolute, tree, latest, handler, shared, escaped>>

Next ==
    \/ \E h \in Handlers :
           \/ \E p \in Projects, e \in Environments : CreateCheck(h, p, e)
           \/ \E p \in Projects, t \in Tools : SubmitRead(h, p, t)
           \/ \E p \in Projects : DeleteRead(h, p)
           \/ \E t \in Tools : DeleteLook(h, t)
           \/ CreateSave(h) \/ SubmitCheck(h) \/ SubmitPrepare(h) \/ SubmitJob(h) \/ SubmitSave(h)
           \/ HandlerFails(h) \/ DeleteTree(h) \/ DeleteRow(h)
    \/ \E j \in Sessions : SessionMoves(j)

Spec == Init /\ [][Next]_toolVars

-----------------------------------------------------------------------------
\* A tool that lives keeps its environment: no delete removes it under a tool,
\* which its look at the newest instances is for (utils.py:208).  It misses a
\* job that is not of the newest instance, was submitted after the look, is
\* held, or runs again after its end, and one in an environment that two
\* projects use, since paths are compared in two spellings (utils.py:65).
EnvironmentKept ==
    \A j \in Sessions :
        session[j].state \in AliveStates =>
            LET e == environment[session[j].project]
            IN tree[e] = "used" \/ e \in shared \/ j \in escaped
===============================================================================
