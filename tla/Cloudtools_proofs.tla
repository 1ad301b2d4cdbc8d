--------------------------- MODULE Cloudtools_proofs --------------------------
(***************************************************************************)
(* Proofs about Cloudtools, for any projects, tools, environments, workers *)
(* and bounds.                                                             *)
(***************************************************************************)
EXTENDS Cloudtools, TLAPS

-----------------------------------------------------------------------------
(* The inductive invariant.                                                *)

HandlerPcs == {"idle", "create", "check", "prepare", "submit", "save", "look", "row"}
HandlerRecord == [pc: HandlerPcs, project: Projects \cup {None}, tool: Tools \cup {None},
                  session: 0 .. MaxSessions, todo: SUBSET Tools]
SessionRecord == [state: {"none", "over"} \cup AliveStates,
                  project: Projects \cup {None}, tool: Tools \cup {None}]

\* A job is of a project that was saved.
SessionInv == \A j \in Sessions :
    /\ session[j].state = "none" => session[j].project = None
    /\ session[j].state # "none" =>
         /\ session[j].project \in Projects /\ session[j].tool \in Tools
         /\ project[session[j].project] # "none"

\* A project that is being created is unknown to the other requests.
HandlerOk(h) ==
    /\ handler[h].pc = "idle" => handler[h].project = None
    /\ handler[h].pc # "idle" => handler[h].project \in Projects
    /\ handler[h].pc \in {"check", "prepare", "submit", "save"} => handler[h].tool \in Tools
    /\ handler[h].pc = "create" =>
         /\ project[handler[h].project] = "none"
         /\ \A k \in Handlers : k # h => handler[k].project # handler[h].project
    /\ handler[h].pc \notin {"idle", "create"} => project[handler[h].project] # "none"
    /\ handler[h].pc = "row" => handler[h].todo = {}

HandlerInv == \A h \in Handlers : HandlerOk(h)

\* A delete goes past a tool only when the jobs of the tool have escaped it.
LookInv == \A h \in Handlers, j \in Sessions :
    Deleting(h, session[j].project) /\ session[j].tool \notin handler[h].todo => j \in escaped

\* So have those of a project that is deleted.
DeletedInv == \A j \in Sessions :
    session[j].state # "none" /\ project[session[j].project] = "deleted" => j \in escaped

\* Two projects with one environment, one live, the other live or being deleted.
SharedInv == \A p, q \in Projects :
    /\ p # q /\ environment[p] = environment[q] /\ project[p] = "live"
    /\ project[q] = "live" \/ \E h \in Handlers : Deleting(h, q)
    => environment[p] \in shared

\* EnvironmentKept, of jobs that are over as well: they may be requeued.
KeptInv == \A j \in Sessions :
    session[j].state # "none" =>
        LET e == environment[session[j].project]
        IN tree[e] = "used" \/ e \in shared \/ j \in escaped

ToolInv ==
    /\ TypeOK /\ SessionInv /\ HandlerInv /\ LookInv /\ DeletedInv /\ SharedInv /\ KeptInv

LEMMA Typed ==
  ASSUME TypeOK
  PROVE  /\ handler \in [Handlers -> HandlerRecord] /\ session \in [Sessions -> SessionRecord]
         /\ project \in [Projects -> {"none", "live", "deleted"}]
         /\ environment \in [Projects -> Environments]
         /\ tree \in [Environments -> {"none", "empty", "used"}]
         /\ latest \in [Projects -> [Tools -> 0 .. MaxSessions]]
  BY DEF TypeOK, HandlerRecord, HandlerPcs, SessionRecord

LEMMA IdleRecord ==
  ASSUME CloudtoolsAssumption
  PROVE  HandlerIdle \in HandlerRecord /\ HandlerIdle.pc = "idle" /\ HandlerIdle.project = None
  BY DEF CloudtoolsAssumption, HandlerIdle, HandlerRecord, HandlerPcs

LEMMA InitInv == CloudtoolsAssumption /\ Init => ToolInv
  <1> SUFFICES ASSUME CloudtoolsAssumption, Init PROVE ToolInv
    OBVIOUS
  <1>1. (CHOOSE e \in Environments : TRUE) \in Environments
    BY DEF CloudtoolsAssumption
  <1>2. 0 \in 0 .. MaxSessions
    BY DEF CloudtoolsAssumption
  <1>3. TypeOK
    BY <1>1, <1>2, IdleRecord DEF TypeOK, Init, HandlerRecord, HandlerPcs
  <1>4. /\ \A h \in Handlers : handler[h].pc = "idle" /\ handler[h].project = None
        /\ \A j \in Sessions : session[j].state = "none" /\ session[j].project = None
    BY IdleRecord DEF Init
  <1>5. SessionInv /\ HandlerInv /\ DeletedInv /\ KeptInv
    BY <1>4 DEF SessionInv, HandlerInv, HandlerOk, DeletedInv, KeptInv
  <1>6. LookInv
    BY <1>4 DEF LookInv, Deleting
  <1>7. SharedInv
    BY DEF SharedInv, Init
  <1> QED
    BY <1>3, <1>5, <1>6, <1>7 DEF ToolInv

-----------------------------------------------------------------------------
(* The requests.                                                           *)

\* The record of one request changes.
LEMMA Replaced ==
  ASSUME handler \in [Handlers -> HandlerRecord], NEW h \in Handlers, NEW rec \in HandlerRecord,
         handler' = [handler EXCEPT ![h] = rec]
  PROVE  /\ handler' \in [Handlers -> HandlerRecord] /\ handler'[h] = rec
         /\ \A k \in Handlers : k # h => handler'[k] = handler[k]
  OBVIOUS

LEMMA GotoFacts ==
  ASSUME handler \in [Handlers -> HandlerRecord], NEW h \in Handlers, NEW pc \in HandlerPcs,
         Goto(h, pc)
  PROVE  /\ handler' \in [Handlers -> HandlerRecord]
         /\ handler'[h].pc = pc /\ handler'[h].project = handler[h].project
         /\ handler'[h].tool = handler[h].tool /\ handler'[h].todo = handler[h].todo
         /\ \A k \in Handlers : k # h => handler'[k] = handler[k]
  <1> DEFINE rec == [handler[h] EXCEPT !.pc = pc]
  <1>1. /\ rec \in HandlerRecord /\ rec.pc = pc /\ rec.project = handler[h].project
        /\ rec.tool = handler[h].tool /\ rec.todo = handler[h].todo
    BY DEF HandlerRecord
  <1>2. handler' = [handler EXCEPT ![h] = rec]
    BY DEF Goto
  <1> HIDE DEF rec
  <1> QED
    BY <1>1, <1>2, Replaced

LEMMA RespondFacts ==
  ASSUME CloudtoolsAssumption, handler \in [Handlers -> HandlerRecord], NEW h \in Handlers, Respond(h)
  PROVE  /\ handler' \in [Handlers -> HandlerRecord]
         /\ handler'[h].pc = "idle" /\ handler'[h].project = None
         /\ \A k \in Handlers : k # h => handler'[k] = handler[k]
  BY IdleRecord, Replaced DEF Respond

\* A request has begun, for a project that is there; a delete with every tool to look at.
Begun(h) ==
    /\ handler'[h].pc \in {"check", "prepare", "look"}
    /\ handler'[h].project \in Projects /\ project[handler'[h].project] = "live"
    /\ handler'[h].pc # "look" => handler'[h].tool \in Tools
    /\ handler'[h].pc = "look" => handler'[h].todo = Tools

\* A submission goes on.
GoesOn(h) ==
    /\ handler[h].pc \in {"check", "prepare", "submit"}
    /\ handler'[h].pc \in {"prepare", "submit", "save"}
    /\ handler'[h].project = handler[h].project /\ handler'[h].tool = handler[h].tool

\* A delete is past more tools only when their jobs have escaped.
LooksOn(h) ==
    /\ handler[h].pc = "look" /\ handler'[h].pc = "look"
    /\ handler'[h].project = handler[h].project
    /\ \A j \in Sessions : /\ session[j].project = handler[h].project
                           /\ session[j].tool \in handler[h].todo \ handler'[h].todo
                           => j \in escaped'

Returns(h) == handler'[h].pc = "idle" /\ handler'[h].project = None

\* A request goes on, or returns, and does nothing to the projects.
LEMMA QuietInv ==
  ASSUME CloudtoolsAssumption, ToolInv, NEW h \in Handlers,
         UNCHANGED <<project, environment, absolute, session, shared>>,
         latest' \in [Projects -> [Tools -> 0 .. MaxSessions]],
         escaped \subseteq escaped', escaped' \subseteq Sessions,
         handler' \in [Handlers -> HandlerRecord],
         \A k \in Handlers : k # h => handler'[k] = handler[k],
         Begun(h) \/ GoesOn(h) \/ LooksOn(h) \/ Returns(h),
         tree' \in [Environments -> {"none", "empty", "used"}],
         \A e \in Environments : tree[e] = "used" => tree'[e] = "used"
  PROVE  ToolInv'
  <1>a. /\ TypeOK /\ SessionInv /\ HandlerInv /\ LookInv /\ DeletedInv /\ SharedInv /\ KeptInv
        /\ handler \in [Handlers -> HandlerRecord] /\ session \in [Sessions -> SessionRecord]
        /\ environment \in [Projects -> Environments]
    BY Typed DEF ToolInv
  <1>b. None \notin Projects
    BY DEF CloudtoolsAssumption
  <1>1. TypeOK'
    BY <1>a DEF TypeOK, HandlerRecord, HandlerPcs
  <1>2. SessionInv' /\ DeletedInv'
    BY <1>a DEF SessionInv, DeletedInv
  <1>3. HandlerInv'
    <2>1. /\ handler'[h].pc # "create"
          /\ handler'[h].project = None \/ project[handler'[h].project] # "none"
      BY <1>a, <1>b DEF HandlerInv, HandlerOk, Begun, GoesOn, LooksOn, Returns
    <2>2. ASSUME NEW k \in Handlers, k # h PROVE HandlerOk(k)'
      <3>1. HandlerOk(k) /\ handler'[k] = handler[k]
        BY <1>a, <2>2 DEF HandlerInv
      <3>2. handler[k].pc = "create" => handler'[h].project # handler[k].project
        BY <3>1, <2>1, <1>b DEF HandlerOk
      <3> QED
        BY <3>1, <3>2, <2>2 DEF HandlerOk
    <2>3. HandlerOk(h)'
      <3>1. CASE Begun(h)
        BY <2>1, <3>1, <1>b DEF HandlerOk, Begun
      <3>2. CASE GoesOn(h)
        BY <1>a, <2>1, <3>2 DEF HandlerInv, HandlerOk, GoesOn
      <3>3. CASE LooksOn(h)
        BY <1>a, <2>1, <3>3 DEF HandlerInv, HandlerOk, LooksOn
      <3>4. CASE Returns(h)
        BY <2>1, <3>4 DEF HandlerOk, Returns
      <3> QED
        BY <3>1, <3>2, <3>3, <3>4
    <2> QED
      BY <2>2, <2>3 DEF HandlerInv
  <1>4. LookInv'
    <2> SUFFICES ASSUME NEW k \in Handlers, NEW j \in Sessions,
                        Deleting(k, session[j].project)', session[j].tool \notin handler'[k].todo
                 PROVE  j \in escaped'
      BY DEF LookInv
    <2>1. CASE k # h
      BY <1>a, <2>1 DEF LookInv, Deleting
    <2>2. CASE k = h /\ Begun(h)
      <3>1. session[j].project \in Projects /\ handler'[h].todo = Tools
        BY <2>2 DEF Deleting, Begun
      <3> QED
        BY <3>1, <1>a, <1>b, <2>2 DEF SessionInv
    <2>3. CASE k = h /\ GoesOn(h)
      BY <2>3 DEF Deleting, GoesOn
    <2>4. CASE k = h /\ LooksOn(h)
      <3>1. Deleting(h, session[j].project)
        BY <2>4 DEF Deleting, LooksOn
      <3>2. CASE session[j].tool \in handler[h].todo
        BY <2>4, <3>1, <3>2 DEF LooksOn, Deleting
      <3>3. CASE session[j].tool \notin handler[h].todo
        BY <1>a, <3>1, <3>3 DEF LookInv
      <3> QED
        BY <3>2, <3>3
    <2>5. CASE k = h /\ Returns(h)
      BY <2>5 DEF Deleting, Returns
    <2> QED
      BY <2>1, <2>2, <2>3, <2>4, <2>5
  <1>5. SharedInv'
    <2> SUFFICES ASSUME NEW p \in Projects, NEW q \in Projects,
                        p # q, environment[p] = environment[q], project[p] = "live",
                        project[q] = "live" \/ \E k \in Handlers : Deleting(k, q)'
                 PROVE  environment[p] \in shared
      BY DEF SharedInv
    <2>1. CASE project[q] = "live"
      BY <1>a, <2>1 DEF SharedInv
    <2>2. ASSUME NEW k \in Handlers, Deleting(k, q)', k # h PROVE environment[p] \in shared
      <3>1. Deleting(k, q)
        BY <2>2 DEF Deleting
      <3> QED
        BY <1>a, <3>1 DEF SharedInv
    <2>3. CASE Deleting(h, q)' /\ Begun(h)
      BY <1>a, <2>3, <2>1 DEF Deleting, Begun
    <2>4. CASE Deleting(h, q)' /\ LooksOn(h)
      <3>1. Deleting(h, q)
        BY <2>4 DEF Deleting, LooksOn
      <3> QED
        BY <1>a, <3>1 DEF SharedInv
    <2>5. CASE Deleting(h, q)' /\ (GoesOn(h) \/ Returns(h))
      BY <2>5 DEF Deleting, GoesOn, Returns
    <2> QED
      BY <2>1, <2>2, <2>3, <2>4, <2>5
  <1>6. KeptInv'
    BY <1>a DEF KeptInv, SessionInv
  <1> QED
    BY <1>1, <1>2, <1>3, <1>4, <1>5, <1>6 DEF ToolInv

LEMMA Parts ==
  ASSUME ToolInv
  PROVE  /\ TypeOK /\ SessionInv /\ HandlerInv /\ LookInv /\ DeletedInv /\ SharedInv /\ KeptInv
         /\ handler \in [Handlers -> HandlerRecord] /\ session \in [Sessions -> SessionRecord]
         /\ project \in [Projects -> {"none", "live", "deleted"}]
         /\ environment \in [Projects -> Environments]
         /\ tree \in [Environments -> {"none", "empty", "used"}]
         /\ latest \in [Projects -> [Tools -> 0 .. MaxSessions]]
         /\ shared \subseteq Environments /\ escaped \subseteq Sessions
  BY Typed DEF ToolInv, TypeOK

LEMMA ReadSteps ==
  ASSUME CloudtoolsAssumption, ToolInv, NEW h \in Handlers, NEW p \in Projects,
         (\E t \in Tools : SubmitRead(h, p, t)) \/ DeleteRead(h, p)
  PROVE  ToolInv'
  <1>1. PICK rec \in HandlerRecord :
          /\ handler' = [handler EXCEPT ![h] = rec]
          /\ rec.pc \in {"check", "prepare", "look"} /\ rec.project = p
          /\ rec.pc # "look" => rec.tool \in Tools
          /\ rec.pc = "look" => rec.todo = Tools
    <2>1. ASSUME NEW t \in Tools, SubmitRead(h, p, t)
          PROVE  \E rec \in HandlerRecord :
                   /\ handler' = [handler EXCEPT ![h] = rec]
                   /\ rec.pc \in {"check", "prepare"} /\ rec.project = p /\ rec.tool \in Tools
      <3>1. PICK pc \in {"check", "prepare"} :
              handler' = [handler EXCEPT ![h] = [HandlerIdle EXCEPT !.pc = pc, !.project = p, !.tool = t]]
        BY <2>1 DEF SubmitRead
      <3> DEFINE rec == [HandlerIdle EXCEPT !.pc = pc, !.project = p, !.tool = t]
      <3>2. rec \in HandlerRecord /\ rec.pc = pc /\ rec.project = p /\ rec.tool = t
        BY IdleRecord DEF HandlerRecord, HandlerPcs
      <3>3. handler' = [handler EXCEPT ![h] = rec]
        BY <3>1
      <3> HIDE DEF rec
      <3> QED
        BY <3>2, <3>3
    <2>2. CASE DeleteRead(h, p)
      <3> DEFINE rec == [HandlerIdle EXCEPT !.pc = "look", !.project = p, !.todo = Tools]
      <3>1. rec \in HandlerRecord /\ rec.pc = "look" /\ rec.project = p /\ rec.todo = Tools
        BY IdleRecord DEF HandlerRecord, HandlerPcs
      <3>2. handler' = [handler EXCEPT ![h] = rec]
        BY <2>2 DEF DeleteRead
      <3> HIDE DEF rec
      <3> QED
        BY <3>1, <3>2
    <2> QED
      BY <2>1, <2>2
  <1>2. /\ handler' \in [Handlers -> HandlerRecord] /\ handler'[h] = rec
        /\ \A k \in Handlers : k # h => handler'[k] = handler[k]
    BY <1>1, Parts, Replaced
  <1>3. /\ project[p] = "live"
        /\ UNCHANGED <<project, environment, absolute, tree, session, latest, shared, escaped>>
    BY DEF SubmitRead, DeleteRead
  <1>4. Begun(h)
    BY <1>1, <1>2, <1>3 DEF Begun
  <1> QED
    BY <1>2, <1>3, <1>4, QuietInv, Parts

LEMMA SubmitSteps ==
  ASSUME CloudtoolsAssumption, ToolInv, NEW h \in Handlers,
         SubmitCheck(h) \/ SubmitPrepare(h) \/ SubmitSave(h) \/ HandlerFails(h)
  PROVE  ToolInv'
  <1>1. CASE SubmitCheck(h)
    <2>1. UNCHANGED <<project, environment, absolute, tree, session, latest, shared, escaped>>
      BY <1>1 DEF SubmitCheck
    <2>2. CASE Respond(h)
      BY <2>1, <2>2, RespondFacts, QuietInv, Parts DEF Returns
    <2>3. CASE Goto(h, "prepare")
      <3>1. /\ handler' \in [Handlers -> HandlerRecord] /\ GoesOn(h)
            /\ \A k \in Handlers : k # h => handler'[k] = handler[k]
        BY <1>1, <2>3, GotoFacts, Parts DEF SubmitCheck, GoesOn, HandlerPcs
      <3> QED
        BY <2>1, <3>1, QuietInv, Parts
    <2> QED
      BY <1>1, <2>2, <2>3 DEF SubmitCheck
  <1>2. CASE SubmitPrepare(h)
    <2>1. /\ handler' \in [Handlers -> HandlerRecord] /\ GoesOn(h)
          /\ \A k \in Handlers : k # h => handler'[k] = handler[k]
      BY <1>2, GotoFacts, Parts DEF SubmitPrepare, GoesOn, HandlerPcs
    <2>2. UNCHANGED <<project, environment, absolute, session, latest, shared, escaped>>
      BY <1>2 DEF SubmitPrepare
    <2>3. /\ tree' \in [Environments -> {"none", "empty", "used"}]
          /\ \A e \in Environments : tree[e] = "used" => tree'[e] = "used"
      BY <1>2, Parts DEF SubmitPrepare
    <2> QED
      BY <2>1, <2>2, <2>3, QuietInv, Parts
  <1>3. CASE SubmitSave(h)
    <2>1. UNCHANGED <<project, environment, absolute, tree, session, shared, escaped>> /\ Respond(h)
      BY <1>3 DEF SubmitSave
    <2>2. handler[h].session \in 0 .. MaxSessions
      BY Parts DEF HandlerRecord
    <2>3. latest' \in [Projects -> [Tools -> 0 .. MaxSessions]]
      BY <1>3, <2>2, Parts DEF SubmitSave
    <2> QED
      BY <2>1, <2>3, RespondFacts, QuietInv, Parts DEF Returns
  <1>4. CASE HandlerFails(h)
    <2>1. UNCHANGED <<project, environment, absolute, tree, session, latest, shared, escaped>>
      BY <1>4 DEF HandlerFails
    <2> QED
      BY <1>4, <2>1, RespondFacts, QuietInv, Parts DEF Returns, HandlerFails
  <1> QED
    BY <1>1, <1>2, <1>3, <1>4

LEMMA DeleteLookStep ==
  ASSUME CloudtoolsAssumption, ToolInv, NEW h \in Handlers, NEW t \in Tools, DeleteLook(h, t)
  PROVE  ToolInv'
  <1>1. UNCHANGED <<project, environment, absolute, tree, session, latest, shared>>
    BY DEF DeleteLook
  <1>2. CASE Respond(h) /\ UNCHANGED escaped
    BY <1>1, <1>2, RespondFacts, QuietInv, Parts DEF Returns
  <1>3. ASSUME NEW answered \in BOOLEAN, ~SeenBusy(handler[h].project, t, answered),
               handler' = [handler EXCEPT ![h].todo = @ \ {t}],
               escaped' = escaped \cup
                 {j \in Sessions :
                    /\ session[j].project = handler[h].project /\ session[j].tool = t
                    /\ \/ latest[handler[h].project][t] # j \/ ~answered
                       \/ session[j].state \notin {"queued", "running"}}
        PROVE  ToolInv'
    <2> DEFINE rec == [handler[h] EXCEPT !.todo = @ \ {t}]
    <2>1. /\ rec \in HandlerRecord /\ rec.pc = handler[h].pc /\ rec.project = handler[h].project
          /\ rec.todo = handler[h].todo \ {t}
      BY Parts DEF HandlerRecord
    <2>2. handler' = [handler EXCEPT ![h] = rec]
      BY <1>3
    <2> HIDE DEF rec
    <2>3. /\ handler' \in [Handlers -> HandlerRecord] /\ handler'[h] = rec
          /\ \A k \in Handlers : k # h => handler'[k] = handler[k]
      BY <2>1, <2>2, Parts, Replaced
    <2>4. \A j \in Sessions :
            session[j].project = handler[h].project /\ session[j].tool = t => j \in escaped'
      BY <1>3 DEF SeenBusy, Busy, Sessions
    <2>5. LooksOn(h)
      BY <2>1, <2>3, <2>4 DEF LooksOn, DeleteLook
    <2>6. escaped \subseteq escaped' /\ escaped' \subseteq Sessions
      BY <1>3, Parts
    <2> QED
      BY <1>1, <2>3, <2>5, <2>6, QuietInv, Parts
  <1> QED
    BY <1>2, <1>3 DEF DeleteLook

-----------------------------------------------------------------------------
(* The steps that create a project.                                        *)

LEMMA CreateCheckStep ==
  ASSUME CloudtoolsAssumption, ToolInv, NEW h \in Handlers, NEW p \in Projects,
         NEW e \in Environments, CreateCheck(h, p, e)
  PROVE  ToolInv'
  <1>a. /\ project[p] = "none" /\ tree[e] # "used" /\ handler[h].pc = "idle"
        /\ \A k \in Handlers : handler[k].project # p
        /\ UNCHANGED <<project, session, latest, shared, escaped>>
    BY DEF CreateCheck
  <1>b. /\ environment' \in [Projects -> Environments]
        /\ \A q \in Projects : q # p => environment'[q] = environment[q]
        /\ tree' \in [Environments -> {"none", "empty", "used"}]
        /\ \A d \in Environments : tree[d] = "used" => tree'[d] = "used"
    BY Parts DEF CreateCheck
  <1>c. PICK rec \in HandlerRecord : /\ handler' = [handler EXCEPT ![h] = rec]
                                     /\ rec.pc = "create" /\ rec.project = p
    <2> DEFINE rec == [HandlerIdle EXCEPT !.pc = "create", !.project = p]
    <2>1. rec \in HandlerRecord /\ rec.pc = "create" /\ rec.project = p
      BY IdleRecord DEF HandlerRecord, HandlerPcs
    <2>2. handler' = [handler EXCEPT ![h] = rec]
      BY DEF CreateCheck
    <2> HIDE DEF rec
    <2> QED
      BY <2>1, <2>2
  <1>d. /\ handler' \in [Handlers -> HandlerRecord] /\ handler'[h] = rec
        /\ \A k \in Handlers : k # h => handler'[k] = handler[k]
    BY <1>c, Parts, Replaced
  <1>e. \A j \in Sessions : session[j].state # "none" => session[j].project # p
    BY <1>a, Parts DEF SessionInv
  <1>1. TypeOK'
    BY <1>a, <1>b, <1>d, Parts DEF TypeOK, CreateCheck, HandlerRecord, HandlerPcs
  <1>2. SessionInv' /\ DeletedInv'
    BY <1>a, Parts DEF SessionInv, DeletedInv
  <1>3. HandlerInv'
    <2>1. HandlerOk(h)'
      BY <1>a, <1>c, <1>d DEF HandlerOk
    <2>2. ASSUME NEW k \in Handlers, k # h PROVE HandlerOk(k)'
      <3>1. HandlerOk(k) /\ handler'[k] = handler[k]
        BY <1>d, <2>2, Parts DEF HandlerInv
      <3>2. handler'[h].project # handler[k].project
        BY <1>a, <1>c, <1>d
      <3> QED
        BY <3>1, <3>2, <1>a, <1>d, <2>2 DEF HandlerOk
    <2> QED
      BY <2>1, <2>2 DEF HandlerInv
  <1>4. \A k \in Handlers, q \in Projects \cup {None} :
          Deleting(k, q)' => Deleting(k, q) /\ handler'[k] = handler[k]
    BY <1>c, <1>d DEF Deleting
  <1>5. LookInv'
    BY <1>4, <1>a, Parts DEF LookInv, SessionRecord
  <1>6. SharedInv'
    <2> SUFFICES ASSUME NEW q \in Projects, NEW r \in Projects,
                        q # r, environment'[q] = environment'[r], project[q] = "live",
                        project[r] = "live" \/ \E k \in Handlers : Deleting(k, r)'
                 PROVE  environment'[q] \in shared
      BY <1>a DEF SharedInv
    <2>1. q # p /\ r # p
      BY <1>a, <1>4 DEF Deleting
    <2> QED
      BY <1>b, <1>4, <2>1, Parts DEF SharedInv
  <1>7. KeptInv'
    BY <1>a, <1>b, <1>e, Parts DEF KeptInv, SessionInv
  <1> QED
    BY <1>1, <1>2, <1>3, <1>5, <1>6, <1>7 DEF ToolInv

LEMMA CreateSaveStep ==
  ASSUME CloudtoolsAssumption, ToolInv, NEW h \in Handlers, CreateSave(h)
  PROVE  ToolInv'
  <1> DEFINE p == handler[h].project
             e == environment[p]
  <1>a. /\ handler[h].pc = "create" /\ p \in Projects /\ project[p] = "none"
        /\ \A k \in Handlers : k # h => handler[k].project # p
    BY Parts DEF CreateSave, HandlerInv, HandlerOk
  <1>b. UNCHANGED <<environment, absolute, tree, session, latest, escaped>>
    BY DEF CreateSave
  <1>c. /\ project' \in [Projects -> {"none", "live", "deleted"}] /\ project'[p] = "live"
        /\ \A q \in Projects : q # p => project'[q] = project[q]
    BY <1>a, Parts DEF CreateSave
  <1>d. /\ handler' \in [Handlers -> HandlerRecord]
        /\ handler'[h].pc = "idle" /\ handler'[h].project = None
        /\ \A k \in Handlers : k # h => handler'[k] = handler[k]
    BY RespondFacts, Parts DEF CreateSave
  <1>e. shared \subseteq shared' /\ shared' \subseteq Environments
    BY <1>a, Parts DEF CreateSave
  <1>f. ASSUME NEW q \in Projects, q # p, environment[q] = e,
               project[q] = "live" \/ \E k \in Handlers : Deleting(k, q)
        PROVE  e \in shared'
    BY <1>f DEF CreateSave
  <1>g. None \notin Projects
    BY DEF CloudtoolsAssumption
  <1> HIDE DEF p
  <1>1. TypeOK'
    BY <1>b, <1>c, <1>d, <1>e, Parts DEF TypeOK, HandlerRecord, HandlerPcs
  <1>2. SessionInv'
    BY <1>b, <1>c, Parts DEF SessionInv
  <1>3. HandlerInv'
    <2>1. HandlerOk(h)'
      BY <1>d DEF HandlerOk
    <2>2. ASSUME NEW k \in Handlers, k # h PROVE HandlerOk(k)'
      <3>1. HandlerOk(k) /\ handler'[k] = handler[k] /\ handler[k].project # p
        BY <1>a, <1>d, <2>2, Parts DEF HandlerInv
      <3>2. handler[k].project \in Projects => project'[handler[k].project] = project[handler[k].project]
        BY <3>1, <1>c
      <3> QED
        BY <3>1, <3>2, <1>d, <1>g, <2>2 DEF HandlerOk
    <2> QED
      BY <2>1, <2>2 DEF HandlerInv
  <1>4. \A k \in Handlers, q \in Projects \cup {None} :
          Deleting(k, q)' => Deleting(k, q) /\ handler'[k] = handler[k] /\ q # p
    BY <1>a, <1>d DEF Deleting
  <1>5. LookInv'
    BY <1>4, <1>b, Parts DEF LookInv, SessionRecord
  <1>6. DeletedInv'
    BY <1>b, <1>c, Parts DEF DeletedInv, SessionInv
  <1>7. SharedInv'
    <2> SUFFICES ASSUME NEW q \in Projects, NEW r \in Projects,
                        q # r, environment[q] = environment[r], project'[q] = "live",
                        project'[r] = "live" \/ \E k \in Handlers : Deleting(k, r)'
                 PROVE  environment[q] \in shared'
      BY <1>b DEF SharedInv
    <2>1. CASE q = p
      <3>1. project[r] = "live" \/ \E k \in Handlers : Deleting(k, r)
        BY <2>1, <1>c, <1>4
      <3> QED
        BY <3>1, <2>1, <1>f
    <2>2. CASE r = p
      <3>1. project[q] = "live"
        BY <2>2, <1>c
      <3> QED
        BY <3>1, <2>2, <1>f
    <2>3. CASE q # p /\ r # p
      BY <2>3, <1>c, <1>4, <1>e, Parts DEF SharedInv
    <2> QED
      BY <2>1, <2>2, <2>3
  <1>8. KeptInv'
    BY <1>b, <1>e, Parts DEF KeptInv
  <1> QED
    BY <1>1, <1>2, <1>3, <1>5, <1>6, <1>7, <1>8 DEF ToolInv

-----------------------------------------------------------------------------
(* The job of a tool.                                                      *)

LEMMA SubmitJobStep ==
  ASSUME CloudtoolsAssumption, ToolInv, NEW h \in Handlers, SubmitJob(h)
  PROVE  ToolInv'
  <1> DEFINE p == handler[h].project
             t == handler[h].tool
  <1>1. /\ handler[h].pc = "submit" /\ p \in Projects /\ t \in Tools /\ project[p] # "none"
        /\ UNCHANGED <<project, environment, absolute, tree, latest, shared>>
    BY Parts DEF SubmitJob, HandlerInv, HandlerOk
  <1>2. PICK i \in Sessions :
          /\ session[i].state = "none"
          /\ session' = [session EXCEPT ![i] = [state |-> "queued", project |-> p, tool |-> t]]
          /\ escaped' = IF Unnoticed(p, t) THEN escaped \cup {i} ELSE escaped
          /\ handler' = [handler EXCEPT ![h].pc = "save", ![h].session = i]
    BY DEF SubmitJob
  <1> DEFINE rec == [handler[h] EXCEPT !.pc = "save", !.session = i]
  <1>3. /\ rec \in HandlerRecord /\ rec.pc = "save" /\ rec.project = p /\ rec.tool = t
        /\ handler' = [handler EXCEPT ![h] = rec]
    <2>1. i \in 0 .. MaxSessions
      BY DEF Sessions, CloudtoolsAssumption
    <2>2. handler[h] \in HandlerRecord
      BY Parts
    <2>3. /\ rec \in HandlerRecord /\ rec.pc = "save" /\ rec.project = p /\ rec.tool = t
      BY <2>1, <2>2 DEF HandlerRecord, HandlerPcs
    <2>4. handler' = [handler EXCEPT ![h] = rec]
      BY <1>2, Zenon
    <2> QED
      BY <2>3, <2>4
  <1> HIDE DEF rec
  <1>4. /\ handler' \in [Handlers -> HandlerRecord] /\ handler'[h] = rec
        /\ \A k \in Handlers : k # h => handler'[k] = handler[k]
    BY <1>3, Parts, Replaced
  <1>5. /\ session' \in [Sessions -> SessionRecord]
        /\ session'[i].state = "queued" /\ session'[i].project = p /\ session'[i].tool = t
        /\ \A j \in Sessions : j # i => session'[j] = session[j]
    BY <1>1, <1>2, Parts DEF SessionRecord, AliveStates
  <1>6. escaped \subseteq escaped' /\ escaped' \subseteq Sessions
    BY <1>2, Parts
  <1>7. i \in escaped' \/ ~Unnoticed(p, t)
    BY <1>2
  <1>8. \A k \in Handlers, q \in Projects \cup {None} :
          Deleting(k, q)' => Deleting(k, q) /\ handler'[k] = handler[k]
    BY <1>3, <1>4 DEF Deleting
  <1> HIDE DEF p, t
  <1>9. TypeOK'
    BY <1>1, <1>4, <1>5, <1>6, Parts DEF TypeOK, HandlerRecord, HandlerPcs, SessionRecord
  <1>10. SessionInv'
    BY <1>1, <1>5, Parts DEF SessionInv
  <1>11. HandlerInv'
    <2>1. HandlerOk(h)'
      BY <1>1, <1>3, <1>4 DEF HandlerOk
    <2>2. ASSUME NEW k \in Handlers, k # h PROVE HandlerOk(k)'
      <3>1. HandlerOk(k) /\ handler'[k] = handler[k] /\ rec.project = handler[h].project
        BY <1>3, <1>4, <2>2, Parts DEF HandlerInv, p
      <3> QED
        BY <3>1, <1>1, <1>4, <2>2 DEF HandlerOk
    <2> QED
      BY <2>1, <2>2 DEF HandlerInv
  <1>12. LookInv'
    <2> SUFFICES ASSUME NEW k \in Handlers, NEW j \in Sessions,
                        Deleting(k, session[j].project)', session'[j].tool \notin handler'[k].todo
                 PROVE  j \in escaped'
      BY DEF LookInv
    <2>1. Deleting(k, session'[j].project) /\ handler'[k] = handler[k]
      BY <1>5, <1>8 DEF Deleting, SessionRecord
    <2>2. CASE j = i
      BY <2>1, <2>2, <1>5, <1>7 DEF Unnoticed
    <2>3. CASE j # i
      BY <2>1, <2>3, <1>5, <1>6, Parts DEF LookInv
    <2> QED
      BY <2>2, <2>3
  <1>13. DeletedInv'
    BY <1>1, <1>5, <1>6, <1>7, Parts DEF DeletedInv, Unnoticed
  <1>14. SharedInv'
    BY <1>1, <1>8, Parts DEF SharedInv
  <1>15. KeptInv'
    BY <1>1, <1>5, <1>6, <1>7, Parts DEF KeptInv, Unnoticed
  <1> QED
    BY <1>9, <1>10, <1>11, <1>12, <1>13, <1>14, <1>15 DEF ToolInv

LEMMA SessionMovesStep ==
  ASSUME CloudtoolsAssumption, ToolInv, NEW i \in Sessions, SessionMoves(i)
  PROVE  ToolInv'
  <1>1. UNCHANGED <<project, environment, absolute, tree, latest, handler, shared, escaped>>
    BY DEF SessionMoves
  <1>2. PICK s \in {"queued", "running", "aside", "over"} :
          session[i].state # "none" /\ session' = [session EXCEPT ![i].state = s]
    <2>1. PICK s \in {<<"queued", "running">>, <<"queued", "aside">>, <<"aside", "queued">>,
                      <<"running", "aside">>, <<"queued", "over">>, <<"running", "over">>,
                      <<"over", "queued">>} :
            session[i].state = s[1] /\ session' = [session EXCEPT ![i].state = s[2]]
      BY DEF SessionMoves
    <2>2. s[1] # "none" /\ s[2] \in {"queued", "running", "aside", "over"}
      OBVIOUS
    <2> QED
      BY <2>1, <2>2
  <1>3. /\ session' \in [Sessions -> SessionRecord]
        /\ \A j \in Sessions : /\ session'[j].project = session[j].project
                               /\ session'[j].tool = session[j].tool
                               /\ (session'[j].state = "none") <=> (session[j].state = "none")
    BY <1>2, Parts DEF SessionRecord, AliveStates
  <1>4. TypeOK'
    BY <1>1, <1>3, Parts DEF TypeOK, SessionRecord
  <1>5. SessionInv' /\ DeletedInv' /\ KeptInv'
    BY <1>1, <1>3, Parts DEF SessionInv, DeletedInv, KeptInv
  <1>6. LookInv'
    BY <1>1, <1>3, Parts DEF LookInv, Deleting
  <1>7. HandlerInv' /\ SharedInv'
    BY <1>1, Parts DEF HandlerInv, HandlerOk, SharedInv, Deleting
  <1> QED
    BY <1>4, <1>5, <1>6, <1>7 DEF ToolInv

-----------------------------------------------------------------------------
(* The steps that delete a project.                                        *)

\* A delete whose looks are done has let every job of the project escape.
LEMMA LookedOver ==
  ASSUME ToolInv, NEW h \in Handlers, handler[h].pc = "row" \/ Looked(h)
  PROVE  /\ handler[h].project \in Projects /\ handler[h].todo = {}
         /\ project[handler[h].project] # "none" /\ Deleting(h, handler[h].project)
         /\ \A j \in Sessions : session[j].project = handler[h].project => j \in escaped
  <1>1. /\ handler[h].project \in Projects /\ handler[h].todo = {}
        /\ project[handler[h].project] # "none" /\ Deleting(h, handler[h].project)
    BY Parts DEF HandlerInv, HandlerOk, Looked, Deleting
  <1> QED
    BY <1>1, Parts DEF LookInv

LEMMA DeleteTreeStep ==
  ASSUME CloudtoolsAssumption, ToolInv, NEW h \in Handlers, DeleteTree(h)
  PROVE  ToolInv'
  <1> DEFINE p == handler[h].project
  <1>1. /\ p \in Projects /\ project[p] # "none" /\ Deleting(h, p) /\ handler[h].todo = {}
        /\ \A j \in Sessions : session[j].project = p => j \in escaped
        /\ UNCHANGED <<project, environment, absolute, session, latest, shared, escaped>>
    BY LookedOver DEF DeleteTree
  <1>2. /\ handler' \in [Handlers -> HandlerRecord]
        /\ handler'[h].pc = "row" /\ handler'[h].project = p /\ handler'[h].todo = {}
        /\ \A k \in Handlers : k # h => handler'[k] = handler[k]
    BY <1>1, GotoFacts, Parts DEF DeleteTree, HandlerPcs
  <1>3. /\ tree' \in [Environments -> {"none", "empty", "used"}]
        /\ \A e \in Environments : e # environment[p] => tree'[e] = tree[e]
    BY Parts DEF DeleteTree
  <1> HIDE DEF p
  <1>4. TypeOK'
    BY <1>1, <1>2, <1>3, Parts DEF TypeOK, HandlerRecord, HandlerPcs
  <1>5. SessionInv' /\ DeletedInv'
    BY <1>1, Parts DEF SessionInv, DeletedInv
  <1>6. HandlerInv'
    <2>1. HandlerOk(h)'
      BY <1>1, <1>2 DEF HandlerOk
    <2>2. ASSUME NEW k \in Handlers, k # h PROVE HandlerOk(k)'
      <3>1. HandlerOk(k) /\ handler'[k] = handler[k] /\ handler[h].project = p
        BY <1>2, <2>2, Parts DEF HandlerInv, p
      <3> QED
        BY <3>1, <1>1, <1>2, <2>2 DEF HandlerOk
    <2> QED
      BY <2>1, <2>2 DEF HandlerInv
  <1>7. \A k \in Handlers, q \in Projects \cup {None} :
          Deleting(k, q)' => Deleting(k, q) /\ handler'[k].todo = handler[k].todo
    BY <1>1, <1>2 DEF Deleting
  <1>8. LookInv'
    BY <1>1, <1>7, Parts DEF LookInv, SessionRecord
  <1>9. SharedInv'
    BY <1>1, <1>7, Parts DEF SharedInv
  <1>10. KeptInv'
    <2> SUFFICES ASSUME NEW j \in Sessions, session[j].state # "none"
                 PROVE  \/ tree'[environment[session[j].project]] = "used"
                        \/ environment[session[j].project] \in shared \/ j \in escaped
      BY <1>1 DEF KeptInv
    <2> DEFINE q == session[j].project
    <2>1. q \in Projects /\ project[q] # "none"
      BY Parts DEF SessionInv
    <2>2. CASE q = p \/ project[q] = "deleted"
      BY <2>2, <1>1, Parts DEF DeletedInv
    <2>3. CASE q # p /\ project[q] = "live" /\ environment[q] = environment[p]
      BY <2>1, <2>3, <1>1, Parts DEF SharedInv
    <2>4. CASE environment[q] # environment[p]
      BY <2>1, <2>4, <1>3, Parts DEF KeptInv
    <2> QED
      BY <2>1, <2>2, <2>3, <2>4, Parts
  <1> QED
    BY <1>4, <1>5, <1>6, <1>8, <1>9, <1>10 DEF ToolInv

LEMMA DeleteRowStep ==
  ASSUME CloudtoolsAssumption, ToolInv, NEW h \in Handlers, DeleteRow(h)
  PROVE  ToolInv'
  <1> DEFINE p == handler[h].project
  <1>1. /\ p \in Projects /\ project[p] # "none" /\ Deleting(h, p)
        /\ \A j \in Sessions : session[j].project = p => j \in escaped
        /\ UNCHANGED <<environment, tree, session, shared, escaped>>
    BY LookedOver DEF DeleteRow
  <1>2. /\ handler' \in [Handlers -> HandlerRecord]
        /\ handler'[h].pc = "idle" /\ handler'[h].project = None
        /\ \A k \in Handlers : k # h => handler'[k] = handler[k]
    BY RespondFacts, Parts DEF DeleteRow
  <1>3. /\ project' \in [Projects -> {"none", "live", "deleted"}] /\ project'[p] = "deleted"
        /\ \A q \in Projects : q # p => project'[q] = project[q]
    BY <1>1, Parts DEF DeleteRow
  <1>4. /\ latest' \in [Projects -> [Tools -> 0 .. MaxSessions]] /\ absolute' \subseteq Projects
    <2>1. [t \in Tools |-> 0] \in [Tools -> 0 .. MaxSessions]
      BY DEF CloudtoolsAssumption
    <2>2. latest' = [latest EXCEPT ![p] = [t \in Tools |-> 0]] /\ absolute' = absolute \ {p}
      BY DEF DeleteRow
    <2> QED
      BY <2>1, <2>2, Parts DEF TypeOK
  <1>5. None \notin Projects
    BY DEF CloudtoolsAssumption
  <1> HIDE DEF p
  <1>6. TypeOK'
    BY <1>1, <1>2, <1>3, <1>4, Parts DEF TypeOK, HandlerRecord, HandlerPcs
  <1>7. SessionInv'
    BY <1>1, <1>3, Parts DEF SessionInv
  <1>8. DeletedInv'
    BY <1>1, <1>3, Parts DEF DeletedInv, SessionInv
  <1>9. HandlerInv'
    <2>1. HandlerOk(h)'
      BY <1>2 DEF HandlerOk
    <2>2. ASSUME NEW k \in Handlers, k # h PROVE HandlerOk(k)'
      <3>1. /\ HandlerOk(k) /\ handler'[k] = handler[k]
            /\ handler[k].pc = "create" => handler[k].project # p
        BY <1>1, <1>2, <2>2, Parts DEF HandlerInv, HandlerOk
      <3> QED
        BY <3>1, <1>1, <1>2, <1>3, <1>5, <2>2 DEF HandlerOk
    <2> QED
      BY <2>1, <2>2 DEF HandlerInv
  <1>10. \A k \in Handlers, q \in Projects \cup {None} :
           Deleting(k, q)' => Deleting(k, q) /\ handler'[k] = handler[k]
    BY <1>2 DEF Deleting
  <1>11. LookInv'
    BY <1>1, <1>10, Parts DEF LookInv, SessionRecord
  <1>12. SharedInv'
    BY <1>1, <1>3, <1>10, Parts DEF SharedInv
  <1>13. KeptInv'
    BY <1>1, Parts DEF KeptInv
  <1> QED
    BY <1>6, <1>7, <1>8, <1>9, <1>11, <1>12, <1>13 DEF ToolInv

-----------------------------------------------------------------------------
LEMMA StepInv == CloudtoolsAssumption /\ ToolInv /\ [Next]_toolVars => ToolInv'
  <1> SUFFICES ASSUME CloudtoolsAssumption, ToolInv, [Next]_toolVars PROVE ToolInv'
    OBVIOUS
  <1>1. ASSUME NEW h \in Handlers,
               \/ \E p \in Projects, e \in Environments : CreateCheck(h, p, e)
               \/ CreateSave(h)
        PROVE  ToolInv'
    BY <1>1, CreateCheckStep, CreateSaveStep
  <1>2. ASSUME NEW h \in Handlers, NEW p \in Projects, NEW t \in Tools, SubmitRead(h, p, t)
        PROVE  ToolInv'
    BY <1>2, ReadSteps
  <1>3. ASSUME NEW h \in Handlers, NEW p \in Projects, DeleteRead(h, p) PROVE ToolInv'
    BY <1>3, ReadSteps
  <1>4. ASSUME NEW h \in Handlers,
               SubmitCheck(h) \/ SubmitPrepare(h) \/ SubmitSave(h) \/ HandlerFails(h)
        PROVE  ToolInv'
    BY <1>4, SubmitSteps
  <1>5. ASSUME NEW h \in Handlers,
               \/ \E t \in Tools : DeleteLook(h, t)
               \/ SubmitJob(h) \/ DeleteTree(h) \/ DeleteRow(h)
        PROVE  ToolInv'
    BY <1>5, DeleteLookStep, SubmitJobStep, DeleteTreeStep, DeleteRowStep
  <1>6. ASSUME NEW j \in Sessions, SessionMoves(j) PROVE ToolInv'
    BY <1>6, SessionMovesStep
  <1>7. CASE UNCHANGED toolVars
    BY <1>7, Parts DEF toolVars, ToolInv, TypeOK, SessionInv, HandlerInv, HandlerOk, LookInv,
       DeletedInv, SharedInv, KeptInv, Deleting
  <1> QED
    BY <1>1, <1>2, <1>3, <1>4, <1>5, <1>6, <1>7 DEF Next

\* The records of the projects, the directories, the jobs, the instances and
\* the requests stay what the views take them for.
THEOREM TypeCorrect ==
  ASSUME CloudtoolsAssumption
  PROVE  Spec => []TypeOK
  <1>1. Init => ToolInv
    BY InitInv
  <1>2. ToolInv /\ [Next]_toolVars => ToolInv'
    BY StepInv
  <1>3. ToolInv => TypeOK
    BY DEF ToolInv
  <1> QED
    BY <1>1, <1>2, <1>3, PTL DEF Spec

\* The directory of a tool that lives is removed under it only when its job
\* escaped the look of a delete, or two projects came to use the directory
\* (delete_project and get_new_created_project, which take no lock): however
\* many requests overlap, fail or are killed, no other way leads there.
THEOREM EnvironmentIsKept ==
  ASSUME CloudtoolsAssumption
  PROVE  Spec => []EnvironmentKept
  <1>1. Init => ToolInv
    BY InitInv
  <1>2. ToolInv /\ [Next]_toolVars => ToolInv'
    BY StepInv
  <1>3. ToolInv => EnvironmentKept
    BY DEF ToolInv, KeptInv, EnvironmentKept, AliveStates
  <1> QED
    BY <1>1, <1>2, <1>3, PTL DEF Spec
===============================================================================
