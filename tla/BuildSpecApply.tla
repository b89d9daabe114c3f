---------------------------- MODULE BuildSpecApply ----------------------------
(***************************************************************************)
(* applyBuildSpec: the rows one build spec makes, statement by statement,  *)
(* and the rollback that is to take them away again.                       *)
(*                                                                         *)
(* An attempt is one call of applyBuildSpec. Its pipeline is a sequence of *)
(* steps that the spec determines (Plan); each step is one statement that  *)
(* writes, and each may throw. Two attempts at the same spec may overlap:  *)
(* the queue of module BuildSpecRun can deliver a job again.               *)
(*                                                                         *)
(* A row is a record of its kind, its place in the spec and who made it.   *)
(* The database maps each row that exists to the project it is in, because *)
(* deleting a project deletes what is in it. Columns, names, credentials   *)
(* and the steps and edges of a workflow, which share its fate, are left   *)
(* out. The owner of the rows is a user, not an organization.              *)
(***************************************************************************)
EXTENDS Naturals, Sequences, FiniteSets, SequencesExt

CONSTANTS
    Attempts,   \* calls of applyBuildSpec
    User,       \* the maker of the rows that were there before
    None,       \* no row
    Specs,      \* the build specs a user may send
    Faults,     \* faults that may happen: "answer", "undo", "die", ...
    MaxHurt     \* bound: the most attempts a fault strikes

ASSUME UserAssumption == User \notin Attempts
ASSUME AttemptsAssumption == IsFiniteSet(Attempts)
ASSUME MaxHurtAssumption == MaxHurt \in Nat
ASSUME SpecsAssumption ==
    Specs \subseteq [valid: BOOLEAN, dryRun: BOOLEAN, ownProject: BOOLEAN, hasDefault: BOOLEAN,
                     keepOnFailure: BOOLEAN,
                     gateways: Seq({"new", "existing"}), plugins: Seq({"generated", "store"}),
                     installed: SUBSET Nat, workflows: Nat, resources: Nat]

VARIABLES
    spec,     \* the build spec the attempts apply
    db,       \* db[r]: the project of row r, for the rows that exist
    active,   \* the workflow rows that are ACTIVE and enabled
    try       \* try[a]: where attempt a stands

applyVars == <<spec, db, active, try>>

Kinds == {"project", "gateway", "catalog", "install", "workflow", "resource"}
Makers == Attempts \cup {User}
Row(kind, ref, by) == [kind |-> kind, ref |-> ref, by |-> by]
Rows == [kind: Kinds, ref: Nat, by: Makers]

(* A project of the user. It is the default project if spec.hasDefault;    *)
(* else the first attempt to need a default project makes one.             *)
Home == Row("project", 0, User)
DefaultBy(a) == Row("project", 1, a)

(* What a user has before: a project, the gateways the spec calls existing *)
(* and some installs of the store plugins it names.                        *)
UserRows(s) ==
    {Home} \cup {Row("gateway", g, User) : g \in {i \in DOMAIN s.gateways : s.gateways[i] = "existing"}}
           \cup {Row("install", p, User) : p \in s.installed}

(***************************************************************************)
(* The pipeline                                                            *)
(***************************************************************************)
Step(do, ref) == [do |-> do, ref |-> ref]
Repeat(do, n) == [i \in 1..n |-> Step(do, i)]

GatewaySteps(s) == FlattenSeq([i \in DOMAIN s.gateways |->
    IF s.gateways[i] = "new"
    THEN <<Step("checkCredentials", i), Step("ensureDefault", i),
           Step("createGateway", i), Step("attachGateway", i)>>
    ELSE <<Step("adoptGateway", i)>>])

PluginSteps(s) == FlattenSeq([i \in DOMAIN s.plugins |->
    IF s.plugins[i] = "generated"
    THEN <<Step("createCatalog", i), Step("installCatalog", i)>>
    ELSE <<Step("findInstall", i), Step("install", i)>>])

WorkflowSteps(s) == FlattenSeq([i \in 1..s.workflows |->
    <<Step("createWorkflow", i), Step("wireWorkflow", i)>>])

ProjectSteps(s) ==
    IF s.ownProject THEN <<Step("project", 0)>>
    ELSE <<Step("ensureDefault", 0), Step("project", 0)>>

(* Mutant: the workflows go live as soon as they are complete.              *)
PlanActivatesEarly(s) ==
    ProjectSteps(s) \o GatewaySteps(s) \o PluginSteps(s) \o WorkflowSteps(s)
        \o Repeat("createResource", s.resources)
        \o Repeat("activate", s.workflows) \o <<Step("smokeTest", 0)>>

(* The order of applyBuildSpec: every workflow is tested before any is     *)
(* activated.                                                              *)
Plan(s) ==
    ProjectSteps(s) \o GatewaySteps(s) \o PluginSteps(s) \o WorkflowSteps(s)
        \o Repeat("createResource", s.resources)
        \o <<Step("smokeTest", 0)>> \o Repeat("activate", s.workflows)

Plans == [s \in Specs |-> Plan(s)]

(* The order of rollbackAll.                                               *)
UndoOrder == <<"resource", "workflow", "install", "catalog", "gateway", "project">>

Pcs == {"idle", "apply", "undo", "ended", "dead"}
Ends == {"none", "applied", "rolled-back", "validation-failed", "threw"}

(* at: the step of Plan; made: the rollback handles that are left; seen:   *)
(* the install or default project found, or the one to be made; tested:    *)
(* whether the smoke tests passed; why: what the rollback is for; hurt: a  *)
(* fault of Faults struck.                                                 *)
Try == [pc: Pcs, at: Nat, made: SUBSET Rows, seen: Rows \cup {None}, tested: BOOLEAN,
        why: {"none", "smoke", "error"}, end: Ends, hurt: BOOLEAN]
Untried == [pc |-> "idle", at |-> 0, made |-> {}, seen |-> None, tested |-> FALSE,
            why |-> "none", end |-> "none", hurt |-> FALSE]

ApplyInit ==
    /\ spec \in Specs
    /\ db = [r \in UserRows(spec) |-> IF r.kind = "project" THEN r ELSE Home]
    /\ active = {}
    /\ try = [a \in Attempts |-> Untried]

(***************************************************************************)
(* The database                                                            *)
(***************************************************************************)
Insert(r, project) == [x \in DOMAIN db \cup {r} |-> IF x = r THEN project ELSE db[x]]
MoveTo(r, project) == [db EXCEPT ![r] = project]
Without(gone) == [x \in DOMAIN db \ gone |-> db[x]]

(* ON DELETE CASCADE of the project column of gateways, workflows, installs *)
(* and resources.                                                          *)
InProject(p) == {x \in DOMAIN db : db[x] = p}

(* The project of attempt a: the user's, or the one it created.            *)
ProjectOf(a) == IF spec.ownProject THEN Home ELSE Row("project", 0, a)

(***************************************************************************)
(* Applying                                                                *)
(***************************************************************************)
Now(a) == Plans[spec][try[a].at]
At(a, do) == try[a].pc = "apply" /\ Now(a).do = do
Become(a, state) == try' = [try EXCEPT ![a] = state]

(* After the last step the call returns.                                   *)
Advance(a) ==
    IF try[a].at < Len(Plans[spec]) THEN [try[a] EXCEPT !.at = @ + 1]
    ELSE [try[a] EXCEPT !.pc = "ended", !.end = "applied"]

(* The call rolls back, or ends when there is nothing to delete.           *)
Unwind(state, why) ==
    IF state.made # {} THEN [state EXCEPT !.pc = "undo", !.why = why]
    ELSE [state EXCEPT !.pc = "ended", !.why = why,
                       !.end = IF why = "smoke" THEN "rolled-back" ELSE "threw"]

(* The call: an invalid spec and a dry run end at once.                    *)
Begin(a) ==
    /\ try[a].pc = "idle"
    /\ Become(a, IF ~spec.valid THEN [try[a] EXCEPT !.pc = "ended", !.end = "validation-failed"]
                 ELSE IF spec.dryRun THEN [try[a] EXCEPT !.pc = "ended", !.end = "applied"]
                 ELSE [try[a] EXCEPT !.pc = "apply", !.at = 1])
    /\ UNCHANGED <<spec, db, active>>

Strikes(fault) ==
    fault \in Faults /\ Cardinality({a \in Attempts : try[a].hurt}) < MaxHurt

(* A row is made and its handle kept. When the answer to a committed       *)
(* statement is lost the await throws, and the handle is never kept.       *)
Create(a, r, project) ==
    /\ r \notin DOMAIN db
    /\ db' = Insert(r, project)
    /\ \/ Become(a, [Advance(a) EXCEPT !.made = @ \cup {r}, !.seen = None])
       \/ /\ Strikes("answer")
          /\ Become(a, Unwind([try[a] EXCEPT !.hurt = TRUE], "error"))
    /\ UNCHANGED <<spec, active>>

(* ensureDefaultProject, getDefaultProject: any of the default projects;   *)
(* if there is none, one is to be made.                                    *)
DefaultProjects ==
    {p \in DOMAIN db : IF spec.hasDefault THEN p = Home ELSE p.kind = "project" /\ p.ref = 1}

FindDefault(a) ==
    /\ At(a, "ensureDefault") /\ try[a].seen = None
    /\ IF DefaultProjects = {} THEN Become(a, [try[a] EXCEPT !.seen = DefaultBy(a)])
       ELSE \E p \in DefaultProjects : Become(a, [Advance(a) EXCEPT !.seen = p])
    /\ UNCHANGED <<spec, db, active>>

(* ensureDefaultProject, the create: a row without a rollback handle. The  *)
(* unique constraint it relies on does not bind rows whose organization is *)
(* NULL, so two attempts may make two. If the create throws, having made   *)
(* its row or not, a default project is looked for once more.              *)
MakeDefault(a) ==
    /\ At(a, "ensureDefault") /\ try[a].seen = DefaultBy(a)
    /\ \/ /\ db' = Insert(DefaultBy(a), DefaultBy(a))
          /\ \/ Become(a, Advance(a))
             \/ Strikes("answer") /\ Become(a, Unwind([try[a] EXCEPT !.hurt = TRUE], "error"))
       \/ /\ \E p \in DefaultProjects : Become(a, [Advance(a) EXCEPT !.seen = p])
          /\ UNCHANGED db
    /\ UNCHANGED <<spec, active>>

(* Mutant: the project found is remembered like one that was created.      *)
ResolveProjectKeepsHandle(a) ==
    /\ At(a, "project")
    /\ IF spec.ownProject
       THEN /\ Become(a, [Advance(a) EXCEPT !.made = @ \cup {Home}])
            /\ UNCHANGED <<spec, db, active>>
       ELSE Create(a, ProjectOf(a), ProjectOf(a))

ResolveProject(a) ==
    /\ At(a, "project")
    /\ IF spec.ownProject
       THEN Become(a, Advance(a)) /\ UNCHANGED <<spec, db, active>>
       ELSE Create(a, ProjectOf(a), ProjectOf(a))

(* The credentials of a new gateway may be in use nowhere else: StepThrows *)
(* covers the refusal. Two attempts may both find them free.               *)
CheckCredentials(a) ==
    /\ At(a, "checkCredentials")
    /\ ~ \E r \in DOMAIN db : r.kind = "gateway" /\ r.ref = Now(a).ref
    /\ Become(a, Advance(a))
    /\ UNCHANGED <<spec, db, active>>

(* A new gateway starts in the default project.                            *)
CreateGateway(a) ==
    /\ At(a, "createGateway")
    /\ try[a].seen \in DOMAIN db
    /\ Create(a, Row("gateway", Now(a).ref, a), try[a].seen)

(* An update of a row that is gone throws.                                 *)
Move(a, r) ==
    /\ r \in DOMAIN db
    /\ db' = MoveTo(r, ProjectOf(a))
    /\ Become(a, [Advance(a) EXCEPT !.seen = None])
    /\ UNCHANGED <<spec, active>>

AttachGateway(a) == At(a, "attachGateway") /\ Move(a, Row("gateway", Now(a).ref, a))

(* A gateway the user had is attached to the project as well.              *)
AdoptGateway(a) == At(a, "adoptGateway") /\ Move(a, Row("gateway", Now(a).ref, User))

InstallsOf(p) == {r \in DOMAIN db : r.kind = "install" /\ r.ref = p}

(* An install of the plugin is looked for, and then updated or created.    *)
FindInstall(a) ==
    /\ At(a, "findInstall")
    /\ LET found == InstallsOf(Now(a).ref) IN
       \E r \in (IF found = {} THEN {None} ELSE found) :
           Become(a, [Advance(a) EXCEPT !.seen = r])
    /\ UNCHANGED <<spec, db, active>>

Install(a) ==
    /\ At(a, "install")
    /\ IF try[a].seen # None THEN Move(a, try[a].seen)
       ELSE Create(a, Row("install", Now(a).ref, a), ProjectOf(a))

(* Mutant: the catalog row is made and its handle forgotten.               *)
CreateCatalogForgets(a) ==
    /\ At(a, "createCatalog")
    /\ ~ \E r \in DOMAIN db : r.kind = "catalog" /\ r.ref = Now(a).ref
    /\ LET r == Row("catalog", Now(a).ref, a) IN db' = Insert(r, r)
    /\ Become(a, Advance(a))
    /\ UNCHANGED <<spec, active>>

(* A generated plugin: its slug is unique in the whole catalog.            *)
CreateCatalog(a) ==
    /\ At(a, "createCatalog")
    /\ ~ \E r \in DOMAIN db : r.kind = "catalog" /\ r.ref = Now(a).ref
    /\ LET r == Row("catalog", Now(a).ref, a) IN Create(a, r, r)

InstallCatalog(a) ==
    /\ At(a, "installCatalog")
    /\ Row("catalog", Now(a).ref, a) \in DOMAIN db
    /\ Create(a, Row("install", Now(a).ref, a), ProjectOf(a))

CreateWorkflow(a) ==
    /\ At(a, "createWorkflow")
    /\ ProjectOf(a) \in DOMAIN db
    /\ Create(a, Row("workflow", Now(a).ref, a), ProjectOf(a))

(* Gateway links, steps and edges: rows that go with their workflow.       *)
WireWorkflow(a) ==
    /\ At(a, "wireWorkflow")
    /\ Row("workflow", Now(a).ref, a) \in DOMAIN db
    /\ Become(a, Advance(a))
    /\ UNCHANGED <<spec, db, active>>

CreateResource(a) ==
    /\ At(a, "createResource")
    /\ ProjectOf(a) \in DOMAIN db
    /\ Create(a, Row("resource", Now(a).ref, a), ProjectOf(a))

(* The smoke tests catch their own exceptions: they pass or fail. A        *)
(* failure is rolled back unless the caller wants to keep it.              *)
SmokeTest(a) ==
    /\ At(a, "smokeTest")
    /\ \/ Become(a, [Advance(a) EXCEPT !.tested = TRUE])
       \/ Become(a, IF spec.keepOnFailure THEN Advance(a)
                    ELSE Unwind(try[a], "smoke"))
    /\ UNCHANGED <<spec, db, active>>

Activate(a) ==
    /\ At(a, "activate")
    /\ LET w == Row("workflow", Now(a).ref, a) IN
       /\ w \in DOMAIN db
       /\ active' = active \cup {w}
    /\ Become(a, Advance(a))
    /\ UNCHANGED <<spec, db>>

(* Any statement of the pipeline may throw: a limit, a name in use, a row  *)
(* that is gone, a feature switched off, the database. The smoke tests     *)
(* do not.                                                                 *)
StepThrows(a) ==
    /\ try[a].pc = "apply" /\ Now(a).do # "smokeTest"
    /\ Become(a, Unwind(try[a], "error"))
    /\ UNCHANGED <<spec, db, active>>

(***************************************************************************)
(* Rolling back                                                            *)
(***************************************************************************)
(* rollbackAll deletes the rows of one kind with one statement and skips   *)
(* the kinds it has no handles of.                                         *)
Doomed(a) ==
    LET kinds == {r.kind : r \in try[a].made}
        first == SelectInSeq(UndoOrder, LAMBDA k : k \in kinds)
    IN  {r \in try[a].made : r.kind = UndoOrder[first]}

(* What the deletion of rows takes along.                                  *)
Taken(gone) == gone \cup UNION {InProject(r) : r \in {x \in gone : x.kind = "project"}}

(* Deleting a row that is gone already is no error.                        *)
UndoStage(a) ==
    /\ try[a].pc = "undo"
    /\ LET gone == Taken(Doomed(a)) IN
       /\ db' = Without(gone)
       /\ active' = active \ gone
    /\ Become(a, Unwind([try[a] EXCEPT !.made = @ \ Doomed(a)], try[a].why))
    /\ UNCHANGED spec

(* A deletion throws. For a project that is swallowed. After a smoke test  *)
(* it happens inside the try: the catch block rolls back once more. In the *)
(* catch block it ends the call.                                           *)
UndoThrows(a) ==
    /\ try[a].pc = "undo"
    /\ LET project == \E r \in Doomed(a) : r.kind = "project"
           state == [try[a] EXCEPT !.hurt = TRUE]
       IN  \/ /\ project /\ Strikes("undo")
              /\ Become(a, Unwind([state EXCEPT !.made = {}], try[a].why))
           \/ /\ ~project /\ "undo" \in Faults /\ try[a].why = "smoke"
              /\ Become(a, Unwind(try[a], "error"))
           \/ /\ ~project /\ Strikes("undo") /\ try[a].why = "error"
              /\ Become(a, [state EXCEPT !.pc = "ended", !.end = "threw"])
    /\ UNCHANGED <<spec, db, active>>

(* The process of the attempt dies: nothing rolls back.                    *)
Die(a) ==
    /\ Strikes("die")
    /\ try[a].pc \in {"apply", "undo"}
    /\ Become(a, [try[a] EXCEPT !.pc = "dead", !.hurt = TRUE])
    /\ UNCHANGED <<spec, db, active>>

Pipeline(a) ==
    \/ FindDefault(a) \/ MakeDefault(a) \/ ResolveProject(a) \/ AdoptGateway(a)
    \/ CheckCredentials(a) \/ CreateGateway(a) \/ AttachGateway(a)
    \/ FindInstall(a) \/ Install(a) \/ CreateCatalog(a) \/ InstallCatalog(a)
    \/ CreateWorkflow(a) \/ WireWorkflow(a) \/ CreateResource(a)
    \/ SmokeTest(a) \/ Activate(a) \/ UndoStage(a)

ApplyStep(a) == Pipeline(a) \/ StepThrows(a) \/ UndoThrows(a)

(***************************************************************************)
(* Properties                                                              *)
(***************************************************************************)
ApplyTypeOK ==
    /\ spec \in Specs
    /\ DOMAIN db \subseteq Rows
    /\ \A r \in DOMAIN db : db[r] \in Rows
    /\ active \subseteq DOMAIN db
    /\ try \in [Attempts -> Try]

(* The rows attempt a made and did not delete, but for a default project.  *)
LeftBy(a) == {r \in DOMAIN db : r.by = a} \ {DefaultBy(a)}

(* "If any step throws or smoke tests fail ..., every resource created     *)
(* during this call is deleted" (applyBuildSpec) is not so of the default  *)
(* project, which ensureDefaultProject may insert and no handle names: it  *)
(* stays. Apart from it, a call that did not apply leaves nothing it made, *)
(* whatever step it failed at and whatever another attempt did meanwhile,  *)
(* unless a statement of the rollback failed, an answer was lost or the    *)
(* process died. (The handles of RollbackHandles, the order of rollbackAll.)*)
NothingLeftBehind ==
    \A a \in Attempts :
        try[a].end \in {"rolled-back", "threw", "validation-failed"} /\ ~try[a].hurt
            => LeftBy(a) = {}

(* A workflow goes live only after the smoke tests passed, or because the  *)
(* caller asked to keep a failure: also while other attempts run.          *)
OnlyTestedActive ==
    \A w \in active : try[w.by].tested \/ spec.keepOnFailure

(* Rolling back deletes what the call created: with a project of the user  *)
(* no row the user had before is ever lost.                                *)
OwnProjectIsSafe == spec.ownProject => UserRows(spec) \subseteq DOMAIN db

(* What the comments of applyBuildSpec and resolvePluginInstalls say of    *)
(* every spec: only what the call created is deleted.                      *)
UserRowsKept == UserRows(spec) \subseteq DOMAIN db
==============================================================================
