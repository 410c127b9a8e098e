----------------------------- MODULE PlanCoverage -----------------------------
(* What a plan has to cover and what its scouts look at: the required units of  *)
(* a frozen inventory, the scouts chosen for them, the discovery map merged     *)
(* from their receipts, and the two gates a Spec passes, coverage and semantic  *)
(* sufficiency, with the scouts a gap starts again. PlanTopology has the rows   *)
(* of these steps, and their retries.                                           *)
EXTENDS FiniteSets, Integers

CONSTANTS
    Inventories,   \* functions from source ids to [surfaces, multiEntry, complex]
    Policies,      \* the orchestrations of the run's frozen configuration
    Reports,       \* the receipts a scout may write
    DocPaths,      \* the paths that are READMEs and other documents
    PlanConfirm,   \* the workspace asks before a plan is written
    MaxRevisions   \* bound on the revisions at the plan gate

VARIABLES
    inventory,  \* coverage-inventory.json, sealed by freeze
    orch,       \* the orchestration of freeze_config_json
    plan,       \* requiredUnits of coverage-plan.json
    tasks,      \* the scouts of the run's topology
    receipts,   \* what each scout reported last
    map,        \* discovery-map.json: the sources, domains and flows found
    spec,       \* the Spec a plan attempt sealed, NoSpec while there is none
    gaps,       \* what the scouts, or the run's end, are about
    rounds,     \* planSufficiencyRoundsUsed
    revisions,  \* revisions asked at the gate
    stage       \* where the run is

vars == <<inventory, orch, plan, tasks, receipts, map, spec, gaps, rounds, revisions, stage>>

Unset == -1    \* an optional number of the orchestration that is absent
Cross == "cross"
Whole == "."   \* no path: the source as a whole
Thematic == <<"entry", "layout", "tests", "risks">>

(* One kind of identifier for units, scouts and gaps: domain:api, api::web, ... *)
Id(kind, source, path) == [kind |-> kind, source |-> source, path |-> path]
SourceUnit(s) == Id("source", s, Whole)
SurfaceUnit(s, p) == Id("surface", s, p)
CrossFlow == Id("flow", Cross, Whole)
CrossGap == Id("_cross_source", Whole, Whole)
ThematicTask(k) == Id("thematic", Thematic[k], Whole)

--------------------------------------------------------------------------------
(* The required units of the inventory. *)
Sources == DOMAIN inventory
MultiSource == Cardinality(Sources) >= 2
Surfaces(s) == {SurfaceUnit(s, p) : p \in inventory[s].surfaces}

(* Large, of several languages or entries, or with three surfaces. *)
IsComplex(s) ==
    \/ inventory[s].complex \/ inventory[s].multiEntry
    \/ Cardinality(inventory[s].surfaces) >= 3

Surveyed == {s \in Sources : IF MultiSource THEN inventory[s].multiEntry ELSE IsComplex(s)}

OverSurfaces == \E s \in Surveyed : Cardinality(Surfaces(s)) > orch.maxSurfacesRequired

RequiredUnits ==
    UNION {Surfaces(s) : s \in Surveyed}
        \cup (IF MultiSource THEN {SourceUnit(s) : s \in Sources} ELSE {})

(* Mutant: a source whose surfaces are required is not required itself. *)
RequiredFinest ==
    UNION {Surfaces(s) : s \in Surveyed}
        \cup (IF MultiSource THEN {SourceUnit(s) : s \in Sources \ Surveyed} ELSE {})

--------------------------------------------------------------------------------
(* The scouts of a run. *)
Mode ==
    IF orch.planScoutMode = "auto" THEN IF MultiSource THEN "hybrid" ELSE "thematic"
    ELSE orch.planScoutMode

SmallerOf(a, b) == IF a < b THEN a ELSE b

SurveyBudget ==
    IF orch.planSurveyTaskBudget # Unset THEN orch.planSurveyTaskBudget
    ELSE IF MultiSource THEN SmallerOf(Cardinality(Sources), orch.maxSourcesPerRun)
    ELSE 0

RequiredSources(units) == {u.source : u \in {v \in units : v.kind = "source"}}
RequiredSurfaces(units) == {u \in units : u.kind = "surface"}

(* The sources of a required unit, or else all of the inventory. *)
ScoutedSources(units) ==
    IF RequiredSources(units) # {} THEN RequiredSources(units) ELSE Sources

SourceSurveys(units) ==
    IF Mode \in {"source", "hybrid"} \/ Cardinality(RequiredSources(units)) >= 2
    THEN {SourceUnit(s) : s \in ScoutedSources(units)}
    ELSE {}

(* The surveys that throw: more sources than the budget, or a surface after the *)
(* sources have taken all of it. A budget of 0 refuses sources only.            *)
OverBudget(units) ==
    \/ Cardinality(SourceSurveys(units)) > SurveyBudget
    \/ /\ SurveyBudget > 0
       /\ Cardinality(SourceSurveys(units)) + Cardinality(RequiredSurfaces(units)) > SurveyBudget

SemanticTasks(units) ==
    (IF MultiSource \/ Mode = "hybrid"
     THEN {Id(k, s, Whole) : k \in {"domain", "flow"}, s \in ScoutedSources(units)} ELSE {})
        \cup (IF MultiSource THEN {CrossFlow} ELSE {})

ThematicTasks ==
    IF Mode \in {"thematic", "hybrid"} THEN {ThematicTask(k) : k \in 1..orch.planScoutCount}
    ELSE {}

SelectPlanScoutTasks(units) ==
    SourceSurveys(units) \cup RequiredSurfaces(units) \cup SemanticTasks(units) \cup ThematicTasks

(* Mutant: the sources that still fit in the budget are surveyed. *)
SelectWithinBudget(units) ==
    LET fit == CHOOSE S \in SUBSET SourceSurveys(units) :
                   Cardinality(S) = SmallerOf(SurveyBudget, Cardinality(SourceSurveys(units)))
    IN fit \cup RequiredSurfaces(units) \cup SemanticTasks(units) \cup ThematicTasks

(* Required: the units and domain and flow; a survey of the sole source of a    *)
(* run without required units and the thematic scouts are optional.             *)
IsRequired(task) ==
    /\ task.kind # "thematic"
    /\ task.kind = "source" => \/ task.source \in RequiredSources(plan)
                               \/ Cardinality(ScoutedSources(plan)) >= 2

--------------------------------------------------------------------------------
(* The map of what the scouts found.                                            *)
(* A receipt, [ok, paths, domain, cross, question], names paths, and the source *)
(* its scout was given, which for flow:cross is "cross". The merge accepts      *)
(* domains and flows in it as well, but no scout of this version writes them.   *)

EmptyMap == [rows |-> {}, domains |-> {}, cross |-> FALSE, question |-> FALSE]

Reporters(s) == {t \in DOMAIN receipts : t.kind # "thematic" /\ t.source = s}

Merged ==
    LET named == {t.source : t \in {u \in DOMAIN receipts : u.kind # "thematic"}}
    IN [rows |-> {[source |-> s, paths |-> UNION {receipts[t].paths : t \in Reporters(s)}]
                     : s \in named},
        domains |-> {s \in named : \E t \in Reporters(s) : receipts[t].domain},
        cross |-> \E t \in DOMAIN receipts : receipts[t].cross,
        question |-> \E t \in DOMAIN receipts : receipts[t].question]

(* Mutant: the newest receipt of a source replaces its row. *)
MergedLast ==
    LET named == {t.source : t \in {u \in DOMAIN receipts : u.kind # "thematic"}}
    IN [rows |-> {[source |-> s,
                   paths |-> receipts[CHOOSE t \in Reporters(s) : TRUE].paths] : s \in named},
        domains |-> {s \in named : \E t \in Reporters(s) : receipts[t].domain},
        cross |-> \E t \in DOMAIN receipts : receipts[t].cross,
        question |-> \E t \in DOMAIN receipts : receipts[t].question]

--------------------------------------------------------------------------------
(* The gates.                                                                   *)
(* A Spec: the units its critical pages bind, those other pages bind, the units *)
(* it cancels with a reason, the sources of its repositoryMap, and whether it   *)
(* has open questions. A planner binds and cancels sources and surfaces, and    *)
(* may cancel what is a source of the map only.                                 *)
OfKinds(kinds) == {u \in plan : u.kind \in kinds}
Choices == {OfKinds(K) : K \in SUBSET {"source", "surface"}}

NoSpec == [bound |-> {}, soft |-> {}, mapped |-> {}, question |-> FALSE, cancelled |-> {}]

Specs ==
    [bound : Choices, soft : {{}, plan}, mapped : {{}, Sources}, question : BOOLEAN,
     cancelled : Choices \cup {OfKinds(K) \cup {SourceUnit(r.source) : r \in map.rows}
                                  : K \in SUBSET {"surface"}}]

(* A unit that is cancelled is not asked for. *)
EffectiveCoveragePlan(s) == plan \ s.cancelled

(* Mutant: any page counts, critical or not. *)
CoveredByAnyPage(s) == s.bound \cup s.soft

CollectCoveredUnits(s) == s.bound
CoverageGaps(s) == EffectiveCoveragePlan(s) \ CollectCoveredUnits(s)

EvidenceOf(source) == UNION {r.paths : r \in {q \in map.rows : q.source = source}} \ DocPaths

HasEvidence(source) == Cardinality(EvidenceOf(source)) >= 2

(* The sources the gate asks for are those of the map and of the Spec. *)
ActiveSources(s) ==
    ({r.source : r \in map.rows} \cup s.mapped) \ {u.source : u \in {c \in s.cancelled : c.kind = "source"}}

SemanticGaps(s) ==
    IF ~MultiSource \/ map = EmptyMap THEN {}
    ELSE LET active == ActiveSources(s)
             bare == {x \in active : ~HasEvidence(x)}
         IN {SourceUnit(x) : x \in bare}
            \cup {Id("domain", x, Whole) : x \in (active \ bare) \ map.domains}
            \cup {g \in {CrossGap} : /\ Cardinality(active) >= 2
                                     /\ ~map.cross /\ ~map.question /\ ~s.question}

(* The coverage gate is the submit tool's, the phase's and the compiler's; the  *)
(* semantic one the phase's alone.                                              *)
GapsOf(s) == IF CoverageGaps(s) # {} THEN CoverageGaps(s) ELSE SemanticGaps(s)

(* assertCoverageForSealedSpec, at the auto-approval and at the plan gate. *)
SealedSpecPasses(s) ==
    /\ MultiSource => plan # {}
    /\ CoverageGaps(s) = {}

(* The scouts that are to close the gaps. *)
TasksOfGap(g) ==
    CASE g = CrossGap -> {CrossFlow}
      [] g.kind = "source" -> {g, Id("domain", g.source, Whole), Id("flow", g.source, Whole)}
      [] OTHER -> {g}

(* Mutant: a gap that is not a unit starts the scouts that were there. *)
TasksOfUnitGap(g) ==
    IF g.kind \in {"source", "surface"} THEN {g}
    ELSE {t \in tasks : t.kind \notin {"domain", "thematic"} /\ t # CrossFlow}

MapPlanSufficiencyGapsToTasks(found) == UNION {TasksOfGap(g) : g \in found}

--------------------------------------------------------------------------------
Init ==
    /\ inventory \in Inventories /\ orch \in Policies
    /\ plan = {} /\ tasks = {} /\ receipts = <<>> /\ map = EmptyMap
    /\ spec = NoSpec /\ gaps = {} /\ rounds = 0 /\ revisions = 0 /\ stage = "freeze"

(* freeze: builds the plan and materializes the scouts, or fails closed; a run  *)
(* without scouts goes on to its plan.                                          *)
Freeze ==
    /\ stage = "freeze" /\ ~OverSurfaces /\ ~OverBudget(RequiredUnits)
    /\ plan' = RequiredUnits
    /\ tasks' = SelectPlanScoutTasks(plan')
    /\ stage' = IF tasks' = {} THEN "plan" ELSE "scouts"
    /\ UNCHANGED <<inventory, orch, receipts, map, spec, gaps, rounds, revisions>>

FreezeFails ==
    /\ stage = "freeze" /\ (OverSurfaces \/ OverBudget(RequiredUnits))
    /\ stage' = "failed"
    /\ UNCHANGED <<inventory, orch, plan, tasks, receipts, map, spec, gaps, rounds, revisions>>

(* plan.scout: what it reports; an optional scout may have failed softly. *)
Report(task, receipt) ==
    /\ stage = "scouts" /\ task \in tasks \ DOMAIN receipts
    /\ ~receipt.ok => ~IsRequired(task)
    /\ receipts' = [t \in DOMAIN receipts \cup {task} |->
                        IF t = task THEN receipt ELSE receipts[t]]
    /\ UNCHANGED <<inventory, orch, plan, tasks, map, spec, gaps, rounds, revisions, stage>>

(* A required scout that is empty, or fails, fails its attempt. *)
ScoutFails(task) ==
    /\ stage = "scouts" /\ task \in tasks \ DOMAIN receipts /\ IsRequired(task)
    /\ stage' = "failed"
    /\ UNCHANGED <<inventory, orch, plan, tasks, receipts, map, spec, gaps, rounds, revisions>>

(* plan.discover.reduce. *)
Reduce ==
    /\ stage = "scouts" /\ DOMAIN receipts = tasks
    /\ map' = Merged /\ gaps' = {} /\ stage' = "plan"
    /\ UNCHANGED <<inventory, orch, plan, tasks, receipts, spec, rounds, revisions>>

(* The plan attempt: a Spec the tool took, which then passes the phase's gates. *)
Submit(s) ==
    /\ stage = "plan" /\ Cardinality(Sources) <= orch.maxSourcesPerRun
    /\ CoverageGaps(s) = {} /\ GapsOf(s) = {}
    /\ ~PlanConfirm => SealedSpecPasses(s)
    /\ spec' = s /\ stage' = IF PlanConfirm THEN "gate" ELSE "approved"
    /\ UNCHANGED <<inventory, orch, plan, tasks, receipts, map, gaps, rounds, revisions>>

(* schedulePlanSufficiencyRescout: a Spec the tool took but the phase refused   *)
(* starts the scouts of its gaps again, while there is budget and a topology.   *)
Rescout(s) ==
    /\ stage = "plan" /\ CoverageGaps(s) = {} /\ GapsOf(s) # {}
    /\ tasks # {} /\ rounds < orch.planRescoutMaxRounds
    /\ gaps' = GapsOf(s)
    /\ LET again == MapPlanSufficiencyGapsToTasks(gaps')
       IN /\ tasks' = tasks \cup again
          /\ receipts' = [t \in DOMAIN receipts \ again |-> receipts[t]]
    /\ rounds' = rounds + 1 /\ stage' = "scouts"
    /\ UNCHANGED <<inventory, orch, plan, map, spec, revisions>>

(* No budget is left, or the planner submits nothing the tool accepts. *)
PlanFails ==
    /\ stage = "plan"
    /\ gaps' \in {GapsOf(s) : s \in {t \in Specs : CoverageGaps(t) = {}}} \cup {{}}
    /\ gaps' # {} => tasks = {} \/ rounds >= orch.planRescoutMaxRounds
    /\ stage' = "failed"
    /\ UNCHANGED <<inventory, orch, plan, tasks, receipts, map, spec, rounds, revisions>>

Approve ==
    /\ stage = "gate" /\ SealedSpecPasses(spec)
    /\ stage' = "approved"
    /\ UNCHANGED <<inventory, orch, plan, tasks, receipts, map, spec, gaps, rounds, revisions>>

Revise ==
    /\ stage = "gate" /\ revisions < MaxRevisions
    /\ revisions' = revisions + 1 /\ spec' = NoSpec /\ stage' = "plan"
    /\ UNCHANGED <<inventory, orch, plan, tasks, receipts, map, gaps, rounds>>

Next ==
    \/ Freeze \/ FreezeFails \/ Reduce \/ PlanFails \/ Approve \/ Revise
    \/ \E t \in tasks : ScoutFails(t) \/ \E r \in Reports : Report(t, r)
    \/ \E s \in Specs : Submit(s) \/ Rescout(s)

Spec == Init /\ [][Next]_vars

--------------------------------------------------------------------------------
(* An approved plan leaves out nothing: of several sources each is on a         *)
(* critical page or cancelled, and of a complex one each surface is             *)
(* (buildCoveragePlan, assertCoverage at its five callers).                     *)
NothingIsLeftOut ==
    stage = "approved" =>
        LET settled == spec.bound \cup spec.cancelled
        IN /\ MultiSource => \A s \in Sources : SourceUnit(s) \in settled
           /\ \A s \in Sources :
                 (inventory[s].multiEntry \/ (~MultiSource /\ IsComplex(s)))
                     => Surfaces(s) \subseteq settled

(* No plan of several sources is made before each of them was surveyed and      *)
(* searched for its domains and flows (selectPlanScoutTasks).                   *)
SurveyedFirst ==
    stage = "plan" /\ MultiSource =>
        /\ CrossFlow \in DOMAIN receipts
        /\ \A s \in Sources : \A k \in {"domain", "flow"} : Id(k, s, Whole) \in DOMAIN receipts
        /\ \A s \in Sources : SourceUnit(s) \in DOMAIN receipts

(* Every gap that sends the scouts out again is one they look at: a scout of    *)
(* the unit, the domain, or the flow between the sources that is missing        *)
(* (schedulePlanSufficiencyRescout, mapPlanSufficiencyGapsToTasks).             *)
LooksAt(t, g) ==
    IF g = CrossGap THEN t = CrossFlow
    ELSE t.kind = g.kind /\ t.source = g.source /\ t.path = g.path

ScoutsTheGaps ==
    stage = "plan" /\ stage' = "scouts" =>
        \A g \in gaps' : \E t \in tasks' \ DOMAIN receipts' : LooksAt(t, g)
GapsAreScouted == [][ScoutsTheGaps]_vars

(* What the scouts found is not lost: evidence enough in the receipts of a      *)
(* source is evidence enough at the gate (mergeScoutReceiptsToDiscoveryMap).    *)
EvidenceIsKept ==
    stage = "plan" /\ DOMAIN receipts = tasks =>
        \A s \in Sources :
            Cardinality(UNION {receipts[t].paths : t \in Reporters(s)} \ DocPaths) >= 2
                => HasEvidence(s)

(* ADR 0040:29, which fails: surfaces are added to the sources, under the       *)
(* default orchestration (buildCoveragePlan, selectPlanScoutTasks).             *)
MonorepoIsFrozen ==
    stage = "failed" /\ tasks = {} => OverSurfaces \/ orch.planSurveyTaskBudget # Unset

(* ADR 0042, which fails: with evidence for every source and its questions      *)
(* asked, a plan that binds every source has no gap (assertSemanticSufficiency, *)
(* buildPlanScoutReceiptJson).                                                  *)
ThoroughIsSufficient ==
    stage = "failed" /\ gaps # {} => \E s \in Sources : ~HasEvidence(s)

(* The scouts look at the sources of the run, which fails                       *)
(* (mapPlanSufficiencyGapsToTasks of a gap "cross").                            *)
ScoutsAreOfSources ==
    \A t \in tasks : t.kind \in {"source", "surface", "domain"} => t.source \in Sources
================================================================================
