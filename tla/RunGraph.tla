-------------------------------- MODULE RunGraph --------------------------------
(* The graph of a run as the operator's page draws it: one stage of the newest  *)
(* snapshot with the nodes next to it, the leaves of a large fan-out folded into*)
(* their domains, edges that a longer way already shows left out, and the cards *)
(* placed by a fixed layout or, later, by ELK.                                  *)
EXTENDS Integers, FiniteSets, SequencesExt

CONSTANTS Story,        \* the snapshots of a run in order: [nodes, edges, gen]
          KeyOrder,     \* every node key, in the order of localeCompare
          KindOf,       \* the kind of every key
          Displayed,    \* scouts a run without durable ones lists in its metrics
          MaxClicks, MaxFailures

VARIABLES at,           \* the snapshot the page holds
          view,         \* the stage in focus, or Overview
          expanded,     \* the domains unfolded by the operator
          positions,    \* where the cards are
          layout,       \* whether ELK is at work
          fitted,       \* the topology the viewport was fitted to
          opened,       \* whether a node's own page covers the graph
          clicks, failures

vars == <<at, view, expanded, positions, layout, fitted, opened, clicks, failures>>

Keys == Range(KeyOrder)
Overview == "overview"
NoPositions == [k \in {} |-> [x |-> 0, y |-> 0]]
Nothing == <<>>

Table(f) == f @@ Nothing  \* the same function, worked out once

SortedKeys(S) == SelectSeq(KeyOrder, LAMBDA k : k \in S)

--------------------------------------------------------------------------------
(* Stages and relations (workflow-topology).                                    *)

Stages == {"plan", "research", "synthesis", "quality", "publication"}

StageForNode(k) ==
    CASE KindOf[k] \in {"freeze", "plan", "plan.scout", "plan.discover.reduce", "gate.plan"} -> "plan"
      [] KindOf[k] \in {"plan.adapt", "research.leaf", "research.domain"} -> "research"
      [] KindOf[k] \in {"write.root", "validate.pre"} -> "synthesis"
      [] KindOf[k] \in {"review.seat", "review.reduce", "repair", "gate.fix", "validate.final"} -> "quality"
      [] OTHER -> "publication"

IsGate(k) == KindOf[k] \in {"gate.plan", "gate.fix", "gate.publication"}

RelationForEdge(e) ==
    LET from == KindOf[e[1]]  to == KindOf[e[2]]
    IN CASE from = "repair" /\ to = "validate.pre" -> "feedback"
         [] from \in {"freeze", "plan"} /\ to = "plan.scout" -> "fanout"
         [] from = "plan.scout" -> "join"
         [] from = "plan.discover.reduce" -> "forward"
         [] IsGate(e[1]) \/ IsGate(e[2]) -> "control"
         [] to \in {"research.leaf", "review.seat"} -> "fanout"
         [] from \in {"research.leaf", "research.domain", "review.seat"} -> "join"
         [] OTHER -> "forward"

Around(snapshot, focus, visible) ==
    [nodes |-> visible,
     edges |-> {e \in snapshot.edges : e[1] \in visible /\ e[2] \in visible},
     context |-> visible \ focus]

(* The stage with its immediate boundary.                                       *)
WithBoundary(snapshot, focus) ==
    Around(snapshot, focus,
           focus \cup UNION {{e[1], e[2]} : e \in {f \in snapshot.edges : (f[1] \in focus) # (f[2] \in focus)}})

BuildFocusTopology(snapshot, stage) ==
    WithBoundary(snapshot, {k \in snapshot.nodes : StageForNode(k) = stage})

HasDurablePlanScouts(snapshot) == \E k \in snapshot.nodes : KindOf[k] = "plan.scout"

(* A run without durable scouts: those of its metrics stand between plan and    *)
(* gate.                                                                        *)
InjectPlanScoutDisplayNodes(topology) ==
    LET plans == {k \in topology.nodes : KindOf[k] = "plan"}
        gates == {k \in topology.nodes : KindOf[k] = "gate.plan"}
        direct == topology.edges \cap (plans \X gates)
    IN [nodes |-> topology.nodes \cup Displayed,
        edges |-> (topology.edges \ direct) \cup (plans \X Displayed)
                    \cup (Displayed \X (IF direct # {} THEN {e[2] : e \in direct} ELSE gates)),
        context |-> {k \in topology.nodes : StageForNode(k) # "plan"}]

FocusTopology(n, stage, topology) ==
    IF /\ stage = "plan" /\ Displayed # {} /\ ~HasDurablePlanScouts(Story[n])
       /\ \E k \in topology.nodes : KindOf[k] = "plan"
    THEN InjectPlanScoutDisplayNodes(topology) ELSE topology

BaseTopology ==
    Table([n \in 1..Len(Story), stage \in Stages |->
        FocusTopology(n, stage, BuildFocusTopology(Story[n], stage))])

KeyOf(n, stage, topology) ==
    <<stage, topology, [k \in topology.nodes \ Displayed |-> Story[n].gen[k]]>>

(* What resets the view: neither states nor nodes out of sight.                 *)
TopologyKey ==
    Table([n \in 1..Len(Story), stage \in Stages |-> KeyOf(n, stage, BaseTopology[n, stage])])

--------------------------------------------------------------------------------
(* Folding.                                                                     *)

LeavesOf(topology, d) ==
    {k \in topology.nodes : KindOf[k] = "research.leaf" /\ <<k, d>> \in topology.edges}

(* The domains that have leaves.                                                *)
ResearchDomainLeafGroups(topology) ==
    {d \in topology.nodes : KindOf[d] = "research.domain" /\ LeavesOf(topology, d) # {}}

ShouldCollapseResearchLeaves(topology) ==
    LET groups == ResearchDomainLeafGroups(topology)
    IN Cardinality(groups) >= 2 /\ Cardinality(UNION {LeavesOf(topology, d) : d \in groups}) >= 5

HiddenLeaves(topology, open) ==
    IF ~ShouldCollapseResearchLeaves(topology) THEN {}
    ELSE UNION {LeavesOf(topology, d) : d \in ResearchDomainLeafGroups(topology) \ open}

(* What led to a folded leaf leads to its domain.                               *)
ProjectCollapsedResearchLeaves(topology, open) ==
    LET hidden == HiddenLeaves(topology, open)
        rewired == {<<e[1], d>> : e \in {f \in topology.edges : f[2] \in hidden /\ f[1] \notin hidden},
                                  d \in ResearchDomainLeafGroups(topology) \ open}
    IN [topology EXCEPT
            !.nodes = @ \ hidden,
            !.edges = {e \in @ : e[1] \notin hidden /\ e[2] \notin hidden}
                        \cup {r \in rewired : /\ r[1] # r[2]
                                              /\ \E k \in LeavesOf(topology, r[2]) : <<r[1], k>> \in topology.edges}]

(* An edge goes when two others lead the same way.                              *)
SimplifyDisplayEdges(edges) ==
    {e \in edges : \/ RelationForEdge(e) \in {"feedback", "control"}
                   \/ ~\E mid \in Keys \ {e[2]} : <<e[1], mid>> \in edges /\ <<mid, e[2]>> \in edges}

--------------------------------------------------------------------------------
(* The order of the cards.                                                      *)

LayoutTailKindRank(k) ==
    CASE KindOf[k] = "plan.adapt" -> 0
      [] KindOf[k] \in {"write.root", "validate.pre"} -> 1
      [] KindOf[k] \in {"review.seat", "review.reduce"} -> 2
      [] KindOf[k] \in {"gate.fix", "repair", "validate.final"} -> 3
      [] OTHER -> 4

DurableScoutOrder(topology) ==
    \E e \in topology.edges :
       <<KindOf[e[1]], KindOf[e[2]]>> \in {<<"freeze", "plan.scout">>, <<"plan.scout", "plan.discover.reduce">>,
                                           <<"plan.scout", "plan">>, <<"plan.discover.reduce", "plan">>}

(* The planning cards, then every domain right after its leaves.                *)
PlacedFirst(topology, folds, open) ==
    LET Of(kinds) == SortedKeys({k \in topology.nodes : KindOf[k] \in kinds})
        domains == Of({"research.domain"})
        unfoldedFirst == SelectSeq(domains, LAMBDA d : d \in open) \o SelectSeq(domains, LAMBDA d : d \notin open)
        Cluster(d) == Append(IF folds /\ d \notin open THEN <<>> ELSE SortedKeys(LeavesOf(topology, d)), d)
        Clusters(ds) == FlattenSeq([i \in 1..Len(ds) |-> Cluster(ds[i])])
    IN Of({"freeze"})
         \o (IF DurableScoutOrder(topology)
             THEN Of({"plan.scout"}) \o Of({"plan.discover.reduce"}) \o Of({"plan"})
             ELSE Of({"plan"}) \o Of({"plan.scout"}) \o Of({"plan.discover.reduce"}))
         \o Of({"gate.plan"})
         \o Clusters(IF folds THEN unfoldedFirst ELSE domains)

\* Leaves of no domain, and the tail by rank.
FollowedByTail(topology, placed) ==
    LET rest == topology.nodes \ Range(placed)
        orphans == {k \in rest : KindOf[k] = "research.leaf"}
    IN placed \o SortedKeys(orphans)
         \o FlattenSeq([r \in 1..5 |-> SortedKeys({k \in rest \ orphans : LayoutTailKindRank(k) = r - 1})])

OrderedNodesForLayout(topology, folds, open) ==
    FollowedByTail(topology, PlacedFirst(topology, folds, open))

--------------------------------------------------------------------------------
(* The layouts (graph-layout).                                                  *)

CardWidth == 220
CardHeight == 72
MaxCardHeight == 120
LayerGap == 140
LeafGap == 40
DomainGap == 56

(* A folded fan-out gives its domains a button; a later generation has a badge. *)
ContentNodeHeight(n, k, folds) ==
    LET height == CardHeight + (IF k \notin Displayed /\ Story[n].gen[k] > 0 THEN 14 ELSE 0)
                             + (IF folds /\ KindOf[k] = "research.domain" THEN 28 ELSE 0)
    IN IF height > MaxCardHeight THEN MaxCardHeight ELSE height

(* A column of cards from y down.                                               *)
Column(n, folds, cards, x, y, gap) ==
    LET Step(acc, k) == [y |-> acc.y + ContentNodeHeight(n, k, folds) + gap,
                         at |-> acc.at @@ (k :> [x |-> x, y |-> acc.y])]
    IN FoldLeft(Step, [y |-> y, at |-> NoPositions], cards)

(* One domain below the others, halfway down its unfolded leaves.               *)
PlaceDomain(n, topology, open, acc, d) ==
    LET leaves == IF d \in open THEN SortedKeys(LeavesOf(topology, d)) ELSE <<>>
        stack == Column(n, TRUE, leaves, CardWidth + LayerGap, acc.y, LeafGap)
        height == ContentNodeHeight(n, d, TRUE)
        bottom == IF leaves = <<>> THEN acc.y + height ELSE stack.y - LeafGap
        top == IF leaves = <<>> THEN acc.y ELSE (acc.y + bottom - height) \div 2
    IN [y |-> (IF bottom > top + height THEN bottom ELSE top + height) + DomainGap,
        at |-> acc.at @@ stack.at @@ (d :> [x |-> 2 * (CardWidth + LayerGap), y |-> top])]

(* The domains one below the other, and below them the leaves of none.          *)
PlaceResearch(n, topology, open, order) ==
    LET Place(acc, d) == PlaceDomain(n, topology, open, acc, d)
    IN FoldLeft(Place, [y |-> 0, at |-> NoPositions], SelectSeq(order, LAMBDA k : KindOf[k] = "research.domain"))

WithOrphans(n, order, research) ==
    research.at @@ Column(n, TRUE,
                          SelectSeq(order, LAMBDA k : KindOf[k] = "research.leaf" /\ k \notin DOMAIN research.at),
                          CardWidth + LayerGap, research.y, LeafGap).at

CentredColumn(n, cards, x, middle) ==
    Column(n, TRUE, cards, x, middle - ((Column(n, TRUE, cards, x, 0, DomainGap).y - DomainGap) \div 2), DomainGap).at

\* The planning cards to their left and the others to their right, halfway down.
WithSides(n, order, content) ==
    LET bottoms == {0} \cup {content[k].y + ContentNodeHeight(n, k, TRUE) : k \in DOMAIN content}
        Side(x, Test(_)) == CentredColumn(n, SelectSeq(order, Test), x, Max(bottoms) \div 2)
        Planning(k) == KindOf[k] \in {"freeze", "plan", "gate.plan"}
    IN content @@ Side(0, Planning)
         @@ Side(3 * (CardWidth + LayerGap), LAMBDA k : k \notin DOMAIN content /\ ~Planning(k))

(* Plan, leaves, domains and the rest in four columns.                          *)
LayoutResearchFocus(n, topology, open, order) ==
    WithSides(n, order, WithOrphans(n, order, PlaceResearch(n, topology, open, order)))

(* elkjs: a column for every layer of the edges.                                *)
ElkLayout(topology) ==
    LET edges == SimplifyDisplayEdges(topology.edges)
        layer[k \in topology.nodes] ==
            LET before == {e[1] : e \in {f \in edges : f[2] = k}}
            IN IF before = {} THEN 0 ELSE 1 + Max({layer[b] : b \in before})
    IN [k \in topology.nodes |-> [x |-> layer[k] * (CardWidth + LayerGap), y |-> 0]]

(* Each layer is stacked again, in the order of the cards.                      *)
PackPositionsByModelOrder(n, order, raw) ==
    LET xs == {raw[k].x : k \in DOMAIN raw}
        Layer(x) == Column(n, FALSE, SelectSeq(order, LAMBDA k : raw[k].x = x), x,
                           Min({raw[k].y : k \in {j \in DOMAIN raw : raw[j].x = x}}), DomainGap).at
    IN [k \in DOMAIN raw |-> Layer(raw[k].x)[k]]

--------------------------------------------------------------------------------
(* The page (RunGraph, FocusGraph).                                             *)

Domains == {k \in Keys : KindOf[k] = "research.domain"}

Folds == Table([n \in 1..Len(Story), stage \in Stages |-> ShouldCollapseResearchLeaves(BaseTopology[n, stage])])

Shown ==
    Table([n \in 1..Len(Story), stage \in Stages, open \in SUBSET Domains |->
        ProjectCollapsedResearchLeaves(BaseTopology[n, stage], open)])

DisplayEdges ==
    Table([n \in 1..Len(Story), stage \in Stages, open \in SUBSET Domains |->
        SimplifyDisplayEdges(Shown[n, stage, open].edges)])

ModelOrder ==
    Table([n \in 1..Len(Story), stage \in Stages, open \in SUBSET Domains |->
        OrderedNodesForLayout(Shown[n, stage, open], Folds[n, stage], open)])

(* Where the fixed layout, and where ELK, puts the cards.                       *)
Places(n, stage, open, topology, order) ==
    IF Folds[n, stage] /\ stage = "research"
    THEN LayoutResearchFocus(n, topology, open, order)
    ELSE PackPositionsByModelOrder(n, order, ElkLayout(topology))

Placed ==
    Table([n \in 1..Len(Story), stage \in Stages, open \in SUBSET Domains |->
        Places(n, stage, open, Shown[n, stage, open], ModelOrder[n, stage, open])])

InFocus == view \in Stages /\ ~opened

(* A card without a position is put on a grid.                                  *)
GridPlace(i) == [x |-> (i % 4) * (CardWidth + 48), y |-> (i \div 4) * (CardHeight + 40)]

Grid ==
    Table([n \in 1..Len(Story), stage \in Stages, open \in SUBSET Domains |->
        LET order == ModelOrder[n, stage, open]
        IN [k \in Range(order) |-> GridPlace(SelectInSeq(order, LAMBDA j : j = k) - 1)]])

OnPage == positions @@ Grid[at, view, expanded]

\* Mutant: the folded leaves are waited for.
PositionedWithLeaves ==
    BaseTopology[at, view].nodes # {} /\ BaseTopology[at, view].nodes \subseteq DOMAIN positions

AllNodesPositioned ==
    Shown[at, view, expanded].nodes # {} /\ Shown[at, view, expanded].nodes \subseteq DOMAIN positions

(* An edge has a handle of its own at both ends, in the order of the other ends.*)
SourceHandle(e, edges) ==
    LET Before(k, j) == \/ positions[k].y < positions[j].y
                        \/ positions[k].y = positions[j].y /\ SelectInSeq(KeyOrder, LAMBDA i : i \in {k, j}) = SelectInSeq(KeyOrder, LAMBDA i : i = k)
    IN Cardinality({f \in edges : f[1] = e[1] /\ f[2] # e[2] /\ Before(f[2], e[2])})

(* The fixed layout is there at once; ELK answers later, unless the page asks   *)
(* again before it does.                                                        *)
Relayout(n, stage, open, old) ==
    IF Folds[n, stage] /\ stage = "research"
    THEN positions' = Placed[n, stage, open] /\ layout' = FALSE
    ELSE positions' = old /\ layout' = TRUE

Init ==
    /\ at = 1 /\ view = Overview
    /\ expanded = {} /\ positions = NoPositions
    /\ layout = FALSE /\ fitted = Nothing /\ opened = FALSE
    /\ clicks = 0 /\ failures = 0

Click == clicks < MaxClicks /\ clicks' = clicks + 1

(* A newer snapshot; a topology of another key starts folded and unplaced.      *)
Receive ==
    /\ at' \in (at + 1)..Len(Story)
    /\ IF ~InFocus THEN UNCHANGED <<expanded, positions, layout>>
       ELSE IF TopologyKey[at', view] = TopologyKey[at, view]
       THEN UNCHANGED expanded /\ Relayout(at', view, expanded, positions)
       ELSE expanded' = {} /\ Relayout(at', view, {}, NoPositions)
    /\ UNCHANGED <<view, fitted, opened, clicks, failures>>

FocusStage(stage) ==
    /\ Click /\ ~opened /\ stage # view
    /\ view' = stage /\ expanded' = {}
    /\ Relayout(at, stage, {}, NoPositions)
    /\ fitted' = IF view = Overview THEN Nothing ELSE fitted
    /\ UNCHANGED <<at, opened, failures>>

(* Leaving the stage takes what was unfolded and placed with it.                *)
BackToOverview ==
    /\ Click /\ InFocus
    /\ view' = Overview /\ expanded' = {} /\ positions' = NoPositions
    /\ layout' = FALSE /\ fitted' = Nothing
    /\ UNCHANGED <<at, opened, failures>>

OpenNode ==
    /\ Click /\ InFocus /\ Shown[at, view, expanded].nodes # {}
    /\ opened' = TRUE /\ expanded' = {} /\ positions' = NoPositions
    /\ layout' = FALSE /\ fitted' = Nothing
    /\ UNCHANGED <<at, view, failures>>

BackToGraph ==
    /\ opened
    /\ opened' = FALSE
    /\ Relayout(at, view, {}, NoPositions)
    /\ UNCHANGED <<at, view, expanded, fitted, clicks, failures>>

(* One domain, or all of them.                                                  *)
ToggleDomains ==
    /\ Click /\ InFocus /\ Folds[at, view]
    /\ LET groups == ResearchDomainLeafGroups(BaseTopology[at, view])
       IN \/ \E d \in groups : expanded' = IF d \in expanded THEN expanded \ {d} ELSE expanded \cup {d}
          \/ groups \subseteq expanded /\ expanded' = {}
          \/ ~(groups \subseteq expanded) /\ expanded' = groups
    /\ Relayout(at, view, expanded', positions)
    /\ UNCHANGED <<at, view, fitted, opened, failures>>

LayoutDone ==
    /\ layout
    /\ layout' = FALSE
    /\ positions' = Placed[at, view, expanded]
    /\ UNCHANGED <<at, view, expanded, fitted, opened, clicks, failures>>

(* The failure is swallowed; the grid stays until the page renders again.       *)
LayoutFails ==
    /\ layout /\ failures < MaxFailures
    /\ layout' = FALSE /\ failures' = failures + 1
    /\ UNCHANGED <<at, view, expanded, positions, fitted, opened, clicks>>

FitView ==
    /\ InFocus /\ AllNodesPositioned /\ fitted # TopologyKey[at, view]
    /\ fitted' = TopologyKey[at, view]
    /\ UNCHANGED <<at, view, expanded, positions, layout, opened, clicks, failures>>

Next == \/ Receive \/ BackToOverview \/ OpenNode \/ BackToGraph \/ ToggleDomains
        \/ LayoutDone \/ LayoutFails \/ FitView
        \/ \E stage \in Stages : FocusStage(stage)

(* ELK answers and the browser draws; snapshots and clicks come as they like.   *)
Spec == Init /\ [][Next]_vars /\ WF_vars(LayoutDone) /\ WF_vars(FitView)

--------------------------------------------------------------------------------
TypeOK ==
    /\ at \in 1..Len(Story) /\ view \in Stages \cup {Overview}
    /\ expanded \subseteq Keys /\ DOMAIN positions \subseteq Keys
    /\ layout \in BOOLEAN /\ opened \in BOOLEAN
    /\ clicks \in 0..MaxClicks /\ failures \in 0..MaxFailures

(* The keys that can be reached from k.                                         *)
Reach(edges, k) ==
    LET Further(from, i) == from \cup {e[2] : e \in {f \in edges : f[1] \in from}}
    IN FoldLeft(Further, {k}, KeyOrder)

Feeds ==
    Table([n \in 1..Len(Story), stage \in Stages |->
        [k \in BaseTopology[n, stage].nodes |-> Reach(BaseTopology[n, stage].edges, k)]])

FeedsOnPage ==
    Table([n \in 1..Len(Story), stage \in Stages, open \in SUBSET Domains |->
        [k \in Shown[n, stage, open].nodes |-> Reach(DisplayEdges[n, stage, open], k)]])

(* Folding and leaving out edges change no answer to "does this node feed that  *)
(* one?" between the cards on the page (workflow-topology.ts: the stage stays   *)
(* connected).                                                                  *)
WhatFeedsWhatIsKept ==
    InFocus =>
        \A k \in Shown[at, view, expanded].nodes :
            FeedsOnPage[at, view, expanded][k]
              = Feeds[at, view][k] \cap Shown[at, view, expanded].nodes

LeavesAreTogether(order, topology) ==
    LET Place(k) == SelectInSeq(order, LAMBDA j : j = k)
    IN /\ IsInjective(order) /\ Range(order) = topology.nodes
       /\ \A d \in ResearchDomainLeafGroups(topology) :
             {Place(k) : k \in LeavesOf(topology, d)}
               = (Place(d) - Cardinality(LeavesOf(topology, d)))..(Place(d) - 1)

(* Every card has one place in the layout order, and the leaves on the page come*)
(* right before their domain.                                                   *)
EachCardOnce ==
    InFocus => LeavesAreTogether(ModelOrder[at, view, expanded], Shown[at, view, expanded])

CardsAreApart(n, folds, cards, place) ==
    LET Above(k, j) == place[k].y + ContentNodeHeight(n, k, folds) <= place[j].y
        Beside(k, j) == place[k].x + CardWidth <= place[j].x
    IN \A k, j \in cards : k # j => Above(k, j) \/ Above(j, k) \/ Beside(k, j) \/ Beside(j, k)

HandlesAreApart(edges) ==
    \A e, f \in edges : e[1] = f[1] /\ e # f => SourceHandle(e, edges) # SourceHandle(f, edges)

(* No card covers another, on the grid, while ELK is at work, or laid out; and  *)
(* two edges never share the handle of a node.                                  *)
NothingOverlaps ==
    InFocus => /\ CardsAreApart(at, Folds[at, view], Shown[at, view, expanded].nodes, OnPage)
               /\ AllNodesPositioned => HandlesAreApart(DisplayEdges[at, view, expanded])

(* A snapshot that changes nothing on the page, or only states, leaves what the *)
(* operator unfolded and where the cards are.                                   *)
KeepsTheView ==
    (/\ at' # at /\ InFocus /\ BaseTopology[at', view] = BaseTopology[at, view]
     /\ \A k \in BaseTopology[at, view].nodes \ Displayed : Story[at'].gen[k] = Story[at].gen[k])
        => expanded' = expanded /\ positions' = positions
StatusKeepsTheView == [][KeepsTheView]_vars

(* A stage in focus ends up laid out and fitted, unless a layout failed.        *)
IsDrawn == \/ ~InFocus \/ failures > 0 \/ Shown[at, view, expanded].nodes = {}
           \/ AllNodesPositioned /\ fitted = TopologyKey[at, view]
Drawn == []<>IsDrawn

(* workflow-topology.test.ts: the quality stage shows the loop from a review    *)
(* through its repair; in the rows of a run nothing leads from one to the other.*)
RepairLoopIsShown ==
    InFocus /\ view = "quality" =>
        \A k \in Shown[at, view, expanded].nodes :
            KindOf[k] = "repair" =>
                \E e \in DisplayEdges[at, view, expanded] : e[2] = k /\ StageForNode(e[1]) = "quality"
================================================================================
