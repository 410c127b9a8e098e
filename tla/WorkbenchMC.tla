------------------------------- MODULE WorkbenchMC -------------------------------
(* What a run is made from, what becomes of it, and what the pages of the       *)
(* workbench make of both, in scenes: the first state chooses one. A component  *)
(* is on the stage alone: the cells hold its variables, and it uses the first   *)
(* ones; only the graph of a run has variables of its own.                      *)
(*   "survey"   sources, their scouts and the plan            (PlanCoverage)    *)
(*   "surfaces" one source with surfaces, a survey of fixed size                *)
(*   "freeze"   one source, reruns, edits, a crash            (FreezeRun)       *)
(*   "overlap"  two sources, executions that overlap                            *)
(*   "generate" a Wiki is written, fixed and published twice  (WikiPublish)     *)
(*   "refresh"  a published Wiki is refreshed                                   *)
(*   "cite"     a citation is fixed and validated             (Citations)       *)
(*   "forms"    the settings, saved beside changes elsewhere  (WorkspaceSettings)*)
(*   "skill"    the Skill and a clone, with failures                            *)
(*   "graph"    the graph of a run                            (RunGraph)        *)
(*   "models"   the catalogue of providers                    (ProviderCatalog) *)
(*   "fold"     a conversation                                (ConversationFold)*)
(*   "recover"  failed nodes, retries and reruns              (NodeRecovery)    *)
(*   "select"   the attempt a page shows                                        *)
(*   "comment"  the review of a candidate                     (CandidateReview) *)
EXTENDS RunGraph, TLC

CONSTANT Scenes  \* the scenes a run plays

VARIABLES scene, c1, c2, c3, c4, c5, c6, c7, c8, c9, c10, c11, c12, c13, c14, c15, c16, c17, c18,
          c19, c20

After14 == <<c15, c16, c17, c18, c19, c20>>
After13 == <<c14, After14>>
After12 == <<c13, After13>>
After11 == <<c12, After12>>
After8 == <<c9, c10, c11, After11>>
After7 == <<c8, After8>>
After5 == <<c6, c7, After7>>
cells == <<c1, c2, c3, c4, c5, After5>>
stage == <<scene, cells, vars>>

--------------------------------------------------------------------------------
(* Two sources of one surface each, three reports; one source of two surfaces. *)
Row(S, complex) == [surfaces |-> S, multiEntry |-> complex, complex |-> complex]
Policy(mode, budget, rounds) ==
    [planScoutMode |-> mode, planScoutCount |-> 0, planSurveyTaskBudget |-> budget,
     maxSourcesPerRun |-> 8, maxSurfacesRequired |-> 2, planRescoutMaxRounds |-> rounds]
Report(paths, domain) ==
    [ok |-> TRUE, paths |-> paths, domain |-> domain, cross |-> domain, question |-> FALSE]

Survey == INSTANCE PlanCoverage WITH
    Inventories <- {"api" :> Row({}, FALSE) @@ "web" :> Row({}, FALSE)},
    Policies <- {Policy("auto", -1, 1)},
    Reports <- {Report({"readme"}, FALSE), Report({"p", "q"}, TRUE)}, DocPaths <- {"readme"},
    PlanConfirm <- FALSE, MaxRevisions <- 0,
    inventory <- c1, orch <- c2, plan <- c3, tasks <- c4, receipts <- c5, map <- c6, spec <- c7,
    gaps <- c8, rounds <- c9, revisions <- c10, stage <- c11
Surfaces == INSTANCE PlanCoverage WITH
    Inventories <- {"api" :> Row({"x", "y"}, TRUE)}, Policies <- {Policy("auto", 3, 0)},
    Reports <- {Report({"readme"}, FALSE), Report({"p", "q"}, TRUE)}, DocPaths <- {"readme"},
    PlanConfirm <- TRUE, MaxRevisions <- 0,
    inventory <- c1, orch <- c2, plan <- c3, tasks <- c4, receipts <- c5, map <- c6, spec <- c7,
    gaps <- c8, rounds <- c9, revisions <- c10, stage <- c11

Freeze == INSTANCE FreezeRun WITH
    Sources <- {"s1"}, Attempts <- {"a1", "a2"}, MaxEdits <- 1, MaxCommands <- 2,
    MaxCrashes <- 1, Refresh <- FALSE, Published <- FALSE, Selectable <- TRUE, Overlap <- FALSE,
    live <- c1, run <- c2, node <- c3, attempt <- c4, frozen <- c5, pinned <- c6, prepared <- c7,
    outputs <- c8, disk <- c9, ex <- c10, up <- c11, commands <- c12, crashes <- c13, edits <- c14
Overlaps == INSTANCE FreezeRun WITH
    Sources <- {"s1", "s2"}, Attempts <- {"a1", "a2"}, MaxEdits <- 0, MaxCommands <- 2,
    MaxCrashes <- 0, Refresh <- FALSE, Published <- FALSE, Selectable <- TRUE, Overlap <- TRUE,
    live <- c1, run <- c2, node <- c3, attempt <- c4, frozen <- c5, pinned <- c6, prepared <- c7,
    outputs <- c8, disk <- c9, ex <- c10, up <- c11, commands <- c12, crashes <- c13, edits <- c14

(* Pages at the root, in a module and below one; a page whose citation is not  *)
(* covered stays out of the drafts, and a hand-written listing names it twice. *)
Cited(v, path) == [v |-> v, title |-> "plain", type |-> "module", form |-> "repo", stamp |-> 0,
                   cites |-> {[source |-> "s", path |-> path]}]
Listed(kind, path) == [kind |-> kind, at |-> path, title |-> "plain"]
Listings == {<<Listed("page", <<"m", "c">>), Listed("dir", <<"m">>), Listed("dir", <<"/">>)>>,
             <<Listed("dir", <<"m", "x">>), Listed("page", <<"o">>), Listed("page", <<"o">>)>>}

Generate == INSTANCE WikiPublish WITH
    Paths <- {<<"o">>, <<"m", "c">>, <<"m", "x", "d">>},
    Drafts <- {Cited(1, "app"), Cited(2, "lib")}, HandListings <- Listings, Sources <- {"s"},
    Units <- {[source |-> "s", path |-> "app"]}, Critical <- {<<"o">>},
    RequireCitations <- TRUE, MaxFiles <- 9, Modes <- {"generate"}, MaxRuns <- 2,
    live <- c1, staging <- c2, stage <- c3, mode <- c4, clock <- c5, day <- c6, changed <- c7
Renew == INSTANCE WikiPublish WITH
    Paths <- {<<"o">>, <<"m", "c">>},
    Drafts <- {Cited(1, "app"), Cited(2, "lib")}, HandListings <- Listings, Sources <- {"s"},
    Units <- {[source |-> "s", path |-> "app"]}, Critical <- {<<"o">>},
    RequireCitations <- TRUE, MaxFiles <- 9, Modes <- {"generate", "refresh"}, MaxRuns <- 2,
    live <- c1, staging <- c2, stage <- c3, mode <- c4, clock <- c5, day <- c6, changed <- c7

Files(n) == (<<"a">> :> n) @@ (<<"d", "a">> :> 2)
Names == {"s", "r", "d", "a"}
Cite == INSTANCE Citations WITH
    Targets <- {<<>>} \cup [1..1 -> {"a", "d"}] \cup [1..2 -> Names \cup {"..", "sources"}]
               \cup [1..3 -> Names \cup {"sources"}] \cup {<<"sources", x, "d", "a">> : x \in Names},
    LineRanges <- {<<>>} \cup {<<i>> : i \in 0..4} \cup ((1..3) \X (1..4)),
    Snapshots <- {"s" :> Files(1), "s" :> Files(1) @@ "r" :> Files(3)},
    Slack <- 1, MaxRounds <- 2,
    sources <- c1, written <- c2, cite <- c3, stage <- c4, rounds <- c5

(* The form's name and the rounds of the scouts are changed; other settings.   *)
Defaults == [name |-> 1, contextTargetTokens |-> 0, planRescoutMaxRounds |-> 1,
             maxSourcesPerRun |-> 16, planner |-> 0, maxPlanScoutConcurrency |-> 4]
Forms == INSTANCE WorkspaceSettings WITH
    Settings0 <- Defaults, TypedValues <- {<<"name", 2>>, <<"planRescoutMaxRounds", 2>>},
    SourceIds <- {"s"}, SourceKinds <- {"add", "remove"}, SkillKinds <- {}, InOrder <- TRUE,
    MaxRequests <- 3, MaxEdits <- 2, MaxElsewhere <- 1, MaxFailures <- 0,
    server <- c1, disk <- c2, working <- c3, requests <- c4, order <- c5, page <- c6, budget <- c7
Skill == INSTANCE WorkspaceSettings WITH
    Settings0 <- Defaults, TypedValues <- {<<"name", 2>>},
    SourceIds <- {"s"}, SourceKinds <- {"clone"}, SkillKinds <- {"fork", "write", "load"},
    InOrder <- TRUE, MaxRequests <- 2, MaxEdits <- 1, MaxElsewhere <- 1, MaxFailures <- 1,
    server <- c1, disk <- c2, working <- c3, requests <- c4, order <- c5, page <- c6, budget <- c7

(* The snapshots of a run: its scouts, its plan, what the plan materialises,   *)
(* a status only, an adaptation, a repair, and a rerun.                        *)
Order == <<"freeze", "gate.fix", "gate.plan", "plan", "plan.adapt.1", "plan.discover.reduce",
           "plan.scout.d", "plan.scout.f", "repair.1", "research.domain.a", "research.domain.b",
           "research.leaf.a.1", "research.leaf.a.2", "research.leaf.a.3", "research.leaf.b.1",
           "research.leaf.b.2", "research.leaf.c.1", "review.reduce", "review.seat.q",
           "validate.final", "validate.pre", "write.root">>
Scouting == {"plan.scout.d", "plan.scout.f"}
LeavesA == {"research.leaf.a.1", "research.leaf.a.2", "research.leaf.a.3"}
LeavesB == {"research.leaf.b.1", "research.leaf.b.2"}
DomainNodes == {"research.domain.a", "research.domain.b"}
KindsOf == [k \in {Order[i] : i \in DOMAIN Order} |->
    CASE k \in Scouting -> "plan.scout" [] k = "repair.1" -> "repair"
      [] k = "plan.adapt.1" -> "plan.adapt" [] k \in DomainNodes -> "research.domain"
      [] k \in LeavesA \cup LeavesB \cup {"research.leaf.c.1"} -> "research.leaf"
      [] k = "review.seat.q" -> "review.seat" [] OTHER -> k]

Path(keys) == {<<keys[i], keys[i + 1]>> : i \in 1..(Len(keys) - 1)}
OfEdges(edges, rerun) ==
    [nodes |-> UNION {{e[1], e[2]} : e \in edges}, edges |-> edges,
     gen |-> [k \in DOMAIN KindsOf |-> IF k \in rerun THEN 1 ELSE 0]]
Discovery == ({"freeze"} \X Scouting) \cup (Scouting \X {"plan.discover.reduce"})
               \cup {<<"plan.discover.reduce", "plan">>}
Gated == Discovery \cup {<<"plan", "gate.plan">>}
Materialised ==
    Gated \cup ({"plan"} \X (LeavesA \cup LeavesB)) \cup (LeavesA \X {"research.domain.a"})
      \cup (LeavesB \X {"research.domain.b"}) \cup (DomainNodes \X {"write.root", "plan.adapt.1"})
      \cup Path(<<"plan.adapt.1", "write.root", "validate.pre", "review.seat.q", "review.reduce",
                  "gate.fix", "validate.final">>)
Adapted == Materialised \cup Path(<<"plan.adapt.1", "research.leaf.c.1", "write.root">>)
Repaired == Adapted \cup Path(<<"write.root", "repair.1", "validate.pre">>)
Round2 == {"validate.pre", "review.seat.q", "review.reduce", "gate.fix"}

Snapshots ==
    <<OfEdges(Discovery, {}), OfEdges(Gated, {}), OfEdges(Materialised, {}),
      OfEdges(Materialised, {}), OfEdges(Adapted, {}), OfEdges(Repaired, Round2),
      OfEdges(Repaired, Round2 \cup {"research.domain.a", "write.root"})>>

(* Two providers with three models; a form of each, and two other clients.     *)
Model(name) == [id |-> <<name, 1>>, modelId |-> name, tokens |-> 0]
Provider(name, base, key, shape, agent, models) ==
    [id |-> <<name, 1>>, base |-> base, key |-> key, shape |-> shape, headers |-> agent,
     models |-> models]
Catalogue ==
    [providers |-> <<Provider("p", "u1", "k1", "responses", "node", <<Model("m"), Model("n")>>),
                     Provider("q", "u2", "k2", "completions", "more", <<Model("o")>>)>>,
     default |-> <<"m", 1>>]
Models == INSTANCE ProviderCatalog WITH
    Kinds <- {"valid", "legacy", "absent", "garbled"}, File0 <- Catalogue,
    ProviderForms <-
       {[name |-> "q", base |-> "u2", key |-> "k3", shape |-> "completions", agent |-> "none",
         clear |-> FALSE],
        [name |-> "p", base |-> "u1", key |-> "none", shape |-> "completions", agent |-> "node",
         clear |-> TRUE]},
    ModelForms <- {[name |-> "m", modelId |-> "m2", tokens |-> 8]},
    Bodies <- {<<"deleteProvider", [id |-> <<"p", 1>>, temp |-> 0]>>,
               <<"createModel", [id |-> <<"none", 0>>, name |-> "m", modelId |-> "x", tokens |-> 0,
                                 provider |-> <<"none", 0>>, base |-> "u3", shape |-> "keep",
                                 temp |-> 0]>>},
    Env <- [base |-> "none", key |-> "none"], Overlap <- FALSE, MaxRequests <- 2, MaxEdits <- 2,
    disk <- c1, temps <- c2, backups <- c3, requests <- c4, answers <- c5, page <- c6,
    workspace <- c7, edits <- c8

Fold == INSTANCE ConversationFold WITH
    Calls <- {"t1", "t2"}, Produces <- {"t1"}, Fills <- {5}, Targets <- {20}, Target0 <- 10,
    MaxText <- 1, MaxPrompts <- 1, MaxReplies <- 2, MaxRetries <- 1, MaxCompactions <- 0,
    MaxOpens <- 1, MaxLag <- 1,
    phase <- c1, partial <- c2, exec <- c3, fate <- c4, retry <- c5, healed <- c6,
    stopping <- c7, branch <- c8, live <- c9, wire <- c10, view <- c11, counts <- c12

(* What the rows of a run let its page offer, and what the page keeps on show.  *)
Recover == INSTANCE NodeRecovery WITH
    Keys <- {"plan.scout.a", "write.root", "publish"},
    Upstream <- ("plan.scout.a" :> {} @@ "write.root" :> {"plan.scout.a"}
                   @@ "publish" :> {"write.root"}),
    MaxAttempts <- 3, Commands <- {"retry", "rerun", "cancel"}, Watches <- FALSE, MaxClicks <- 0,
    FinalKey <- "publish", AskKeys <- {}, EvidenceKeys <- {}, PartialKeys <- {},
    AutoRetryKeys <- {}, RepairKeys <- {}, MaxAutoAttempts <- 2, MaxConcurrent <- 1, MaxGen <- 1,
    HistoryCap <- 1, MaxCrashes <- 1, MaxCloses <- 0,
    runState <- c1, cancelRequested <- c2, gen <- c3, node <- c4, cur <- c5, last <- c6,
    parent <- c7, att <- c8, out <- c9, gates <- c10, prep <- c11, work <- c12, said <- c13,
    owner <- c14, crashes <- c15, closes <- c16, view <- c17, route <- c18, sel <- c19, clicks <- c20
Follow == INSTANCE NodeRecovery WITH
    Keys <- {"draft", "publish"}, Upstream <- ("draft" :> {} @@ "publish" :> {"draft"}),
    MaxAttempts <- 2, Commands <- {"rerun"}, Watches <- TRUE, MaxClicks <- 1,
    FinalKey <- "publish", AskKeys <- {}, EvidenceKeys <- {}, PartialKeys <- {},
    AutoRetryKeys <- {}, RepairKeys <- {}, MaxAutoAttempts <- 2, MaxConcurrent <- 1, MaxGen <- 1,
    HistoryCap <- 1, MaxCrashes <- 1, MaxCloses <- 0,
    runState <- c1, cancelRequested <- c2, gen <- c3, node <- c4, cur <- c5, last <- c6,
    parent <- c7, att <- c8, out <- c9, gates <- c10, prep <- c11, work <- c12, said <- c13,
    owner <- c14, crashes <- c15, closes <- c16, view <- c17, route <- c18, sel <- c19, clicks <- c20

(* A page "p" of which two candidates differ, and one that the second adds.    *)
Comment == INSTANCE CandidateReview WITH
    Trees <- {"p" :> <<"x", "y">>, "p" :> <<"x", "z">> @@ "q" :> <<"w">>}, Paths <- {"p", "q"},
    Notes <- {"n"}, Waits <- TRUE, Losable <- {"command"},
    MaxCandidates <- 2, MaxClicks <- 1, MaxOpens <- 1, MaxElsewhere <- 1, MaxLost <- 1,
    MaxDamaged <- 0,
    candidates <- c1, baselines <- c2, damaged <- c3, threads <- c4, repairs <- c5,
    revision <- c6, url <- c7, page <- c8, run <- c9, note <- c10, loads <- c11, command <- c12,
    budget <- c13

ASSUME Recover!RecoveryAssumption /\ Follow!RecoveryAssumption /\ Fold!FoldAssumption

--------------------------------------------------------------------------------
Empty14 == c15 = 0 /\ c16 = 0 /\ c17 = 0 /\ c18 = 0 /\ c19 = 0 /\ c20 = 0
Empty13 == c14 = 0 /\ Empty14
Empty12 == c13 = 0 /\ Empty13
Empty11 == c12 = 0 /\ Empty12
Empty8 == c9 = 0 /\ c10 = 0 /\ c11 = 0 /\ Empty11
Empty7 == c8 = 0 /\ Empty8
Empty5 == c6 = 0 /\ c7 = 0 /\ Empty7

McInit ==
    /\ scene \in Scenes
    /\ Init
    /\ CASE scene = "survey" -> Survey!Init /\ Empty11
         [] scene = "surfaces" -> Surfaces!Init /\ Empty11
         [] scene = "freeze" -> Freeze!Init /\ Empty14
         [] scene = "overlap" -> Overlaps!Init /\ Empty14
         [] scene = "generate" -> Generate!Init /\ Empty7
         [] scene = "refresh" -> Renew!Init /\ Empty7
         [] scene = "cite" -> Cite!Init /\ Empty5
         [] scene = "forms" -> Forms!Init /\ Empty7
         [] scene = "skill" -> Skill!Init /\ Empty7
         [] scene = "models" -> Models!Init /\ Empty8
         [] scene = "fold" -> Fold!Init /\ Empty12
         [] scene = "recover" -> Recover!PageInit
         [] scene = "select" -> Follow!PageInit
         [] scene = "comment" -> Comment!Init /\ Empty13
         [] OTHER -> c1 = 0 /\ c2 = 0 /\ c3 = 0 /\ c4 = 0 /\ c5 = 0 /\ Empty5

\* A component plays alone: the cells it does not use and the graph stay.
InCells(s, A, rest) == scene = s /\ A /\ UNCHANGED <<scene, rest, vars>>
InGraph(s, A) == scene = s /\ A /\ UNCHANGED <<scene, cells>>

McNext ==
    \/ InCells("survey", Survey!Next, After11)
    \/ InCells("surfaces", Surfaces!Next, After11)
    \/ InCells("freeze", Freeze!Next, After14)
    \/ InCells("overlap", Overlaps!Next, After14)
    \/ InCells("generate", Generate!Next, After7)
    \/ InCells("refresh", Renew!Next, After7)
    \/ InCells("cite", Cite!Next, After5)
    \/ InCells("forms", Forms!Next, After7)
    \/ InCells("skill", Skill!Next, After7)
    \/ InCells("models", Models!Next, After8)
    \/ InCells("fold", Fold!Next, After12)
    \/ InCells("recover", Recover!PageNext, <<>>)
    \/ InCells("select", Follow!PageNext, <<>>)
    \/ InCells("comment", Comment!Next, After13)
    \/ InGraph("graph", Next)

(* The fairness of each component, in the scenes with a liveness property.      *)
McFairness ==
    /\ WF_cells(scene = "overlap" /\ Overlaps!Proceed /\ UNCHANGED After14)
    /\ WF_cells(scene = "forms" /\ Forms!Proceed /\ UNCHANGED After7)
    /\ WF_vars(scene = "graph" /\ LayoutDone)
    /\ WF_vars(scene = "graph" /\ FitView)
    /\ WF_cells(scene = "comment" /\ Comment!Proceed /\ UNCHANGED After13)

McSpec == McInit /\ [][McNext]_stage /\ McFairness

--------------------------------------------------------------------------------
(* Nothing is lost on the way from the sources to the Wiki. Every unit that the *)
(* plan needs is surveyed first and has a task, and its evidence is kept        *)
(* (plan-scouts.ts, discovery-map-merge.ts, coverage.ts); what a run pinned is    *)
(* what its tasks read (freeze.ts, repository-snapshot.ts); every page is listed*)
(* once, the log tells what is there, and what was validated is published       *)
(* (wiki-index.ts, wiki-log.ts, prepare-publication.ts); the repair of a        *)
(* citation keeps what it points at and is itself well formed                   *)
(* (citations-autofix.ts); the catalogue of providers stays one that can be     *)
(* read (provider-catalog.ts).                                                  *)
NothingIsLost ==
    CASE scene = "survey" ->
           Survey!NothingIsLeftOut /\ Survey!SurveyedFirst /\ Survey!EvidenceIsKept
      [] scene = "surfaces" ->
           Surfaces!NothingIsLeftOut /\ Surfaces!SurveyedFirst /\ Surfaces!EvidenceIsKept
      [] scene = "freeze" -> Freeze!PinIsContent /\ Freeze!PinnedIsSealed
      [] scene = "overlap" -> Overlaps!PinIsContent
      [] scene = "generate" -> /\ Generate!EachPageOnce /\ Generate!LogTellsWhatIsThere
                               /\ Generate!ValidatedIsPublished /\ Generate!PublishedCovers
      [] scene = "refresh" -> /\ Renew!EachPageOnce /\ Renew!LogTellsWhatIsThere
                              /\ Renew!ValidatedIsPublished /\ Renew!PublishedCovers
      [] scene = "cite" -> /\ Cite!TargetIsKept /\ Cite!RepairIsSmall
                           /\ Cite!RepairSettles /\ Cite!RepairedIsWellFormed
      [] scene = "models" -> Models!CatalogIsSound /\ Models!OnlyLegacyIsMoved
      [] OTHER -> TRUE

(* What the pages show is what the server has. The settings and the Skill       *)
(* (ConfigurePage.tsx, SkillSection.tsx), the graph of the run (RunGraph.tsx,   *)
(* graph-layout.ts), the catalogue (SettingsPage.tsx), the rows of a            *)
(* conversation (session-stream.ts, session-stream-state.ts), the actions a     *)
(* node offers (node-recovery.ts, observation-state.ts), and the page, the      *)
(* comments and the diff of a candidate's review (RunReviewPage.tsx,            *)
(* candidate-review.ts).                                                        *)
ShownIsTrue ==
    CASE scene = "forms" -> Forms!ShownIsSaved /\ Forms!SelectorResolves
      [] scene = "skill" -> Skill!ShownIsSaved
      [] scene = "graph" -> WhatFeedsWhatIsKept /\ EachCardOnce /\ NothingOverlaps
      [] scene = "models" -> Models!ShownIsSaved
      [] scene = "fold" -> /\ Fold!ReplicaFollows /\ Fold!LiveIsHistory
                           /\ Fold!CardsTellTheTruth /\ Fold!SettledIsQuiet
      [] scene = "recover" -> /\ Recover!OfferedIsAccepted /\ Recover!CascadesAreWarned
                              /\ Recover!StandstillIsShown /\ Recover!RetriedIsShown
                              /\ Recover!RouteIsShown
      [] scene = "select" -> Follow!CascadesAreWarned /\ Follow!RetriedIsShown /\ Follow!RouteIsShown
      [] scene = "comment" -> /\ Comment!ThreadIsOnWhatWasRead /\ Comment!OncePerClick
                              /\ Comment!RepairIsOfWhatWasSeen /\ Comment!DiffIsTrue
      [] OTHER -> TRUE

(* What nobody named does not change: a gap is scouted, a pin is for ever, a    *)
(* published history is kept, a save overwrites nothing that was not shown and  *)
(* changes nothing else, a draft survives one's own change, a new status leaves *)
(* the view of the graph alone, an edit of the catalogue is of its provider and *)
(* keeps a default, the rows of a conversation keep their place, and no         *)
(* snapshot takes the operator to another attempt (useWorkspaceGeneralForm.ts,  *)
(* provider-catalog.ts, RunGraph.tsx, freeze.ts, wiki-log.ts).                  *)
OnlyTheNamedChanges ==
    [][CASE scene = "survey" -> Survey!ScoutsTheGaps
         [] scene = "freeze" -> Freeze!KeepsThePin
         [] scene = "overlap" -> Overlaps!KeepsThePin
         [] scene = "generate" -> c1' # c1 => Generate!KeepsHistory
         [] scene = "refresh" -> c1' # c1 => Renew!KeepsHistory
         [] scene = "forms" -> /\ Forms!OverwritesWhatWasShown /\ Forms!SavesWhatIsTyped
                               /\ Forms!SavesNothingElse /\ Forms!KeepsTheDraft
         [] scene = "skill" -> Skill!SavesNothingElse /\ Skill!OverwritesWhatWasShown
         [] scene = "graph" -> KeepsTheView
         [] scene = "models" -> Models!ChangesOnlyTheNamed /\ Models!KeepsADefault
         [] scene = "fold" -> Fold!KeepsThePlaces
         [] scene = "recover" -> Recover!KeepsTheSelection
         [] scene = "select" -> Follow!KeepsTheSelection
         [] OTHER -> TRUE]_stage

Answered ==
    CASE scene = "overlap" -> Overlaps!Quiet
      [] scene = "forms" -> Forms!AllAnswered
      [] scene = "graph" -> IsDrawn
      [] scene = "comment" -> Comment!AtRest
      [] OTHER -> TRUE

(* What was asked for is answered: executions of a freeze that overlap end, a   *)
(* saved form is answered, the graph is laid out and fitted, and the review     *)
(* page comes to rest, whatever is refused or lost (freeze.ts, ConfigurePage.tsx,*)
(* RunGraph.tsx, RunReviewPage.tsx).                                            *)
WorkIsAnswered == []<>Answered
================================================================================
