------------------------------ MODULE PlanTopology ------------------------------
(***************************************************************************)
(* How a run comes to an approved plan (plan-scout-materialize.ts, the     *)
(* plan's part of gate-open.ts, gate-resolve.ts, attempt-finish/,          *)
(* commands.ts and run-revision-coordinator.ts).  The freeze materialises  *)
(* scouts, in two waves when there are several sources; discover.reduce    *)
(* merges what they found; the plan reads all of it, may send scouts out   *)
(* again within a budget, and waits at a gate for the operator, whose      *)
(* approval materialises the execution graph, here its first node, which   *)
(* the model leaves running.                                               *)
(*                                                                         *)
(* An artifact is the generation of the node that made it.  The rows are   *)
(* one record, because helpers change it one after the other.              *)
(***************************************************************************)
EXTENDS Naturals, FiniteSets

CONSTANTS
    WaveA, WaveB,   \* scouts the routing selects: units, and semantic ones
    Gaps,           \* scouts a sufficiency gap may add
    Optional,       \* scouts that are not critical
    Sources,        \* number of frozen sources
    PlanConfirm,    \* workspace.planConfirm
    MaxRounds,      \* orchestration.planRescoutMaxRounds
    AutoAttempts,   \* RESEARCH_AUTO_RETRY_MAX_ATTEMPTS
    MaxFailures, MaxReruns, MaxDecisions, MaxRevisions \* bounds of the model

PolicyAssumption ==
    /\ Sources \in Nat \ {0} /\ MaxRounds \in Nat /\ AutoAttempts \in Nat
    /\ PlanConfirm \in BOOLEAN
    /\ {MaxFailures, MaxReruns, MaxDecisions, MaxRevisions} \subseteq Nat

Scouts == WaveA \cup WaveB \cup Gaps
Keys == {"freeze", "reduce", "plan", "gate", "write"} \cup Scouts
NodeStates == {"none", "blocked", "ready", "running", "waiting", "invalidated",
               "succeeded", "failed", "cancelled"}

VARIABLES
    rows,      \* nodes of the current generations, their inputs, plan gates
    run,       \* runs.state; queued and running are "active"
    approved,  \* pairs: generation of an approved gate, and of the plan it started
    rescouts,  \* sufficiency rounds that were scheduled
    failures, reruns, decisions, revisions

vars == <<rows, run, approved, rescouts, failures, reruns, decisions, revisions>>
bounds == <<failures, reruns, decisions, revisions>>

-----------------------------------------------------------------------------
(* What the rows say.                                                         *)

Present(d) == {k \in Keys : d.gen[k] > 0}
PresentScouts(d) == Scouts \cap Present(d)
Light == WaveA \cup WaveB = {}
TwoWave == Sources >= 2 /\ WaveA # {} /\ WaveB # {}

Upstream(d, k) ==
    CASE k \in Scouts -> {"freeze"}
      [] k = "reduce" -> PresentScouts(d)
      [] k = "plan" -> IF "reduce" \in Present(d) THEN {"reduce"} ELSE {"freeze"}
      [] k = "write" -> {"plan"}
      [] OTHER -> {}

\* Optional scouts may end badly; whoever runs holds the reduction.
Done(d, k, u) == \/ d.node[u] = "succeeded"
                 \/ k = "reduce" /\ u \in Optional /\ d.node[u] \in {"failed", "cancelled"}
UpstreamsSucceeded(d, k) == \A u \in Upstream(d, k) : Done(d, k, u)

Current(d, k) == IF d.node[k] = "succeeded" THEN {<<k, d.gen[k]>>} ELSE {}
\* The latest generation that succeeded.
Latest(d, k) == IF d.out[k] > 0 THEN {<<k, d.out[k]>>} ELSE {}

\* upstreamSealedOutputs: the pins, the upstreams, and for the plan every
\* receipt of a scout and the plan before it.
Mounted(d, k) ==
    Current(d, "freeze")
    \cup (IF k = "plan" THEN Latest(d, "plan") \cup UNION {Latest(d, s) : s \in Scouts}
          ELSE Current(d, "plan"))
    \cup UNION {Current(d, u) : u \in Upstream(d, k)}

HasReady(d) == \E k \in Keys : d.node[k] = "ready"
HasActiveWork(d) == \E k \in Keys : d.node[k] \in {"ready", "running", "waiting"}

-----------------------------------------------------------------------------
(* Helpers that change rows.                                                  *)

\* lineageInvalidationClosure, over current generations.
Lineage(d, k) ==
    LET reach[n \in Nat] ==
          IF n = 0 THEN {k}
          ELSE LET S == reach[n - 1]
               IN  S \cup {c \in Keys : \E u \in S : <<u, d.gen[u]>> \in d.in[c]}
    IN  IF Current(d, k) = {} THEN {} ELSE reach[4] \ {k}

\* applyRerunAt: a new generation of k, ready, and invalidated ones of T; what
\* the old ones say of rounds and waves is copied.  Gates are withdrawn by the
\* key of their node, and gate.plan consumes nothing.
Bumped(d, k, T) ==
    [d EXCEPT !.node = [x \in Keys |-> IF x = k THEN "ready"
                                       ELSE IF x \in T THEN "invalidated" ELSE @[x]],
              !.gen = [x \in Keys |-> IF x \in T \cup {k} THEN @[x] + 1 ELSE @[x]],
              !.in = [x \in Keys |-> IF x \in T \cup {k} THEN {} ELSE @[x]],
              !.tries = [x \in Keys |-> IF x \in T \cup {k} THEN 0 ELSE @[x]]]
RerunAt(d, k) == Bumped(d, k, Lineage(d, k))
RerunSelf(d, k) == Bumped(d, k, {})
Demoted(d, k) == [d EXCEPT !.node[k] = IF @ \in {"ready", "invalidated"} THEN "blocked" ELSE @]

Inserted(d, S, state) ==
    LET new == S \ Present(d) IN
    [d EXCEPT !.node = [x \in Keys |-> IF x \in new THEN state ELSE @[x]],
              !.gen = [x \in Keys |-> IF x \in new THEN 1 ELSE @[x]]]

\* unlockReadyNodes
Unlock(d) ==
    [d EXCEPT !.node = [k \in Keys |-> IF /\ @[k] \in {"blocked", "invalidated"} /\ k # "gate"
                                          /\ UpstreamsSucceeded(d, k)
                                       THEN "ready" ELSE @[k]]]

\* recomputeRunState, on unlocked rows.
Recomputed(d) == IF ~HasReady(d) /\ d.gates # {} THEN "waiting" ELSE "active"

Succeeded(d, k) == [d EXCEPT !.node[k] = "succeeded", !.out[k] = d.gen[k]]
Failed(d, k) == [d EXCEPT !.node[k] = "failed", !.tries[k] = @ + 1]

-----------------------------------------------------------------------------
(* Scouts.                                                                    *)

\* materializePlanScoutsAfterFreeze
Materialized(d) ==
    IF Light THEN Inserted(d, {"plan"}, "ready")
    ELSE LET first == IF TwoWave THEN WaveA ELSE WaveA \cup WaveB
             all == Inserted(d, first \cup {"reduce", "plan"}, "blocked")
         IN  Unlock([all EXCEPT !.wave = IF TwoWave THEN 1 ELSE 2])

\* Mutant: the second wave starts, and the reduction stays as it is.
WaveBUnheld(d) == IF d.wave = 1 /\ Sources >= 2 THEN [Inserted(d, WaveB, "ready") EXCEPT !.wave = 2]
                  ELSE d

\* maybeMaterializeDiscoverWaveB: once, after the first reduction.
OpenWaveB(d) ==
    IF d.wave = 1 /\ Sources >= 2
    THEN LET bumped == RerunSelf(Inserted(d, WaveB, "ready"), "reduce")
             held == Demoted(Demoted(bumped, "reduce"), "plan")
         IN  [held EXCEPT !.wave = 2]
    ELSE d

\* planSufficiencyRoundsUsed: the maximum over all generations of the plan.
RoundsUsed(d) == d.maxRound

MayRescout(d) == "reduce" \in Present(d) /\ RoundsUsed(d) < MaxRounds

\* schedulePlanSufficiencyRescout for the scouts S.
Rescouted(d, S) ==
    LET scouts == Inserted(d, S, "ready")
        again == S \cap Present(d)
        rearmed == [scouts EXCEPT
            !.node = [x \in Keys |-> IF x \in again THEN "ready" ELSE @[x]],
            !.gen = [x \in Keys |-> IF x \in again THEN @[x] + 1 ELSE @[x]],
            !.in = [x \in Keys |-> IF x \in again THEN {} ELSE @[x]],
            !.tries = [x \in Keys |-> IF x \in again THEN 0 ELSE @[x]]]
        held == Demoted(RerunSelf(Demoted(RerunSelf(rearmed, "reduce"), "reduce"), "plan"), "plan")
        next == RoundsUsed(d) + 1
    IN  Unlock([held EXCEPT !.wave = 2, !.round = next, !.gap = FALSE,
                            !.maxRound = IF next > @ THEN next ELSE @])

Rescout(d) ==
    \E S \in SUBSET (PresentScouts(d) \cup Gaps) \ {{}} :
        /\ rows' = Rescouted(d, S) /\ run' = "active" /\ rescouts' = rescouts + 1

-----------------------------------------------------------------------------
Init ==
    /\ rows = [node |-> [k \in Keys |-> IF k = "freeze" THEN "running" ELSE "none"],
               gen |-> [k \in Keys |-> IF k = "freeze" THEN 1 ELSE 0],
               out |-> [k \in Keys |-> 0], in |-> [k \in Keys |-> {}],
               tries |-> [k \in Keys |-> 0],
               wave |-> 2, round |-> 0, maxRound |-> 0, gap |-> FALSE,
               gates |-> {}, late |-> {}]
    /\ run = "active" /\ approved = {} /\ rescouts = 0
    /\ failures = 0 /\ reruns = 0 /\ decisions = 0 /\ revisions = 0

FreezeCommits ==
    /\ rows.node["freeze"] = "running"
    /\ rows' = Materialized(Succeeded(rows, "freeze"))
    /\ UNCHANGED <<run, approved, rescouts, bounds>>

\* A retry copies the inputs of the attempt that failed.
Claimable(k) == /\ run = "active" /\ rows.node[k] = "ready" /\ k # "gate"
                /\ UpstreamsSucceeded(rows, k)
Claim(k) ==
    /\ Claimable(k)
    /\ rows' = [rows EXCEPT !.node[k] = "running", !.in[k] = IF @ = {} THEN Mounted(rows, k) ELSE @]
    /\ UNCHANGED <<run, approved, rescouts, bounds>>

ScoutSucceeds(k) ==
    /\ k \in Scouts /\ rows.node[k] = "running"
    /\ rows' = Unlock(Succeeded(rows, k)) /\ run' = Recomputed(rows')
    /\ UNCHANGED <<approved, rescouts, bounds>>

ReduceSucceeds ==
    /\ rows.node["reduce"] = "running"
    /\ rows' = Unlock(OpenWaveB(Succeeded(rows, "reduce"))) /\ run' = Recomputed(rows')
    /\ UNCHANGED <<approved, rescouts, bounds>>

\* onPlanAccepted: the execution graph, unless its nodes are there, and the run.
Accepted(d) == Unlock(Inserted(d, {"write"}, "blocked"))

\* openPlanGate, at the generation of the plan; nothing is unlocked.
GateOpened(d, g) == [d EXCEPT !.gates = @ \cup {g},
                              !.node["gate"] = IF g >= d.gen["gate"] THEN "waiting" ELSE @,
                              !.gen["gate"] = IF g >= @ THEN g ELSE @]

PlanSucceeds ==
    /\ rows.node["plan"] = "running"
    /\ LET done == Succeeded(rows, "plan") IN
       IF PlanConfirm THEN rows' = GateOpened(done, rows.gen["plan"]) /\ run' = "waiting"
       ELSE rows' = Accepted(done) /\ run' = "active"
    /\ approved' = IF PlanConfirm THEN approved
                   ELSE approved \cup {<<rows.gen["plan"], rows.gen["plan"]>>}
    /\ UNCHANGED <<rescouts, bounds>>

\* The end of failNode.
AfterFailure(d) == IF HasActiveWork(d)
                   THEN rows' = Unlock(d) /\ run' = IF run = "waiting" THEN run ELSE "active"
                   ELSE rows' = d /\ run' = "failed"

Fails(k) == failures < MaxFailures /\ failures' = failures + 1 /\ rows.node[k] = "running"

Fail(k) ==
    /\ k # "freeze" /\ Fails(k)
    /\ AfterFailure(Failed(rows, k))
    /\ UNCHANGED <<approved, rescouts, reruns, decisions, revisions>>

\* shouldAutoRetryResearch: a transient failure of a scout.
FailTransiently(k) ==
    /\ k \in Scouts /\ Fails(k) /\ rows.tries[k] + 1 < AutoAttempts
    /\ rows' = [Failed(rows, k) EXCEPT !.node[k] = "ready"] /\ run' = "active"
    /\ UNCHANGED <<approved, rescouts, reruns, decisions, revisions>>

\* The plan does not cover what was found.
FailOnGap ==
    /\ Fails("plan")
    /\ LET dead == [Failed(rows, "plan") EXCEPT !.gap = TRUE] IN
       IF MayRescout(dead) THEN Rescout(dead) ELSE AfterFailure(dead) /\ rescouts' = rescouts
    /\ UNCHANGED <<approved, reruns, decisions, revisions>>

-----------------------------------------------------------------------------
(* Commands.                                                                  *)

Runs == {"active", "waiting", "failed"}

\* retry_failed_node: nobody consumed its outputs, its inputs are what they were;
\* a plan with a gap needs a round instead.
MayRetry(k) ==
    /\ run \in Runs /\ rows.node[k] = "failed" /\ Lineage(rows, k) = {}
    /\ IF k = "plan" /\ rows.gap THEN MayRescout(rows) ELSE Mounted(rows, k) = rows.in[k]
RetryFailedNode(k) ==
    /\ MayRetry(k)
    /\ IF k = "plan" /\ rows.gap THEN Rescout(rows)
       ELSE /\ rows' = [rows EXCEPT !.node[k] = "ready"] /\ run' = "active" /\ rescouts' = rescouts
    /\ UNCHANGED <<approved, bounds>>

\* rerun_node; a plan's rerun withdraws its gate and needs an empty topology.
MayRerunPlan == Present(rows) \subseteq {"freeze", "plan", "gate"}
RerunNode(k) ==
    /\ reruns < MaxReruns /\ reruns' = reruns + 1
    /\ run \in Runs /\ k \in Present(rows) \ {"freeze", "gate"}
    /\ k = "plan" => MayRerunPlan
    /\ LET g == rows.gen["plan"]
           closed == IF k = "plan" /\ rows.gen["gate"] = g
                     THEN [rows EXCEPT !.gates = @ \ {g},
                                       !.node["gate"] = IF @ = "waiting" THEN "cancelled" ELSE @]
                     ELSE rows
       IN  rows' = RerunAt(closed, k)
    /\ run' = "active"
    /\ UNCHANGED <<approved, rescouts, failures, decisions, revisions>>

\* resolveGate: the gate is open and of the current generation of its node.
Resolvable(g) == g \in rows.gates /\ g = rows.gen["gate"]
Resolved(g) == [rows EXCEPT !.gates = @ \ {g},
                            !.node["gate"] = IF @ = "waiting" THEN "succeeded" ELSE @]

\* An approval needs the Spec of the plan's current generation.
Approve(g) ==
    /\ Resolvable(g) /\ rows.node["plan"] = "succeeded"
    /\ rows' = Accepted(Resolved(g)) /\ run' = "active"
    /\ approved' = approved \cup {<<g, rows.gen["plan"]>>}
    /\ UNCHANGED <<rescouts, bounds>>

\* A new generation of the plan, whose detail has no round; an older one that
\* runs is left running.
Revise(g) ==
    /\ decisions < MaxDecisions /\ decisions' = decisions + 1
    /\ Resolvable(g)
    /\ LET old == rows.gen["plan"] IN
       rows' = [Resolved(g) EXCEPT !.node["plan"] = "ready", !.gen["plan"] = old + 1,
                                   !.in["plan"] = {}, !.tries["plan"] = 0,
                                   !.round = 0, !.gap = FALSE,
                                   !.late = IF rows.node["plan"] = "running" THEN @ \cup {old} ELSE @]
    /\ run' = "active"
    /\ UNCHANGED <<approved, rescouts, failures, reruns, revisions>>

\* Everything that could be claimed ends, but for the nodes K, and all gates.
Ended(d, K) ==
    [d EXCEPT !.gates = {}, !.late = {},
              !.node = [k \in Keys |->
                  IF /\ k \notin K
                     /\ @[k] \in {"blocked", "ready", "running", "waiting", "invalidated"}
                  THEN "cancelled" ELSE @[k]]]

\* A denial cancels the run: applyRunCancelTransitions.
Deny(g) ==
    /\ Resolvable(g) /\ rows' = Ended(Resolved(g), {}) /\ run' = "cancelled"
    /\ UNCHANGED <<approved, rescouts, bounds>>

\* The generation a revise left running still holds its lease and opens its gate.
LatePlanCommits(g) ==
    /\ g \in rows.late /\ run \in Runs
    /\ rows' = GateOpened([rows EXCEPT !.late = @ \ {g}, !.out["plan"] = IF g > @ THEN g ELSE @], g)
    /\ run' = "waiting"
    /\ UNCHANGED <<approved, rescouts, bounds>>

\* submit_run_revision: the gates and all that could be claimed end, but for the
\* inputs, and a new plan starts.
SubmitRunRevision ==
    /\ revisions < MaxRevisions /\ revisions' = revisions + 1
    /\ run \in {"active", "waiting"} /\ "plan" \in Present(rows)
    /\ rows' = [RerunSelf(Ended(rows, {"freeze", "plan"}), "plan") EXCEPT !.gap = FALSE]
    /\ run' = "active"
    /\ UNCHANGED <<approved, rescouts, failures, reruns, decisions>>

Work == \/ FreezeCommits \/ ReduceSucceeds \/ PlanSucceeds
        \/ \E k \in Keys : Claim(k) \/ ScoutSucceeds(k) \/ Fail(k) \/ FailTransiently(k)
        \/ FailOnGap
        \/ \E g \in rows.late : LatePlanCommits(g)

Next ==
    \/ Work
    \/ \E k \in Keys : RetryFailedNode(k) \/ RerunNode(k)
    \/ \E g \in rows.gates : Approve(g) \/ Revise(g) \/ Deny(g)
    \/ SubmitRunRevision

\* The scheduler claims what it can, and every attempt ends.
Spec == Init /\ [][Next]_vars /\ WF_vars(Work)

-----------------------------------------------------------------------------
TypeOK ==
    /\ \A k \in Keys : /\ rows.node[k] \in NodeStates
                       /\ rows.node[k] = "none" <=> rows.gen[k] = 0
                       /\ rows.out[k] \in 0 .. rows.gen[k]
                       /\ rows.in[k] \subseteq Keys \X Nat
    /\ rows.wave \in {1, 2} /\ rows.gates \subseteq 1 .. rows.gen["gate"]
    /\ run \in {"active", "waiting", "failed", "cancelled"}

\* What the plan and its reader see: the plan being made, or the gate of the
\* current plan.
Planning == \/ rows.node["plan"] = "running"
            \/ rows.node["plan"] = "succeeded" /\ rows.gen["plan"] \in rows.gates

\* A plan is made and approved on all that the critical scouts of both waves
\* found, as they found it last, and on the reduction of it.
PlanSeesDiscovery ==
    Planning /\ ~Light =>
        LET scouts == (WaveA \cup WaveB \cup PresentScouts(rows)) \ Optional
        IN  /\ {<<s, rows.gen[s]>> : s \in scouts} \subseteq rows.in["plan"] \cap rows.in["reduce"]
            /\ <<"reduce", rows.gen["reduce"]>> \in rows.in["plan"]

\* The budget of sufficiency rounds holds over all generations of the plan,
\* whoever starts them.
RescoutBudgetIsKept == rescouts <= MaxRounds

\* The plan an approval starts is the plan its gate showed.
ApprovedWasShown == \A pair \in approved : pair[1] = pair[2]

HasWork == \/ rows.node["freeze"] = "running" \/ rows.late # {}
           \/ \E k \in Keys : rows.node[k] = "running" \/ Claimable(k)

PlanningIsOver == \/ run # "active" \/ rows.node["write"] = "running"
                  \/ \E k \in Keys : rows.node[k] = "failed"

\* Discovery and planning end, in a question, a failure or the writing, whatever
\* fails, is retried, revised and sent out again meanwhile.
DiscoveryEnds == run = "active" ~> PlanningIsOver

\* on-failure.ts:205: a failed critical node without other work fails the run,
\* whichever of its siblings ends last.
FailureIsNotForgotten ==
    run = "active" /\ ~HasWork => \A k \in Keys \ Optional : rows.node[k] # "failed"

\* run-revision-coordinator.ts:4: a scope change restarts planning.
RevisionRestartsPlanning == revisions > 0 /\ run = "active" => HasWork

\* dag.ts:240: an optional scout that fails does not block; so it does not fail
\* the run either.
OptionalFailureIsTolerated ==
    run = "failed" => \E k \in Keys \ Optional : rows.node[k] = "failed"

\* commands.ts:416: before approval the plan may be run again.
PlanMayBeRerun == rows.node["plan"] = "succeeded" /\ "write" \notin Present(rows) => MayRerunPlan

\* The gate of a generation that was replaced is withdrawn.
GateShowsCurrentPlan == \A g \in rows.gates : g = rows.gen["plan"]

\* commands.ts:497: an old generation does not run beside a new one.
OldPlanIsOver == rows.late = {}

\* With planConfirm the Writer writes what the operator approved.
ApprovedPlanIsWritten ==
    rows.node["write"] = "running" => \E g \in {p[2] : p \in approved} : <<"plan", g>> \in rows.in["write"]
=============================================================================
