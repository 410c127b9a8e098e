---------------------------- MODULE EvaluationRound ----------------------------
(***************************************************************************)
(* The evaluation rounds of a run (repair-schedule.ts,                     *)
(* evaluation/candidate.ts, attempt-inputs.ts, the parts of                *)
(* attempt-finish/ and commands.ts they go through): the Writer's Wiki is  *)
(* validated, read by a review seat, and its defects merged; blocking ones *)
(* schedule a node repair.N, whose Wiki goes through the round again, or   *)
(* open the fix gate; budgets bound the repairs, and one operator command  *)
(* may go beyond them once.                                                *)
(*                                                                         *)
(* Artifacts are content addressed, so an artifact is its content: a Wiki  *)
(* is a version, as a model attempt wrote it or after the host's           *)
(* autofix.  The rows are one record, because the code's helpers change it *)
(* one after the other in one transaction.                                 *)
(***************************************************************************)
EXTENDS Naturals, FiniteSets, Sequences

CONSTANTS
    RepairKeys,       \* sequence: the keys repair.1, repair.2, ...
    MaxCandidates, SemanticBudget, MechanicalBudget,  \* EvaluationPolicy
    AutoRepair,       \* acceptance.autoRepair
    MaxFailures,      \* bound: attempts that fail
    MaxReruns         \* bound: reruns of the Writer

Repairs == {RepairKeys[i] : i \in DOMAIN RepairKeys}
Core == {"write", "pre", "seat", "reduce", "fix", "final"}
Keys == Core \cup Repairs

Policy ==
    /\ MaxCandidates \in Nat \ {0} /\ SemanticBudget \in Nat /\ MechanicalBudget \in Nat
    /\ AutoRepair \in BOOLEAN /\ MaxFailures \in Nat /\ MaxReruns \in Nat
    /\ RepairKeys \in Seq(Repairs) /\ Repairs \cap (Core \cup {"none"}) = {}
    /\ \A i, j \in DOMAIN RepairKeys : RepairKeys[i] = RepairKeys[j] => i = j
ASSUME PolicyAssumption == Policy

NodeStates == {"none", "blocked", "ready", "running", "waiting", "invalidated",
               "succeeded", "failed"}

\* Artifacts: <<"wiki", version, autofixed>>, and the receipts about a version.
Versions == 1 .. (Len(RepairKeys) + 1) * (MaxReruns + 1)
Wikis == {"wiki"} \X Versions \X BOOLEAN
Receipts == {"report", "finding", "defects"} \X Versions
WikiIn(S) == S \cap Wikis
Version(S) == (CHOOSE w \in WikiIn(S) : TRUE)[2]

VARIABLES
    rows,      \* nodes, attempt_inputs, node_outputs and gates of the current generations
    repairs,   \* the repair requests, in order
    latest,    \* the artifact of the latest candidate
    models,    \* how many candidates a model wrote
    recovery,  \* evaluation_recoveries of the run
    run,       \* runs.state; queued and running are "active"
    accepted,  \* versions a clean review or the operator's pass accepted
    failures, reruns

vars == <<rows, repairs, latest, models, recovery, run, accepted, failures, reruns>>

NoRecovery == [state |-> "none", source |-> "none", request |-> {}]

-----------------------------------------------------------------------------
(* The graph and what an attempt mounts.                                      *)

\* Edges of the graph; scheduleRepair adds those of repair.N.
Inserted(d) == {k \in Repairs : d.node[k] # "none"}
Request(k) == repairs[CHOOSE i \in DOMAIN repairs : RepairKeys[i] = k]
CoreUpstream == [write |-> {}, pre |-> {"write"}, seat |-> {"pre"}, reduce |-> {"seat"},
                 fix |-> {"reduce"}, final |-> {"fix"}]
Upstream(d, rs, k) ==
    IF k \in Repairs THEN {rs[CHOOSE i \in DOMAIN rs : RepairKeys[i] = k].up}
    ELSE CoreUpstream[k] \cup IF k = "pre" THEN Inserted(d) ELSE {}

UpstreamsSucceeded(d, rs, k) == \A u \in Upstream(d, rs, k) : d.node[u] = "succeeded"

\* nodeOutputsAtCurrentGen and latestSucceededOutputs
Out(d, k) == IF d.node[k] = "succeeded" THEN d.out[k] ELSE {}
LatestOut(d, k) == IF d.node[k] = "succeeded" THEN d.out[k] ELSE d.last[k]

\* The tree of the highest repair that has one, and of the first of a list of
\* nodes that has one.
RepairTree(d) ==
    LET with == {i \in DOMAIN RepairKeys : WikiIn(LatestOut(d, RepairKeys[i])) # {}}
    IN  IF with = {} THEN {}
        ELSE WikiIn(LatestOut(d, RepairKeys[CHOOSE i \in with : \A j \in with : j <= i]))
FirstTree(d, ks) ==
    LET with == {i \in DOMAIN ks : WikiIn(Out(d, ks[i])) # {}}
    IN  IF with = {} THEN {} ELSE WikiIn(Out(d, ks[CHOOSE i \in with : \A j \in with : i <= j]))
Carried(d) == IF RepairTree(d) # {} THEN RepairTree(d)
              ELSE FirstTree(d, <<"final", "pre", "reduce", "write">>)

Tree(d, k) ==
    IF k \in Repairs THEN {Request(k).baseline}
    ELSE CASE k = "write" -> WikiIn(d.last["write"])
           [] k = "pre" -> IF RepairTree(d) # {} THEN RepairTree(d)
                           ELSE FirstTree(d, <<"write", "final", "pre", "reduce">>)
           [] k = "seat" -> IF WikiIn(Out(d, "pre")) # {} THEN WikiIn(Out(d, "pre")) ELSE Carried(d)
           [] OTHER -> Carried(d)

Kind(kind, S) == {a \in S : a[1] = kind}

\* upstreamSealedOutputs, as far as the contracts of the nodes let it through.
Mounted(d, k) ==
    Tree(d, k) \cup
    IF k \in Repairs THEN Kind("defects", Out(d, Request(k).up)) \cup Request(k).report
    ELSE CASE k = "seat" -> Kind("defects", LatestOut(d, "reduce"))
           [] k = "reduce" -> Kind("finding", Out(d, "seat"))
           [] OTHER -> {}

-----------------------------------------------------------------------------
(* Helpers that change rows.                                                  *)

\* lineageInvalidationClosure: the transitive consumers of k, by artifact and
\* over current generations.
Lineage(d, k) ==
    LET Closed(S) == \A u \in S, c \in Keys : d.out[u] \cap d.in[c] # {} => c \in S
    IN  {c \in Keys \ {k} : \A S \in SUBSET Keys : k \in S /\ Closed(S) => c \in S}

\* applyRerunAt: a new generation of k, ready, and, unless selfOnly, of what
\* consumed its outputs; the gates of the fix node are withdrawn with it.
Bump(d, k, S) ==
    LET T == {k} \cup S IN
    [node |-> [x \in Keys |-> IF x = k THEN "ready" ELSE IF x \in T THEN "invalidated" ELSE d.node[x]],
     in |-> [x \in Keys |-> IF x \in T THEN {} ELSE d.in[x]],
     out |-> [x \in Keys |-> IF x \in T THEN {} ELSE d.out[x]],
     last |-> [x \in Keys |-> IF x \in T THEN LatestOut(d, x) ELSE d.last[x]],
     gates |-> IF "fix" \in T THEN {} ELSE d.gates]
RerunAt(d, k) == Bump(d, k, Lineage(d, k))
RerunSelf(d, k) == Bump(d, k, {})
Demoted(d, k, to) == [d EXCEPT !.node[k] = IF @ = "ready" THEN to ELSE @]

\* unlockReadyNodes
Unlock(d, rs) ==
    [d EXCEPT !.node = [k \in Keys |-> IF /\ @[k] \in {"blocked", "invalidated"} /\ k # "fix"
                                          /\ UpstreamsSucceeded(d, rs, k)
                                       THEN "ready" ELSE @[k]]]

HasReady(d) == \E k \in Keys : d.node[k] = "ready"
\* The tail behind the final validation counts as work.
HasActiveWork(d) == d.node["final"] = "succeeded"
                    \/ \E k \in Keys : d.node[k] \in {"ready", "running", "waiting"}

\* recomputeRunState
Recomputed(d) == IF HasReady(d) THEN IF run = "failed" THEN run ELSE "active"
                 ELSE IF d.gates # {} THEN "waiting" ELSE "active"

-----------------------------------------------------------------------------
(* Repairs.                                                                   *)

Sourced(source) == Cardinality({i \in DOMAIN repairs : repairs[i].source = source})
Budget(source) == IF source = "semantic" THEN SemanticBudget ELSE MechanicalBudget
\* Mutants: off by one.
InBudgetInclusive(source) == Sourced(source) <= Budget(source)
UnderCapInclusive == models <= MaxCandidates

InBudget(source) == Sourced(source) < Budget(source)
UnderCap == models < MaxCandidates

\* Mutant: the fix gate and the final validation stay as they are.
ScheduledBesideTail(d, request, failed) ==
    LET key == RepairKeys[Len(repairs) + 1]
        added == [d EXCEPT !.node[key] = "ready"]
    IN  IF failed \in Keys THEN RerunSelf(added, failed) ELSE added

\* scheduleRepair: insert repair.N, hold the fix gate and the final validation,
\* and rearm the validation that failed.
Scheduled(d, request, failed) ==
    LET key == RepairKeys[Len(repairs) + 1]
        added == [d EXCEPT !.node[key] = "ready"]
        held == Demoted(RerunAt(added, "fix"), "fix", "blocked")
        both == Demoted(RerunAt(held, "final"), "final", "blocked")
    IN  IF failed \in Keys THEN RerunSelf(both, failed) ELSE both

Repair(d, request, failed) ==
    /\ Len(repairs) < Len(RepairKeys)
    /\ repairs' = Append(repairs, request)
    /\ rows' = Unlock(Scheduled(d, request, failed), repairs')
    /\ run' = "active"

Semantic == [source |-> "semantic", up |-> "reduce", baseline |-> latest, report |-> {}]

\* Mutant: the seats and the reduction stay ready.
RearmedUndemoted(d) == RerunSelf(RerunSelf(RerunSelf(d, "pre"), "seat"), "reduce")

\* rearmEvaluationRoundAfterRepair
Rearmed(d) ==
    LET bumped == RerunSelf(RerunSelf(RerunSelf(d, "pre"), "seat"), "reduce")
    IN  Demoted(Demoted(bumped, "seat", "invalidated"), "reduce", "invalidated")

-----------------------------------------------------------------------------
Init ==
    /\ rows = [node |-> [k \in Keys |-> IF k \in Repairs THEN "none"
                                        ELSE IF k = "write" THEN "ready" ELSE "blocked"],
               in |-> [k \in Keys |-> {}], out |-> [k \in Keys |-> {}],
               last |-> [k \in Keys |-> {}], gates |-> {}]
    /\ repairs = <<>> /\ latest = <<>> /\ models = 0
    /\ recovery = NoRecovery /\ run = "active"
    /\ accepted = {} /\ failures = 0 /\ reruns = 0

Claimable(k) ==
    /\ k # "fix" /\ rows.node[k] = "ready" /\ run = "active"
    /\ UpstreamsSucceeded(rows, repairs, k)
    /\ k = "write" \/ WikiIn(Mounted(rows, k)) # {}

\* A claim copies the inputs of an earlier attempt of the generation.
Claimed(k) == [rows EXCEPT !.node[k] = "running",
                           !.in[k] = IF @ = {} THEN Mounted(rows, k) ELSE @]
Claim(k) ==
    /\ Claimable(k)
    /\ rows' = Claimed(k)
    /\ UNCHANGED <<repairs, latest, models, recovery, run, accepted, failures, reruns>>

\* commitNodeArtifacts: the outputs, and a candidate for every Wiki.
Committed(k, S) == [rows EXCEPT !.node[k] = "succeeded", !.out[k] = S]
\* A later candidate outdates the recovery that names the latest one.
Registers(S) ==
    /\ latest' = (CHOOSE w \in WikiIn(S) : TRUE)
    /\ recovery' = IF recovery.state = "open" THEN [recovery EXCEPT !.state = "outdated"]
                   ELSE recovery

\* The Writer and the repairs; an unchanged tree is refused, so it is new.
Write(k) ==
    LET wiki == {<<"wiki", models + 1, FALSE>>}
        done == Committed(k, wiki)
    IN  /\ k \in {"write"} \cup Repairs
        /\ rows.node[k] = "running"
        /\ models' = models + 1
        /\ Registers(wiki)
        /\ rows' = Unlock(IF k \in Repairs THEN Rearmed(done) ELSE done, repairs)
        /\ run' = Recomputed(rows')
        /\ UNCHANGED <<repairs, accepted, failures, reruns>>

\* mechanicalValidate: the tree as it was, or after autofix.
Validate(k) == \E fixed \in BOOLEAN :
    LET seen == CHOOSE w \in WikiIn(rows.in[k]) : TRUE
        wiki == {<<"wiki", seen[2], seen[3] \/ fixed>>}
    IN  /\ k \in {"pre", "final"} /\ rows.node[k] = "running"
        /\ Registers(wiki)
        /\ rows' = Unlock(Committed(k, wiki), repairs)
        /\ run' = Recomputed(rows')
        /\ UNCHANGED <<repairs, models, accepted, failures, reruns>>

Review ==
    /\ rows.node["seat"] = "running"
    /\ rows' = Unlock(Committed("seat", {<<"finding", Version(rows.in["seat"])>>}), repairs)
    /\ run' = Recomputed(rows')
    /\ UNCHANGED <<repairs, latest, models, recovery, accepted, failures, reruns>>

\* review.reduce seals the defects and the tree it mounted.
Reduced == LET about == (CHOOSE f \in Kind("finding", rows.in["reduce"]) : TRUE)[2]
           IN  {<<"defects", about>>} \cup WikiIn(rows.in["reduce"])

\* No blocking defect: autoPassFixGate.
AutoPassed(d) ==
    [d EXCEPT !.node["fix"] =
        IF @ \in {"blocked", "waiting", "ready", "running"} THEN "succeeded" ELSE @]
ReduceClean ==
    /\ rows.node["reduce"] = "running"
    /\ rows' = Unlock(AutoPassed(Committed("reduce", Reduced)), repairs)
    /\ run' = "active"
    /\ Registers(Reduced)
    /\ accepted' = accepted \cup {d[2] : d \in Kind("defects", Reduced)}
    /\ UNCHANGED <<repairs, models, failures, reruns>>

\* Blocking defects: a repair within budget and cap, or the fix gate.
Asked(d) == [d EXCEPT !.node["fix"] = "waiting", !.gates = @ \cup Kind("defects", Reduced)]
ReduceBlocking ==
    /\ rows.node["reduce"] = "running"
    /\ Registers(Reduced)
    /\ LET done == Committed("reduce", Reduced) IN
       IF AutoRepair /\ InBudget("semantic") /\ UnderCap
       THEN Repair(done, [Semantic EXCEPT !.baseline = latest'], "none")
       ELSE /\ rows' = Asked(done)
            /\ run' = "waiting"
            /\ repairs' = repairs
    /\ UNCHANGED <<models, accepted, failures, reruns>>

-----------------------------------------------------------------------------
(* Failures.                                                                  *)

Fails(k) == failures < MaxFailures /\ failures' = failures + 1 /\ rows.node[k] = "running"
Failed(k) == [rows EXCEPT !.node[k] = "failed"]

\* The end of failNode: the run is failed when nothing is left to do.
AfterFailure(d) == run' = IF ~HasActiveWork(d) THEN "failed"
                          ELSE IF run = "waiting" THEN run ELSE "active"

\* Any node, by its infrastructure or its executor.
Fail(k) ==
    /\ Fails(k)
    /\ rows' = IF HasActiveWork(Failed(k)) THEN Unlock(Failed(k), repairs) ELSE Failed(k)
    /\ AfterFailure(Failed(k))
    /\ UNCHANGED <<repairs, latest, models, recovery, accepted, reruns>>

\* A validation finds the Wiki bad: a mechanical repair within the budget, or
\* the failure of the run with a recovery the operator may continue once.
Mechanical(k) == [source |-> "mechanical", up |-> "write", baseline |-> latest,
                  report |-> {<<"report", Version(rows.in[k])>>}]
MayRecover(source) == ~InBudget(source) /\ UnderCap /\ recovery.state = "none"

Refused(k) == [Failed(k) EXCEPT !.out[k] = {<<"report", Version(rows.in[k])>>}]
Invalid(k) ==
    LET dead == Refused(k)
    IN  /\ k \in {"pre", "final"} /\ Fails(k)
        /\ IF InBudget("mechanical") /\ UnderCap
           THEN Repair(dead, Mechanical(k), k) /\ recovery' = recovery
           ELSE /\ rows' = IF HasActiveWork(dead) THEN Unlock(dead, repairs) ELSE dead
                /\ AfterFailure(dead)
                /\ repairs' = repairs
                /\ recovery' = IF ~HasActiveWork(dead) /\ MayRecover("mechanical")
                               THEN [state |-> "open", source |-> "mechanical",
                                     request |-> {Mechanical(k)}]
                               ELSE recovery
        /\ UNCHANGED <<latest, models, accepted, reruns>>

-----------------------------------------------------------------------------
(* Commands.                                                                  *)

MayRetry(k) == rows.node[k] = "failed" /\ Lineage(rows, k) = {} /\ Mounted(rows, k) = rows.in[k]
\* retry_failed_node: nobody consumed its outputs, its inputs are what they were.
RetryFailedNode(k) ==
    /\ MayRetry(k)
    /\ rows' = [rows EXCEPT !.node[k] = "ready"]
    /\ run' = "active"
    /\ UNCHANGED <<repairs, latest, models, recovery, accepted, failures, reruns>>

Resolved(g) == [rows EXCEPT !.gates = @ \ {g},
                            !.node["fix"] = IF @ \in {"waiting", "ready", "running"}
                                            THEN "succeeded" ELSE @]

Pass(g) ==
    /\ g \in rows.gates
    /\ rows' = Unlock(Resolved(g), repairs)
    /\ run' = "active"
    /\ accepted' = accepted \cup {g[2]}
    /\ UNCHANGED <<repairs, latest, models, recovery, failures, reruns>>

Deny(g) ==
    /\ g \in rows.gates
    /\ rows' = Resolved(g) /\ run' = "failed"
    /\ UNCHANGED <<repairs, latest, models, recovery, accepted, failures, reruns>>

\* scheduleOperatorRepair; what it cannot do rejects the decision.
Fix(g) ==
    /\ g \in rows.gates
    /\ IF InBudget("semantic")
       THEN UnderCap /\ Repair(Resolved(g), Semantic, "none") /\ recovery' = recovery
       ELSE /\ MayRecover("semantic")
            /\ rows' = Resolved(g) /\ run' = "failed" /\ repairs' = repairs
            /\ recovery' = [state |-> "open", source |-> "semantic", request |-> {Semantic}]
    /\ UNCHANGED <<latest, models, accepted, failures, reruns>>

\* continue_evaluation, whatever the budget: once in a run, for the candidate
\* the recovery was opened for.
Continue ==
    /\ recovery.state = "open" /\ run = "failed" /\ UnderCap
    /\ \E r \in recovery.request : Repair(rows, r, "none")
    /\ recovery' = [recovery EXCEPT !.state = "continued"]
    /\ UNCHANGED <<latest, models, accepted, failures, reruns>>

\* rerun_node of the Writer, refused at the cap.
RerunWriter ==
    /\ reruns < MaxReruns /\ reruns' = reruns + 1
    /\ UnderCap
    /\ rows' = RerunAt(rows, "write")
    /\ run' = "active"
    /\ UNCHANGED <<repairs, latest, models, recovery, accepted, failures>>

Work(k) == Write(k) \/ Validate(k) \/ (k = "seat" /\ Review)
           \/ (k = "reduce" /\ (ReduceClean \/ ReduceBlocking)) \/ Fail(k) \/ Invalid(k)

Next ==
    \/ \E k \in Keys : Claim(k) \/ Work(k) \/ RetryFailedNode(k)
    \/ \E g \in rows.gates : Pass(g) \/ Deny(g) \/ Fix(g)
    \/ Continue \/ RerunWriter

\* The scheduler claims, and executors settle; the operator owes nothing.
Fairness == \A k \in Keys : WF_vars(Claim(k)) /\ WF_vars(Work(k))

Spec == Init /\ [][Next]_vars /\ Fairness

-----------------------------------------------------------------------------
TypeOK ==
    /\ rows.node \in [Keys -> NodeStates]
    /\ \A k \in Keys : rows.in[k] \cup rows.out[k] \cup rows.last[k] \subseteq Wikis \cup Receipts
    /\ rows.gates \subseteq Receipts
    /\ \A i \in DOMAIN repairs : repairs[i].source \in {"semantic", "mechanical"}
                                  /\ repairs[i].baseline \in Wikis
    /\ models \in 0 .. Cardinality(Versions) /\ latest \in Wikis \cup {<<>>}
    /\ recovery.state \in {"none", "open", "outdated", "continued"}
    /\ run \in {"active", "waiting", "failed"} /\ accepted \subseteq Versions

Repairing == \E k \in Repairs : rows.node[k] \in {"ready", "running"}

\* While a repair is to be made nobody is asked about the old Wiki, nor does it
\* go to its final validation.
PathIsHeld == Repairing => rows.gates = {} /\ rows.node["final"] \notin {"running", "succeeded"}

\* What is validated last, and offered, is what the last review of it accepted or
\* the operator passed: no repair and no autofix after the review bypasses one.
OnlyAcceptedIsFinal ==
    rows.node["final"] \in {"running", "succeeded"} => Version(rows.in["final"]) \in accepted

\* A repair is given the Wiki its defects were found in.
RepairSeesItsDefects ==
    \A k \in Repairs : rows.node[k] = "running" =>
        \A d \in rows.in[k] \cap Receipts : d[2] = Version(rows.in[k])

\* The repairs of each kind stay within their budget, but for the one the
\* operator continued, and no run is continued twice.
BudgetIsKept ==
    \A source \in {"semantic", "mechanical"} :
        Sourced(source) <= Budget(source)
                           + IF recovery.state = "continued" /\ recovery.source = source THEN 1 ELSE 0

\* Models write no more candidates than the policy allows.
CapIsKept == models <= MaxCandidates

HasWork == \/ rows.node["final"] = "succeeded"
           \/ \E k \in Keys : rows.node[k] = "running" \/ Claimable(k)

\* However attempts end, there is a way on: work to do, a question, a failed run,
\* or a failed repair the operator can retry.
NotDead == run = "active" /\ ~HasWork => \E k \in Keys : MayRetry(k)

(* The budgets hold: the repairs of each kind, and, until the Writer is rerun,  *)
(* the candidates models write (scheduleRepair, evaluationBudget).              *)
BudgetsAreKept == BudgetIsKept /\ (reruns = 0 => CapIsKept)

(* Until the Writer is rerun, a round of evaluation is about one Wiki: no       *)
(* question and no final validation while it is being repaired, a repair mounts *)
(* the Wiki its defects were found in, what is final was accepted in its last   *)
(* version, and a round that stops leaves something the operator can retry      *)
(* (scheduleRepair, bindAttemptInputs, evaluation/candidate.ts).                *)
EvaluationIsOfOneWiki ==
    reruns = 0 => PathIsHeld /\ OnlyAcceptedIsFinal /\ RepairSeesItsDefects /\ NotDead

EvaluationIsOver == \/ run \in {"waiting", "failed"} \/ rows.node["final"] = "succeeded"
                    \/ \E k \in Repairs : rows.node[k] = "failed"

\* An evaluation ends: with a Wiki to offer, a question, a failure, or in a
\* failed repair.
EvaluationEnds == run = "active" ~> EvaluationIsOver

(* What attempt-finish/on-failure.ts:205 says: without ready, running or waiting *)
(* work the run is failed, so that somebody is told.                             *)
NotStranded == run = "active" => HasWork

(* What CONTEXT.md:124 says: a rerun invalidates the downstream lineage.  The   *)
(* Wiki that is validated last is not older than what the Writer wrote last.   *)
RerunIsEvaluated ==
    rows.node["final"] = "succeeded" /\ rows.node["write"] = "succeeded" =>
        Version(rows.in["final"]) >= Version(rows.out["write"])
=============================================================================
