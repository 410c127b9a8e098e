------------------------------ MODULE PublishTail ------------------------------
(***************************************************************************)
(* The tail of every execution graph (execution-graph.ts): the Writer, the *)
(* evaluation round, the fix gate, the final validation, the preparation   *)
(* of a candidate, the publication gate and publish; with the publication  *)
(* effects of the run, the commands of the operator, and the workers that  *)
(* publish, which a command cannot stop.                                   *)
(*                                                                         *)
(* A Wiki is named by the generation of write.root that wrote it, and an   *)
(* effect, its gate and its candidate by the generation of                 *)
(* prepare.publication that made it.  The Writer and validate.pre are one  *)
(* node here, and so are the review seats and review.reduce.  The run      *)
(* states queued and running are one state, "active": the scheduler claims *)
(* in both.  Repairs are left out: the spec of the run has autoRepair off, *)
(* and the operator does not choose "fix".  What the swap of directories   *)
(* does is module PublicationApply.                                        *)
(***************************************************************************)
EXTENDS Naturals, FiniteSets

CONSTANTS
    RerunKeys,   \* bound: the keys the operator reruns
    FailKeys,    \* bound: the keys whose attempts may fail
    LateErrors,  \* bound: an apply may fail when its swap has happened
    Commands,    \* bound: the other commands and decisions of the operator
    MaxGen,      \* bound: generations of a node
    MaxPublish,  \* bound: attempts of publish
    MaxForeign,  \* bound: publications by others
    MaxUpsets    \* bound: crashes and closes of the owner, pauses, reruns and retries

Chain == <<"write.root", "review.reduce", "gate.fix", "validate.final",
           "prepare.publication", "gate.publication", "publish">>
Keys == {Chain[i] : i \in 1 .. 7}
Gates == {"gate.fix", "gate.publication"}
Edges == {<<Chain[i], Chain[i + 1]>> : i \in 1 .. 6}

AllCommands == {"pass", "deny fix", "revise fix", "approve", "revise", "deny",
                "cancel", "pause", "retry"}

ASSUME BoundsAssumption ==
    /\ RerunKeys \subseteq Keys \ Gates /\ FailKeys \subseteq Keys \ Gates
    /\ Commands \subseteq AllCommands /\ LateErrors \in BOOLEAN
    /\ MaxGen \in Nat /\ MaxPublish \in Nat /\ MaxForeign \in Nat /\ MaxUpsets \in Nat

Gens == 0 .. MaxGen
Workers == 1 .. MaxPublish
NoWorker == 0

VARIABLES
    run,             \* runs.state
    cancelRequested, \* runs.cancel_requested
    gen,             \* gen[k]: the current generation of k
    node,            \* node[k]: the state of that generation
    bound,           \* bound[k]: the outputs its attempts mounted, as <<key, generation>>
    wiki,            \* wiki[k]: the Wiki its attempts mounted
    accepted,        \* Wikis that a clean review or the operator accepted
    fixGates,        \* open rows of kind fix, as <<generation, Wiki under review>>
    effect,          \* effect[g]: effects.state
    gate,            \* gate[g]: the state and decision of the publication gate
    cand,            \* cand[g]: the Wiki in the candidate
    base,            \* base[g]: expected_live_digest
    live,            \* the published Wiki
    lease,           \* the attempt that holds the lease of publish
    worker,          \* worker[a]: where the worker of publish attempt a is
    owner,           \* the process that owns the store
    upsets           \* crashes, closes, pauses, reruns and retries so far

runVars == <<run, cancelRequested>>
graphVars == <<gen, node, bound, wiki>>
gateVars == <<accepted, fixGates, gate>>
effectVars == <<effect, cand, base>>
workVars == <<lease, worker>>
ownerVars == <<owner, upsets>>
vars == <<runVars, graphVars, gateVars, effectVars, workVars, ownerVars, live>>

NodeStates == {"blocked", "ready", "running", "waiting", "succeeded", "failed",
               "cancelled", "invalidated"}
RunStates == {"active", "waiting_for_operator", "paused", "failed", "published",
              "completed_unpublished", "cancelled"}
EffectStates == {"none", "prepared", "candidate_ready", "applying", "applied",
                 "conflict", "failed", "unknown", "cancelled"}
Steps == {"none", "started", "picked", "drifted", "applying", "swapped", "thrown",
          "applied", "failing", "conflicted"}
Lives == ({"run"} \X Gens) \cup ({"foreign"} \X (0 .. MaxForeign))
Idle == [step |-> "none", eff |-> 0]

TypeOK ==
    /\ run \in RunStates /\ cancelRequested \in BOOLEAN
    /\ gen \in [Keys -> Gens]
    /\ node \in [Keys -> NodeStates]
    /\ bound \in [Keys -> SUBSET (Keys \X Gens)]
    /\ wiki \in [Keys -> Gens]
    /\ accepted \subseteq Gens
    /\ fixGates \subseteq Gens \X Gens
    /\ effect \in [Gens -> EffectStates]
    /\ gate \in [Gens -> {"none", "open", "approved", "declined", "withdrawn"}]
    /\ cand \in [Gens -> Gens] /\ base \in [Gens -> Lives] /\ live \in Lives
    /\ lease \in Workers \cup {NoWorker}
    /\ worker \in [Workers -> [step: Steps, eff: Gens]]
    /\ owner \in {"up", "closing", "down"} /\ upsets \in 0 .. MaxUpsets

-----------------------------------------------------------------------------
(* The graph.                                                              *)

UpstreamsSucceeded(nd, k) == \A e \in Edges : e[2] = k => nd[e[1]] = "succeeded"

(* unlockReadyNodes: gates are opened by their predecessors, not unlocked. *)
Unlock(nd) ==
    [k \in Keys |->
        IF /\ k \notin Gates
           /\ nd[k] \in {"blocked", "invalidated"}
           /\ UpstreamsSucceeded(nd, k)
        THEN "ready" ELSE nd[k]]

HasReady(nd) == \E k \in Keys : nd[k] = "ready"
HasActiveWork(nd) == \E k \in Keys : nd[k] \in {"ready", "running", "waiting"}
HasOpenGate == fixGates # {} \/ \E g \in Gens : gate[g] = "open"

(* recomputeRunState over the unlocked nodes nd. *)
Recomputed(nd) ==
    IF HasReady(nd)
    THEN IF run \in {"active", "waiting_for_operator"} THEN "active" ELSE run
    ELSE IF HasOpenGate THEN "waiting_for_operator" ELSE "active"

(* The Wiki carried forward where no edge brings one, most refined first. *)
Carriers ==
    LET order == <<"validate.final", "review.reduce", "write.root">>
        first(i) == /\ node[order[i]] = "succeeded"
                    /\ \A j \in 1 .. i - 1 : node[order[j]] # "succeeded"
    IN  {order[i] : i \in {j \in 1 .. 3 : first(j)}}

(* upstreamSealedOutputs: k is fed by its edges, by the carried Wiki and,  *)
(* for publish, by the candidate its edge passes over.                     *)
Feeds(v, k) ==
    \/ <<v, k>> \in Edges
    \/ k \in {"review.reduce", "validate.final", "publish"} /\ v \in Carriers
    \/ <<v, k>> = <<"prepare.publication", "publish">>
Sources(k) ==
    {<<v, gen[v]>> : v \in {u \in Keys \ Gates : node[u] = "succeeded" /\ Feeds(u, k)}}

(* A claim after a failure or a suspension mounts the frozen inputs again. *)
Envelope(k) == IF bound[k] # {} THEN bound[k] ELSE Sources(k)

(* The Wiki that a first claim of k mounts. *)
Mounted(k) ==
    IF k = "write.root" THEN gen[k]
    ELSE CHOOSE w \in Gens : \E u \in Keys \ Gates :
            <<u, gen[u]>> \in Sources(k) /\ w = wiki[u]

(* validateBoundInputs: everything behind the Writer requires a Wiki,      *)
(* except publish, whose candidate is optional.                            *)
Binds(k) == k \in {"write.root", "publish"} \/ Envelope(k) # {}

(* attempt_inputs keeps what the contract names: publish names no Wiki. *)
Consumes(c, u) ==
    /\ <<u, gen[u]>> \in bound[c]
    /\ c = "publish" => u = "prepare.publication"

(* lineageInvalidationClosure. *)
Lineage(k) ==
    LET within[n \in Nat] ==
            IF n = 0 THEN {k}
            ELSE LET S == within[n - 1]
                 IN  S \cup {c \in Keys : \E u \in S : Consumes(c, u)}
    IN  within[6] \ {k}

-----------------------------------------------------------------------------
Init ==
    /\ run = "active" /\ cancelRequested = FALSE
    /\ gen = [k \in Keys |-> 0]
    /\ node = [k \in Keys |-> IF k = "write.root" THEN "ready" ELSE "blocked"]
    /\ bound = [k \in Keys |-> {}] /\ wiki = [k \in Keys |-> 0]
    /\ accepted = {} /\ fixGates = {}
    /\ effect = [g \in Gens |-> "none"] /\ gate = [g \in Gens |-> "none"]
    /\ cand = [g \in Gens |-> 0] /\ base = [g \in Gens |-> <<"foreign", 0>>]
    /\ live = <<"foreign", 0>>
    /\ lease = NoWorker /\ worker = [a \in Workers |-> Idle]
    /\ owner = "up" /\ upsets = 0

-----------------------------------------------------------------------------
(* The scheduler, and the attempts before publish.  Their late results are *)
(* dropped (module RunControl), so an attempt is its running node.         *)

Claimable(k) ==
    /\ owner = "up" /\ run = "active" /\ ~cancelRequested
    /\ k \notin Gates /\ node[k] = "ready" /\ UpstreamsSucceeded(node, k)

Claim(k) ==
    /\ Claimable(k) /\ Binds(k)
    /\ node' = [node EXCEPT ![k] = "running"]
    /\ bound' = [bound EXCEPT ![k] = Envelope(k)]
    /\ wiki' = IF bound[k] # {} \/ k = "publish" THEN wiki
               ELSE [wiki EXCEPT ![k] = Mounted(k)]
    /\ IF k = "publish"
       THEN \E a \in Workers :
              /\ worker[a].step = "none" /\ \A b \in 1 .. a - 1 : worker[b].step # "none"
              /\ worker' = [worker EXCEPT ![a].step = "started"]
              /\ lease' = a
       ELSE UNCHANGED workVars
    /\ UNCHANGED <<runVars, gen, gateVars, effectVars, ownerVars, live>>

Finishing(k) == owner = "up" /\ node[k] = "running" /\ ~cancelRequested

(* commitSuccessfulAttempt of a kind without a gate of its own. *)
Succeed(k) ==
    /\ k \in {"write.root", "validate.final"} /\ Finishing(k)
    /\ node' = Unlock([node EXCEPT ![k] = "succeeded"])
    /\ run' = Recomputed(node')
    /\ UNCHANGED <<cancelRequested, gen, bound, wiki, gateVars, effectVars,
                   workVars, ownerVars, live>>

(* review.reduce without blocking defects: autoPassFixGate. *)
ReviewIsClean ==
    LET nd == [node EXCEPT !["review.reduce"] = "succeeded",
                           !["gate.fix"] = IF @ \in {"blocked", "waiting", "ready", "running"}
                                           THEN "succeeded" ELSE @]
    IN  /\ Finishing("review.reduce")
        /\ node' = Unlock(nd) /\ run' = "active"
        /\ accepted' = accepted \cup {wiki["review.reduce"]}
        /\ UNCHANGED <<cancelRequested, gen, bound, wiki, fixGates, gate, effectVars,
                       workVars, ownerVars, live>>

(* review.reduce with blocking defects: openFixGate. *)
ReviewBlocks ==
    /\ Finishing("review.reduce")
    /\ node' = [node EXCEPT !["review.reduce"] = "succeeded", !["gate.fix"] = "waiting"]
    /\ fixGates' = fixGates \cup {<<gen["gate.fix"], wiki["review.reduce"]>>}
    /\ run' = "waiting_for_operator"
    /\ UNCHANGED <<cancelRequested, gen, bound, wiki, accepted, gate, effectVars,
                   workVars, ownerVars, live>>

(* prepare.publication: openPublicationGate. *)
PrepareSucceeds ==
    LET g == gen["prepare.publication"]
    IN  /\ Finishing("prepare.publication")
        /\ node' = [node EXCEPT !["prepare.publication"] = "succeeded",
                                !["gate.publication"] = "waiting"]
        /\ effect' = [effect EXCEPT ![g] = "prepared"]
        /\ gate' = [gate EXCEPT ![g] = "open"]
        /\ cand' = [cand EXCEPT ![g] = wiki["prepare.publication"]]
        /\ base' = [base EXCEPT ![g] = live]
        /\ run' = "waiting_for_operator"
        /\ UNCHANGED <<cancelRequested, gen, bound, wiki, accepted, fixGates,
                       workVars, ownerVars, live>>

(* failNode over the nodes nd, where the failed node is already "failed". *)
AfterFailure(nd) ==
    IF HasActiveWork(nd)
    THEN /\ node' = Unlock(nd)
         /\ run' = IF run = "waiting_for_operator" THEN run ELSE "active"
    ELSE node' = nd /\ run' = "failed"

Fail(k) ==
    /\ k \in FailKeys \ {"publish"} /\ Finishing(k)
    /\ AfterFailure([node EXCEPT ![k] = "failed"])
    /\ UNCHANGED <<cancelRequested, gen, bound, wiki, gateVars, effectVars,
                   workVars, ownerVars, live>>

-----------------------------------------------------------------------------
(* publish.  Between its steps other transactions run; they may take the   *)
(* lease from it, but nothing stops the worker: mechanicalPublish does not *)
(* look at the abort signal, and close waits for it.                       *)

Works(a, s) == owner \in {"up", "closing"} /\ worker[a].step = s
Goes(a, s) == worker' = [worker EXCEPT ![a].step = s]

(* The first effect that is candidate_ready, whichever node made it. *)
Pick(a) ==
    LET ready == {g \in Gens : effect[g] = "candidate_ready"}
    IN  /\ Works(a, "started")
        /\ IF ready = {} THEN Goes(a, "failing")
           ELSE \E g \in ready : worker' = [worker EXCEPT ![a] = [step |-> "picked", eff |-> g]]
        /\ UNCHANGED <<runVars, graphVars, gateVars, effectVars, lease, ownerVars, live>>

(* The publication lock is held from the comparison to the swap, and the   *)
(* worker records that it applied before another call can compare.         *)
LockFree == \A a \in Workers : worker[a].step \notin {"applying", "swapped"}

(* Mutant: the apply begins without looking at the state of the effect. *)
MayBeginAnyEffect(g) ==
    ~cancelRequested /\ g = gen["prepare.publication"] /\ gate[g] = "approved"

(* beginPublicationApply: what must still hold for an apply to begin. *)
MayBegin(g) ==
    /\ ~cancelRequested
    /\ g = gen["prepare.publication"]
    /\ gate[g] = "approved"
    /\ effect[g] = "candidate_ready"

(* The comparison of live with the baseline, then beginApply. *)
Begin(a) ==
    LET g == worker[a].eff
    IN  /\ Works(a, "picked") /\ LockFree
        /\ IF live # base[g]
           THEN Goes(a, "drifted") /\ UNCHANGED effect
           ELSE IF MayBegin(g)
           THEN Goes(a, "applying") /\ effect' = [effect EXCEPT ![g] = "applying"]
           ELSE Goes(a, "failing") /\ UNCHANGED effect
        /\ UNCHANGED <<runVars, graphVars, gateVars, cand, base, lease, ownerVars, live>>

(* An error before its own beginApply: the candidate has failed, unless     *)
(* another worker is applying it, which this one takes for its own apply    *)
(* and reconciles.                                                          *)
BeginThrows(a) ==
    LET g == worker[a].eff
    IN  /\ "publish" \in FailKeys
        /\ Works(a, "picked")
        /\ effect' = [effect EXCEPT ![g] = IF @ = "candidate_ready" THEN "failed" ELSE @]
        /\ Goes(a, IF effect[g] = "applying" THEN "thrown" ELSE "failing")
        /\ UNCHANGED <<runVars, graphVars, gateVars, cand, base, lease, ownerVars, live>>

Swap(a) ==
    /\ Works(a, "applying")
    /\ live' = <<"run", worker[a].eff>>
    /\ Goes(a, "swapped")
    /\ UNCHANGED <<runVars, graphVars, gateVars, effectVars, lease, ownerVars>>

(* An error of the swap, rolled back or after it had happened.  It leaves   *)
(* the lock, and the effect as it is.                                      *)
SwapThrows(a) ==
    /\ \/ "publish" \in FailKeys /\ Works(a, "applying")
       \/ LateErrors /\ Works(a, "swapped")
    /\ Goes(a, "thrown")
    /\ UNCHANGED <<runVars, graphVars, gateVars, effectVars, lease, ownerVars, live>>

(* reconcileApplyingEffect takes the lock again and finds out what became   *)
(* of an effect that is still applying, unless the owner is closing.       *)
Reconcile(a) ==
    LET g == worker[a].eff
        found == IF live = <<"run", g>> THEN "applied" ELSE "failed"
        settles == owner = "up" /\ effect[g] = "applying"
    IN  /\ Works(a, "thrown") /\ (owner = "up" => LockFree)
        /\ \E o \in {found, "unknown"} :
              /\ effect' = IF settles THEN [effect EXCEPT ![g] = o] ELSE effect
              /\ run' = IF /\ settles /\ o = "applied" /\ ~cancelRequested
                           /\ run \notin {"failed", "completed_unpublished"}
                        THEN "published" ELSE run
        /\ Goes(a, IF effect'[g] = "applied" THEN "applied" ELSE "failing")
        /\ UNCHANGED <<cancelRequested, graphVars, gateVars, cand, base, lease, ownerVars, live>>

(* onPublicationApplyResult: applied. *)
RecordApplied(a) ==
    /\ Works(a, "swapped")
    /\ effect' = [effect EXCEPT ![worker[a].eff] =
                     IF @ \in {"applying", "candidate_ready"} THEN "applied" ELSE @]
    /\ Goes(a, "applied")
    /\ UNCHANGED <<runVars, graphVars, gateVars, cand, base, lease, ownerVars, live>>

(* onPublicationApplyResult: conflict.  Only the first UPDATE looks at the *)
(* effect, and none looks at the lease.                                    *)
RecordConflict(a) ==
    LET g == worker[a].eff
    IN  /\ Works(a, "drifted")
        /\ effect' = [effect EXCEPT ![g] =
                         IF @ \in {"applying", "candidate_ready"} THEN "conflict" ELSE @]
        /\ gate' = [gate EXCEPT ![g] = IF @ \in {"approved", "declined"} THEN "open" ELSE @]
        /\ node' = [node EXCEPT !["gate.publication"] = "waiting"]
        /\ run' = IF cancelRequested THEN run ELSE "waiting_for_operator"
        /\ Goes(a, "conflicted")
        /\ UNCHANGED <<cancelRequested, gen, bound, wiki, accepted, fixGates, cand, base,
                       lease, ownerVars, live>>

PublishCurrent(a) == owner = "up" /\ lease = a /\ node["publish"] = "running" /\ ~cancelRequested

(* Mutant: an apply that was aborted is taken for one that succeeded. *)
EndsUnlessConflicted(a) == worker[a].step \in {"applied", "failing"}

PublishSucceeded(a) == worker[a].step = "applied"

(* The attempt of publish ends: its success publishes the run, a conflict  *)
(* blocks the node, another failure is failNode; a worker that lost its    *)
(* lease, or whose owner closes, leaves.                                   *)
PublishEnds(a) ==
    LET s == worker[a].step
        nd == [node EXCEPT !["publish"] = "failed"]
    IN  /\ owner \in {"up", "closing"} /\ s \in {"applied", "conflicted", "failing"}
        /\ worker' = [worker EXCEPT ![a] = Idle]
        /\ IF ~PublishCurrent(a) THEN UNCHANGED <<run, node, lease>>
           ELSE /\ lease' = NoWorker
                /\ \/ /\ PublishSucceeded(a)
                      /\ node' = [node EXCEPT !["publish"] = "succeeded"]
                      /\ run' = "published"
                   \/ /\ s = "conflicted"
                      /\ node' = [node EXCEPT !["publish"] = "blocked"]
                      /\ UNCHANGED run
                   \/ /\ ~PublishSucceeded(a) /\ s # "conflicted"
                      /\ AfterFailure(nd)
        /\ UNCHANGED <<cancelRequested, gen, bound, wiki, gateVars, effectVars, ownerVars, live>>

(* Another run, or somebody else, publishes to the same place while a      *)
(* candidate of this run depends on it.                                    *)
Foreign ==
    /\ LockFree
    /\ \E g \in Gens : effect[g] \in {"prepared", "candidate_ready", "applying"}
    /\ \E n \in 1 .. MaxForeign :
          /\ live \in ({"run"} \X Gens) \cup {<<"foreign", n - 1>>}
          /\ \A g \in Gens : base[g] # <<"foreign", n>>
          /\ live' = <<"foreign", n>>
    /\ UNCHANGED <<runVars, graphVars, gateVars, effectVars, workVars, ownerVars>>

-----------------------------------------------------------------------------
(* Commands.                                                               *)

(* Mutant: CancelRun cancels an effect whose swap is under way. *)
CancelAllOpenEffects ==
    [g \in Gens |-> IF effect[g] \in {"prepared", "candidate_ready", "applying"}
                    THEN "cancelled" ELSE effect[g]]

(* cancelPreApplyEffects *)
CancelPreApply ==
    [g \in Gens |-> IF effect[g] \in {"prepared", "candidate_ready"}
                    THEN "cancelled" ELSE effect[g]]

(* applyRerunAt: the candidate of prepare.publication, when it is among    *)
(* the rerun T, is given up together with its gate.                        *)
GivesUp(T, ef) == /\ "prepare.publication" \in T
                  /\ ef[gen["prepare.publication"]] \in {"prepared", "candidate_ready"}

(* Mutant: a rerun forgets the candidate that is waiting for its decision. *)
EffectsKept(T, ef) == ef

EffectsAfterRerun(T, ef) ==
    IF GivesUp(T, ef) THEN [ef EXCEPT ![gen["prepare.publication"]] = "cancelled"] ELSE ef

GatesAfterRerun(T, ef, gt) ==
    IF GivesUp(T, ef)
    THEN [gt EXCEPT ![gen["prepare.publication"]] = IF @ = "open" THEN "withdrawn" ELSE @]
    ELSE gt

(* applyRerunAt(k) over the nodes nd, the effects ef and the gates gt: the *)
(* next generation of k and of what consumed its outputs.  A gate mounts   *)
(* nothing, so it is never among them.                                     *)
ApplyRerun(k, nd, ef, gt) ==
    LET T == {k} \cup Lineage(k)
    IN  /\ \A t \in T : gen[t] < MaxGen
        /\ gen' = [t \in Keys |-> IF t \in T THEN gen[t] + 1 ELSE gen[t]]
        /\ node' = [t \in Keys |-> IF t = k THEN "ready"
                                   ELSE IF t \in T THEN "invalidated" ELSE nd[t]]
        /\ bound' = [t \in Keys |-> IF t \in T THEN {} ELSE bound[t]]
        /\ effect' = EffectsAfterRerun(T, ef)
        /\ gate' = GatesAfterRerun(T, ef, gt)
        /\ lease' = IF "publish" \in T THEN NoWorker ELSE lease
        /\ wiki' = [t \in Keys |-> IF t \in T THEN 0 ELSE wiki[t]]
        /\ run' = "active"

(* The bound of what disturbs a run. *)
Upset == upsets < MaxUpsets /\ upsets' = upsets + 1

RerunNode(k) ==
    /\ k \in RerunKeys /\ owner = "up" /\ Upset
    /\ ~cancelRequested /\ run # "published"
    /\ ApplyRerun(k, node, effect, gate)
    /\ UNCHANGED <<cancelRequested, accepted, fixGates, cand, base, worker, owner, live>>

(* RetryFailedNode: refused once an output was consumed, and when the      *)
(* sources are no longer those of the failed attempt.                      *)
RetryFailedNode(k) ==
    /\ "retry" \in Commands /\ owner = "up" /\ Upset
    /\ ~cancelRequested /\ run # "published"
    /\ k \notin Gates /\ node[k] = "failed"
    /\ Lineage(k) = {} /\ Sources(k) = bound[k]
    /\ node' = [node EXCEPT ![k] = "ready"]
    /\ run' = "active"
    /\ UNCHANGED <<cancelRequested, gen, bound, wiki, gateVars, effectVars,
                   workVars, owner, live>>

(* resolveGate: what every decision needs, and the gate node afterwards. *)
MayResolve == owner = "up" /\ ~cancelRequested /\ run # "paused"
Decided(k) == [node EXCEPT ![k] = IF @ \in {"waiting", "ready", "running"}
                                  THEN "succeeded" ELSE @]

(* applyPublicationGateDecision. *)
Approve(g) ==
    /\ "approve" \in Commands /\ MayResolve
    /\ gate[g] = "open" /\ effect[g] = "prepared" /\ g = gen["prepare.publication"]
    /\ gate' = [gate EXCEPT ![g] = "approved"]
    /\ effect' = [effect EXCEPT ![g] = "candidate_ready"]
    /\ node' = Unlock(Decided("gate.publication"))
    /\ run' = "active"
    /\ UNCHANGED <<cancelRequested, gen, bound, wiki, accepted, fixGates, cand, base,
                   workVars, ownerVars, live>>

(* restartPublicationCandidate: a conflict approved, or a revision. *)
Restart(g, decision) ==
    /\ decision \in Commands /\ MayResolve /\ gate[g] = "open"
    /\ \/ decision = "approve" /\ effect[g] = "conflict"
       \/ decision = "revise"
    /\ LET ef == [effect EXCEPT ![g] = IF @ \in {"prepared", "candidate_ready", "conflict"}
                                       THEN "cancelled" ELSE @]
           gt == [gate EXCEPT ![g] = IF decision = "approve" THEN "approved" ELSE "declined"]
       IN  ApplyRerun("write.root", Decided("gate.publication"), ef, gt)
    /\ UNCHANGED <<cancelRequested, accepted, fixGates, cand, base, worker, ownerVars, live>>

Deny(g) ==
    /\ "deny" \in Commands /\ MayResolve /\ gate[g] = "open"
    /\ gate' = [gate EXCEPT ![g] = "declined"]
    /\ effect' = [effect EXCEPT ![g] = IF @ \in {"prepared", "candidate_ready", "conflict"}
                                       THEN "cancelled" ELSE @]
    /\ node' = Decided("gate.publication")
    /\ run' = "completed_unpublished"
    /\ UNCHANGED <<cancelRequested, gen, bound, wiki, accepted, fixGates, cand, base,
                   workVars, ownerVars, live>>

(* applyFixGateDecision, for the open row x. *)
ResolveFix(x, decision) ==
    /\ decision \in Commands /\ MayResolve
    /\ x \in fixGates /\ x[1] = gen["gate.fix"]
    /\ \/ /\ decision = "pass"
          /\ node' = Unlock(Decided("gate.fix"))
          /\ run' = "active"
          /\ accepted' = accepted \cup {x[2]}
          /\ fixGates' = fixGates \ {x}
          /\ UNCHANGED <<gen, bound>>
       \/ /\ decision = "deny fix"
          /\ node' = Decided("gate.fix")
          /\ run' = "failed"
          /\ fixGates' = fixGates \ {x}
          /\ UNCHANGED <<gen, bound, accepted>>
       \/ /\ decision = "revise fix" /\ gen["gate.fix"] < MaxGen
          /\ gen' = [gen EXCEPT !["gate.fix"] = @ + 1]
          /\ node' = [node EXCEPT !["gate.fix"] = "waiting"]
          /\ run' = "waiting_for_operator"
          /\ fixGates' = (fixGates \ {x}) \cup {<<x[1] + 1, x[2]>>}
          /\ UNCHANGED <<bound, accepted>>
    /\ UNCHANGED <<cancelRequested, wiki, gate, effectVars, workVars, ownerVars, live>>

CancelRun ==
    /\ "cancel" \in Commands /\ owner = "up"
    /\ run \in {"active", "waiting_for_operator", "paused"}
    /\ run' = "cancelled" /\ cancelRequested' = TRUE
    /\ fixGates' = {}
    /\ gate' = [g \in Gens |-> IF gate[g] = "open" THEN "withdrawn" ELSE gate[g]]
    /\ effect' = CancelPreApply
    /\ node' = [k \in Keys |-> IF node[k] \in {"succeeded", "failed"} THEN node[k] ELSE "cancelled"]
    /\ lease' = NoWorker
    /\ UNCHANGED <<gen, bound, wiki, accepted, cand, base, worker, ownerVars, live>>

PauseRun ==
    /\ "pause" \in Commands /\ owner = "up" /\ Upset
    /\ run \in {"active", "waiting_for_operator"}
    /\ run' = "paused"
    /\ node' = [k \in Keys |-> IF node[k] = "running" THEN "ready" ELSE node[k]]
    /\ lease' = NoWorker
    /\ UNCHANGED <<cancelRequested, gen, bound, wiki, gateVars, effectVars, worker,
                   owner, live>>

ResumeRun ==
    /\ owner = "up" /\ run = "paused"
    /\ run' = "active"
    /\ UNCHANGED <<cancelRequested, graphVars, gateVars, effectVars, workVars, ownerVars, live>>

-----------------------------------------------------------------------------
(* The owner stops and starts.                                             *)

(* Mutant: the node gets the state of its attempt. *)
InterruptedAsAttempts == [k \in Keys |-> IF node[k] = "running" THEN "interrupted" ELSE node[k]]

(* interruptRunningAttempts. *)
Interrupted == [k \in Keys |-> IF node[k] = "running" THEN "failed" ELSE node[k]]
SomeRuns == \E k \in Keys : node[k] = "running"

Crash ==
    /\ owner \in {"up", "closing"} /\ Upset
    /\ owner' = "down"
    /\ worker' = [a \in Workers |-> Idle]
    /\ UNCHANGED <<runVars, graphVars, gateVars, effectVars, lease, live>>

(* close interrupts the attempts, then waits for the workers. *)
Close ==
    /\ owner = "up" /\ Upset
    /\ owner' = "closing"
    /\ node' = Interrupted
    /\ run' = IF SomeRuns THEN "failed" ELSE run
    /\ lease' = NoWorker
    /\ UNCHANGED <<cancelRequested, gen, bound, wiki, gateVars, effectVars, worker, live>>

Closed ==
    /\ owner = "closing" /\ \A a \in Workers : worker[a].step = "none"
    /\ owner' = "down"
    /\ UNCHANGED <<runVars, graphVars, gateVars, effectVars, workVars, upsets, live>>

(* recover: reconcileApplyingEffects, then interruptRunningAttempts.       *)
(* Whether live is the candidate decides between applied and failed; the   *)
(* evidence may also be missing.                                           *)
Recover ==
    LET applying == {g \in Gens : effect[g] = "applying"}
        swapped == {g \in applying : live = <<"run", g>>}
        reports == swapped # {} /\ ~cancelRequested
                   /\ run \notin {"failed", "completed_unpublished"}
    IN  /\ owner = "down"
        /\ \E lost \in SUBSET applying :
              /\ effect' = [g \in Gens |-> IF g \in lost THEN "unknown"
                                           ELSE IF g \in swapped THEN "applied"
                                           ELSE IF g \in applying THEN "failed" ELSE effect[g]]
              /\ run' = IF SomeRuns THEN "failed"
                        ELSE IF reports /\ swapped \ lost # {} THEN "published" ELSE run
        /\ node' = Interrupted
        /\ lease' = NoWorker
        /\ owner' = "up"
        /\ UNCHANGED <<cancelRequested, gen, bound, wiki, gateVars, cand, base, worker,
                       upsets, live>>

-----------------------------------------------------------------------------
Scheduler == \E k \in Keys : Claim(k)

Attempt ==
    \/ \E k \in Keys : Succeed(k) \/ Fail(k)
    \/ ReviewIsClean \/ ReviewBlocks \/ PrepareSucceeds

Publisher(a) ==
    \/ Pick(a) \/ Begin(a) \/ BeginThrows(a) \/ Swap(a)
    \/ SwapThrows(a) \/ Reconcile(a) \/ RecordApplied(a) \/ RecordConflict(a) \/ PublishEnds(a)

Operator ==
    \/ \E k \in Keys : RerunNode(k) \/ RetryFailedNode(k)
    \/ \E g \in Gens : Approve(g) \/ Deny(g) \/ Restart(g, "approve") \/ Restart(g, "revise")
    \/ \E x \in fixGates, d \in {"pass", "deny fix", "revise fix"} : ResolveFix(x, d)
    \/ CancelRun \/ PauseRun \/ ResumeRun

Owner == Crash \/ Close \/ Closed \/ Recover

Next ==
    \/ Scheduler \/ Attempt \/ (\E a \in Workers : Publisher(a))
    \/ Operator \/ Owner \/ Foreign

Spec == Init /\ [][Next]_vars

-----------------------------------------------------------------------------
(* An effect that may still be applied is the one of the current candidate: *)
(* a rerun at any point, also between the approval and the apply, leaves    *)
(* no older candidate that mechanicalPublish could pick.                    *)
CandidateIsCurrent ==
    \A g \in Gens : effect[g] \in {"prepared", "candidate_ready"} => g = gen["prepare.publication"]

(* What the effect of a published candidate may become when its apply failed *)
(* after the swap, and another attempt of publish compared before Reconcile. *)
Misjudged == IF LateErrors THEN {"conflict", "cancelled"} ELSE {}

(* What a run has put in the place of the published Wiki is owned up to:    *)
(* its effect is applied, or is still to be reconciled, or was given up as  *)
(* unknown; it is never failed, nor cancelled or in conflict, but for those *)
(* that are misjudged (ADR 0035).                                           *)
LiveIsAccounted ==
    \A g \in Gens : live = <<"run", g>> =>
        effect[g] \in {"applying", "applied", "unknown"} \cup Misjudged

(* A run says published only if one of its effects was applied, whatever was *)
(* aborted, retried, rerun or recovered on the way.                          *)
PublishedWasApplied ==
    run = "published" => \E g \in Gens : effect[g] = "applied"

(* The three together: a run publishes what it prepared last, and says no more *)
(* and no less of it than is true.                                          *)
CandidateIsAccounted == CandidateIsCurrent /\ LiveIsAccounted /\ PublishedWasApplied

(* No step revives or changes an effect that was cancelled, applied, failed *)
(* or given up as unknown, and a cancelled run begins no apply, although    *)
(* workers of attempts that lost their lease go on.                         *)
DecisionsAreFinal ==
    [][\A g \in Gens :
          /\ effect[g] \in {"cancelled", "applied", "failed", "unknown"} => effect'[g] = effect[g]
          /\ cancelRequested /\ effect'[g] = "applying" => effect[g] = "applying"]_vars

(* Every candidate the operator is asked to publish holds a Wiki that the   *)
(* review found clean or the operator passed: the fix gate sits between     *)
(* the review and the final validation (execution-graph.ts).                *)
OnlyReviewedOffered == \A g \in Gens : effect[g] # "none" => cand[g] \in accepted

(* What ADR 0035 says: a conflict is a drift of the baseline.  The Wiki of   *)
(* the run itself is never one.                                             *)
OwnWikiIsNoConflict ==
    \A g \in Gens : live = <<"run", g>> => effect[g] \notin {"conflict", "cancelled"}

(* A publication gate that is open waits for a decision about a candidate   *)
(* which can still be decided: it is prepared, or in conflict.              *)
OpenGateHasCandidate ==
    \A g \in Gens : gate[g] = "open" => effect[g] \in {"prepared", "conflict"}

(* A node the scheduler is about to claim finds the inputs its contract     *)
(* requires; else the claim throws and the scheduler ends for every run.    *)
ReadyBinds == \A k \in Keys : Claimable(k) => Binds(k)
=============================================================================
