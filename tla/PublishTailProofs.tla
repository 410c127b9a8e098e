--------------------------- MODULE PublishTailProofs ---------------------------
(***************************************************************************)
(* Proofs about PublishTail, for every number of generations, of attempts  *)
(* to publish and of disturbances: its types, that every candidate is      *)
(* accounted for, and that what was decided about an effect stays so.      *)
(*                                                                         *)
(* A command takes the lease from an attempt of publish but does not stop  *)
(* its worker, so several workers may hold the same candidate.  That each  *)
(* tells the truth about it rests on IInv: what has been compared, begun,  *)
(* swapped or thrown in a worker fits the effect, the baseline and what is *)
(* live (WorkersFit), one worker at a time is behind the comparison        *)
(* (OneApplies, NoDriftBeside), no baseline is a Wiki that may   *)
(* still be made live (BasesAreOlder), and an effect belongs to a          *)
(* generation whose candidate is made (PreparedOnce).                      *)
(***************************************************************************)
EXTENDS PublishTail, TLAPS

Prepare == "prepare.publication"

Stored(s) == s \notin {"none", "prepared", "candidate_ready"}

(* An effect exists once its candidate was prepared, and a candidate is     *)
(* prepared once in a generation (openPublicationGate).                     *)
PreparedOnce ==
    \A g \in Gens : effect[g] # "none" =>
        g < gen[Prepare] \/ (g = gen[Prepare] /\ node[Prepare] = "succeeded")

(* A Wiki of this run that serves as a baseline has been applied, or tried. *)
BasesAreOlder ==
    \A g, h \in Gens : base[g] = <<"run", h>> =>
        /\ Stored(effect[h])
        /\ \A a \in Workers : worker[a].step = "applying" => worker[a].eff # h

WorkerFits(a) ==
    LET s == worker[a].step
        g == worker[a].eff
    IN  /\ s \in {"picked", "drifted"} => effect[g] # "none"
        /\ s = "drifted" => live # base[g]
        /\ s = "applying" => effect[g] = "applying" /\ live = base[g]
        /\ s = "swapped" => effect[g] = "applying" /\ live = <<"run", g>>
        /\ s = "thrown" => Stored(effect[g])
        /\ s = "applied" => effect[g] = "applied"
WorkersFit == \A a \in Workers : WorkerFits(a)

(* beginApply happens under the lock, and once for an effect. *)
OneApplies ==
    \A a, b \in Workers :
        /\ worker[a].step \in {"applying", "swapped"} /\ worker[b].step \in {"applying", "swapped"}
        => a = b
NoDriftBeside ==
    \A a, b \in Workers :
        worker[a].step = "swapped" /\ worker[b].step = "drifted" => worker[a].eff # worker[b].eff

(* An effect that is applying although its Wiki is live has a worker that   *)
(* is about to record it, or nobody works, or an apply has failed late.     *)
SwapIsRecorded ==
    /\ owner = "down" => \A a \in Workers : worker[a].step = "none"
    /\ \A g \in Gens :
          /\ ~LateErrors /\ owner # "down" /\ effect[g] = "applying" /\ live = <<"run", g>>
          => \E a \in Workers : worker[a].step = "swapped" /\ worker[a].eff = g

WorkInv == /\ BasesAreOlder /\ WorkersFit /\ OneApplies /\ NoDriftBeside
           /\ SwapIsRecorded /\ LiveIsAccounted
IInv == TypeOK /\ WorkInv /\ PreparedOnce /\ CandidateIsCurrent /\ PublishedWasApplied

-----------------------------------------------------------------------------
(* The keys and the helpers.                                               *)

NodeRow == [Keys -> NodeStates]
WorkerRow == [step: Steps, eff: Gens]

LEMMA KeyNames ==
  /\ Keys = {"write.root", "review.reduce", "gate.fix", "validate.final",
             Prepare, "gate.publication", "publish"}
  /\ 0 \in Gens /\ Gens \subseteq Nat /\ NoWorker \notin Workers
<1>1. 1 .. 7 = {1, 2, 3, 4, 5, 6, 7}
  OBVIOUS
<1>2. Keys = {Chain[i] : i \in {1, 2, 3, 4, 5, 6, 7}}
  BY <1>1 DEF Keys
<1>3. /\ Chain[1] = "write.root" /\ Chain[2] = "review.reduce" /\ Chain[3] = "gate.fix"
      /\ Chain[4] = "validate.final" /\ Chain[5] = Prepare
      /\ Chain[6] = "gate.publication" /\ Chain[7] = "publish"
  BY DEF Chain, Prepare
<1>4. 0 \in Gens /\ Gens \subseteq Nat /\ NoWorker \notin Workers
  BY BoundsAssumption DEF Gens, Workers, NoWorker
<1> QED BY <1>2, <1>3, <1>4

(* A gate decides, it is prepared by nobody. *)
LEMMA GatesAreKeys == /\ Gates \subseteq Keys /\ Prepare \in Keys \ Gates
                      /\ "publish" \in Keys \ Gates /\ "write.root" \in Keys \ Gates
  BY KeyNames DEF Gates, Prepare

LEMMA UnlockRow ==
  ASSUME NEW nd \in NodeRow
  PROVE  /\ Unlock(nd) \in NodeRow
         /\ \A k \in Keys : nd[k] = "succeeded" => Unlock(nd)[k] = "succeeded"
<1>1. "ready" \in NodeStates
  BY DEF NodeStates
<1> QED BY <1>1 DEF Unlock, NodeRow

LEMMA RecomputedType ==
  ASSUME run \in RunStates, NEW nd
  PROVE  /\ Recomputed(nd) \in RunStates
         /\ Recomputed(nd) = "published" => run = "published"
  BY DEF Recomputed, RunStates

(* The Wiki that a claim mounts is one that a node sealed. *)
LEMMA MountedType ==
  ASSUME TypeOK, NEW k \in Keys, Binds(k), bound[k] = {}, k # "publish"
  PROVE  Mounted(k) \in Gens
<1>1. CASE k = "write.root"
  BY <1>1 DEF Mounted, TypeOK
<1>2. CASE k # "write.root"
  <2>1. Sources(k) # {}
    BY <1>2 DEF Binds, Envelope
  <2>2. PICK u \in Keys \ Gates : <<u, gen[u]>> \in Sources(k)
    BY <2>1 DEF Sources
  <2>3. wiki[u] \in Gens
    BY DEF TypeOK
  <2>4. \E w \in Gens : \E v \in Keys \ Gates : <<v, gen[v]>> \in Sources(k) /\ w = wiki[v]
    BY <2>2, <2>3
  <2> QED BY <1>2, <2>4 DEF Mounted
<1> QED BY <1>1, <1>2

(* What an attempt mounts are outputs of nodes. *)
LEMMA EnvelopeType ==
  ASSUME TypeOK, NEW k \in Keys
  PROVE  Envelope(k) \in SUBSET (Keys \X Gens)
<1>1. Sources(k) \in SUBSET (Keys \X Gens)
  BY DEF Sources, TypeOK
<1> QED BY <1>1 DEF Envelope, TypeOK

(* A worker that goes on keeps its effect; the others stay where they are. *)
LEMMA GoesOn ==
  ASSUME TypeOK, NEW a \in Workers, NEW s \in Steps, Goes(a, s)
  PROVE  /\ worker' \in [Workers -> WorkerRow]
         /\ worker'[a].step = s /\ worker'[a].eff = worker[a].eff
         /\ \A b \in Workers : b # a => worker'[b] = worker[b]
<1>1. worker \in [Workers -> WorkerRow] /\ worker[a] \in WorkerRow
  BY DEF TypeOK, WorkerRow
<1>2. [worker[a] EXCEPT !.step = s] \in WorkerRow
  BY <1>1 DEF WorkerRow
<1>3. worker' = [worker EXCEPT ![a] = [worker[a] EXCEPT !.step = s]]
  BY DEF Goes
<1> QED BY <1>1, <1>2, <1>3 DEF WorkerRow

LEMMA StepNames ==
  /\ {"none", "started", "picked", "drifted", "applying", "swapped", "thrown",
      "applied", "failing", "conflicted"} \subseteq Steps
  /\ Idle \in WorkerRow
  BY KeyNames DEF Steps, Idle, WorkerRow

-----------------------------------------------------------------------------
(* Types.                                                                  *)

(* The types in groups of the variables that the actions change together. *)
RunType == run \in RunStates /\ cancelRequested \in BOOLEAN
GraphType == /\ gen \in [Keys -> Gens] /\ node \in NodeRow
             /\ bound \in [Keys -> SUBSET (Keys \X Gens)] /\ wiki \in [Keys -> Gens]
GateType == /\ accepted \subseteq Gens /\ fixGates \subseteq Gens \X Gens
            /\ gate \in [Gens -> {"none", "open", "approved", "declined", "withdrawn"}]
EffectType == /\ effect \in [Gens -> EffectStates]
              /\ cand \in [Gens -> Gens] /\ base \in [Gens -> Lives] /\ live \in Lives
WorkType == lease \in Workers \cup {NoWorker} /\ worker \in [Workers -> WorkerRow]
OwnerType == owner \in {"up", "closing", "down"} /\ upsets \in 0 .. MaxUpsets

LEMMA TypeParts ==
  TypeOK <=> RunType /\ GraphType /\ GateType /\ EffectType /\ WorkType /\ OwnerType
  BY DEF TypeOK, RunType, GraphType, GateType, EffectType, WorkType, OwnerType,
         NodeRow, WorkerRow

LEMMA TypePartsPrimed ==
  ASSUME RunType', GraphType', GateType', EffectType', WorkType', OwnerType'
  PROVE  TypeOK'
  BY DEF TypeOK, RunType, GraphType, GateType, EffectType, WorkType, OwnerType,
         NodeRow, WorkerRow

LEMMA InitType == Init => TypeOK
<1> SUFFICES ASSUME Init PROVE TypeOK
  OBVIOUS
<1>1. <<"foreign", 0>> \in Lives
  BY BoundsAssumption DEF Lives
<1>2. RunType /\ GateType
  BY DEF Init, RunType, GateType, RunStates
<1>3. GraphType
  BY KeyNames DEF Init, GraphType, NodeRow, NodeStates
<1>4. EffectType
  BY <1>1, KeyNames DEF Init, EffectType, EffectStates
<1>5. WorkType
  BY StepNames DEF Init, WorkType
<1>6. OwnerType
  BY BoundsAssumption DEF Init, OwnerType
<1> QED BY <1>2, <1>3, <1>4, <1>5, <1>6, TypeParts

LEMMA SchedulerTypes ==
  ASSUME TypeOK, NEW k \in Keys, Claim(k)
  PROVE  TypeOK'
<1> USE DEF Claim
<1>1. RunType' /\ GateType' /\ EffectType' /\ OwnerType'
  BY TypeParts DEF RunType, GateType, EffectType, OwnerType, runVars, gateVars, effectVars,
                   ownerVars
<1>2. node' \in NodeRow
  BY DEF TypeOK, NodeRow, NodeStates
<1>3. bound' \in [Keys -> SUBSET (Keys \X Gens)]
  BY EnvelopeType DEF TypeOK
<1>4. wiki' \in [Keys -> Gens]
  BY MountedType DEF TypeOK
<1>5. GraphType'
  BY <1>2, <1>3, <1>4 DEF GraphType, TypeOK
<1>6. WorkType'
  <2>1. CASE k = "publish"
    <3>1. PICK a \in Workers : worker' = [worker EXCEPT ![a].step = "started"] /\ lease' = a
      BY <2>1
    <3>2. Goes(a, "started")
      BY <3>1 DEF Goes
    <3> QED BY <3>1, <3>2, GoesOn, StepNames DEF WorkType
  <2>2. CASE k # "publish"
    BY <2>2, TypeParts DEF WorkType, workVars
  <2> QED BY <2>1, <2>2
<1> QED BY <1>1, <1>5, <1>6, TypePartsPrimed

LEMMA FailureRows ==
  ASSUME TypeOK, NEW nd \in NodeRow, AfterFailure(nd)
  PROVE  node' \in NodeRow /\ run' \in RunStates
  BY UnlockRow DEF AfterFailure, TypeOK, RunStates

(* An attempt before publish ends. *)
LEMMA AttemptTypes ==
  ASSUME TypeOK, Attempt
  PROVE  TypeOK'
<1>1. ASSUME NEW k \in Keys, Succeed(k) PROVE TypeOK'
  <2>1. [node EXCEPT ![k] = "succeeded"] \in NodeRow
    BY DEF TypeOK, NodeRow, NodeStates
  <2>2. node' \in NodeRow /\ run' \in RunStates
    BY <1>1, <2>1, UnlockRow, RecomputedType DEF Succeed, TypeOK
  <2> QED BY <1>1, <2>2 DEF Succeed, TypeOK, NodeRow, gateVars, effectVars, workVars, ownerVars
<1>2. ASSUME NEW k \in Keys, Fail(k) PROVE TypeOK'
  <2>1. [node EXCEPT ![k] = "failed"] \in NodeRow
    BY DEF TypeOK, NodeRow, NodeStates
  <2>2. node' \in NodeRow /\ run' \in RunStates
    BY <1>2, <2>1, FailureRows DEF Fail
  <2> QED BY <1>2, <2>2 DEF Fail, TypeOK, NodeRow, gateVars, effectVars, workVars, ownerVars
<1>3. ASSUME ReviewIsClean PROVE TypeOK'
  <2>1. [node EXCEPT !["review.reduce"] = "succeeded",
                     !["gate.fix"] = IF @ \in {"blocked", "waiting", "ready", "running"}
                                     THEN "succeeded" ELSE @] \in NodeRow
    BY DEF TypeOK, NodeRow, NodeStates
  <2>2. node' \in NodeRow /\ run' \in RunStates
    BY <1>3, <2>1, UnlockRow DEF ReviewIsClean, RunStates
  <2>3. accepted' \subseteq Gens
    BY <1>3, KeyNames DEF ReviewIsClean, TypeOK
  <2> QED BY <1>3, <2>2, <2>3
          DEF ReviewIsClean, TypeOK, NodeRow, effectVars, workVars, ownerVars
<1>4. ASSUME ReviewBlocks PROVE TypeOK'
  <2>1. node' \in NodeRow /\ run' \in RunStates
    BY <1>4 DEF ReviewBlocks, TypeOK, NodeRow, NodeStates, RunStates
  <2>2. fixGates' \subseteq Gens \X Gens
    BY <1>4, KeyNames DEF ReviewBlocks, TypeOK
  <2> QED BY <1>4, <2>1, <2>2 DEF ReviewBlocks, TypeOK, NodeRow, effectVars, workVars, ownerVars
<1>5. ASSUME PrepareSucceeds PROVE TypeOK'
  <2>1. gen[Prepare] \in Gens /\ wiki[Prepare] \in Gens
    BY GatesAreKeys DEF TypeOK
  <2>2. node' \in NodeRow /\ run' \in RunStates
    BY <1>5 DEF PrepareSucceeds, TypeOK, NodeRow, NodeStates, RunStates
  <2>3. effect' \in [Gens -> EffectStates]
    BY <1>5, <2>1 DEF PrepareSucceeds, TypeOK, EffectStates, Prepare
  <2>4. /\ gate' \in [Gens -> {"none", "open", "approved", "declined", "withdrawn"}]
        /\ cand' \in [Gens -> Gens] /\ base' \in [Gens -> Lives]
    BY <1>5, <2>1 DEF PrepareSucceeds, TypeOK, Prepare
  <2> QED BY <1>5, <2>2, <2>3, <2>4 DEF PrepareSucceeds, TypeOK, NodeRow, workVars, ownerVars
<1> QED BY <1>1, <1>2, <1>3, <1>4, <1>5 DEF Attempt

(* A worker of publish takes a step. *)
LEMMA PublisherTypes ==
  ASSUME TypeOK, NEW a \in Workers, Publisher(a)
  PROVE  TypeOK'
<1>0. worker[a].eff \in Gens /\ worker[a].step \in Steps
  BY DEF TypeOK
<1>1. ASSUME Pick(a) PROVE TypeOK'
  <2>1. worker' \in [Workers -> WorkerRow]
    <3>1. CASE Goes(a, "failing")
      BY <3>1, GoesOn, StepNames
    <3>2. CASE \E g \in Gens : worker' = [worker EXCEPT ![a] = [step |-> "picked", eff |-> g]]
      <4>1. \A g \in Gens : [step |-> "picked", eff |-> g] \in WorkerRow
        BY StepNames DEF WorkerRow
      <4> QED BY <3>2, <4>1 DEF TypeOK, WorkerRow
    <3> QED BY <1>1, <3>1, <3>2 DEF Pick
  <2> QED BY <1>1, <2>1 DEF Pick, TypeOK, WorkerRow, runVars, graphVars, gateVars, effectVars, ownerVars
<1>2. ASSUME Begin(a) PROVE TypeOK'
  <2>1. worker' \in [Workers -> WorkerRow]
    BY <1>2, GoesOn, StepNames DEF Begin
  <2>2. effect' \in [Gens -> EffectStates]
    BY <1>2, <1>0 DEF Begin, TypeOK, EffectStates
  <2> QED BY <1>2, <2>1, <2>2 DEF Begin, TypeOK, WorkerRow, runVars, graphVars, gateVars, ownerVars
<1>3. ASSUME BeginThrows(a) PROVE TypeOK'
  <2>1. worker' \in [Workers -> WorkerRow]
    BY <1>3, GoesOn, StepNames DEF BeginThrows
  <2>2. effect' \in [Gens -> EffectStates]
    BY <1>3, <1>0 DEF BeginThrows, TypeOK, EffectStates
  <2> QED BY <1>3, <2>1, <2>2 DEF BeginThrows, TypeOK, WorkerRow, runVars, graphVars, gateVars, ownerVars
<1>4. ASSUME Swap(a) PROVE TypeOK'
  <2>1. worker' \in [Workers -> WorkerRow]
    BY <1>4, GoesOn, StepNames DEF Swap
  <2>2. live' \in Lives
    BY <1>4, <1>0 DEF Swap, Lives
  <2> QED BY <1>4, <2>1, <2>2 DEF Swap, TypeOK, WorkerRow, runVars, graphVars, gateVars, effectVars, ownerVars
<1>5. ASSUME SwapThrows(a) PROVE TypeOK'
  <2>1. worker' \in [Workers -> WorkerRow]
    BY <1>5, GoesOn, StepNames DEF SwapThrows
  <2> QED BY <1>5, <2>1 DEF SwapThrows, TypeOK, WorkerRow, runVars, graphVars, gateVars, effectVars, ownerVars
<1>6. ASSUME Reconcile(a) PROVE TypeOK'
  <2>1. worker' \in [Workers -> WorkerRow]
    BY <1>6, GoesOn, StepNames DEF Reconcile
  <2>2. effect' \in [Gens -> EffectStates]
    BY <1>6, <1>0 DEF Reconcile, TypeOK, EffectStates
  <2>3. run' \in RunStates
    BY <1>6 DEF Reconcile, TypeOK, RunStates
  <2> QED BY <1>6, <2>1, <2>2, <2>3 DEF Reconcile, TypeOK, WorkerRow, graphVars, gateVars, ownerVars
<1>7. ASSUME RecordApplied(a) PROVE TypeOK'
  <2>1. worker' \in [Workers -> WorkerRow]
    BY <1>7, GoesOn, StepNames DEF RecordApplied
  <2>2. effect' \in [Gens -> EffectStates]
    BY <1>7, <1>0 DEF RecordApplied, TypeOK, EffectStates
  <2> QED BY <1>7, <2>1, <2>2 DEF RecordApplied, TypeOK, WorkerRow, runVars, graphVars, gateVars, ownerVars
<1>8. ASSUME RecordConflict(a) PROVE TypeOK'
  <2>1. worker' \in [Workers -> WorkerRow]
    BY <1>8, GoesOn, StepNames DEF RecordConflict
  <2>2. effect' \in [Gens -> EffectStates]
    BY <1>8, <1>0 DEF RecordConflict, TypeOK, EffectStates
  <2>3. gate' \in [Gens -> {"none", "open", "approved", "declined", "withdrawn"}]
    BY <1>8, <1>0 DEF RecordConflict, TypeOK
  <2>4. node' \in NodeRow /\ run' \in RunStates
    BY <1>8 DEF RecordConflict, TypeOK, NodeRow, NodeStates, RunStates
  <2> QED BY <1>8, <2>1, <2>2, <2>3, <2>4 DEF RecordConflict, TypeOK, WorkerRow, NodeRow, ownerVars
<1>9. ASSUME PublishEnds(a) PROVE TypeOK'
  <2>1. worker' \in [Workers -> WorkerRow]
    BY <1>9, StepNames DEF PublishEnds, TypeOK, WorkerRow
  <2>2. lease' \in Workers \cup {NoWorker}
    BY <1>9 DEF PublishEnds, TypeOK
  <2>3. [node EXCEPT !["publish"] = "failed"] \in NodeRow
    BY DEF TypeOK, NodeRow, NodeStates
  <2>4. node' \in NodeRow /\ run' \in RunStates
    <3>1. CASE UNCHANGED <<run, node>>
      BY <3>1 DEF TypeOK, NodeRow
    <3>2. CASE node' = [node EXCEPT !["publish"] = "succeeded"] /\ run' = "published"
      BY <3>2 DEF TypeOK, NodeRow, NodeStates, RunStates
    <3>3. CASE node' = [node EXCEPT !["publish"] = "blocked"] /\ UNCHANGED run
      BY <3>3 DEF TypeOK, NodeRow, NodeStates
    <3>4. CASE AfterFailure([node EXCEPT !["publish"] = "failed"])
      BY <3>4, <2>3, FailureRows
    <3> QED BY <1>9, <3>1, <3>2, <3>3, <3>4 DEF PublishEnds
  <2> QED BY <1>9, <2>1, <2>2, <2>4 DEF PublishEnds, TypeOK, WorkerRow, NodeRow, gateVars, effectVars, ownerVars
<1> QED BY <1>1, <1>2, <1>3, <1>4, <1>5, <1>6, <1>7, <1>8, <1>9 DEF Publisher

(* A rerun maps rows to rows. *)
LEMMA RerunTypes ==
  ASSUME TypeOK, NEW k \in Keys, NEW nd \in NodeRow, NEW ef \in [Gens -> EffectStates],
         NEW gt \in [Gens -> {"none", "open", "approved", "declined", "withdrawn"}],
         ApplyRerun(k, nd, ef, gt)
  PROVE  /\ gen' \in [Keys -> Gens] /\ node' \in NodeRow
         /\ bound' \in [Keys -> SUBSET (Keys \X Gens)] /\ wiki' \in [Keys -> Gens]
         /\ effect' \in [Gens -> EffectStates]
         /\ gate' \in [Gens -> {"none", "open", "approved", "declined", "withdrawn"}]
         /\ lease' \in Workers \cup {NoWorker} /\ run' \in RunStates
<1> DEFINE T == {k} \cup Lineage(k)
<1>1. gen[Prepare] \in Gens
  BY GatesAreKeys DEF TypeOK
<1>2. gen' \in [Keys -> Gens]
  <2>1. \A t \in T : gen[t] < MaxGen
    BY DEF ApplyRerun
  <2>2. gen' = [t \in Keys |-> IF t \in T THEN gen[t] + 1 ELSE gen[t]]
    BY DEF ApplyRerun
  <2>3. \A t \in Keys : gen[t] \in Gens
    BY DEF TypeOK
  <2> HIDE DEF T
  <2> QED BY <2>1, <2>2, <2>3, BoundsAssumption DEF Gens
<1>3. node' \in NodeRow
  BY DEF ApplyRerun, NodeRow, NodeStates
<1>4. bound' \in [Keys -> SUBSET (Keys \X Gens)] /\ wiki' \in [Keys -> Gens]
  BY KeyNames DEF ApplyRerun, TypeOK
<1>5. effect' \in [Gens -> EffectStates]
  <2>1. "cancelled" \in EffectStates
    BY DEF EffectStates
  <2> QED BY <1>1, <2>1 DEF ApplyRerun, EffectsAfterRerun, Prepare
<1>6. gate' \in [Gens -> {"none", "open", "approved", "declined", "withdrawn"}]
  BY <1>1 DEF ApplyRerun, GatesAfterRerun, Prepare
<1>7. lease' \in Workers \cup {NoWorker} /\ run' \in RunStates
  BY DEF ApplyRerun, TypeOK, RunStates
<1> QED BY <1>2, <1>3, <1>4, <1>5, <1>6, <1>7

LEMMA DecidedRow ==
  ASSUME TypeOK, NEW k
  PROVE  /\ Decided(k) \in NodeRow
         /\ \A x \in Keys : node[x] = "succeeded" => Decided(k)[x] = "succeeded"
  BY DEF Decided, TypeOK, NodeRow, NodeStates

LEMMA NextGen ==
  ASSUME NEW n \in Gens, n < MaxGen
  PROVE  n + 1 \in Gens
  BY BoundsAssumption DEF Gens

LEMMA UpsetType ==
  ASSUME TypeOK, Upset
  PROVE  upsets' \in 0 .. MaxUpsets
  BY BoundsAssumption DEF Upset, TypeOK

(* A command of the operator. *)
LEMMA OperatorTypes ==
  ASSUME TypeOK, Operator
  PROVE  TypeOK'
<1>0. node \in NodeRow
  BY DEF TypeOK, NodeRow
<1>1. ASSUME NEW k \in Keys, RerunNode(k) PROVE TypeOK'
  <2>1. ApplyRerun(k, node, effect, gate) /\ upsets' \in 0 .. MaxUpsets
    BY <1>1, UpsetType DEF RerunNode
  <2>2. /\ GraphType' /\ EffectType' /\ GateType' /\ RunType' /\ WorkType'
    BY <1>0, <1>1, <2>1, RerunTypes
       DEF RerunNode, TypeOK, GraphType, EffectType, GateType, RunType, WorkType, WorkerRow
  <2> QED BY <1>1, <2>1, <2>2, TypePartsPrimed DEF RerunNode, TypeOK, OwnerType
<1>2. ASSUME NEW k \in Keys, RetryFailedNode(k) PROVE TypeOK'
  <2>1. node' \in NodeRow /\ run' \in RunStates /\ upsets' \in 0 .. MaxUpsets
    BY <1>2, UpsetType DEF RetryFailedNode, TypeOK, NodeRow, NodeStates, RunStates
  <2> QED BY <1>2, <2>1 DEF RetryFailedNode, TypeOK, NodeRow, gateVars, effectVars, workVars
<1>3. ASSUME NEW g \in Gens, Approve(g) PROVE TypeOK'
  <2>1. node' \in NodeRow /\ run' \in RunStates
    BY <1>3, DecidedRow, UnlockRow DEF Approve, RunStates
  <2>2. /\ effect' \in [Gens -> EffectStates]
        /\ gate' \in [Gens -> {"none", "open", "approved", "declined", "withdrawn"}]
    BY <1>3 DEF Approve, TypeOK, EffectStates
  <2> QED BY <1>3, <2>1, <2>2 DEF Approve, TypeOK, NodeRow, workVars, ownerVars
<1>4. ASSUME NEW g \in Gens, Deny(g) PROVE TypeOK'
  <2>1. node' \in NodeRow /\ run' \in RunStates
    BY <1>4, DecidedRow DEF Deny, RunStates
  <2>2. /\ effect' \in [Gens -> EffectStates]
        /\ gate' \in [Gens -> {"none", "open", "approved", "declined", "withdrawn"}]
    BY <1>4 DEF Deny, TypeOK, EffectStates
  <2> QED BY <1>4, <2>1, <2>2 DEF Deny, TypeOK, NodeRow, workVars, ownerVars
<1>5. ASSUME NEW g \in Gens, NEW d \in {"approve", "revise"}, Restart(g, d) PROVE TypeOK'
  <2> DEFINE ef == [effect EXCEPT ![g] = IF @ \in {"prepared", "candidate_ready", "conflict"}
                                         THEN "cancelled" ELSE @]
             gt == [gate EXCEPT ![g] = IF d = "approve" THEN "approved" ELSE "declined"]
  <2>1. /\ ef \in [Gens -> EffectStates]
        /\ gt \in [Gens -> {"none", "open", "approved", "declined", "withdrawn"}]
    BY DEF TypeOK, EffectStates
  <2>2. ApplyRerun("write.root", Decided("gate.publication"), ef, gt)
    BY <1>5 DEF Restart
  <2>3. Decided("gate.publication") \in NodeRow /\ "write.root" \in Keys
    BY DecidedRow, GatesAreKeys
  <2>4. UNCHANGED <<cancelRequested, accepted, fixGates, cand, base, worker, ownerVars, live>>
    BY <1>5 DEF Restart
  <2> HIDE DEF ef, gt
  <2>5. GraphType' /\ EffectType' /\ GateType' /\ RunType' /\ WorkType'
    BY <2>1, <2>2, <2>3, <2>4, RerunTypes
       DEF TypeOK, GraphType, EffectType, GateType, RunType, WorkType, WorkerRow
  <2> QED BY <2>4, <2>5, TypePartsPrimed DEF TypeOK, OwnerType, ownerVars
<1>6. ASSUME NEW x \in fixGates, NEW d \in {"pass", "deny fix", "revise fix"}, ResolveFix(x, d)
      PROVE  TypeOK'
  <2>0. x \in Gens \X Gens /\ x[1] \in Gens /\ x[2] \in Gens
    BY DEF TypeOK
  <2>1. node' \in NodeRow /\ run' \in RunStates
    <3>1. CASE d = "pass"
      BY <1>6, <3>1, DecidedRow, UnlockRow DEF ResolveFix, RunStates
    <3>2. CASE d = "deny fix"
      BY <1>6, <3>2, DecidedRow DEF ResolveFix, RunStates
    <3>3. CASE d = "revise fix"
      BY <1>6, <3>3 DEF ResolveFix, RunStates, TypeOK, NodeRow, NodeStates
    <3> QED BY <3>1, <3>2, <3>3
  <2>2. gen' \in [Keys -> Gens] /\ bound' \in [Keys -> SUBSET (Keys \X Gens)]
    <3>1. "gate.fix" \in Keys
      BY KeyNames
    <3>2. gen["gate.fix"] \in Gens
      BY <3>1 DEF TypeOK
    <3>3. CASE UNCHANGED <<gen, bound>>
      BY <3>3 DEF TypeOK
    <3>4. CASE /\ gen["gate.fix"] < MaxGen /\ gen' = [gen EXCEPT !["gate.fix"] = @ + 1]
               /\ UNCHANGED bound
      <4>1. gen["gate.fix"] + 1 \in Gens
        BY <3>2, <3>4, NextGen
      <4> QED BY <3>1, <3>4, <4>1 DEF TypeOK
    <3> QED BY <1>6, <3>3, <3>4 DEF ResolveFix
  <2>3. fixGates' \subseteq Gens \X Gens /\ accepted' \subseteq Gens
    <3>1. CASE d = "pass" \/ d = "deny fix"
      BY <1>6, <2>0, <3>1 DEF ResolveFix, TypeOK
    <3>2. CASE d = "revise fix"
      <4>1. "gate.fix" \in Keys
        BY KeyNames
      <4>2. x[1] = gen["gate.fix"] /\ gen["gate.fix"] < MaxGen
        BY <1>6, <3>2 DEF ResolveFix
      <4>3. x[1] + 1 \in Gens
        BY <2>0, <4>2, NextGen
      <4>4. fixGates' = (fixGates \ {x}) \cup {<<x[1] + 1, x[2]>>} /\ accepted' = accepted
        BY <1>6, <3>2 DEF ResolveFix
      <4>5. <<x[1] + 1, x[2]>> \in Gens \X Gens
        BY <2>0, <4>3
      <4> QED BY <4>4, <4>5 DEF TypeOK
    <3> QED BY <3>1, <3>2
  <2> QED BY <1>6, <2>1, <2>2, <2>3
          DEF ResolveFix, TypeOK, NodeRow, effectVars, workVars, ownerVars
<1>7. ASSUME CancelRun PROVE TypeOK'
  <2>1. node' \in NodeRow /\ run' \in RunStates
    BY <1>7 DEF CancelRun, TypeOK, NodeRow, NodeStates, RunStates
  <2>2. /\ effect' \in [Gens -> EffectStates]
        /\ gate' \in [Gens -> {"none", "open", "approved", "declined", "withdrawn"}]
    BY <1>7 DEF CancelRun, CancelPreApply, TypeOK, EffectStates
  <2> QED BY <1>7, <2>1, <2>2 DEF CancelRun, TypeOK, NodeRow, ownerVars
<1>8. ASSUME PauseRun PROVE TypeOK'
  <2>1. node' \in NodeRow /\ run' \in RunStates /\ upsets' \in 0 .. MaxUpsets
    BY <1>8, UpsetType DEF PauseRun, TypeOK, NodeRow, NodeStates, RunStates
  <2> QED BY <1>8, <2>1 DEF PauseRun, TypeOK, NodeRow, gateVars, effectVars
<1>9. ASSUME ResumeRun PROVE TypeOK'
  BY <1>9 DEF ResumeRun, TypeOK, RunStates, graphVars, gateVars, effectVars, workVars, ownerVars
<1> QED BY <1>1, <1>2, <1>3, <1>4, <1>5, <1>6, <1>7, <1>8, <1>9 DEF Operator

(* The process ends, closes or starts. *)
LEMMA OwnerTypes ==
  ASSUME TypeOK, Owner
  PROVE  TypeOK'
<1>0. Interrupted \in NodeRow
  BY DEF Interrupted, TypeOK, NodeRow, NodeStates
<1>1. ASSUME Crash PROVE TypeOK'
  <2>1. worker' \in [Workers -> WorkerRow] /\ upsets' \in 0 .. MaxUpsets
    BY <1>1, StepNames, UpsetType DEF Crash
  <2> QED BY <1>1, <2>1 DEF Crash, TypeOK, WorkerRow, runVars, graphVars, gateVars, effectVars
<1>2. ASSUME Close PROVE TypeOK'
  <2>1. upsets' \in 0 .. MaxUpsets /\ run' \in RunStates
    BY <1>2, UpsetType DEF Close, TypeOK, RunStates
  <2> QED BY <1>0, <1>2, <2>1 DEF Close, TypeOK, NodeRow, gateVars, effectVars
<1>3. ASSUME Closed PROVE TypeOK'
  BY <1>3 DEF Closed, TypeOK, runVars, graphVars, gateVars, effectVars, workVars
<1>4. ASSUME Recover PROVE TypeOK'
  <2>1. effect' \in [Gens -> EffectStates] /\ run' \in RunStates
    BY <1>4 DEF Recover, TypeOK, EffectStates, RunStates
  <2> QED BY <1>0, <1>4, <2>1 DEF Recover, TypeOK, NodeRow, gateVars
<1> QED BY <1>1, <1>2, <1>3, <1>4 DEF Owner

LEMMA ForeignTypes ==
  ASSUME TypeOK, Foreign
  PROVE  TypeOK'
<1>1. live' \in Lives
  BY BoundsAssumption DEF Foreign, Lives
<1> QED BY <1>1 DEF Foreign, TypeOK, runVars, graphVars, gateVars, effectVars, workVars, ownerVars

LEMMA TypeStep == TypeOK /\ [Next]_vars => TypeOK'
<1> SUFFICES ASSUME TypeOK, [Next]_vars PROVE TypeOK'
  OBVIOUS
<1>1. CASE UNCHANGED vars
  BY <1>1 DEF vars, TypeOK, runVars, graphVars, gateVars, effectVars, workVars, ownerVars
<1>2. CASE Next
  BY <1>2, SchedulerTypes, AttemptTypes, PublisherTypes, OperatorTypes, OwnerTypes, ForeignTypes
     DEF Next, Scheduler
<1> QED BY <1>1, <1>2

(* The types of the rows: runs, nodes and their envelopes, gates, effects,  *)
(* workers and the owner (the schemas of contract/src/wiki-runs.ts).        *)
THEOREM TypeCorrect == Spec => []TypeOK
  BY InitType, TypeStep, PTL DEF Spec

-----------------------------------------------------------------------------
(* What the workers of publish know.                                       *)

(* Steps about which nothing must be known. *)
Calm == {"none", "started", "failing", "conflicted"}

(* What commands, and errors before an apply, do to an effect. *)
Moves(e, f) ==
    \/ f = e
    \/ e = "prepared" /\ f = "candidate_ready"
    \/ e = "candidate_ready" /\ f = "failed"
    \/ e \in {"prepared", "candidate_ready", "conflict"} /\ f = "cancelled"

(* A step that neither compares, applies nor records. *)
Quiet ==
    /\ UNCHANGED <<base, live>>
    /\ \A g \in Gens : Moves(effect[g], effect'[g])
    /\ \A a \in Workers :
          \/ worker'[a] = worker[a]
          \/ worker[a].step # "swapped" /\ worker'[a].step \in Calm
    /\ owner = "down" => owner' = "down"
    /\ owner' = "down" => \A a \in Workers : worker'[a].step = "none"

LEMMA QuietKeeps ==
  ASSUME TypeOK, WorkInv, Quiet
  PROVE  WorkInv'
<1>0. \A a \in Workers : worker[a].eff \in Gens
  BY DEF TypeOK
<1>1. \A g \in Gens : /\ effect[g] # "none" => effect'[g] # "none"
                      /\ Stored(effect[g]) => Stored(effect'[g])
                      /\ effect[g] \in {"applying", "applied"} => effect'[g] = effect[g]
                      /\ effect'[g] = "applying" => effect[g] = "applying"
  BY DEF Quiet, Moves, Stored
<1>2. \A a \in Workers : worker'[a].step \notin Calm => worker'[a] = worker[a]
  BY DEF Quiet
<1>3. BasesAreOlder'
  <2>1. "applying" \notin Calm /\ base' = base
    BY DEF Quiet, Calm
  <2> QED BY <1>1, <1>2, <2>1 DEF WorkInv, BasesAreOlder
<1>4. WorkersFit'
  <2> SUFFICES ASSUME NEW a \in Workers, worker'[a] = worker[a] PROVE WorkerFits(a)'
    BY <1>2 DEF WorkersFit, WorkerFits, Calm
  <2>1. base' = base /\ live' = live
    BY DEF Quiet
  <2>2. WorkerFits(a)
    BY DEF WorkInv, WorkersFit
  <2> QED BY <1>0, <1>1, <2>1, <2>2 DEF WorkerFits
<1>5. OneApplies' /\ NoDriftBeside'
  <2>1. {"applying", "swapped", "thrown", "drifted"} \cap Calm = {}
    BY DEF Calm
  <2> QED BY <1>2, <2>1 DEF WorkInv, OneApplies, NoDriftBeside
<1>6. SwapIsRecorded'
  <2>1. \A a \in Workers : worker[a].step = "swapped" => worker'[a] = worker[a]
    BY DEF Quiet
  <2> QED BY <1>1, <2>1 DEF Quiet, WorkInv, SwapIsRecorded
<1>7. LiveIsAccounted'
  BY DEF Quiet, Moves, WorkInv, LiveIsAccounted, Misjudged
<1> QED BY <1>3, <1>4, <1>5, <1>6, <1>7 DEF WorkInv

(* A new candidate: its effect is new, and its baseline is live. *)
LEMMA PrepareKeeps ==
  ASSUME TypeOK, WorkInv, PreparedOnce, PrepareSucceeds
  PROVE  WorkInv'
<1> DEFINE g == gen[Prepare]
<1>0. g \in Gens /\ \A a \in Workers : worker[a].eff \in Gens
  BY GatesAreKeys DEF TypeOK
<1>1. effect[g] = "none"
  <2>1. node[Prepare] = "running"
    BY DEF PrepareSucceeds, Finishing, Prepare
  <2>2. ~(g < g)
    BY <1>0, BoundsAssumption DEF Gens
  <2> QED BY <1>0, <2>1, <2>2 DEF PreparedOnce
<1>2. /\ effect' = [effect EXCEPT ![g] = "prepared"] /\ base' = [base EXCEPT ![g] = live]
      /\ UNCHANGED <<live, worker, owner>>
  BY DEF PrepareSucceeds, Prepare, workVars, ownerVars
<1> HIDE DEF g
<1>3. /\ effect'[g] = "prepared" /\ base'[g] = live
      /\ \A h \in Gens : h # g => effect'[h] = effect[h] /\ base'[h] = base[h]
  BY <1>0, <1>2 DEF TypeOK
<1>4. \A a \in Workers : worker[a].step \in {"picked", "drifted", "applying", "swapped", "thrown", "applied"}
                         => worker[a].eff # g
  BY <1>0, <1>1 DEF WorkInv, WorkersFit, WorkerFits, Stored
<1>5. BasesAreOlder'
  <2> SUFFICES ASSUME NEW e \in Gens, NEW h \in Gens, base'[e] = <<"run", h>>
               PROVE  /\ Stored(effect'[h])
                      /\ \A a \in Workers : worker'[a].step = "applying" => worker'[a].eff # h
    BY DEF BasesAreOlder
  <2>1. CASE e # g
    <3>1. /\ Stored(effect[h])
          /\ \A a \in Workers : worker[a].step = "applying" => worker[a].eff # h
      BY <1>3, <2>1 DEF WorkInv, BasesAreOlder
    <3>2. h # g
      BY <1>1, <3>1 DEF Stored
    <3> QED BY <1>2, <1>3, <3>1, <3>2
  <2>2. CASE e = g
    <3>1. live = <<"run", h>>
      BY <1>3, <2>2
    <3>2. Stored(effect[h])
      BY <3>1 DEF WorkInv, LiveIsAccounted, Misjudged, Stored
    <3>3. h # g
      BY <1>1, <3>2 DEF Stored
    <3>4. ASSUME NEW a \in Workers, worker[a].step = "applying" PROVE worker[a].eff # h
      <4>1. live = base[worker[a].eff]
        BY <3>4 DEF WorkInv, WorkersFit, WorkerFits
      <4> QED BY <1>0, <3>1, <3>4, <4>1 DEF WorkInv, BasesAreOlder
    <3> QED BY <1>2, <1>3, <3>2, <3>3, <3>4
  <2> QED BY <2>1, <2>2
<1>6. WorkersFit'
  <2> SUFFICES ASSUME NEW a \in Workers PROVE WorkerFits(a)'
    BY DEF WorkersFit
  <2>1. WorkerFits(a) /\ worker[a].eff \in Gens
    BY <1>0 DEF WorkInv, WorkersFit
  <2> QED BY <1>2, <1>3, <1>4, <2>1 DEF WorkerFits
<1>7. OneApplies' /\ NoDriftBeside'
  BY <1>2 DEF WorkInv, OneApplies, NoDriftBeside
<1>8. SwapIsRecorded'
  <2>1. \A h \in Gens : effect'[h] = "applying" => effect[h] = "applying"
    BY <1>3
  <2> QED BY <1>2, <2>1 DEF WorkInv, SwapIsRecorded
<1>9. LiveIsAccounted'
  <2>1. live # <<"run", g>>
    BY <1>0, <1>1 DEF WorkInv, LiveIsAccounted, Misjudged
  <2> QED BY <1>2, <1>3, <2>1 DEF WorkInv, LiveIsAccounted, Misjudged
<1> QED BY <1>5, <1>6, <1>7, <1>8, <1>9 DEF WorkInv

(* A worker goes on to s, and the others stay where they are. *)
GoesAlone(a, s) ==
    /\ worker'[a].step = s /\ worker'[a].eff = worker[a].eff
    /\ \A b \in Workers : b # a => worker'[b] = worker[b]
    /\ worker[a].eff \in Gens /\ \A b \in Workers : worker[b].eff \in Gens

LEMMA GoesAloneIs ==
  ASSUME TypeOK, NEW a \in Workers, NEW s \in Steps, Goes(a, s)
  PROVE  GoesAlone(a, s)
<1>1. \A b \in Workers : worker[b].eff \in Gens
  BY DEF TypeOK
<1> QED BY <1>1, GoesOn DEF GoesAlone

(* A worker that fails, before it applied or after, leaves what it knew. *)
LEMMA FailingIsQuiet ==
  ASSUME TypeOK, NEW a \in Workers, Goes(a, "failing"), worker[a].step # "swapped",
         owner # "down", UNCHANGED <<base, live, owner>>,
         \A g \in Gens : Moves(effect[g], effect'[g])
  PROVE  Quiet
<1>1. GoesAlone(a, "failing")
  BY GoesAloneIs, StepNames
<1> QED BY <1>1 DEF Quiet, Calm, GoesAlone

LEMMA PickKeeps ==
  ASSUME TypeOK, WorkInv, NEW a \in Workers, Pick(a)
  PROVE  WorkInv'
<1>0. UNCHANGED <<effect, base, live, owner>> /\ owner # "down" /\ worker[a].step = "started"
  BY DEF Pick, Works, effectVars, ownerVars
<1>1. CASE Goes(a, "failing")
  <2>1. \A g \in Gens : Moves(effect[g], effect'[g])
    BY <1>0 DEF Moves
  <2> QED BY <1>0, <1>1, <2>1, FailingIsQuiet, QuietKeeps
<1>2. CASE ~Goes(a, "failing")
  <2>1. PICK g \in Gens : /\ effect[g] = "candidate_ready"
                          /\ worker' = [worker EXCEPT ![a] = [step |-> "picked", eff |-> g]]
    BY <1>2 DEF Pick
  <2>2. /\ worker'[a].step = "picked" /\ worker'[a].eff = g
        /\ \A b \in Workers : b # a => worker'[b] = worker[b]
    BY <2>1 DEF TypeOK
  <2>3. BasesAreOlder'
    BY <1>0, <2>2 DEF WorkInv, BasesAreOlder
  <2>4. WorkersFit'
    BY <1>0, <2>1, <2>2 DEF WorkInv, WorkersFit, WorkerFits
  <2>5. OneApplies' /\ NoDriftBeside'
    BY <1>0, <2>2 DEF WorkInv, OneApplies, NoDriftBeside
  <2>6. SwapIsRecorded'
    BY <1>0, <2>2 DEF WorkInv, SwapIsRecorded
  <2>7. LiveIsAccounted'
    BY <1>0 DEF WorkInv, LiveIsAccounted
  <2> QED BY <2>3, <2>4, <2>5, <2>6, <2>7 DEF WorkInv
<1> QED BY <1>1, <1>2

LEMMA BeginKeeps ==
  ASSUME TypeOK, WorkInv, NEW a \in Workers, Begin(a)
  PROVE  WorkInv'
<1> DEFINE g == worker[a].eff
<1>0. /\ UNCHANGED <<base, live, owner>> /\ owner # "down" /\ worker[a].step = "picked"
      /\ LockFree /\ g \in Gens /\ effect[g] # "none"
  BY DEF Begin, Works, ownerVars, TypeOK, WorkInv, WorkersFit, WorkerFits
<1>1. CASE Goes(a, "failing") /\ UNCHANGED effect
  <2>1. \A h \in Gens : Moves(effect[h], effect'[h])
    BY <1>1 DEF Moves
  <2> QED BY <1>0, <1>1, <2>1, FailingIsQuiet, QuietKeeps
<1>2. CASE live # base[g] /\ Goes(a, "drifted") /\ UNCHANGED effect
  <2>1. GoesAlone(a, "drifted")
    BY <1>2, GoesAloneIs, StepNames
  <2>2. BasesAreOlder'
    BY <1>0, <1>2, <2>1 DEF WorkInv, BasesAreOlder, GoesAlone
  <2>3. WorkersFit'
    BY <1>0, <1>2, <2>1 DEF WorkInv, WorkersFit, WorkerFits, GoesAlone
  <2>4. OneApplies' /\ NoDriftBeside'
    BY <1>0, <2>1 DEF WorkInv, OneApplies, NoDriftBeside, GoesAlone, LockFree
  <2>5. SwapIsRecorded' /\ LiveIsAccounted'
    BY <1>0, <1>2, <2>1 DEF WorkInv, SwapIsRecorded, LiveIsAccounted, GoesAlone
  <2> QED BY <2>2, <2>3, <2>4, <2>5 DEF WorkInv
<1>3. CASE /\ live = base[g] /\ effect[g] = "candidate_ready" /\ Goes(a, "applying")
           /\ effect' = [effect EXCEPT ![g] = "applying"]
  <2>1. GoesAlone(a, "applying")
    BY <1>3, GoesAloneIs, StepNames
  <2>2. effect'[g] = "applying" /\ \A h \in Gens : h # g => effect'[h] = effect[h]
    BY <1>0, <1>3 DEF TypeOK
  <2>3. \A e \in Gens : base[e] # <<"run", g>>
    BY <1>0, <1>3 DEF WorkInv, BasesAreOlder, Stored
  <2>4. \A b \in Workers : worker[b].step = "applied" \/ worker[b].step = "thrown" => worker[b].eff # g
    BY <1>0, <1>3 DEF WorkInv, WorkersFit, WorkerFits, Stored
  <2>5. live # <<"run", g>>
    BY <1>0, <1>3, <2>3
  <2> HIDE DEF g
  <2>6. worker'[a].step = "applying" /\ worker'[a].eff = g
    BY <2>1 DEF GoesAlone, g
  <2>7. BasesAreOlder'
    BY <1>0, <2>1, <2>2, <2>3, <2>6 DEF WorkInv, BasesAreOlder, GoesAlone, Stored
  <2>8. WorkersFit'
    <3> SUFFICES ASSUME NEW b \in Workers PROVE WorkerFits(b)'
      BY DEF WorkersFit
    <3>1. CASE b = a
      BY <1>0, <1>3, <2>2, <2>6, <3>1 DEF WorkerFits
    <3>2. CASE b # a
      <4>1. worker'[b] = worker[b] /\ worker[b].eff \in Gens /\ WorkerFits(b)
        BY <2>1, <3>2 DEF GoesAlone, WorkInv, WorkersFit
      <4>2. worker[b].step \notin {"applying", "swapped"}
        BY <1>0 DEF LockFree
      <4> QED BY <1>0, <2>2, <2>4, <4>1, <4>2 DEF WorkerFits, Stored
    <3> QED BY <3>1, <3>2
  <2>9. OneApplies' /\ NoDriftBeside'
    BY <1>0, <2>1, <2>4, <2>6 DEF WorkInv, OneApplies, NoDriftBeside, GoesAlone, LockFree
  <2>10. SwapIsRecorded'
    <3>1. \A b \in Workers : worker[b].step # "swapped"
      BY <1>0 DEF LockFree
    <3> QED BY <1>0, <2>2, <2>5, <3>1 DEF WorkInv, SwapIsRecorded
  <2>11. LiveIsAccounted'
    BY <1>0, <2>2 DEF WorkInv, LiveIsAccounted
  <2> QED BY <2>7, <2>8, <2>9, <2>10, <2>11 DEF WorkInv
<1> QED BY <1>1, <1>2, <1>3 DEF Begin, MayBegin

LEMMA SwapKeeps ==
  ASSUME TypeOK, WorkInv, NEW a \in Workers, Swap(a)
  PROVE  WorkInv'
<1> DEFINE g == worker[a].eff
<1>0. /\ UNCHANGED <<effect, base, owner>> /\ owner # "down" /\ worker[a].step = "applying"
      /\ live' = <<"run", g>> /\ g \in Gens /\ effect[g] = "applying" /\ live = base[g]
  BY DEF Swap, Works, effectVars, ownerVars, TypeOK, WorkInv, WorkersFit, WorkerFits
<1>1. GoesAlone(a, "swapped")
  BY GoesAloneIs, StepNames DEF Swap
<1>2. \A e \in Gens : base[e] # <<"run", g>>
  BY <1>0 DEF WorkInv, BasesAreOlder
<1>3. \A b \in Workers : b # a => worker[b].step \notin {"applying", "swapped"}
  BY <1>0 DEF WorkInv, OneApplies
<1>4. \A b \in Workers : worker[b].step = "drifted" => worker[b].eff # g
  BY <1>0 DEF WorkInv, WorkersFit, WorkerFits
<1> HIDE DEF g
<1>5. worker'[a].step = "swapped" /\ worker'[a].eff = g
  BY <1>1 DEF GoesAlone, g
<1>6. BasesAreOlder'
  BY <1>0, <1>1 DEF WorkInv, BasesAreOlder, GoesAlone
<1>7. WorkersFit'
  <2> SUFFICES ASSUME NEW b \in Workers PROVE WorkerFits(b)'
    BY DEF WorkersFit
  <2>1. CASE b = a
    BY <1>0, <1>5, <2>1 DEF WorkerFits
  <2>2. CASE b # a
    <3>1. worker'[b] = worker[b] /\ worker[b].eff \in Gens /\ WorkerFits(b)
      BY <1>1, <2>2 DEF GoesAlone, WorkInv, WorkersFit
    <3> QED BY <1>0, <1>2, <1>3, <2>2, <3>1 DEF WorkerFits
  <2> QED BY <2>1, <2>2
<1>8. OneApplies' /\ NoDriftBeside'
  <2> QED BY <1>1, <1>3, <1>4, <1>5 DEF OneApplies, NoDriftBeside, GoesAlone
<1>9. SwapIsRecorded'
  <2>1. \A h \in Gens : live' = <<"run", h>> => h = g
    BY <1>0
  <2> QED BY <1>0, <1>5, <2>1 DEF SwapIsRecorded
<1>10. LiveIsAccounted'
  <2>1. \A h \in Gens : live' = <<"run", h>> => h = g
    BY <1>0
  <2> QED BY <1>0, <2>1 DEF LiveIsAccounted
<1> QED BY <1>6, <1>7, <1>8, <1>9, <1>10 DEF WorkInv

LEMMA SwapThrowsKeeps ==
  ASSUME TypeOK, WorkInv, NEW a \in Workers, SwapThrows(a)
  PROVE  WorkInv'
<1> DEFINE g == worker[a].eff
<1>0. /\ UNCHANGED <<effect, base, live, owner>> /\ owner # "down" /\ g \in Gens
      /\ worker[a].step \in {"applying", "swapped"} /\ effect[g] = "applying"
      /\ worker[a].step = "swapped" => LateErrors
  BY DEF SwapThrows, Works, effectVars, ownerVars, TypeOK, WorkInv, WorkersFit, WorkerFits
<1>1. GoesAlone(a, "thrown")
  BY GoesAloneIs, StepNames DEF SwapThrows
<1>2. BasesAreOlder'
  BY <1>0, <1>1 DEF WorkInv, BasesAreOlder, GoesAlone
<1>3. WorkersFit'
  BY <1>0, <1>1 DEF WorkInv, WorkersFit, WorkerFits, GoesAlone, Stored
<1>4. OneApplies' /\ NoDriftBeside'
  BY <1>0, <1>1 DEF WorkInv, OneApplies, NoDriftBeside, GoesAlone
<1>5. SwapIsRecorded'
  BY <1>0, <1>1 DEF WorkInv, SwapIsRecorded, GoesAlone
<1>6. LiveIsAccounted'
  BY <1>0 DEF WorkInv, LiveIsAccounted
<1> QED BY <1>2, <1>3, <1>4, <1>5, <1>6 DEF WorkInv

(* The effect of a worker behind the swap gets its outcome o. *)
LEMMA OutcomeKeeps ==
  ASSUME TypeOK, WorkInv, NEW a \in Workers, NEW o, NEW s \in {"applied", "failing"},
         \/ worker[a].step = "swapped"
         \/ worker[a].step = "thrown" /\ LockFree,
         effect[worker[a].eff] = "applying",
         effect' = [effect EXCEPT ![worker[a].eff] = o], Goes(a, s),
         o \in {"applied", "failed", "unknown"}, s = "applied" => o = "applied",
         o = "failed" => live # <<"run", worker[a].eff>>,
         UNCHANGED <<base, live, owner>>, owner # "down"
  PROVE  WorkInv'
<1> DEFINE g == worker[a].eff
<1>0. g \in Gens
  BY DEF TypeOK
<1>1. GoesAlone(a, s)
  BY GoesAloneIs, StepNames
<1>2. effect'[g] = o /\ \A h \in Gens : h # g => effect'[h] = effect[h]
  BY <1>0 DEF TypeOK
<1>3. \A b \in Workers : b # a /\ worker[b].step \in {"applying", "swapped", "applied"}
                         => worker[b].eff # g
  BY DEF WorkInv, WorkersFit, WorkerFits, OneApplies, LockFree
<1>g. effect[g] = "applying" /\ (o = "failed" => live # <<"run", g>>)
  OBVIOUS
<1> HIDE DEF g
<1>4. worker'[a].step = s /\ worker'[a].eff = g
  BY <1>1 DEF GoesAlone, g
<1>5. BasesAreOlder'
  BY <1>1, <1>2, <1>4 DEF WorkInv, BasesAreOlder, GoesAlone, Stored
<1>6. WorkersFit'
  <2> SUFFICES ASSUME NEW b \in Workers PROVE WorkerFits(b)'
    BY DEF WorkersFit
  <2>1. CASE b = a
    BY <1>2, <1>4, <2>1 DEF WorkerFits
  <2>2. CASE b # a
    <3>1. worker'[b] = worker[b] /\ worker[b].eff \in Gens /\ WorkerFits(b)
      BY <1>1, <2>2 DEF GoesAlone, WorkInv, WorkersFit
    <3> QED BY <1>2, <1>3, <2>2, <3>1 DEF WorkerFits, Stored
  <2> QED BY <2>1, <2>2
<1>7. OneApplies' /\ NoDriftBeside'
  BY <1>1, <1>4 DEF WorkInv, OneApplies, NoDriftBeside, GoesAlone
<1>8. SwapIsRecorded'
  <2>1. \A h \in Gens : effect'[h] = "applying" => h # g /\ effect[h] = "applying"
    BY <1>2
  <2>2. \A b \in Workers : b # a => worker'[b] = worker[b]
    BY <1>1 DEF GoesAlone
  <2>3. worker[a].eff = g
    BY DEF g
  <2> QED BY <2>1, <2>2, <2>3 DEF WorkInv, SwapIsRecorded
<1>9. LiveIsAccounted'
  BY <1>2, <1>g DEF WorkInv, LiveIsAccounted
<1> QED BY <1>5, <1>6, <1>7, <1>8, <1>9 DEF WorkInv

LEMMA ReconcileKeeps ==
  ASSUME TypeOK, WorkInv, NEW a \in Workers, Reconcile(a)
  PROVE  WorkInv'
<1> DEFINE g == worker[a].eff
<1>0. /\ UNCHANGED <<base, live, owner>> /\ owner # "down" /\ worker[a].step = "thrown"
      /\ g \in Gens
  BY DEF Reconcile, Works, ownerVars, TypeOK
<1>1. CASE UNCHANGED effect
  <2>1. CASE Goes(a, "failing")
    <3>1. \A h \in Gens : Moves(effect[h], effect'[h])
      BY <1>1 DEF Moves
    <3> QED BY <1>0, <2>1, <3>1, FailingIsQuiet, QuietKeeps
  <2>2. CASE effect'[g] = "applied" /\ Goes(a, "applied")
    <3>1. GoesAlone(a, "applied")
      BY <2>2, GoesAloneIs, StepNames
    <3>2. BasesAreOlder'
      BY <1>0, <1>1, <3>1 DEF WorkInv, BasesAreOlder, GoesAlone
    <3>3. WorkersFit'
      BY <1>0, <1>1, <2>2, <3>1 DEF WorkInv, WorkersFit, WorkerFits, GoesAlone
    <3>4. OneApplies' /\ NoDriftBeside'
      BY <1>0, <3>1 DEF WorkInv, OneApplies, NoDriftBeside, GoesAlone
    <3>5. SwapIsRecorded' /\ LiveIsAccounted'
      BY <1>0, <1>1, <3>1 DEF WorkInv, SwapIsRecorded, LiveIsAccounted, GoesAlone
    <3> QED BY <3>2, <3>3, <3>4, <3>5 DEF WorkInv
  <2> QED BY <2>1, <2>2 DEF Reconcile
<1>2. CASE effect[g] = "applying" /\ ~UNCHANGED effect
  <2>1. PICK o \in {IF live = <<"run", g>> THEN "applied" ELSE "failed", "unknown"} :
            effect' = [effect EXCEPT ![g] = o]
    BY <1>2 DEF Reconcile
  <2>4. LockFree
    BY <1>2 DEF Reconcile
  <2>2. effect'[g] = o
    BY <1>0, <2>1 DEF TypeOK
  <2>3. Goes(a, IF o = "applied" THEN "applied" ELSE "failing")
    BY <2>2 DEF Reconcile
  <2> QED BY <1>0, <1>2, <2>1, <2>3, <2>4, OutcomeKeeps
<1> QED BY <1>1, <1>2 DEF Reconcile

LEMMA RecordAppliedKeeps ==
  ASSUME TypeOK, WorkInv, NEW a \in Workers, RecordApplied(a)
  PROVE  WorkInv'
<1>1. /\ worker[a].step = "swapped" /\ owner # "down" /\ effect[worker[a].eff] = "applying"
      /\ UNCHANGED <<base, live, owner>> /\ Goes(a, "applied")
  BY DEF RecordApplied, Works, ownerVars, WorkInv, WorkersFit, WorkerFits
<1>2. effect' = [effect EXCEPT ![worker[a].eff] = "applied"]
  BY <1>1 DEF RecordApplied
<1> QED BY <1>1, <1>2, OutcomeKeeps

(* A conflict is about a candidate that no other worker is applying. *)
LEMMA RecordConflictKeeps ==
  ASSUME TypeOK, WorkInv, NEW a \in Workers, RecordConflict(a)
  PROVE  WorkInv'
<1> DEFINE g == worker[a].eff
<1>0. /\ UNCHANGED <<base, live, owner>> /\ owner # "down" /\ worker[a].step = "drifted"
      /\ g \in Gens /\ effect[g] # "none" /\ live # base[g]
  BY DEF RecordConflict, Works, ownerVars, TypeOK, WorkInv, WorkersFit, WorkerFits
<1>1. GoesAlone(a, "conflicted")
  BY GoesAloneIs, StepNames DEF RecordConflict
<1>2. /\ effect'[g] = IF effect[g] \in {"applying", "candidate_ready"} THEN "conflict" ELSE effect[g]
      /\ \A h \in Gens : h # g => effect'[h] = effect[h]
  BY <1>0 DEF RecordConflict, TypeOK
<1>3. \A b \in Workers : worker[b].step \in {"applying", "swapped"} => worker[b].eff # g
  BY <1>0 DEF WorkInv, WorkersFit, WorkerFits, NoDriftBeside
<1> HIDE DEF g
<1>4. \A h \in Gens : /\ effect[h] # "none" => effect'[h] # "none"
                      /\ Stored(effect[h]) => Stored(effect'[h])
                      /\ effect[h] = "applied" => effect'[h] = "applied"
  BY <1>2 DEF Stored
<1>5. BasesAreOlder'
  BY <1>0, <1>1, <1>4 DEF WorkInv, BasesAreOlder, GoesAlone
<1>6. WorkersFit'
  <2> SUFFICES ASSUME NEW b \in Workers PROVE WorkerFits(b)'
    BY DEF WorkersFit
  <2>1. CASE b = a
    BY <1>1, <2>1 DEF WorkerFits, GoesAlone
  <2>2. CASE b # a
    <3>1. worker'[b] = worker[b] /\ worker[b].eff \in Gens /\ WorkerFits(b)
      BY <1>1, <2>2 DEF GoesAlone, WorkInv, WorkersFit
    <3> QED BY <1>0, <1>2, <1>3, <1>4, <3>1 DEF WorkerFits
  <2> QED BY <2>1, <2>2
<1>7. OneApplies' /\ NoDriftBeside'
  BY <1>1 DEF WorkInv, OneApplies, NoDriftBeside, GoesAlone
<1>8. SwapIsRecorded'
  <2>1. \A b \in Workers : worker[b].step = "swapped" => worker'[b] = worker[b]
    BY <1>0, <1>1 DEF GoesAlone
  <2>2. \A h \in Gens : effect'[h] = "applying" => effect[h] = "applying"
    BY <1>2
  <2> QED BY <1>0, <2>1, <2>2 DEF WorkInv, SwapIsRecorded
<1>9. LiveIsAccounted'
  <2>1. live = <<"run", g>> /\ effect[g] = "applying" => LateErrors
    <3> SUFFICES ASSUME live = <<"run", g>>, effect[g] = "applying", ~LateErrors PROVE FALSE
      OBVIOUS
    <3>1. g \in Gens
      BY <1>0
    <3>2. \E b \in Workers : worker[b].step = "swapped" /\ worker[b].eff = g
      BY <1>0, <3>1 DEF WorkInv, SwapIsRecorded
    <3> QED BY <1>3, <3>2
  <2>2. live = <<"run", g>> => effect[g] # "candidate_ready"
    BY <1>0 DEF WorkInv, LiveIsAccounted, Misjudged
  <2> QED BY <1>0, <1>2, <2>1, <2>2 DEF WorkInv, LiveIsAccounted, Misjudged
<1> QED BY <1>5, <1>6, <1>7, <1>8, <1>9 DEF WorkInv

LEMMA PublisherKeeps ==
  ASSUME TypeOK, WorkInv, NEW a \in Workers, Publisher(a)
  PROVE  WorkInv'
<1>1. ASSUME BeginThrows(a) PROVE WorkInv'
  <2> DEFINE g == worker[a].eff
  <2>1. /\ worker[a].step = "picked" /\ owner # "down" /\ UNCHANGED <<base, live, owner>>
    BY <1>1 DEF BeginThrows, Works, ownerVars
  <2>2. CASE effect[g] # "applying"
    <3>1. Goes(a, "failing") /\ \A h \in Gens : Moves(effect[h], effect'[h])
      BY <1>1, <2>2 DEF BeginThrows, Moves, TypeOK
    <3> QED BY <2>1, <3>1, FailingIsQuiet, QuietKeeps
  <2>3. CASE effect[g] = "applying"
    <3>1. GoesAlone(a, "thrown")
      BY <1>1, <2>3, GoesAloneIs, StepNames DEF BeginThrows
    <3>2. effect' = effect
      BY <1>1, <2>3 DEF BeginThrows, TypeOK
    <3>3. BasesAreOlder'
      BY <2>1, <3>1, <3>2 DEF WorkInv, BasesAreOlder, GoesAlone
    <3>4. WorkersFit'
      BY <2>1, <2>3, <3>1, <3>2 DEF WorkInv, WorkersFit, WorkerFits, GoesAlone, Stored
    <3>5. OneApplies' /\ NoDriftBeside'
      BY <2>1, <3>1 DEF WorkInv, OneApplies, NoDriftBeside, GoesAlone
    <3>6. SwapIsRecorded' /\ LiveIsAccounted'
      BY <2>1, <3>1, <3>2 DEF WorkInv, SwapIsRecorded, LiveIsAccounted, GoesAlone
    <3> QED BY <3>3, <3>4, <3>5, <3>6 DEF WorkInv
  <2> QED BY <2>2, <2>3
<1>2. ASSUME PublishEnds(a) PROVE WorkInv'
  <2>1. /\ worker' = [worker EXCEPT ![a] = Idle] /\ owner # "down"
        /\ worker[a].step # "swapped" /\ UNCHANGED <<effect, base, live, owner>>
    BY <1>2 DEF PublishEnds, effectVars, ownerVars
  <2>2. worker'[a].step = "none" /\ \A b \in Workers : b # a => worker'[b] = worker[b]
    BY <2>1 DEF TypeOK, Idle
  <2>3. Quiet
    BY <2>1, <2>2 DEF Quiet, Moves, Calm
  <2> QED BY <2>3, QuietKeeps
<1> QED BY <1>1, <1>2, PickKeeps, BeginKeeps, SwapKeeps, SwapThrowsKeeps, ReconcileKeeps,
           RecordAppliedKeeps, RecordConflictKeeps DEF Publisher

-----------------------------------------------------------------------------
(* The steps that are quiet for the workers.                               *)

LEMMA SameIsQuiet ==
  ASSUME UNCHANGED <<effect, base, live, worker, owner>>, WorkInv
  PROVE  Quiet
<1>1. owner = "down" => \A a \in Workers : worker[a].step = "none"
  BY DEF WorkInv, SwapIsRecorded
<1> QED BY <1>1 DEF Quiet, Moves

LEMMA ClaimIsQuiet ==
  ASSUME TypeOK, NEW k \in Keys, Claim(k)
  PROVE  Quiet
<1>1. UNCHANGED <<effect, base, live, owner>> /\ owner = "up"
  BY DEF Claim, Claimable, effectVars, ownerVars
<1>2. \A b \in Workers : \/ worker'[b] = worker[b]
                         \/ worker[b].step # "swapped" /\ worker'[b].step \in Calm
  <2>1. CASE k = "publish"
    <3>1. PICK a \in Workers : /\ worker[a].step = "none"
                               /\ worker' = [worker EXCEPT ![a].step = "started"]
      BY <2>1 DEF Claim
    <3>2. GoesAlone(a, "started")
      BY <3>1, GoesAloneIs, StepNames DEF Goes
    <3> QED BY <3>1, <3>2 DEF GoesAlone, Calm
  <2>2. CASE k # "publish"
    BY <2>2 DEF Claim, workVars
  <2> QED BY <2>1, <2>2
<1> QED BY <1>1, <1>2 DEF Quiet, Moves

(* A rerun gives up what was prepared or approved. *)
LEMMA RerunMoves ==
  ASSUME TypeOK, NEW k \in Keys, NEW nd, NEW gt, NEW ef \in [Gens -> EffectStates],
         \A g \in Gens : Moves(effect[g], ef[g]), ApplyRerun(k, nd, ef, gt)
  PROVE  \A g \in Gens : Moves(effect[g], effect'[g])
<1>1. gen[Prepare] \in Gens
  BY GatesAreKeys DEF TypeOK
<1>2. \A g \in Gens : \/ effect'[g] = ef[g]
                      \/ ef[g] \in {"prepared", "candidate_ready"} /\ effect'[g] = "cancelled"
  BY <1>1 DEF ApplyRerun, EffectsAfterRerun, GivesUp, Prepare
<1> QED BY <1>2 DEF Moves

LEMMA OperatorIsQuiet ==
  ASSUME TypeOK, WorkInv, Operator
  PROVE  Quiet
<1>0. owner = "up" /\ UNCHANGED <<base, live, worker, owner>>
  BY DEF Operator, RerunNode, RetryFailedNode, Approve, Deny, Restart, ResolveFix, CancelRun,
         PauseRun, ResumeRun, MayResolve, effectVars, workVars, ownerVars
<1>1. \A g \in Gens : Moves(effect[g], effect'[g])
  <2>1. ASSUME NEW k \in Keys, RerunNode(k) PROVE \A g \in Gens : Moves(effect[g], effect'[g])
    <3>1. ApplyRerun(k, node, effect, gate) /\ \A g \in Gens : Moves(effect[g], effect[g])
      BY <2>1 DEF RerunNode, Moves
    <3>2. effect \in [Gens -> EffectStates]
      BY DEF TypeOK
    <3> QED BY <3>1, <3>2, RerunMoves
  <2>2. ASSUME NEW k \in Keys, RetryFailedNode(k)
        PROVE  \A g \in Gens : Moves(effect[g], effect'[g])
    BY <2>2 DEF RetryFailedNode, Moves, effectVars
  <2>3. ASSUME NEW e \in Gens, Approve(e) \/ Deny(e)
        PROVE  \A g \in Gens : Moves(effect[g], effect'[g])
    BY <2>3 DEF Approve, Deny, Moves, TypeOK
  <2>4. ASSUME NEW e \in Gens, NEW d \in {"approve", "revise"}, Restart(e, d)
        PROVE  \A g \in Gens : Moves(effect[g], effect'[g])
    <3> DEFINE ef == [effect EXCEPT ![e] = IF @ \in {"prepared", "candidate_ready", "conflict"}
                                           THEN "cancelled" ELSE @]
               gt == [gate EXCEPT ![e] = IF d = "approve" THEN "approved" ELSE "declined"]
    <3>1. ApplyRerun("write.root", Decided("gate.publication"), ef, gt)
      BY <2>4 DEF Restart
    <3>2. ef \in [Gens -> EffectStates] /\ \A g \in Gens : Moves(effect[g], ef[g])
      BY DEF TypeOK, Moves, EffectStates
    <3> HIDE DEF ef, gt
    <3> QED BY <3>1, <3>2, RerunMoves, GatesAreKeys
  <2>5. ASSUME NEW x \in fixGates, NEW d \in {"pass", "deny fix", "revise fix"}, ResolveFix(x, d)
        PROVE  \A g \in Gens : Moves(effect[g], effect'[g])
    BY <2>5 DEF ResolveFix, Moves, effectVars
  <2>6. ASSUME CancelRun PROVE \A g \in Gens : Moves(effect[g], effect'[g])
    BY <2>6 DEF CancelRun, CancelPreApply, Moves
  <2>7. ASSUME PauseRun \/ ResumeRun PROVE \A g \in Gens : Moves(effect[g], effect'[g])
    BY <2>7 DEF PauseRun, ResumeRun, Moves, effectVars
  <2> QED BY <2>1, <2>2, <2>3, <2>4, <2>5, <2>6, <2>7 DEF Operator
<1> QED BY <1>0, <1>1 DEF Quiet

LEMMA CrashKeeps ==
  ASSUME TypeOK, WorkInv, Crash
  PROVE  WorkInv'
<1>1. /\ UNCHANGED <<effect, base, live>> /\ owner' = "down"
      /\ \A a \in Workers : worker'[a].step = "none"
  BY DEF Crash, effectVars, Idle
<1>2. BasesAreOlder' /\ WorkersFit' /\ OneApplies' /\ NoDriftBeside' /\ SwapIsRecorded'
  BY <1>1 DEF WorkInv, BasesAreOlder, WorkersFit, WorkerFits, OneApplies,
              NoDriftBeside, SwapIsRecorded
<1> QED BY <1>1, <1>2 DEF WorkInv, LiveIsAccounted

(* Recovery looks at every effect that is applying, and nobody works. *)
LEMMA RecoverKeeps ==
  ASSUME TypeOK, WorkInv, Recover
  PROVE  WorkInv'
<1>1. UNCHANGED <<base, live, worker>> /\ \A a \in Workers : worker[a].step = "none"
  BY DEF Recover, WorkInv, SwapIsRecorded
<1>2. \A g \in Gens :
         /\ effect[g] # "applying" => effect'[g] = effect[g]
         /\ effect[g] = "applying" =>
               effect'[g] \in {IF live = <<"run", g>> THEN "applied" ELSE "failed", "unknown"}
  BY DEF Recover
<1>3. BasesAreOlder'
  BY <1>1, <1>2 DEF WorkInv, BasesAreOlder, Stored
<1>4. WorkersFit' /\ OneApplies' /\ NoDriftBeside'
  BY <1>1 DEF WorkersFit, WorkerFits, OneApplies, NoDriftBeside
<1>5. SwapIsRecorded'
  BY <1>1, <1>2 DEF SwapIsRecorded
<1>6. LiveIsAccounted'
  BY <1>1, <1>2 DEF WorkInv, LiveIsAccounted
<1> QED BY <1>3, <1>4, <1>5, <1>6 DEF WorkInv

(* Somebody else publishes what no candidate was compared with. *)
LEMMA ForeignKeeps ==
  ASSUME TypeOK, WorkInv, Foreign
  PROVE  WorkInv'
<1>1. PICK n \in 1 .. MaxForeign : live' = <<"foreign", n>> /\ \A g \in Gens : base[g] # <<"foreign", n>>
  BY DEF Foreign
<1>2. /\ UNCHANGED <<effect, base, worker, owner>>
      /\ \A a \in Workers : worker[a].step \notin {"applying", "swapped"}
  BY DEF Foreign, LockFree, effectVars, workVars, ownerVars
<1>3. \A h \in Gens : live' # <<"run", h>>
  BY <1>1
<1>4. BasesAreOlder' /\ OneApplies' /\ NoDriftBeside'
  BY <1>2 DEF WorkInv, BasesAreOlder, OneApplies, NoDriftBeside
<1>5. WorkersFit'
  <2>1. \A a \in Workers : worker[a].eff \in Gens
    BY DEF TypeOK
  <2> QED BY <1>1, <1>2, <2>1 DEF WorkInv, WorkersFit, WorkerFits
<1>6. SwapIsRecorded' /\ LiveIsAccounted'
  BY <1>2, <1>3 DEF WorkInv, SwapIsRecorded, LiveIsAccounted
<1> QED BY <1>4, <1>5, <1>6 DEF WorkInv

LEMMA WorkStep ==
  ASSUME TypeOK, WorkInv, PreparedOnce, [Next]_vars
  PROVE  WorkInv'
<1>1. CASE UNCHANGED vars
  BY <1>1, SameIsQuiet, QuietKeeps DEF vars, effectVars, workVars, ownerVars
<1>2. ASSUME Attempt PROVE WorkInv'
  <2>1. CASE PrepareSucceeds
    BY <2>1, PrepareKeeps
  <2>2. CASE ~PrepareSucceeds
    <3>1. UNCHANGED <<effect, base, live, worker, owner>>
      BY <1>2, <2>2 DEF Attempt, Succeed, Fail, ReviewIsClean, ReviewBlocks, effectVars,
                        workVars, ownerVars
    <3> QED BY <3>1, SameIsQuiet, QuietKeeps
  <2> QED BY <2>1, <2>2
<1>3. ASSUME Owner PROVE WorkInv'
  <2>1. CASE Close
    <3>1. UNCHANGED <<effect, base, live, worker>> /\ owner = "up" /\ owner' = "closing"
      BY <2>1 DEF Close, effectVars
    <3>2. Quiet
      BY <3>1 DEF Quiet, Moves
    <3> QED BY <3>2, QuietKeeps
  <2>2. CASE Closed
    <3>1. /\ UNCHANGED <<effect, base, live, worker>> /\ owner' = "down"
          /\ \A a \in Workers : worker[a].step = "none"
      BY <2>2 DEF Closed, effectVars, workVars
    <3>2. Quiet
      BY <3>1 DEF Quiet, Moves
    <3> QED BY <3>2, QuietKeeps
  <2> QED BY <1>3, <2>1, <2>2, CrashKeeps, RecoverKeeps DEF Owner
<1>4. ASSUME Scheduler PROVE WorkInv'
  BY <1>4, ClaimIsQuiet, QuietKeeps DEF Scheduler
<1> QED BY <1>1, <1>2, <1>3, <1>4, PublisherKeeps, OperatorIsQuiet, QuietKeeps, ForeignKeeps
        DEF Next

-----------------------------------------------------------------------------
(* What no step does to an effect, to prepare.publication and to the run.  *)

Undecided == {"prepared", "candidate_ready"}
Final == {"cancelled", "applied", "failed", "unknown"}

(* An effect that is decided stays so, none is made or reopened, and none  *)
(* is begun for a run that is cancelled.                                   *)
EffectsGo ==
    \A g \in Gens :
        /\ effect[g] \in Final => effect'[g] = effect[g]
        /\ effect[g] = "none" => effect'[g] = "none"
        /\ effect'[g] \in Undecided => effect[g] \in Undecided
        /\ cancelRequested /\ effect'[g] = "applying" => effect[g] = "applying"

(* A candidate stays the one of its generation, or is given up with it. *)
PrepareGoes ==
    \/ gen'[Prepare] = gen[Prepare] /\ (node[Prepare] = "succeeded" => node'[Prepare] = "succeeded")
    \/ gen'[Prepare] = gen[Prepare] + 1 /\ effect'[gen[Prepare]] \notin Undecided

RunGoes == run' = "published" => run = "published" \/ \E g \in Gens : effect'[g] = "applied"

Steady == EffectsGo /\ PrepareGoes /\ RunGoes

LEMMA MovesGo ==
  ASSUME \A g \in Gens : Moves(effect[g], effect'[g])
  PROVE  EffectsGo
  BY DEF Moves, EffectsGo, Undecided, Final

(* A step that changes neither effects nor generations. *)
LEMMA NodesOnly ==
  ASSUME UNCHANGED <<gen, effect>>, node[Prepare] = "succeeded" => node'[Prepare] = "succeeded",
         run' = "published" => run = "published"
  PROVE  Steady
<1>1. \A g \in Gens : Moves(effect[g], effect'[g])
  BY DEF Moves
<1> QED BY <1>1, MovesGo DEF Steady, PrepareGoes, RunGoes

LEMMA SchedulerIsSteady ==
  ASSUME TypeOK, NEW k \in Keys, Claim(k)
  PROVE  Steady
<1>1. UNCHANGED <<gen, effect, run>> /\ node[k] = "ready" /\ node' = [node EXCEPT ![k] = "running"]
  BY DEF Claim, Claimable, effectVars, runVars
<1>2. node[Prepare] = "succeeded" => node'[Prepare] = "succeeded"
  BY <1>1, GatesAreKeys DEF TypeOK
<1> QED BY <1>1, <1>2, NodesOnly

(* failNode leaves what has succeeded, and publishes nothing. *)
LEMMA FailureIsSteady ==
  ASSUME NEW nd \in NodeRow, AfterFailure(nd)
  PROVE  /\ \A k \in Keys : nd[k] = "succeeded" => node'[k] = "succeeded"
         /\ run' # "published"
  BY UnlockRow DEF AfterFailure

LEMMA AttemptIsSteady ==
  ASSUME TypeOK, Attempt, ~PrepareSucceeds
  PROVE  Steady
<1>0. node \in NodeRow /\ Prepare \in Keys /\ run \in RunStates
  BY GatesAreKeys DEF TypeOK, NodeRow
<1>1. UNCHANGED <<gen, effect>>
  BY DEF Attempt, Succeed, Fail, ReviewIsClean, ReviewBlocks, effectVars
<1>2. ASSUME NEW k \in Keys, Succeed(k) PROVE Steady
  <2> DEFINE nd == [node EXCEPT ![k] = "succeeded"]
  <2>1. nd \in NodeRow /\ (node[Prepare] = "succeeded" => nd[Prepare] = "succeeded")
    BY <1>0 DEF NodeRow, NodeStates
  <2>2. node' = Unlock(nd) /\ run' = Recomputed(node')
    BY <1>2 DEF Succeed
  <2> HIDE DEF nd
  <2>3. node[Prepare] = "succeeded" => node'[Prepare] = "succeeded"
    BY <1>0, <2>1, <2>2, UnlockRow
  <2>4. run' = "published" => run = "published"
    BY <1>0, <2>2, RecomputedType
  <2> QED BY <1>1, <2>3, <2>4, NodesOnly
<1>3. ASSUME NEW k \in Keys, Fail(k) PROVE Steady
  <2> DEFINE nd == [node EXCEPT ![k] = "failed"]
  <2>1. node[k] = "running" /\ AfterFailure(nd)
    BY <1>3 DEF Fail, Finishing
  <2>2. nd \in NodeRow /\ (node[Prepare] = "succeeded" => nd[Prepare] = "succeeded")
    BY <1>0, <2>1 DEF NodeRow, NodeStates
  <2> HIDE DEF nd
  <2> QED BY <1>0, <1>1, <2>1, <2>2, FailureIsSteady, NodesOnly
<1>4. ASSUME ReviewIsClean PROVE Steady
  <2> DEFINE nd == [node EXCEPT !["review.reduce"] = "succeeded",
                                !["gate.fix"] = IF @ \in {"blocked", "waiting", "ready", "running"}
                                                THEN "succeeded" ELSE @]
  <2>1. node' = Unlock(nd) /\ run' = "active"
    BY <1>4 DEF ReviewIsClean
  <2>2. nd \in NodeRow /\ (node[Prepare] = "succeeded" => nd[Prepare] = "succeeded")
    BY <1>0 DEF NodeRow, NodeStates
  <2> HIDE DEF nd
  <2>3. node[Prepare] = "succeeded" => node'[Prepare] = "succeeded"
    BY <1>0, <2>1, <2>2, UnlockRow
  <2> QED BY <1>1, <2>1, <2>3, NodesOnly
<1>5. ASSUME ReviewBlocks PROVE Steady
  <2>1. /\ node[Prepare] = "succeeded" => node'[Prepare] = "succeeded"
        /\ run' = "waiting_for_operator"
    BY <1>0, <1>5 DEF ReviewBlocks, NodeRow, Prepare
  <2> QED BY <1>1, <2>1, NodesOnly
<1> QED BY <1>2, <1>3, <1>4, <1>5 DEF Attempt

LEMMA PublisherIsSteady ==
  ASSUME TypeOK, WorkInv, NEW a \in Workers, Publisher(a)
  PROVE  Steady
<1> DEFINE g == worker[a].eff
<1>0. g \in Gens /\ node \in NodeRow /\ Prepare \in Keys /\ WorkerFits(a)
  BY GatesAreKeys DEF TypeOK, NodeRow, WorkInv, WorkersFit
<1>1. ASSUME Pick(a) \/ Swap(a) \/ SwapThrows(a) PROVE Steady
  BY <1>1, NodesOnly DEF Pick, Swap, SwapThrows, runVars, graphVars, effectVars
<1>2. ASSUME Begin(a) PROVE Steady
  <2>1. UNCHANGED <<gen, node, run>>
    BY <1>2 DEF Begin, runVars, graphVars
  <2>2. \/ UNCHANGED effect
        \/ /\ ~cancelRequested /\ effect[g] = "candidate_ready"
           /\ effect' = [effect EXCEPT ![g] = "applying"]
    BY <1>2 DEF Begin, MayBegin
  <2>3. EffectsGo
    BY <1>0, <2>2 DEF EffectsGo, Undecided, Final, TypeOK
  <2> QED BY <2>1, <2>3 DEF Steady, PrepareGoes, RunGoes
<1>3. ASSUME BeginThrows(a) PROVE Steady
  <2>1. UNCHANGED <<gen, node, run>>
    BY <1>3 DEF BeginThrows, runVars, graphVars
  <2>2. EffectsGo
    BY <1>0, <1>3 DEF BeginThrows, EffectsGo, Undecided, Final, TypeOK
  <2> QED BY <2>1, <2>2 DEF Steady, PrepareGoes, RunGoes
<1>4. ASSUME Reconcile(a) PROVE Steady
  <2>1. UNCHANGED <<gen, node>>
    BY <1>4 DEF Reconcile, graphVars
  <2>2. PICK o \in {"applied", "failed", "unknown"} :
           /\ \/ UNCHANGED effect
              \/ effect[g] = "applying" /\ effect' = [effect EXCEPT ![g] = o]
           /\ run' # run => effect[g] = "applying" /\ o = "applied" /\ effect' = [effect EXCEPT ![g] = o]
    BY <1>4 DEF Reconcile
  <2>3. EffectsGo
    BY <1>0, <2>2 DEF EffectsGo, Undecided, Final, TypeOK
  <2>4. RunGoes
    BY <1>0, <2>2 DEF RunGoes, TypeOK
  <2> QED BY <2>1, <2>3, <2>4 DEF Steady, PrepareGoes
<1>5. ASSUME RecordApplied(a) PROVE Steady
  <2>1. UNCHANGED <<gen, node, run>>
    BY <1>5 DEF RecordApplied, runVars, graphVars
  <2>2. EffectsGo
    BY <1>0, <1>5 DEF RecordApplied, EffectsGo, Undecided, Final, TypeOK
  <2> QED BY <2>1, <2>2 DEF Steady, PrepareGoes, RunGoes
<1>6. ASSUME RecordConflict(a) PROVE Steady
  <2>1. /\ gen' = gen /\ node' = [node EXCEPT !["gate.publication"] = "waiting"]
        /\ run' = "published" => run = "published"
    BY <1>6 DEF RecordConflict
  <2>2. EffectsGo
    BY <1>0, <1>6 DEF RecordConflict, EffectsGo, Undecided, Final, TypeOK
  <2>3. PrepareGoes
    BY <1>0, <2>1 DEF PrepareGoes, NodeRow, Prepare
  <2> QED BY <2>1, <2>2, <2>3 DEF Steady, RunGoes
<1>7. ASSUME PublishEnds(a) PROVE Steady
  <2>1. UNCHANGED <<gen, effect>>
    BY <1>7 DEF PublishEnds, effectVars
  <2>2. EffectsGo
    BY <2>1 DEF EffectsGo
  <2>3. CASE UNCHANGED <<run, node>>
    BY <2>1, <2>3, NodesOnly
  <2>4. CASE /\ PublishSucceeded(a) /\ run' = "published"
             /\ node' = [node EXCEPT !["publish"] = "succeeded"]
    <3>1. PrepareGoes
      BY <1>0, <2>1, <2>4 DEF PrepareGoes, NodeRow, Prepare
    <3>2. effect'[g] = "applied"
      BY <1>0, <2>1, <2>4 DEF PublishSucceeded, WorkerFits
    <3> QED BY <1>0, <2>2, <3>1, <3>2 DEF Steady, RunGoes
  <2>5. CASE UNCHANGED run /\ node' = [node EXCEPT !["publish"] = "blocked"]
    <3>1. node[Prepare] = "succeeded" => node'[Prepare] = "succeeded"
      BY <1>0, <2>5 DEF NodeRow, Prepare
    <3> QED BY <2>1, <2>5, <3>1, NodesOnly
  <2>6. CASE AfterFailure([node EXCEPT !["publish"] = "failed"])
    <3> DEFINE nd == [node EXCEPT !["publish"] = "failed"]
    <3>1. nd \in NodeRow /\ (node[Prepare] = "succeeded" => nd[Prepare] = "succeeded")
      BY <1>0 DEF NodeRow, NodeStates, Prepare
    <3> QED BY <1>0, <2>1, <2>6, <3>1, FailureIsSteady, NodesOnly
  <2> QED BY <1>7, <2>3, <2>4, <2>5, <2>6 DEF PublishEnds
<1> QED BY <1>1, <1>2, <1>3, <1>4, <1>5, <1>6, <1>7 DEF Publisher

(* A rerun of prepare.publication gives up what its generation prepared. *)
LEMMA RerunGoes ==
  ASSUME TypeOK, NEW k \in Keys, NEW nd \in NodeRow, NEW gt, NEW ef \in [Gens -> EffectStates],
         node[Prepare] = "succeeded" => nd[Prepare] = "succeeded", ApplyRerun(k, nd, ef, gt)
  PROVE  PrepareGoes
<1> DEFINE T == {k} \cup Lineage(k)
<1>0. gen[Prepare] \in Gens /\ Prepare \in Keys
  BY GatesAreKeys DEF TypeOK
<1>1. /\ gen'[Prepare] = IF Prepare \in T THEN gen[Prepare] + 1 ELSE gen[Prepare]
      /\ Prepare \notin T => node'[Prepare] = nd[Prepare]
      /\ effect' = EffectsAfterRerun(T, ef)
  BY <1>0 DEF ApplyRerun
<1> HIDE DEF T
<1>2. CASE Prepare \in T
  <2>1. effect'[gen[Prepare]] \notin Undecided
    BY <1>0, <1>1, <1>2 DEF EffectsAfterRerun, GivesUp, Prepare, Undecided
  <2> QED BY <1>1, <1>2, <2>1 DEF PrepareGoes
<1>3. CASE Prepare \notin T
  BY <1>1, <1>3 DEF PrepareGoes
<1> QED BY <1>2, <1>3

LEMMA OperatorIsSteady ==
  ASSUME TypeOK, WorkInv, Operator
  PROVE  Steady
<1>0. node \in NodeRow /\ Prepare \in Keys
  BY GatesAreKeys DEF TypeOK, NodeRow
<1>1. EffectsGo
  BY OperatorIsQuiet, MovesGo DEF Quiet
<1>2. RunGoes
  <2>1. run' = "published" => run = "published"
    BY DEF Operator, RerunNode, RetryFailedNode, Approve, Deny, Restart, ResolveFix, CancelRun,
           PauseRun, ResumeRun, ApplyRerun
  <2> QED BY <2>1 DEF RunGoes
<1>3. PrepareGoes
  <2>1. ASSUME NEW k \in Keys, RerunNode(k) PROVE PrepareGoes
    <3>1. ApplyRerun(k, node, effect, gate) /\ effect \in [Gens -> EffectStates]
      BY <2>1 DEF RerunNode, TypeOK
    <3> QED BY <1>0, <3>1, RerunGoes
  <2>2. ASSUME NEW k \in Keys, RetryFailedNode(k) PROVE PrepareGoes
    <3>1. gen' = gen /\ node[k] = "failed" /\ node' = [node EXCEPT ![k] = "ready"]
      BY <2>2 DEF RetryFailedNode
    <3> QED BY <1>0, <3>1 DEF PrepareGoes, NodeRow
  <2>3. ASSUME NEW e \in Gens, Approve(e) \/ Deny(e) PROVE PrepareGoes
    <3>1. /\ gen' = gen
          /\ node' = Unlock(Decided("gate.publication")) \/ node' = Decided("gate.publication")
      BY <2>3 DEF Approve, Deny
    <3> DEFINE nd == Decided("gate.publication")
    <3>2. nd \in NodeRow /\ (node[Prepare] = "succeeded" => nd[Prepare] = "succeeded")
      BY <1>0, DecidedRow
    <3>3. gen' = gen /\ (node' = Unlock(nd) \/ node' = nd)
      BY <3>1
    <3> HIDE DEF nd
    <3>4. nd[Prepare] = "succeeded" => Unlock(nd)[Prepare] = "succeeded"
      BY <1>0, <3>2, UnlockRow
    <3> QED BY <3>2, <3>3, <3>4 DEF PrepareGoes
  <2>4. ASSUME NEW e \in Gens, NEW d \in {"approve", "revise"}, Restart(e, d) PROVE PrepareGoes
    <3> DEFINE ef == [effect EXCEPT ![e] = IF @ \in {"prepared", "candidate_ready", "conflict"}
                                           THEN "cancelled" ELSE @]
               gt == [gate EXCEPT ![e] = IF d = "approve" THEN "approved" ELSE "declined"]
    <3>1. ApplyRerun("write.root", Decided("gate.publication"), ef, gt)
      BY <2>4 DEF Restart
    <3>2. ef \in [Gens -> EffectStates]
      BY DEF TypeOK, EffectStates
    <3> HIDE DEF ef, gt
    <3> QED BY <1>0, <3>1, <3>2, RerunGoes, DecidedRow, GatesAreKeys
  <2>5. ASSUME NEW x \in fixGates, NEW d \in {"pass", "deny fix", "revise fix"}, ResolveFix(x, d)
        PROVE  PrepareGoes
    <3>1. "gate.fix" \in Keys /\ "gate.fix" # Prepare /\ gen \in [Keys -> Gens]
      BY KeyNames DEF Prepare, TypeOK
    <3>2. \/ gen' = gen
          \/ gen' = [gen EXCEPT !["gate.fix"] = @ + 1]
      BY <2>5 DEF ResolveFix
    <3>3. \/ node' = Unlock(Decided("gate.fix"))
          \/ node' = Decided("gate.fix")
          \/ node' = [node EXCEPT !["gate.fix"] = "waiting"]
      BY <2>5 DEF ResolveFix
    <3>4. gen'[Prepare] = gen[Prepare]
      BY <1>0, <3>1, <3>2
    <3>5. node[Prepare] = "succeeded" => node'[Prepare] = "succeeded"
      <4>1. CASE node' = [node EXCEPT !["gate.fix"] = "waiting"]
        BY <1>0, <3>1, <4>1 DEF NodeRow
      <4>2. CASE node' = Unlock(Decided("gate.fix")) \/ node' = Decided("gate.fix")
        <5> DEFINE nd == Decided("gate.fix")
        <5>1. nd \in NodeRow /\ (node[Prepare] = "succeeded" => nd[Prepare] = "succeeded")
          BY <1>0, DecidedRow
        <5>2. node' = Unlock(nd) \/ node' = nd
          BY <4>2
        <5> HIDE DEF nd
        <5>3. nd[Prepare] = "succeeded" => Unlock(nd)[Prepare] = "succeeded"
          BY <1>0, <5>1, UnlockRow
        <5> QED BY <5>1, <5>2, <5>3
      <4> QED BY <3>3, <4>1, <4>2
    <3> QED BY <3>4, <3>5 DEF PrepareGoes
  <2>6. ASSUME CancelRun \/ PauseRun \/ ResumeRun PROVE PrepareGoes
    BY <1>0, <2>6 DEF CancelRun, PauseRun, ResumeRun, PrepareGoes, graphVars
  <2> QED BY <2>1, <2>2, <2>3, <2>4, <2>5, <2>6 DEF Operator
<1> QED BY <1>1, <1>2, <1>3 DEF Steady

LEMMA OwnerIsSteady ==
  ASSUME TypeOK, Owner
  PROVE  Steady
<1>0. Prepare \in Keys
  BY GatesAreKeys
<1>1. ASSUME Crash \/ Closed PROVE Steady
  BY <1>1, NodesOnly DEF Crash, Closed, runVars, graphVars, effectVars
<1>2. ASSUME Close PROVE Steady
  <2>1. /\ UNCHANGED <<gen, effect>> /\ node' = Interrupted
        /\ run' = "published" => run = "published"
    BY <1>2 DEF Close, effectVars
  <2> QED BY <1>0, <2>1, NodesOnly DEF Interrupted
<1>3. ASSUME Recover PROVE Steady
  <2>1. gen' = gen /\ node' = Interrupted
    BY <1>3 DEF Recover
  <2>2. EffectsGo
    BY <1>3 DEF Recover, EffectsGo, Undecided, Final
  <2>3. PrepareGoes
    BY <1>0, <2>1 DEF PrepareGoes, Interrupted
  <2>4. RunGoes
    <3> DEFINE swapped == {g \in Gens : effect[g] = "applying" /\ live = <<"run", g>>}
    <3>1. PICK lost \in SUBSET {g \in Gens : effect[g] = "applying"} :
             /\ \A g \in swapped \ lost : effect'[g] = "applied"
             /\ run' = "published" => run = "published" \/ swapped \ lost # {}
      BY <1>3 DEF Recover
    <3> QED BY <3>1 DEF RunGoes
  <2> QED BY <2>2, <2>3, <2>4 DEF Steady
<1> QED BY <1>1, <1>2, <1>3 DEF Owner

(* Every step is steady, except the one that makes a new candidate. *)
LEMMA StepIsSteady ==
  ASSUME TypeOK, WorkInv, [Next]_vars, ~PrepareSucceeds
  PROVE  Steady
<1>1. CASE UNCHANGED vars
  BY <1>1, NodesOnly DEF vars, runVars, graphVars, effectVars
<1>2. ASSUME Foreign PROVE Steady
  BY <1>2, NodesOnly DEF Foreign, runVars, graphVars, effectVars
<1>3. ASSUME Next PROVE Steady
  BY <1>2, <1>3, SchedulerIsSteady, AttemptIsSteady, PublisherIsSteady, OperatorIsSteady,
     OwnerIsSteady DEF Next, Scheduler
<1> QED BY <1>1, <1>3

(* A new candidate is the first of its generation. *)
LEMMA PrepareIsNew ==
  ASSUME TypeOK, PreparedOnce, PrepareSucceeds
  PROVE  /\ gen[Prepare] \in Gens /\ effect[gen[Prepare]] = "none"
         /\ effect'[gen[Prepare]] = "prepared" /\ gen' = gen /\ node'[Prepare] = "succeeded"
         /\ \A g \in Gens : g # gen[Prepare] => effect'[g] = effect[g]
         /\ run' = "waiting_for_operator"
<1> DEFINE g == gen[Prepare]
<1>0. g \in Gens /\ Prepare \in Keys /\ node \in NodeRow
  BY GatesAreKeys DEF TypeOK, NodeRow
<1>1. effect[g] = "none"
  <2>1. node[Prepare] = "running"
    BY DEF PrepareSucceeds, Finishing, Prepare
  <2>2. ~(g < g)
    BY <1>0, BoundsAssumption DEF Gens
  <2> QED BY <1>0, <2>1, <2>2 DEF PreparedOnce
<1>2. /\ effect' = [effect EXCEPT ![g] = "prepared"] /\ gen' = gen /\ run' = "waiting_for_operator"
  BY DEF PrepareSucceeds, Prepare
<1>3. node'[Prepare] = "succeeded"
  BY <1>0 DEF PrepareSucceeds, Prepare, NodeRow
<1> HIDE DEF g
<1>4. effect'[g] = "prepared" /\ \A h \in Gens : h # g => effect'[h] = effect[h]
  BY <1>0, <1>2 DEF TypeOK
<1> QED BY <1>0, <1>1, <1>2, <1>3, <1>4 DEF g

LEMMA EarlierIsEarlier ==
  ASSUME NEW n \in Gens, NEW g \in Gens, g < n \/ g = n
  PROVE  g < n + 1
  BY BoundsAssumption DEF Gens

LEMMA SteadyKeeps ==
  ASSUME IInv, Steady
  PROVE  PreparedOnce' /\ CandidateIsCurrent' /\ PublishedWasApplied'
<1>0. gen[Prepare] \in Gens
  BY GatesAreKeys DEF IInv, TypeOK
<1>1. PreparedOnce'
  <2> SUFFICES ASSUME NEW g \in Gens, effect'[g] # "none"
               PROVE  g < gen'[Prepare] \/ (g = gen'[Prepare] /\ node'[Prepare] = "succeeded")
    BY DEF PreparedOnce
  <2>1. g < gen[Prepare] \/ (g = gen[Prepare] /\ node[Prepare] = "succeeded")
    BY DEF Steady, EffectsGo, IInv, PreparedOnce
  <2>2. CASE gen'[Prepare] = gen[Prepare]
    <3>1. gen[Prepare] # gen[Prepare] + 1
      BY <1>0, BoundsAssumption DEF Gens
    <3> QED BY <2>1, <2>2, <3>1 DEF Steady, PrepareGoes
  <2>3. CASE gen'[Prepare] = gen[Prepare] + 1
    BY <1>0, <2>1, <2>3, EarlierIsEarlier
  <2> QED BY <2>2, <2>3 DEF Steady, PrepareGoes
<1>2. CandidateIsCurrent'
  <2> SUFFICES ASSUME NEW g \in Gens, effect'[g] \in Undecided PROVE g = gen'[Prepare]
    BY DEF CandidateIsCurrent, Undecided, Prepare
  <2>1. g = gen[Prepare]
    BY DEF Steady, EffectsGo, Undecided, IInv, CandidateIsCurrent, Prepare
  <2> QED BY <2>1 DEF Steady, PrepareGoes
<1>3. PublishedWasApplied'
  BY DEF Steady, RunGoes, EffectsGo, Final, IInv, PublishedWasApplied
<1> QED BY <1>1, <1>2, <1>3

LEMMA PrepareKeepsOrder ==
  ASSUME IInv, PrepareSucceeds
  PROVE  PreparedOnce' /\ CandidateIsCurrent' /\ PublishedWasApplied'
<1>1. PreparedOnce'
  BY PrepareIsNew DEF IInv, PreparedOnce
<1>2. CandidateIsCurrent'
  BY PrepareIsNew DEF IInv, CandidateIsCurrent, Prepare
<1>3. PublishedWasApplied'
  BY PrepareIsNew DEF IInv, PublishedWasApplied
<1> QED BY <1>1, <1>2, <1>3

LEMMA InvInit == Init => IInv
<1> SUFFICES ASSUME Init PROVE IInv
  OBVIOUS
<1>1. /\ \A g \in Gens : effect[g] = "none" /\ base[g] = <<"foreign", 0>>
      /\ \A a \in Workers : worker[a].step = "none"
      /\ live = <<"foreign", 0>> /\ owner = "up" /\ run = "active"
  BY DEF Init, Idle
<1>2. BasesAreOlder /\ WorkersFit /\ OneApplies /\ NoDriftBeside
  BY <1>1 DEF BasesAreOlder, WorkersFit, WorkerFits, OneApplies, NoDriftBeside
<1>3. SwapIsRecorded /\ LiveIsAccounted
  BY <1>1 DEF SwapIsRecorded, LiveIsAccounted
<1>4. PreparedOnce /\ CandidateIsCurrent /\ PublishedWasApplied
  BY <1>1 DEF PreparedOnce, CandidateIsCurrent, PublishedWasApplied
<1> QED BY <1>2, <1>3, <1>4, InitType DEF IInv, WorkInv

LEMMA InvStep == IInv /\ [Next]_vars => IInv'
<1> SUFFICES ASSUME IInv, [Next]_vars PROVE IInv'
  OBVIOUS
<1>1. TypeOK /\ WorkInv /\ PreparedOnce
  BY DEF IInv
<1>2. TypeOK' /\ WorkInv'
  BY <1>1, TypeStep, WorkStep
<1>3. PreparedOnce' /\ CandidateIsCurrent' /\ PublishedWasApplied'
  BY <1>1, StepIsSteady, SteadyKeeps, PrepareKeepsOrder
<1> QED BY <1>2, <1>3 DEF IInv

-----------------------------------------------------------------------------
(* A run publishes only the candidate of its current generation, owns up to *)
(* the Wiki it has put in place, and says published only of an effect that  *)
(* was applied, however reruns, pauses, crashes, conflicts and publications *)
(* of others fall between the steps of its workers (publication-effect.ts,  *)
(* publication-control.ts, mechanical-phases.ts).                           *)
THEOREM Accounted == Spec => []CandidateIsAccounted
<1>1. IInv => CandidateIsAccounted
  BY DEF IInv, WorkInv, CandidateIsAccounted
<1> QED BY <1>1, InvInit, InvStep, PTL DEF Spec

(* What an effect came to is never taken back, and a run whose cancellation *)
(* was accepted begins no apply: the guarded UPDATEs of publication-effect  *)
(* hold although workers that lost their lease go on.                       *)
THEOREM DecisionsFinal == Spec => DecisionsAreFinal
<1> DEFINE Kept == \A g \in Gens :
              /\ effect[g] \in {"cancelled", "applied", "failed", "unknown"} => effect'[g] = effect[g]
              /\ cancelRequested /\ effect'[g] = "applying" => effect[g] = "applying"
<1>1. IInv /\ [Next]_vars => Kept
  <2> SUFFICES ASSUME IInv, [Next]_vars PROVE Kept
    OBVIOUS
  <2>1. CASE PrepareSucceeds
    BY <2>1, PrepareIsNew DEF IInv
  <2>2. CASE ~PrepareSucceeds
    BY <2>2, StepIsSteady DEF IInv, Steady, EffectsGo, Final
  <2> QED BY <2>1, <2>2
<1>2. IInv /\ [Next]_vars => [Kept]_vars
  BY <1>1
<1> HIDE DEF Kept
<1>3. Spec => [][Kept]_vars
  BY <1>2, InvInit, InvStep, PTL DEF Spec
<1> QED BY <1>3 DEF DecisionsAreFinal, Kept

(* ADR 0035, as far as it is true: as long as no apply fails after its swap, *)
(* the Wiki of the run itself is in conflict with nothing.                   *)
THEOREM OwnWikiStands ==
  ASSUME ~LateErrors
  PROVE  Spec => []OwnWikiIsNoConflict
<1>1. IInv => OwnWikiIsNoConflict
  BY DEF IInv, WorkInv, LiveIsAccounted, Misjudged, OwnWikiIsNoConflict
<1> QED BY <1>1, InvInit, InvStep, PTL DEF Spec
=============================================================================
