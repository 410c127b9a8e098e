------------------------- MODULE EvaluationRoundProofs -------------------------
(* Proofs about EvaluationRound: the budgets for every policy and any number *)
(* of reruns; and, as long as the Writer is not rerun, that a round is about *)
(* one Wiki, stays within the cap and never ends without a way on.           *)
EXTENDS EvaluationRound, TLAPS, FiniteSetTheorems

-----------------------------------------------------------------------------
(* Types.                                                                    *)

Artifacts == Wikis \cup Receipts
RowsSet == [node : [Keys -> NodeStates], in : [Keys -> SUBSET Artifacts],
            out : [Keys -> SUBSET Artifacts], last : [Keys -> SUBSET Artifacts],
            gates : SUBSET Receipts]
Requests == [source : {"semantic", "mechanical"}, up : {"write", "reduce"},
             report : SUBSET Receipts, baseline : Wikis]
RecoverySet == [state : {"none", "open", "outdated", "continued"},
                source : {"none", "semantic", "mechanical"}, request : SUBSET Requests]

-----------------------------------------------------------------------------
(* What the helpers change, field by field.                                  *)

LEMMA ClaimedFields ==
  ASSUME rows \in RowsSet, NEW k \in Keys, Mounted(rows, k) \in SUBSET Artifacts
  PROVE  /\ Claimed(k) \in RowsSet
         /\ Claimed(k).node = [rows.node EXCEPT ![k] = "running"]
         /\ Claimed(k).in = [rows.in EXCEPT ![k] = IF @ = {} THEN Mounted(rows, k) ELSE @]
         /\ Claimed(k).out = rows.out /\ Claimed(k).last = rows.last /\ Claimed(k).gates = rows.gates
  BY DEF Claimed, RowsSet, NodeStates

LEMMA CommittedFields ==
  ASSUME rows \in RowsSet, NEW k \in Keys, NEW S \in SUBSET Artifacts
  PROVE  /\ Committed(k, S) \in RowsSet
         /\ Committed(k, S).node = [rows.node EXCEPT ![k] = "succeeded"]
         /\ Committed(k, S).out = [rows.out EXCEPT ![k] = S]
         /\ Committed(k, S).in = rows.in /\ Committed(k, S).last = rows.last
         /\ Committed(k, S).gates = rows.gates
  BY DEF Committed, RowsSet, NodeStates

LEMMA FailedFields ==
  ASSUME rows \in RowsSet, NEW k \in Keys
  PROVE  /\ Failed(k) \in RowsSet
         /\ Failed(k).node = [rows.node EXCEPT ![k] = "failed"]
         /\ Failed(k).in = rows.in /\ Failed(k).out = rows.out /\ Failed(k).last = rows.last
         /\ Failed(k).gates = rows.gates
  BY DEF Failed, RowsSet, NodeStates

LEMMA RefusedFields ==
  ASSUME rows \in RowsSet, NEW k \in Keys, Version(rows.in[k]) \in Versions
  PROVE  /\ Refused(k) \in RowsSet
         /\ Refused(k).node = [rows.node EXCEPT ![k] = "failed"]
         /\ Refused(k).out = [rows.out EXCEPT ![k] = {<<"report", Version(rows.in[k])>>}]
         /\ Refused(k).in = rows.in /\ Refused(k).last = rows.last /\ Refused(k).gates = rows.gates
<1> DEFINE r == <<"report", Version(rows.in[k])>>
<1>1. {r} \in SUBSET Artifacts
  BY DEF Artifacts, Receipts
<1> HIDE DEF r
<1> QED BY <1>1, FailedFields DEF Refused, RowsSet, r

LEMMA AutoPassedFields ==
  ASSUME NEW d \in RowsSet
  PROVE  /\ AutoPassed(d) \in RowsSet
         /\ AutoPassed(d).node = [d.node EXCEPT !["fix"] =
               IF @ \in {"blocked", "waiting", "ready", "running"} THEN "succeeded" ELSE @]
         /\ AutoPassed(d).in = d.in /\ AutoPassed(d).out = d.out /\ AutoPassed(d).last = d.last
         /\ AutoPassed(d).gates = d.gates
  BY DEF AutoPassed, RowsSet, NodeStates, Keys, Core

LEMMA AskedFields ==
  ASSUME NEW d \in RowsSet, Kind("defects", Reduced) \in SUBSET Receipts
  PROVE  /\ Asked(d) \in RowsSet
         /\ Asked(d).node = [d.node EXCEPT !["fix"] = "waiting"]
         /\ Asked(d).gates = d.gates \cup Kind("defects", Reduced)
         /\ Asked(d).in = d.in /\ Asked(d).out = d.out /\ Asked(d).last = d.last
  BY DEF Asked, RowsSet, NodeStates, Keys, Core

LEMMA ResolvedFields ==
  ASSUME rows \in RowsSet, NEW g
  PROVE  /\ Resolved(g) \in RowsSet
         /\ Resolved(g).node = [rows.node EXCEPT !["fix"] =
               IF @ \in {"waiting", "ready", "running"} THEN "succeeded" ELSE @]
         /\ Resolved(g).gates = rows.gates \ {g}
         /\ Resolved(g).in = rows.in /\ Resolved(g).out = rows.out /\ Resolved(g).last = rows.last
  BY DEF Resolved, RowsSet, NodeStates, Keys, Core

LEMMA DemotedFields ==
  ASSUME NEW d \in RowsSet, NEW k \in Keys, NEW to \in NodeStates
  PROVE  /\ Demoted(d, k, to) \in RowsSet
         /\ Demoted(d, k, to).node = [d.node EXCEPT ![k] = IF @ = "ready" THEN to ELSE @]
         /\ Demoted(d, k, to).in = d.in /\ Demoted(d, k, to).out = d.out
         /\ Demoted(d, k, to).last = d.last /\ Demoted(d, k, to).gates = d.gates
  BY DEF Demoted, RowsSet

LEMMA BumpFields ==
  ASSUME NEW d \in RowsSet, NEW k \in Keys
  PROVE  /\ Bump(d, k, {}) \in RowsSet
         /\ Bump(d, k, {}).node = [d.node EXCEPT ![k] = "ready"]
         /\ Bump(d, k, {}).in = [d.in EXCEPT ![k] = {}]
         /\ Bump(d, k, {}).out = [d.out EXCEPT ![k] = {}]
         /\ Bump(d, k, {}).last = [d.last EXCEPT ![k] = LatestOut(d, k)]
         /\ Bump(d, k, {}).gates = IF k = "fix" THEN {} ELSE d.gates
<1>1. \A x \in Keys : LatestOut(d, x) \in SUBSET Artifacts
  BY DEF LatestOut, RowsSet
<1> QED BY <1>1 DEF Bump, RowsSet, NodeStates

LEMMA UnlockFields ==
  ASSUME NEW d \in RowsSet, NEW rs
  PROVE  /\ Unlock(d, rs) \in RowsSet
         /\ \A k \in Keys : Unlock(d, rs).node[k] =
               IF d.node[k] \in {"blocked", "invalidated"} /\ k # "fix" /\ UpstreamsSucceeded(d, rs, k)
               THEN "ready" ELSE d.node[k]
         /\ Unlock(d, rs).in = d.in /\ Unlock(d, rs).out = d.out /\ Unlock(d, rs).last = d.last
         /\ Unlock(d, rs).gates = d.gates
  BY DEF Unlock, RowsSet, NodeStates

(* A node whose outputs nobody has mounted has no lineage.                   *)
LEMMA NoConsumers ==
  ASSUME NEW d, NEW k \in Keys, \A c \in Keys : d.out[k] \cap d.in[c] = {}
  PROVE  Lineage(d, k) = {}
<1>1. {k} \in SUBSET Keys /\ k \in {k}
      /\ \A u \in {k}, c \in Keys : d.out[u] \cap d.in[c] # {} => c \in {k}
  OBVIOUS
<1> QED BY <1>1 DEF Lineage

LEMMA ReadyFields ==
  ASSUME NEW d \in RowsSet, NEW k \in Keys
  PROVE  LET e == [d EXCEPT !.node[k] = "ready"] IN
         /\ e \in RowsSet /\ e.node = [d.node EXCEPT ![k] = "ready"]
         /\ e.in = d.in /\ e.out = d.out /\ e.last = d.last /\ e.gates = d.gates
  BY DEF RowsSet, NodeStates

(* rearmEvaluationRoundAfterRepair: the round starts again at its validation. *)
LEMMA RearmedFields ==
  ASSUME NEW d \in RowsSet
  PROVE  /\ Rearmed(d) \in RowsSet
         /\ \A x \in Keys :
               /\ Rearmed(d).node[x] = IF x = "pre" THEN "ready"
                                       ELSE IF x \in {"seat", "reduce"} THEN "invalidated" ELSE d.node[x]
               /\ Rearmed(d).in[x] = IF x \in {"pre", "seat", "reduce"} THEN {} ELSE d.in[x]
               /\ Rearmed(d).out[x] = IF x \in {"pre", "seat", "reduce"} THEN {} ELSE d.out[x]
               /\ x \notin {"pre", "seat", "reduce"} => Rearmed(d).last[x] = d.last[x]
         /\ Rearmed(d).gates = d.gates
<1> DEFINE a == Bump(d, "pre", {})
           b == Bump(a, "seat", {})
           c == Bump(b, "reduce", {})
           e == Demoted(c, "seat", "invalidated")
           f == Demoted(e, "reduce", "invalidated")
<1>k. {"pre", "seat", "reduce"} \subseteq Keys /\ "invalidated" \in NodeStates
  BY DEF Keys, Core, NodeStates
<1>0. Rearmed(d) = f
  BY DEF Rearmed, RerunSelf
<1>1. /\ a \in RowsSet
      /\ a.node = [d.node EXCEPT !["pre"] = "ready"] /\ a.in = [d.in EXCEPT !["pre"] = {}]
      /\ a.out = [d.out EXCEPT !["pre"] = {}] /\ a.last = [d.last EXCEPT !["pre"] = LatestOut(d, "pre")]
      /\ a.gates = d.gates
  BY <1>k, BumpFields
<1> HIDE DEF a
<1>2. /\ b \in RowsSet
      /\ b.node = [a.node EXCEPT !["seat"] = "ready"] /\ b.in = [a.in EXCEPT !["seat"] = {}]
      /\ b.out = [a.out EXCEPT !["seat"] = {}] /\ b.last = [a.last EXCEPT !["seat"] = LatestOut(a, "seat")]
      /\ b.gates = a.gates
  BY <1>1, <1>k, BumpFields
<1> HIDE DEF b
<1>3. /\ c \in RowsSet
      /\ c.node = [b.node EXCEPT !["reduce"] = "ready"] /\ c.in = [b.in EXCEPT !["reduce"] = {}]
      /\ c.out = [b.out EXCEPT !["reduce"] = {}]
      /\ c.last = [b.last EXCEPT !["reduce"] = LatestOut(b, "reduce")]
      /\ c.gates = b.gates
  BY <1>2, <1>k, BumpFields
<1> HIDE DEF c
<1>4. /\ e \in RowsSet
      /\ e.node = [c.node EXCEPT !["seat"] = IF @ = "ready" THEN "invalidated" ELSE @]
      /\ e.in = c.in /\ e.out = c.out /\ e.last = c.last /\ e.gates = c.gates
  BY <1>3, <1>k, DemotedFields
<1> HIDE DEF e
<1>5. /\ f \in RowsSet
      /\ f.node = [e.node EXCEPT !["reduce"] = IF @ = "ready" THEN "invalidated" ELSE @]
      /\ f.in = e.in /\ f.out = e.out /\ f.last = e.last /\ f.gates = e.gates
  BY <1>4, <1>k, DemotedFields
<1> HIDE DEF f
<1> QED
  BY <1>0, <1>1, <1>2, <1>3, <1>4, <1>5, <1>k DEF RowsSet

(* scheduleRepair, where nobody has mounted what the final validation left.   *)
NextKey == RepairKeys[Len(repairs) + 1]
Rerun(failed) == {"fix", "final"} \cup (IF failed \in Keys THEN {failed} ELSE {})
LEMMA ScheduledFields ==
  ASSUME NEW d \in RowsSet, NEW request, NEW failed, NextKey \in Repairs,
         Repairs \cap (Core \cup {"none"}) = {},
         failed \in {"pre", "final", "none"}, d.out["fix"] = {},
         \A c \in Keys \ {"fix"} : d.out["final"] \cap d.in[c] = {}
  PROVE  LET s == Scheduled(d, request, failed) IN
         /\ s \in RowsSet
         /\ \A x \in Keys :
               /\ s.node[x] = IF x = NextKey THEN "ready"
                              ELSE IF x = "fix" THEN "blocked"
                              ELSE IF x = failed THEN "ready"
                              ELSE IF x = "final" THEN "blocked" ELSE d.node[x]
               /\ s.in[x] = IF x \in Rerun(failed) THEN {} ELSE d.in[x]
               /\ s.out[x] = IF x \in Rerun(failed) THEN {} ELSE d.out[x]
               /\ x \notin Rerun(failed) => s.last[x] = d.last[x]
         /\ s.gates = {}
<1> DEFINE a == [d EXCEPT !.node[NextKey] = "ready"]
           b == Bump(a, "fix", {})
           c == Demoted(b, "fix", "blocked")
           e == Bump(c, "final", {})
           f == Demoted(e, "final", "blocked")
           g == Bump(f, failed, {})
<1>k. /\ {"pre", "fix", "final"} \subseteq Keys /\ NextKey \in Keys /\ "blocked" \in NodeStates
      /\ "none" \notin Keys /\ NextKey \notin {"pre", "fix", "final", "none"}
  BY DEF Keys, Core, NodeStates
<1> HIDE DEF NextKey
<1>1. /\ a \in RowsSet /\ a.node = [d.node EXCEPT ![NextKey] = "ready"]
      /\ a.in = d.in /\ a.out = d.out /\ a.last = d.last /\ a.gates = d.gates
  BY <1>k, ReadyFields
<1> HIDE DEF a
<1>b. RerunAt(a, "fix") = b
  BY <1>1, <1>k, NoConsumers DEF RerunAt
<1>2. /\ b \in RowsSet
      /\ b.node = [a.node EXCEPT !["fix"] = "ready"] /\ b.in = [a.in EXCEPT !["fix"] = {}]
      /\ b.out = [a.out EXCEPT !["fix"] = {}] /\ b.last = [a.last EXCEPT !["fix"] = LatestOut(a, "fix")]
      /\ b.gates = {}
  BY <1>1, <1>k, BumpFields
<1> HIDE DEF b
<1>3. /\ c \in RowsSet
      /\ c.node = [b.node EXCEPT !["fix"] = IF @ = "ready" THEN "blocked" ELSE @]
      /\ c.in = b.in /\ c.out = b.out /\ c.last = b.last /\ c.gates = b.gates
  BY <1>2, <1>k, DemotedFields
<1> HIDE DEF c
<1>e. RerunAt(c, "final") = e
  <2>1. \A x \in Keys : c.out["final"] \cap c.in[x] = {}
    BY <1>1, <1>2, <1>3, <1>k DEF RowsSet
  <2> QED BY <2>1, <1>k, NoConsumers DEF RerunAt
<1>4. /\ e \in RowsSet
      /\ e.node = [c.node EXCEPT !["final"] = "ready"] /\ e.in = [c.in EXCEPT !["final"] = {}]
      /\ e.out = [c.out EXCEPT !["final"] = {}] /\ e.last = [c.last EXCEPT !["final"] = LatestOut(c, "final")]
      /\ e.gates = c.gates
  BY <1>3, <1>k, BumpFields
<1> HIDE DEF e
<1>5. /\ f \in RowsSet
      /\ f.node = [e.node EXCEPT !["final"] = IF @ = "ready" THEN "blocked" ELSE @]
      /\ f.in = e.in /\ f.out = e.out /\ f.last = e.last /\ f.gates = e.gates
  BY <1>4, <1>k, DemotedFields
<1> HIDE DEF f
<1>6. Scheduled(d, request, failed) = IF failed \in Keys THEN g ELSE f
  BY <1>b, <1>e DEF Scheduled, RerunSelf, NextKey, a, c, f
<1>7. CASE failed \in Keys
  <2>1. /\ g \in RowsSet
        /\ g.node = [f.node EXCEPT ![failed] = "ready"] /\ g.in = [f.in EXCEPT ![failed] = {}]
        /\ g.out = [f.out EXCEPT ![failed] = {}] /\ g.last = [f.last EXCEPT ![failed] = LatestOut(f, failed)]
        /\ g.gates = f.gates
    BY <1>5, <1>7, <1>k, BumpFields
  <2> HIDE DEF g
  <2>2. failed \in {"pre", "final"}
    BY <1>7, <1>k
  <2> QED
    BY <1>1, <1>2, <1>3, <1>4, <1>5, <1>6, <1>7, <1>k, <2>1, <2>2 DEF RowsSet, Rerun
<1>8. CASE failed \notin Keys
  <2>1. failed = "none"
    BY <1>8, <1>k
  <2> HIDE DEF g
  <2> QED
    BY <1>1, <1>2, <1>3, <1>4, <1>5, <1>6, <1>8, <1>k, <2>1 DEF RowsSet, Rerun
<1> QED BY <1>7, <1>8

-----------------------------------------------------------------------------
(* The graph and its keys.                                                   *)

LEMMA KeyFacts ==
  ASSUME Policy
  PROVE  /\ Core \subseteq Keys /\ Repairs \subseteq Keys /\ Repairs \cap Core = {}
         /\ "none" \notin Keys
         /\ Len(RepairKeys) \in Nat /\ DOMAIN RepairKeys = 1 .. Len(RepairKeys)
         /\ \A i \in DOMAIN RepairKeys : RepairKeys[i] \in Repairs
         /\ \A k \in Repairs : \E i \in DOMAIN RepairKeys : k = RepairKeys[i]
         /\ 1 .. (Len(RepairKeys) + 1) \subseteq Versions
<1>1. RepairKeys \in Seq(Repairs) /\ Repairs \cap (Core \cup {"none"}) = {} /\ MaxReruns \in Nat
  BY DEF Policy
<1>2. Len(RepairKeys) \in Nat /\ DOMAIN RepairKeys = 1 .. Len(RepairKeys)
  BY <1>1
<1>3. 1 .. (Len(RepairKeys) + 1) \subseteq Versions
  <2>1. ASSUME NEW a \in Nat, NEW b \in Nat PROVE a <= a * (b + 1) /\ a * (b + 1) \in Nat
    OBVIOUS
  <2>2. Len(RepairKeys) + 1 <= (Len(RepairKeys) + 1) * (MaxReruns + 1)
    BY <1>1, <1>2, <2>1
  <2> QED BY <1>1, <1>2, <2>1, <2>2 DEF Versions
<1>4. \A i \in DOMAIN RepairKeys : RepairKeys[i] \in Repairs
  BY DEF Repairs
<1>5. \A k \in Repairs : \E i \in DOMAIN RepairKeys : k = RepairKeys[i]
  BY DEF Repairs
<1>6. "none" \notin Core
  BY DEF Core
<1> QED BY <1>1, <1>2, <1>3, <1>4, <1>5, <1>6 DEF Keys

LEMMA RequestOf ==
  ASSUME Policy, NEW d, NEW rs \in Seq(Requests), Len(rs) <= Len(RepairKeys), NEW i \in 1 .. Len(rs)
  PROVE  /\ Upstream(d, rs, RepairKeys[i]) = {rs[i].up}
         /\ rs = repairs => Request(RepairKeys[i]) = rs[i]
<1>1. /\ Len(rs) \in Nat /\ DOMAIN rs = 1 .. Len(rs) /\ DOMAIN RepairKeys = 1 .. Len(RepairKeys)
      /\ Len(RepairKeys) \in Nat /\ RepairKeys[i] \in Repairs
  BY KeyFacts
<1>2. \A j \in DOMAIN rs : RepairKeys[j] = RepairKeys[i] => j = i
  BY <1>1 DEF Policy
<1>3. (CHOOSE j \in DOMAIN rs : RepairKeys[j] = RepairKeys[i]) = i
  BY <1>1, <1>2
<1> QED BY <1>1, <1>3 DEF Upstream, Request

LEMMA CoreUpstreams ==
  ASSUME Policy, NEW d, NEW rs
  PROVE  /\ UpstreamsSucceeded(d, rs, "write")
         /\ UpstreamsSucceeded(d, rs, "pre") <=>
               /\ d.node["write"] = "succeeded"
               /\ \A k \in Repairs : d.node[k] \in {"none", "succeeded"}
         /\ UpstreamsSucceeded(d, rs, "seat") <=> d.node["pre"] = "succeeded"
         /\ UpstreamsSucceeded(d, rs, "reduce") <=> d.node["seat"] = "succeeded"
         /\ UpstreamsSucceeded(d, rs, "fix") <=> d.node["reduce"] = "succeeded"
         /\ UpstreamsSucceeded(d, rs, "final") <=> d.node["fix"] = "succeeded"
<1>1. \A k \in Core : k \notin Repairs
  BY KeyFacts
<1>2. /\ CoreUpstream["write"] = {} /\ CoreUpstream["pre"] = {"write"}
      /\ CoreUpstream["seat"] = {"pre"} /\ CoreUpstream["reduce"] = {"seat"}
      /\ CoreUpstream["fix"] = {"reduce"} /\ CoreUpstream["final"] = {"fix"}
  BY DEF CoreUpstream
<1> QED BY <1>1, <1>2 DEF UpstreamsSucceeded, Upstream, Inserted, Core

-----------------------------------------------------------------------------
(* The inductive invariant of a run whose Writer is not rerun: there is one  *)
(* node whose turn it is, what it mounts is known, and all that is current   *)
(* is about the version that was written last.                               *)

Act == {"ready", "running", "failed"}
Locked == {"blocked", "invalidated"}
Trees(n) == {<<"wiki", n, FALSE>>, <<"wiki", n, TRUE>>}
Current == RepairKeys[Len(repairs)]
Repaired == repairs = <<>> \/ rows.node[Current] = "succeeded"
Done(S) == \A k \in S : rows.node[k] = "succeeded"
Rearmable(S) == \A k \in S : rows.node[k] \in Locked /\ rows.in[k] = {}

TypeInv ==
    /\ rows \in RowsSet /\ repairs \in Seq(Requests) /\ Len(repairs) <= Len(RepairKeys)
    /\ recovery \in RecoverySet /\ latest \in Wikis \cup {<<>>} /\ models \in Nat
    /\ run \in {"active", "waiting", "failed"} /\ accepted \subseteq Versions /\ reruns = 0

(* What a node mounts when its turn comes.                                   *)
Base == IF repairs = <<>> THEN rows.out["pre"] ELSE {<<"wiki", models, FALSE>>}
DueSeat == rows.out["pre"] \cup Kind("defects", rows.last["reduce"])
DueReduce == Base \cup rows.out["seat"]
DueRepair(r) == {r.baseline} \cup r.report
                \cup (IF r.up = "reduce" THEN {<<"defects", models>>} ELSE {})
Turn(k, due) ==
    /\ rows.node[k] \in Act
    /\ rows.node[k] = "ready" => rows.in[k] \in {{}, due}
    /\ rows.node[k] \in {"running", "failed"} => rows.in[k] = due
    /\ rows.node[k] = "running" => run = "active"

(* The stages.                                                               *)
TailHeld == /\ rows.node["final"] \in {"blocked", "ready"} /\ rows.in["final"] = {}
            /\ rows.node["fix"] = "blocked" /\ rows.gates = {}
Writing ==
    /\ rows.node["write"] \in Act /\ (rows.node["write"] = "failed" => run = "failed")
    /\ rows.node["write"] = "running" => run = "active"
    /\ \A k \in Core \ {"write"} :
          rows.node[k] = "blocked" /\ rows.in[k] = {} /\ rows.out[k] = {}
    /\ repairs = <<>> /\ rows.gates = {} /\ recovery.state = "none"
UnderRepair ==
    /\ Done({"write"}) /\ ~Repaired /\ TailHeld /\ rows.out["final"] = {}
    /\ models < MaxCandidates /\ recovery.state # "open"
    /\ Turn(Current, DueRepair(repairs[Len(repairs)]))
    /\ \/ Done({"pre", "seat", "reduce"})
       \/ /\ rows.node["pre"] \in {"ready", "failed"} /\ Rearmable({"seat", "reduce"})
          /\ repairs[Len(repairs)].up = "write"
Chain == Done({"write"}) /\ Repaired
Validating == Chain /\ TailHeld /\ Turn("pre", {<<"wiki", models, FALSE>>}) /\ Rearmable({"seat", "reduce"})
Reviewing == Chain /\ TailHeld /\ Done({"pre"}) /\ Turn("seat", DueSeat) /\ Rearmable({"reduce"})
Reducing == Chain /\ TailHeld /\ Done({"pre", "seat"}) /\ Turn("reduce", DueReduce)
Reviewed == Chain /\ Done({"pre", "seat", "reduce"})
Asking ==
    /\ Reviewed /\ rows.node["fix"] = "waiting"
    /\ rows.gates = {<<"defects", models>>} /\ run = "waiting"
    /\ rows.node["final"] \in {"blocked", "ready"} /\ rows.in["final"] = {}
Finishing ==
    /\ Reviewed /\ Done({"fix"}) /\ rows.gates = {} /\ models \in accepted
    /\ Turn("final", Base)
    /\ rows.node["final"] = "failed" => run = "failed"
    /\ rows.node["final"] = "ready" => run = "active"
Finished ==
    /\ Reviewed /\ Done({"fix", "final"}) /\ rows.gates = {} /\ models \in accepted
    /\ rows.in["final"] = Base
Denied ==
    /\ Reviewed /\ Done({"fix"}) /\ rows.gates = {} /\ run = "failed"
    /\ rows.node["final"] \in {"blocked", "ready"} /\ rows.in["final"] = {}
StageInv == \/ Writing \/ UnderRepair \/ Validating \/ Reviewing \/ Reducing
            \/ Asking \/ Finishing \/ Finished \/ Denied

(* What the nodes have sealed.                                               *)
OneTree(S) == \E t \in Trees(models) : S = {t}
OutputsFit ==
    /\ rows.out["write"] = IF Done({"write"}) THEN {<<"wiki", 1, FALSE>>} ELSE {}
    /\ IF Done({"pre"}) THEN OneTree(rows.out["pre"])
       ELSE rows.out["pre"] \subseteq {<<"report", models>>}
    /\ rows.out["seat"] = IF Done({"seat"}) THEN {<<"finding", models>>} ELSE {}
    /\ IF Done({"reduce"})
       THEN \E t \in Trees(models) : rows.out["reduce"] = {<<"defects", models>>, t}
       ELSE rows.out["reduce"] = {}
    /\ rows.out["fix"] = {}
    /\ IF Done({"final"}) THEN OneTree(rows.out["final"])
       ELSE rows.out["final"] \subseteq {<<"report", models>>}
InputsFit == \A k \in Core : \A a \in rows.in[k] : a[1] # "report"

(* The Writer and the repairs, in their order.                               *)
WriterFits ==
    /\ rows.last["write"] = {} /\ rows.in["write"] = {}
    /\ models = IF ~Done({"write"}) THEN 0
                ELSE IF Repaired THEN Len(repairs) + 1 ELSE Len(repairs)
    /\ models <= MaxCandidates
    /\ IF Done({"write"}) THEN latest \in Trees(models) ELSE latest = <<>>
RepairFits(i) ==
    LET k == RepairKeys[i] IN
    /\ rows.last[k] = {}
    /\ \A a \in rows.in[k] : a[2] = i
    /\ rows.out[k] = IF rows.node[k] = "succeeded" THEN {<<"wiki", i + 1, FALSE>>} ELSE {}
    /\ i > Len(repairs) => rows.node[k] = "none" /\ rows.in[k] = {}
    /\ i = Len(repairs) => rows.node[k] \in Act \cup {"succeeded"}
    /\ i < Len(repairs) => rows.node[k] = "succeeded"
RepairsFit == \A i \in DOMAIN RepairKeys : RepairFits(i)

(* Requests, also the one a recovery waits to continue.                      *)
RequestFits(r, n) == /\ r.baseline \in Trees(n) /\ r.report \subseteq {<<"report", n>>}
                     /\ r.up = IF r.source = "semantic" THEN "reduce" ELSE "write"
RequestsFit == \A i \in DOMAIN repairs : RequestFits(repairs[i], i)
RecoveryFits ==
    recovery.state = "open" =>
    /\ ~InBudget(recovery.source)
    /\ \E r \in Requests :
          /\ recovery.request = {r} /\ recovery.source = r.source /\ RequestFits(r, models)
          /\ IF r.up = "reduce" THEN Denied ELSE Validating \/ Finishing

IInv == /\ TypeInv /\ StageInv /\ OutputsFit /\ InputsFit /\ WriterFits /\ RepairsFit
        /\ RequestsFit /\ RecoveryFits

LEMMA InitInv == ASSUME Policy, Init PROVE IInv
<1>k. /\ Core \subseteq Keys /\ Repairs \subseteq Keys /\ Repairs \cap Core = {}
      /\ \A i \in DOMAIN RepairKeys : RepairKeys[i] \in Repairs /\ i \in Nat /\ i > 0
      /\ Len(RepairKeys) \in Nat
  BY KeyFacts
<1>1. /\ \A x \in Keys : /\ rows.node[x] = IF x \in Repairs THEN "none"
                                           ELSE IF x = "write" THEN "ready" ELSE "blocked"
                         /\ rows.in[x] = {} /\ rows.out[x] = {} /\ rows.last[x] = {}
      /\ rows.gates = {}
  BY DEF Init
<1>2. /\ repairs = <<>> /\ Len(repairs) = 0 /\ latest = <<>> /\ models = 0
      /\ recovery.state = "none" /\ run = "active" /\ accepted = {} /\ reruns = 0
  BY DEF Init, NoRecovery
<1>3. TypeInv
  <2>1. rows \in RowsSet
    BY <1>k DEF Init, RowsSet, NodeStates
  <2>2. repairs \in Seq(Requests)
    BY <1>2
  <2>3. recovery \in RecoverySet
    BY DEF Init, NoRecovery, RecoverySet
  <2> QED BY <1>2, <1>k, <2>1, <2>2, <2>3 DEF TypeInv
<1>4. Core \subseteq Keys /\ \A x \in Core : x \notin Repairs
  BY <1>k
<1>5. Writing
  BY <1>1, <1>2, <1>4 DEF Writing, Act, Core
<1>6. OutputsFit /\ InputsFit
  BY <1>1, <1>4 DEF OutputsFit, InputsFit, Done, Core
<1>7. WriterFits
  BY <1>1, <1>2, <1>4 DEF WriterFits, Done, Core, Policy
<1>8. RepairsFit
  <2> SUFFICES ASSUME NEW i \in DOMAIN RepairKeys PROVE RepairFits(i)
    BY DEF RepairsFit
  <2>1. RepairKeys[i] \in Repairs /\ RepairKeys[i] \in Keys /\ i \in Nat /\ i > 0
    BY <1>k
  <2>2. /\ rows.node[RepairKeys[i]] = "none" /\ rows.in[RepairKeys[i]] = {}
        /\ rows.out[RepairKeys[i]] = {} /\ rows.last[RepairKeys[i]] = {}
    BY <1>1, <2>1
  <2>3. i > Len(repairs) /\ ~(i = Len(repairs)) /\ ~(i < Len(repairs))
    BY <1>2, <2>1
  <2> QED BY <2>2, <2>3 DEF RepairFits
<1>9. RequestsFit /\ RecoveryFits
  BY <1>2 DEF RequestsFit, RecoveryFits
<1> QED BY <1>3, <1>5, <1>6, <1>7, <1>8, <1>9 DEF IInv, StageInv

-----------------------------------------------------------------------------
(* What is mounted in each stage.                                            *)

LEMMA WikiType ==
  ASSUME NEW n \in Versions, NEW b \in BOOLEAN PROVE <<"wiki", n, b>> \in Wikis
  BY Zenon DEF Wikis

LEMMA Numbers ==
  ASSUME Policy, IInv
  PROVE  /\ Len(repairs) \in Nat /\ DOMAIN repairs = 1 .. Len(repairs)
         /\ Len(repairs) <= Len(RepairKeys) /\ Len(RepairKeys) \in Nat
         /\ repairs = <<>> <=> Len(repairs) = 0
         /\ repairs # <<>> => /\ Len(repairs) \in DOMAIN RepairKeys /\ Len(repairs) \in DOMAIN repairs
                              /\ Current \in Repairs /\ Current \in Keys /\ Current \notin Core
                              /\ repairs[Len(repairs)] \in Requests
         /\ Done({"write"}) => /\ models \in Versions /\ models > 0
                               /\ Trees(models) \subseteq Wikis
<1>1. repairs \in Seq(Requests) /\ Len(repairs) <= Len(RepairKeys)
  BY DEF IInv, TypeInv
<1>2. Len(repairs) \in Nat /\ DOMAIN repairs = 1 .. Len(repairs) /\ (repairs = <<>> <=> Len(repairs) = 0)
  BY <1>1
<1>3. /\ Len(RepairKeys) \in Nat /\ DOMAIN RepairKeys = 1 .. Len(RepairKeys)
      /\ \A i \in DOMAIN RepairKeys : RepairKeys[i] \in Repairs
      /\ Repairs \subseteq Keys /\ Repairs \cap Core = {}
      /\ 1 .. (Len(RepairKeys) + 1) \subseteq Versions
  BY KeyFacts
<1>4. repairs # <<>> => /\ Len(repairs) \in DOMAIN RepairKeys /\ Len(repairs) \in DOMAIN repairs
                        /\ Current \in Repairs /\ Current \in Keys /\ Current \notin Core
                        /\ repairs[Len(repairs)] \in Requests
  BY <1>1, <1>2, <1>3 DEF Current
<1>5. ASSUME Done({"write"}) PROVE models \in Versions /\ models > 0
  <2>1. models = IF Repaired THEN Len(repairs) + 1 ELSE Len(repairs)
    BY <1>5 DEF IInv, WriterFits
  <2>2. ~Repaired => Len(repairs) > 0
    BY <1>2 DEF Repaired
  <2>3. models \in 1 .. (Len(RepairKeys) + 1)
    <3> DEFINE n == Len(repairs)
               m == Len(RepairKeys)
    <3>1. n \in Nat /\ m \in Nat /\ n <= m /\ (~Repaired => n > 0)
      BY <1>1, <1>2, <1>3, <2>2
    <3>2. models = IF Repaired THEN n + 1 ELSE n
      BY <2>1
    <3> HIDE DEF n, m
    <3>3. models \in 1 .. (m + 1)
      BY <3>1, <3>2
    <3> QED BY <3>3 DEF m
  <2> QED BY <1>3, <2>3
<1>6. ASSUME models \in Versions PROVE Trees(models) \subseteq Wikis
  BY <1>6, WikiType DEF Trees
<1> QED BY <1>1, <1>2, <1>3, <1>4, <1>5, <1>6

LEMMA RepairTreeIs ==
  ASSUME Policy, IInv, Chain
  PROVE  RepairTree(rows) = IF repairs = <<>> THEN {} ELSE {<<"wiki", models, FALSE>>}
<1> DEFINE with == {i \in DOMAIN RepairKeys : WikiIn(LatestOut(rows, RepairKeys[i])) # {}}
           n == Len(repairs)
           m == Len(RepairKeys)
<1>n. /\ n \in Nat /\ n <= m /\ m \in Nat /\ (repairs = <<>> <=> n = 0)
      /\ DOMAIN RepairKeys = 1 .. m /\ 1 .. (m + 1) \subseteq Versions
  BY Numbers, KeyFacts
<1>f. \A i \in DOMAIN RepairKeys : RepairFits(i)
  BY DEF IInv, RepairsFit
<1>c. n > 0 => rows.node[RepairKeys[n]] = "succeeded"
  BY <1>n DEF Chain, Repaired, Current
<1>d. models = n + 1
  BY DEF IInv, WriterFits, Chain
<1>l. n = Len(repairs)
  OBVIOUS
<1> HIDE DEF n, m
<1>1. ASSUME NEW i \in DOMAIN RepairKeys, i <= n
      PROVE  WikiIn(LatestOut(rows, RepairKeys[i])) = {<<"wiki", i + 1, FALSE>>}
  <2>1. i \in Nat /\ i > 0 /\ n > 0 /\ i + 1 \in Versions
    BY <1>1, <1>n
  <2>2. rows.node[RepairKeys[i]] = "succeeded"
    <3>1. CASE i = n
      BY <3>1, <2>1, <1>c
    <3>2. CASE i < n
      BY <3>2, <1>f, <1>l DEF RepairFits
    <3> QED BY <1>1, <1>n, <2>1, <3>1, <3>2
  <2>3. rows.out[RepairKeys[i]] = {<<"wiki", i + 1, FALSE>>}
    BY <2>2, <1>f DEF RepairFits
  <2> DEFINE j == i + 1
  <2>4. <<"wiki", j, FALSE>> \in Wikis
    <3> HIDE DEF j
    <3>1. j \in Versions
      BY <2>1 DEF j
    <3> QED BY <3>1, WikiType
  <2> QED BY <2>2, <2>3, <2>4, Zenon DEF LatestOut, WikiIn
<1>2. ASSUME NEW i \in DOMAIN RepairKeys, i > n
      PROVE  WikiIn(LatestOut(rows, RepairKeys[i])) = {}
  <2>1. rows.node[RepairKeys[i]] = "none" /\ rows.last[RepairKeys[i]] = {}
    BY <1>2, <1>f, <1>l DEF RepairFits
  <2> QED BY <2>1 DEF LatestOut, WikiIn
<1>3. with = 1 .. n
  <2>1. ASSUME NEW i \in DOMAIN RepairKeys PROVE i \in with <=> i <= n
    <3>1. i <= n \/ i > n
      BY <1>n
    <3> QED BY <1>1, <1>2, <3>1
  <2> HIDE DEF with
  <2>2. with \subseteq DOMAIN RepairKeys
    BY DEF with
  <2>3. \A x : x \in with => x \in 1 .. n
    BY <2>1, <2>2, <1>n
  <2>4. \A x : x \in 1 .. n => x \in with
    BY <2>1, <1>n
  <2> QED BY <2>3, <2>4
<1>4. RepairTree(rows) = IF with = {} THEN {}
                        ELSE WikiIn(LatestOut(rows, RepairKeys[CHOOSE i \in with : \A j \in with : j <= i]))
  BY DEF RepairTree
<1> HIDE DEF with
<1>5. CASE n = 0
  BY <1>3, <1>4, <1>5, <1>n
<1>6. CASE n > 0
  <2>1. n \in with /\ \A j \in with : j <= n
    BY <1>3, <1>6, <1>n
  <2>2. \A i \in with : (\A j \in with : j <= i) => i = n
    BY <2>1, <1>3, <1>n
  <2>3. (CHOOSE i \in with : \A j \in with : j <= i) = n
    BY <2>1, <2>2
  <2>4. RepairTree(rows) = WikiIn(LatestOut(rows, RepairKeys[n]))
    BY <1>4, <2>1, <2>3
  <2>5. WikiIn(LatestOut(rows, RepairKeys[n])) = {<<"wiki", n + 1, FALSE>>}
    <3>1. n \in DOMAIN RepairKeys /\ n <= n
      BY <1>6, <1>n
    <3> QED BY <1>1, <3>1
  <2>6. <<"wiki", n + 1, FALSE>> = <<"wiki", models, FALSE>>
    BY <1>d
  <2>7. repairs # <<>>
    BY <1>6, <1>n
  <2> QED BY <2>4, <2>5, <2>6, <2>7, Zenon
<1>7. n = 0 \/ n > 0
  BY <1>n
<1> QED BY <1>5, <1>6, <1>7, Zenon
LEMMA FirstTreeIs ==
  ASSUME NEW d, NEW ks, NEW n \in Nat, DOMAIN ks = 1 .. n, NEW i \in 1 .. n,
         WikiIn(Out(d, ks[i])) # {}, \A j \in 1 .. n : j < i => WikiIn(Out(d, ks[j])) = {}
  PROVE  FirstTree(d, ks) = WikiIn(Out(d, ks[i]))
<1> DEFINE with == {j \in DOMAIN ks : WikiIn(Out(d, ks[j])) # {}}
<1>1. i \in with /\ \A j \in with : i <= j
  OBVIOUS
<1>2. \A h \in with : (\A j \in with : h <= j) => h = i
  BY <1>1
<1>3. FirstTree(d, ks) = IF with = {} THEN {}
                        ELSE WikiIn(Out(d, ks[CHOOSE h \in with : \A j \in with : h <= j]))
  BY DEF FirstTree
<1> HIDE DEF with
<1>4. (CHOOSE h \in with : \A j \in with : h <= j) = i
  BY <1>1, <1>2
<1> QED BY <1>1, <1>3, <1>4

LEMMA TreeIs ==
  ASSUME NEW n, NEW t \in Trees(n) PROVE t[1] = "wiki" /\ t[2] = n
<1>1. CASE t = <<"wiki", n, FALSE>>
  BY <1>1
<1>2. CASE t = <<"wiki", n, TRUE>>
  BY <1>2
<1> QED BY <1>1, <1>2 DEF Trees

LEMMA TreesAreWikis ==
  ASSUME Policy, IInv, Done({"write"}), NEW S, OneTree(S)
  PROVE  WikiIn(S) = S /\ S # {} /\ Kind("defects", S) = {} /\ S \in SUBSET Artifacts
<1>1. PICK t \in Trees(models) : S = {t}
  BY DEF OneTree
<1>2. t \in Wikis
  BY Numbers
<1>3. t[1] = "wiki"
  BY TreeIs
<1> QED BY <1>1, <1>2, <1>3 DEF WikiIn, Kind, Artifacts

LEMMA MountedIs ==
  ASSUME Policy, IInv
  PROVE  /\ Writing => Mounted(rows, "write") = {}
         /\ Validating => Mounted(rows, "pre") = {<<"wiki", models, FALSE>>}
         /\ Reviewing => Mounted(rows, "seat") = DueSeat
         /\ Reducing => Mounted(rows, "reduce") = DueReduce
         /\ Finishing => Mounted(rows, "final") = Base
         /\ UnderRepair => Mounted(rows, Current) = DueRepair(repairs[Len(repairs)])
<1>k. /\ {"write", "pre", "seat", "reduce", "final"} \cap Repairs = {}
  BY KeyFacts DEF Core
<1>o. OutputsFit /\ WriterFits /\ RequestsFit
  BY DEF IInv
<1>w. Done({"write"}) => models \in Versions /\ Trees(models) \subseteq Wikis
  BY Numbers
<1>t. ASSUME Done({"write"}) PROVE <<"wiki", models, FALSE>> \in Wikis
  BY <1>t, <1>w, WikiType
<1>1. ASSUME Writing PROVE Mounted(rows, "write") = {}
  BY <1>k, <1>o DEF Mounted, Tree, WikiIn, WriterFits
<1>2. ASSUME Validating PROVE Mounted(rows, "pre") = {<<"wiki", models, FALSE>>}
  <2>1. CASE repairs # <<>>
    BY <2>1, <1>2, <1>k, RepairTreeIs DEF Mounted, Tree, Validating
  <2>2. CASE repairs = <<>>
    <3>1. models = 1 /\ rows.out["write"] = {<<"wiki", models, FALSE>>}
      <4>1. Len(repairs) = 0
        BY <2>2
      <4> QED BY <1>2, <1>o, <4>1 DEF WriterFits, OutputsFit, Validating, Chain
    <3>2. Out(rows, "write") = {<<"wiki", models, FALSE>>}
      BY <1>2, <3>1 DEF Out, Validating, Chain, Done
    <3>3. WikiIn(Out(rows, "write")) = {<<"wiki", models, FALSE>>}
      BY <1>2, <1>t, <3>2 DEF WikiIn, Validating, Chain
    <3> DEFINE ks == <<"write", "final", "pre", "reduce">>
    <3>4. DOMAIN ks = 1 .. 4 /\ ks[1] = "write"
      OBVIOUS
    <3> HIDE DEF ks
    <3>5. FirstTree(rows, ks) = WikiIn(Out(rows, ks[1]))
      <4>1. 4 \in Nat /\ 1 \in 1 .. 4 /\ \A j \in 1 .. 4 : ~(j < 1)
        OBVIOUS
      <4>2. WikiIn(Out(rows, ks[1])) # {}
        BY <3>3, <3>4
      <4> QED BY <3>4, <4>1, <4>2, FirstTreeIs
    <3>6. RepairTree(rows) = {}
      BY <1>2, <2>2, RepairTreeIs DEF Validating
    <3> QED BY <3>3, <3>4, <3>5, <3>6, <1>k DEF Mounted, Tree, ks
  <2> QED BY <2>1, <2>2
<1>3. ASSUME Reviewing PROVE Mounted(rows, "seat") = DueSeat
  <2>1. /\ rows.node["pre"] = "succeeded" /\ OneTree(rows.out["pre"]) /\ Done({"write"})
        /\ rows.node["reduce"] # "succeeded"
    BY <1>3, <1>o DEF Reviewing, Chain, Done, OutputsFit, Rearmable, Locked
  <2>2. WikiIn(Out(rows, "pre")) = rows.out["pre"] /\ rows.out["pre"] # {}
    BY <2>1, TreesAreWikis DEF Out
  <2>3. LatestOut(rows, "reduce") = rows.last["reduce"]
    BY <2>1 DEF LatestOut
  <2> QED BY <2>2, <2>3, <1>k DEF Mounted, Tree, DueSeat
<1>4. ASSUME Chain, Done({"pre"}), rows.node["final"] # "succeeded" PROVE Carried(rows) = Base
  <2>1. CASE repairs # <<>>
    BY <2>1, <1>4, RepairTreeIs DEF Carried, Base
  <2>2. CASE repairs = <<>>
    <3>1. rows.node["pre"] = "succeeded" /\ OneTree(rows.out["pre"]) /\ Done({"write"})
      BY <1>4, <1>o DEF Chain, Done, OutputsFit
    <3>2. WikiIn(Out(rows, "pre")) = rows.out["pre"] /\ rows.out["pre"] # {}
      BY <3>1, TreesAreWikis DEF Out
    <3>3. WikiIn(Out(rows, "final")) = {}
      BY <1>4 DEF Out, WikiIn
    <3> DEFINE ks == <<"final", "pre", "reduce", "write">>
    <3>4. DOMAIN ks = 1 .. 4 /\ ks[1] = "final" /\ ks[2] = "pre"
      OBVIOUS
    <3> HIDE DEF ks
    <3>5. \A j \in 1 .. 4 : j < 2 => WikiIn(Out(rows, ks[j])) = {}
      <4>1. \A j \in 1 .. 4 : j < 2 => j = 1
        OBVIOUS
      <4> QED BY <3>3, <3>4, <4>1
    <3>6. FirstTree(rows, ks) = WikiIn(Out(rows, ks[2]))
      <4>1. 4 \in Nat /\ 2 \in 1 .. 4
        OBVIOUS
      <4>2. WikiIn(Out(rows, ks[2])) # {}
        BY <3>2, <3>4
      <4> QED BY <3>4, <3>5, <4>1, <4>2, FirstTreeIs
    <3>7. RepairTree(rows) = {}
      BY <1>4, <2>2, RepairTreeIs
    <3> QED BY <2>2, <3>2, <3>4, <3>6, <3>7 DEF Carried, Base, ks
  <2> QED BY <2>1, <2>2
<1>5. ASSUME Reducing PROVE Mounted(rows, "reduce") = DueReduce
  <2>1. rows.node["seat"] = "succeeded" /\ rows.out["seat"] = {<<"finding", models>>}
    BY <1>5, <1>o DEF Reducing, Done, OutputsFit
  <2>2. Kind("finding", Out(rows, "seat")) = rows.out["seat"]
    BY <2>1 DEF Kind, Out
  <2>3. Carried(rows) = Base
    BY <1>4, <1>5 DEF Reducing, TailHeld, Done
  <2> QED BY <2>2, <2>3, <1>k DEF Mounted, Tree, DueReduce
<1>6. ASSUME Finishing PROVE Mounted(rows, "final") = Base
  <2>1. Carried(rows) = Base
    BY <1>4, <1>6 DEF Finishing, Reviewed, Turn, Act, Done
  <2> QED BY <2>1, <1>k DEF Mounted, Tree
<1>7. ASSUME UnderRepair PROVE Mounted(rows, Current) = DueRepair(repairs[Len(repairs)])
  <2> DEFINE r == repairs[Len(repairs)]
  <2>1. repairs # <<>>
    BY <1>7 DEF UnderRepair, Repaired
  <2>2. Current \in Repairs /\ r \in Requests /\ Len(repairs) \in 1 .. Len(repairs)
    BY <2>1, Numbers
  <2>3. Request(Current) = r
    BY <2>2, RequestOf, Numbers DEF Current, IInv, TypeInv
  <2>4. Mounted(rows, Current) = {r.baseline} \cup Kind("defects", Out(rows, r.up)) \cup r.report
    BY <2>2, <2>3 DEF Mounted, Tree
  <2>5. r.up \in {"write", "reduce"}
    BY <2>2 DEF Requests
  <2>6. CASE r.up = "write"
    <3>1. Out(rows, "write") = {<<"wiki", 1, FALSE>>}
      BY <1>7, <1>o DEF Out, OutputsFit, UnderRepair, Done
    <3>2. \A a \in Out(rows, "write") : a[1] = "wiki"
      <4>1. <<"wiki", 1, FALSE>> \in Trees(1)
        BY DEF Trees
      <4> QED BY <3>1, <4>1, TreeIs
    <3>3. Kind("defects", Out(rows, "write")) = {}
      BY <3>2 DEF Kind
    <3> QED BY <2>4, <2>6, <3>3 DEF DueRepair
  <2>7. CASE r.up = "reduce"
    <3>1. rows.node["reduce"] = "succeeded"
      BY <1>7, <2>7 DEF UnderRepair, Done
    <3>2. PICK t \in Trees(models) : rows.out["reduce"] = {<<"defects", models>>, t}
      BY <1>o, <3>1 DEF OutputsFit, Done
    <3>3. t[1] = "wiki"
      BY <3>2, TreeIs
    <3>4. Kind("defects", Out(rows, "reduce")) = {<<"defects", models>>}
      BY <3>1, <3>2, <3>3 DEF Kind, Out
    <3> QED BY <2>4, <2>7, <3>4 DEF DueRepair
  <2> QED BY <2>5, <2>6, <2>7
<1> QED BY <1>1, <1>2, <1>3, <1>5, <1>6, <1>7
(* Only the node whose turn it is runs or can be claimed.                    *)
InTurn(k) ==
    \/ k = "write" /\ Writing
    \/ k \in Repairs /\ k = Current /\ repairs # <<>> /\ UnderRepair
    \/ k = "pre" /\ Validating
    \/ k = "seat" /\ Reviewing
    \/ k = "reduce" /\ Reducing
    \/ k = "final" /\ Finishing

LEMMA RepairInTurn ==
  ASSUME Policy, IInv, NEW k \in Repairs, rows.node[k] \in Act
  PROVE  k = Current /\ repairs # <<>> /\ UnderRepair
<1>1. PICK i \in DOMAIN RepairKeys : k = RepairKeys[i]
  BY KeyFacts
<1>2. i \in Nat /\ i > 0 /\ Len(repairs) \in Nat
  BY KeyFacts, Numbers
<1>3. RepairFits(i)
  BY DEF IInv, RepairsFit
<1>4. i = Len(repairs)
  BY <1>1, <1>2, <1>3 DEF RepairFits, Act
<1>5. k = Current /\ repairs # <<>>
  BY <1>1, <1>2, <1>4 DEF Current
<1>6. ~Repaired
  BY <1>5 DEF Repaired, Act
<1>7. StageInv
  BY DEF IInv
<1> QED
  BY <1>5, <1>6, <1>7 DEF StageInv, Writing, Validating, Reviewing, Reducing, Asking, Finishing,
     Finished, Denied, Reviewed, Chain

LEMMA RunningInTurn ==
  ASSUME Policy, IInv, NEW k \in Keys, rows.node[k] = "running"
  PROVE  InTurn(k)
<1>1. CASE k \in Repairs
  BY <1>1, RepairInTurn DEF InTurn, Act
<1>2. CASE k \in Core
  <2>1. StageInv
    BY DEF IInv
  <2>2. CASE Writing
    BY <1>2, <2>2 DEF Writing, InTurn
  <2>3. CASE UnderRepair
    BY <1>2, <2>3 DEF UnderRepair, Core, Done, TailHeld, Rearmable, Locked
  <2>4. CASE Validating
    BY <1>2, <2>4 DEF Validating, InTurn, Chain, Core, Done, TailHeld, Rearmable, Locked
  <2>5. CASE Reviewing
    BY <1>2, <2>5 DEF Reviewing, InTurn, Chain, Core, Done, TailHeld, Rearmable, Locked
  <2>6. CASE Reducing
    BY <1>2, <2>6 DEF Reducing, InTurn, Chain, Core, Done, TailHeld
  <2>7. CASE Asking \/ Denied \/ Finished
    BY <1>2, <2>7 DEF Asking, Denied, Finished, Reviewed, Chain, Core, Done
  <2>8. CASE Finishing
    BY <1>2, <2>8 DEF Finishing, InTurn, Reviewed, Chain, Core, Done
  <2> QED BY <2>1, <2>2, <2>3, <2>4, <2>5, <2>6, <2>7, <2>8 DEF StageInv
<1> QED BY <1>1, <1>2 DEF Keys

LEMMA ClaimableInTurn ==
  ASSUME Policy, IInv, NEW k \in Keys, Claimable(k)
  PROVE  InTurn(k)
<1>0. k # "fix" /\ rows.node[k] = "ready" /\ run = "active" /\ UpstreamsSucceeded(rows, repairs, k)
  BY DEF Claimable
<1>1. CASE k \in Repairs
  BY <1>0, <1>1, RepairInTurn DEF InTurn, Act
<1>2. CASE k \in Core
  <2>1. StageInv
    BY DEF IInv
  <2>2. CASE Writing
    BY <1>0, <1>2, <2>2 DEF Writing, InTurn
  <2>3. CASE UnderRepair
    <3>1. k \in {"pre", "final"}
      BY <1>0, <1>2, <2>3 DEF UnderRepair, Core, Done, TailHeld, Rearmable, Locked
    <3>2. Current \in Repairs /\ rows.node[Current] \in Act
      BY <2>3, Numbers DEF UnderRepair, Repaired, Turn
    <3> QED BY <1>0, <2>3, <3>1, <3>2, CoreUpstreams DEF UnderRepair, TailHeld, Act
  <2>4. CASE Validating \/ Reviewing \/ Reducing
    <3>1. k = "final" => rows.node["fix"] = "succeeded"
      BY <1>0, CoreUpstreams
    <3> QED
      BY <1>0, <1>2, <2>4, <3>1
      DEF Validating, Reviewing, Reducing, InTurn, Chain, Core, Done, TailHeld, Rearmable, Locked
  <2>7. CASE Asking \/ Denied
    BY <1>0, <2>7 DEF Asking, Denied
  <2>8. CASE Finishing \/ Finished
    BY <1>0, <1>2, <2>8 DEF Finishing, Finished, InTurn, Reviewed, Chain, Core, Done
  <2> QED BY <2>1, <2>2, <2>3, <2>4, <2>7, <2>8 DEF StageInv
<1> QED BY <1>1, <1>2 DEF Keys
-----------------------------------------------------------------------------
(* What a step leaves alone.                                                 *)

UnlockedCore(d) ==
    [write |-> d.node["write"] \in Locked,
     pre |-> /\ d.node["pre"] \in Locked /\ d.node["write"] = "succeeded"
             /\ \A k \in Repairs : d.node[k] \in {"none", "succeeded"},
     seat |-> d.node["seat"] \in Locked /\ d.node["pre"] = "succeeded",
     reduce |-> d.node["reduce"] \in Locked /\ d.node["seat"] = "succeeded",
     fix |-> FALSE,
     final |-> d.node["final"] \in Locked /\ d.node["fix"] = "succeeded"]

(* unlockReadyNodes, where no repair is held.                                *)
LEMMA Unlocks ==
  ASSUME Policy, NEW d \in RowsSet, NEW rs, \A k \in Repairs : d.node[k] \notin Locked
  PROVE  LET u == Unlock(d, rs) IN
         /\ u \in RowsSet /\ u.in = d.in /\ u.out = d.out /\ u.last = d.last /\ u.gates = d.gates
         /\ \A k \in Repairs : u.node[k] = d.node[k]
         /\ \A k \in Core : u.node[k] = IF UnlockedCore(d)[k] THEN "ready" ELSE d.node[k]
<1> DEFINE u == Unlock(d, rs)
<1>1. /\ u \in RowsSet /\ u.in = d.in /\ u.out = d.out /\ u.last = d.last /\ u.gates = d.gates
      /\ \A k \in Keys : u.node[k] =
               IF d.node[k] \in {"blocked", "invalidated"} /\ k # "fix" /\ UpstreamsSucceeded(d, rs, k)
               THEN "ready" ELSE d.node[k]
  BY UnlockFields
<1> HIDE DEF u
<1>2. Repairs \subseteq Keys /\ Core \subseteq Keys
  BY KeyFacts
<1>3. \A k \in Repairs : u.node[k] = d.node[k]
  BY <1>1, <1>2 DEF Locked
<1>4. \A k \in Core : u.node[k] = IF UnlockedCore(d)[k] THEN "ready" ELSE d.node[k]
  <2> SUFFICES ASSUME NEW k \in Core
               PROVE  u.node[k] = IF UnlockedCore(d)[k] THEN "ready" ELSE d.node[k]
    OBVIOUS
  <2>1. /\ UnlockedCore(d)["write"] = (d.node["write"] \in Locked)
        /\ UnlockedCore(d)["pre"] = (/\ d.node["pre"] \in Locked /\ d.node["write"] = "succeeded"
                                     /\ \A x \in Repairs : d.node[x] \in {"none", "succeeded"})
        /\ UnlockedCore(d)["seat"] = (d.node["seat"] \in Locked /\ d.node["pre"] = "succeeded")
        /\ UnlockedCore(d)["reduce"] = (d.node["reduce"] \in Locked /\ d.node["seat"] = "succeeded")
        /\ UnlockedCore(d)["fix"] = FALSE
        /\ UnlockedCore(d)["final"] = (d.node["final"] \in Locked /\ d.node["fix"] = "succeeded")
    BY DEF UnlockedCore
  <2>2. k \in Keys /\ u.node[k] =
               IF d.node[k] \in Locked /\ k # "fix" /\ UpstreamsSucceeded(d, rs, k)
               THEN "ready" ELSE d.node[k]
    BY <1>1, <1>2 DEF Locked
  <2>3. k \in {"write", "pre", "seat", "reduce", "fix", "final"}
    BY DEF Core
  <2> QED BY <2>1, <2>2, <2>3, CoreUpstreams
<1> QED BY <1>1, <1>3, <1>4 DEF u

SameRepairs(d) ==
    \A k \in Repairs : /\ d.node[k] = rows.node[k] /\ d.in[k] = rows.in[k]
                       /\ d.out[k] = rows.out[k] /\ d.last[k] = rows.last[k]

(* A step that leaves the repairs alone.                                     *)
LEMMA RepairsFrame ==
  ASSUME Policy, IInv, repairs' = repairs, SameRepairs(rows')
  PROVE  /\ RepairsFit' /\ RequestsFit' /\ Repaired' = Repaired /\ Current' = Current
         /\ repairs' \in Seq(Requests) /\ Len(repairs') <= Len(RepairKeys)
<1>1. Current' = Current /\ repairs' \in Seq(Requests) /\ Len(repairs') <= Len(RepairKeys)
  BY DEF Current, IInv, TypeInv
<1>2. RequestsFit'
  BY DEF RequestsFit, IInv, RequestFits, Trees
<1>3. repairs # <<>> => Current \in Repairs
  BY Numbers
<1>4. Repaired' = Repaired
  BY <1>1, <1>3 DEF Repaired, SameRepairs
<1>5. RepairsFit'
  <2> SUFFICES ASSUME NEW i \in DOMAIN RepairKeys PROVE RepairFits(i)'
    BY DEF RepairsFit
  <2>1. RepairKeys[i] \in Repairs /\ RepairFits(i)
    BY KeyFacts DEF IInv, RepairsFit
  <2> QED BY <2>1 DEF RepairFits, SameRepairs
<1> QED BY <1>1, <1>2, <1>4, <1>5

(* No repair is held or at work when none is due.                            *)
LEMMA RepairStates ==
  ASSUME Policy, IInv
  PROVE  /\ \A k \in Repairs : rows.node[k] \notin Locked \cup {"waiting"}
         /\ Repaired => \A k \in Repairs : rows.node[k] \in {"none", "succeeded"}
<1> SUFFICES ASSUME NEW k \in Repairs
             PROVE  /\ rows.node[k] \notin Locked \cup {"waiting"}
                    /\ Repaired => rows.node[k] \in {"none", "succeeded"}
  OBVIOUS
<1>1. PICK i \in DOMAIN RepairKeys : k = RepairKeys[i]
  BY KeyFacts
<1>2. i \in Nat /\ i > 0 /\ Len(repairs) \in Nat
  BY KeyFacts, Numbers
<1>3. RepairFits(i)
  BY DEF IInv, RepairsFit
<1>4. i = Len(repairs) => repairs # <<>> /\ k = Current
  BY <1>1, <1>2, Numbers DEF Current
<1>5. i > Len(repairs) \/ i < Len(repairs) \/ i = Len(repairs)
  BY <1>2
<1> QED BY <1>1, <1>3, <1>4, <1>5 DEF RepairFits, Act, Locked, Repaired

-----------------------------------------------------------------------------
(* The node whose turn it is, and what it is due to mount.                   *)

Due(k) == CASE k = "write" -> {}
            [] k = "pre" -> {<<"wiki", models, FALSE>>}
            [] k = "seat" -> DueSeat
            [] k = "reduce" -> DueReduce
            [] k = "final" -> Base
            [] OTHER -> DueRepair(repairs[Len(repairs)])

LEMMA DueIs ==
  ASSUME Policy
  PROVE  /\ Due("write") = {} /\ Due("pre") = {<<"wiki", models, FALSE>>} /\ Due("seat") = DueSeat
         /\ Due("reduce") = DueReduce /\ Due("final") = Base
         /\ \A k \in Repairs : Due(k) = DueRepair(repairs[Len(repairs)])
<1>1. \A k \in Repairs : k \notin {"write", "pre", "seat", "reduce", "final"}
  BY KeyFacts DEF Core
<1> QED BY <1>1 DEF Due

LEMMA DueMounted ==
  ASSUME Policy, IInv, NEW k \in Keys, InTurn(k)
  PROVE  Mounted(rows, k) = Due(k) /\ Turn(k, Due(k))
<1>1. rows.in["write"] = {}
  BY DEF IInv, WriterFits
<1> QED
  BY <1>1, DueIs, MountedIs
  DEF InTurn, Writing, UnderRepair, Validating, Reviewing, Reducing, Finishing, Turn

LEMMA WikisAndReceipts ==
  /\ \A a \in Wikis : a[1] = "wiki"
  /\ \A a \in Receipts : a[1] \in {"report", "finding", "defects"} /\ a \notin Wikis
<1>1. \A a \in Wikis : a[1] = "wiki"
  BY DEF Wikis
<1>2. \A a \in Receipts : a[1] \in {"report", "finding", "defects"}
  BY DEF Receipts
<1> QED BY <1>1, <1>2

(* The tree an evaluation goes by, once the validation has sealed one.       *)
LEMMA BaseIs ==
  ASSUME Policy, IInv, Done({"write", "pre"})
  PROVE  \E t \in Trees(models) : Base = {t}
<1>1. OneTree(rows.out["pre"])
  BY DEF IInv, OutputsFit, Done
<1>2. <<"wiki", models, FALSE>> \in Trees(models)
  BY DEF Trees
<1> QED BY <1>1, <1>2 DEF Base, OneTree

LEMMA DueFacts ==
  ASSUME Policy, IInv, NEW k \in Keys, InTurn(k)
  PROVE  /\ Due(k) \in SUBSET Artifacts
         /\ k \in Core => \A a \in Due(k) : a[1] # "report"
         /\ k \in Repairs => \A a \in Due(k) : a[2] = Len(repairs)
         /\ k # "write" => /\ \E t \in Trees(models) : WikiIn(Due(k)) = {t}
                           /\ models \in Versions
<1>k. \A x \in Repairs : x \notin Core
  BY KeyFacts
<1>o. OutputsFit /\ WriterFits /\ RequestsFit /\ TypeInv
  BY DEF IInv
<1>w. Done({"write"}) => models \in Versions /\ Trees(models) \subseteq Wikis
  BY Numbers
<1>r. \A n \in Versions : {<<"finding", n>>, <<"defects", n>>, <<"report", n>>} \subseteq Receipts
  BY DEF Receipts
<1>a. Wikis \subseteq Artifacts /\ Receipts \subseteq Artifacts
  BY DEF Artifacts
<1>1. CASE k = "write"
  BY <1>1, <1>k, DueIs DEF Core
<1>2. CASE k = "pre"
  <2>1. Done({"write"}) /\ Due(k) = {<<"wiki", models, FALSE>>}
    BY <1>2, <1>k, DueIs DEF InTurn, Validating, Chain, Core
  <2>2. <<"wiki", models, FALSE>> \in Trees(models)
    BY DEF Trees
  <2> DEFINE t == <<"wiki", models, FALSE>>
  <2>3. t \in Wikis /\ models \in Versions /\ t[1] = "wiki" /\ Due(k) = {t} /\ t \in Trees(models)
    BY <1>w, <2>1, <2>2
  <2> HIDE DEF t
  <2> QED BY <1>2, <1>k, <1>a, <2>3 DEF WikiIn, Core
<1>3. CASE k = "seat"
  <2>1. Done({"write", "pre"}) /\ Due(k) = rows.out["pre"] \cup Kind("defects", rows.last["reduce"])
    BY <1>3, <1>k, DueIs DEF InTurn, Reviewing, Chain, Core, DueSeat, Done
  <2>2. PICK t \in Trees(models) : rows.out["pre"] = {t}
    BY <1>o, <2>1 DEF OutputsFit, OneTree, Done
  <2>3. t \in Wikis /\ models \in Versions /\ t[1] = "wiki"
    BY <1>w, <2>1, TreeIs DEF Done
  <2>4. \A a \in Kind("defects", rows.last["reduce"]) : a[1] = "defects" /\ a \in Artifacts
    BY <1>o DEF Kind, TypeInv, RowsSet, Keys, Core
  <2>5. \A a \in Kind("defects", rows.last["reduce"]) : a \notin Wikis
    BY <2>4, WikisAndReceipts
  <2>6. WikiIn(Due(k)) = {t}
    BY <2>1, <2>2, <2>3, <2>5 DEF WikiIn
  <2> QED BY <1>3, <1>k, <1>a, <2>1, <2>2, <2>3, <2>4, <2>6 DEF Core
<1>4. CASE k = "reduce"
  <2>1. Done({"write", "pre", "seat"}) /\ Due(k) = Base \cup rows.out["seat"]
    BY <1>4, <1>k, DueIs DEF InTurn, Reducing, Chain, Core, DueReduce, Done
  <2>2. PICK t \in Trees(models) : Base = {t}
    BY <2>1, BaseIs DEF Done
  <2>3. t \in Wikis /\ models \in Versions /\ t[1] = "wiki"
    BY <1>w, <2>1, TreeIs DEF Done
  <2>4. rows.out["seat"] = {<<"finding", models>>}
    BY <1>o, <2>1 DEF OutputsFit, Done
  <2>5. <<"finding", models>> \in Receipts /\ <<"finding", models>> \notin Wikis
    BY <1>r, <2>3, WikisAndReceipts
  <2>6. WikiIn(Due(k)) = {t}
    BY <2>1, <2>2, <2>3, <2>4, <2>5 DEF WikiIn
  <2> QED BY <1>4, <1>k, <1>a, <2>1, <2>2, <2>3, <2>4, <2>5, <2>6 DEF Core
<1>5. CASE k = "final"
  <2>1. Done({"write", "pre"}) /\ Due(k) = Base
    BY <1>5, <1>k, DueIs DEF InTurn, Finishing, Reviewed, Chain, Core, Done
  <2>2. PICK t \in Trees(models) : Base = {t}
    BY <2>1, BaseIs DEF Done
  <2>3. t \in Wikis /\ models \in Versions /\ t[1] = "wiki"
    BY <1>w, <2>1, TreeIs DEF Done
  <2> QED BY <1>5, <1>k, <1>a, <2>1, <2>2, <2>3 DEF Core, WikiIn
<1>6. CASE k \in Repairs
  <2> DEFINE n == Len(repairs)
             r == repairs[n]
  <2>1. UnderRepair /\ repairs # <<>> /\ k \notin Core /\ k # "write"
    BY <1>6, <1>k DEF InTurn, Core
  <2>2. n \in DOMAIN repairs /\ r \in Requests /\ RequestFits(r, n)
    BY <2>1, <1>o, Numbers DEF RequestsFit
  <2>3. models = n /\ Done({"write"})
    BY <2>1, <1>o DEF UnderRepair, WriterFits
  <2> HIDE DEF n, r
  <2>4. r.baseline \in Trees(models) /\ r.report \subseteq {<<"report", models>>}
    BY <2>2, <2>3 DEF RequestFits
  <2>5. models \in Versions /\ r.baseline \in Wikis /\ r.baseline[2] = models
    BY <1>w, <2>3, <2>4, TreeIs
  <2>6. Due(k) = {r.baseline} \cup r.report \cup (IF r.up = "reduce" THEN {<<"defects", models>>} ELSE {})
    BY <1>6, DueIs DEF DueRepair, n, r
  <2>7. \A a \in Due(k) : a = r.baseline \/ a = <<"report", models>> \/ a = <<"defects", models>>
    BY <2>4, <2>6
  <2>8. {<<"report", models>>, <<"defects", models>>} \subseteq Receipts
    BY <1>r, <2>5
  <2>9. WikiIn(Due(k)) = {r.baseline}
    <3>1. \A a \in Receipts : a \notin Wikis
      BY WikisAndReceipts
    <3>2. r.baseline \in Due(k)
      BY <2>6
    <3> QED BY <2>5, <2>7, <2>8, <3>1, <3>2 DEF WikiIn
  <2>10. \A a \in Due(k) : a[2] = models
    BY <2>5, <2>7
  <2>11. Due(k) \subseteq Artifacts
    BY <1>a, <2>5, <2>7, <2>8
  <2>12. \A a \in Due(k) : a[2] = Len(repairs)
    BY <2>3, <2>10 DEF n
  <2>13. \E t \in Trees(models) : WikiIn(Due(k)) = {t}
    BY <2>4, <2>9
  <2> QED BY <2>1, <2>5, <2>11, <2>12, <2>13
<1> QED BY <1>1, <1>2, <1>3, <1>4, <1>5, <1>6 DEF InTurn

-----------------------------------------------------------------------------
(* A step of the node whose turn it is that leaves it its turn: it is        *)
(* claimed, it fails, its validation is refused, or it is retried.           *)

KeepsTurn(k) ==
    /\ rows' \in RowsSet /\ recovery' \in RecoverySet /\ run' \in {"active", "waiting", "failed"}
    /\ \A x \in Keys \ {k} : /\ rows'.node[x] = rows.node[x] /\ rows'.in[x] = rows.in[x]
                             /\ rows'.out[x] = rows.out[x]
    /\ rows'.last = rows.last /\ rows'.gates = rows.gates
    /\ repairs' = repairs /\ latest' = latest /\ models' = models
    /\ accepted' = accepted /\ reruns' = reruns
    /\ rows'.node[k] \in Act
    /\ rows'.node[k] = "ready" => rows'.in[k] \in {{}, Due(k)} /\ (k = "final" => run' = "active")
    /\ rows'.node[k] \in {"running", "failed"} => rows'.in[k] = Due(k)
    /\ rows'.node[k] = "running" => run' = "active"
    /\ rows'.node[k] = "failed" /\ k \in {"write", "final"} => run' = "failed"
    /\ rows'.out[k] = rows.out[k] \/ (k \in {"pre", "final"} /\ rows'.out[k] = {<<"report", models>>})
    /\ recovery'.state = recovery.state \/ k \in {"pre", "final"}

LEMMA KeepsTurnInv ==
  ASSUME Policy, IInv, NEW k \in Keys, InTurn(k), KeepsTurn(k)
  PROVE  /\ RecoveryFits' => IInv'
         /\ Validating => Validating'
         /\ Finishing => Finishing'
         /\ ~Denied
<1>k. /\ Core \subseteq Keys /\ Repairs \subseteq Keys /\ \A x \in Repairs : x \notin Core
  BY KeyFacts
<1>c. Core = {"write", "pre", "seat", "reduce", "fix", "final"}
  BY DEF Core
<1>o. OutputsFit /\ InputsFit /\ WriterFits /\ RepairsFit /\ RequestsFit /\ TypeInv
  BY DEF IInv
<1>f. /\ rows' \in RowsSet /\ recovery' \in RecoverySet /\ run' \in {"active", "waiting", "failed"}
      /\ \A x \in Keys \ {k} : /\ rows'.node[x] = rows.node[x] /\ rows'.in[x] = rows.in[x]
                               /\ rows'.out[x] = rows.out[x]
      /\ rows'.last = rows.last /\ rows'.gates = rows.gates
      /\ repairs' = repairs /\ latest' = latest /\ models' = models
      /\ accepted' = accepted /\ reruns' = reruns
  BY DEF KeepsTurn
<1>g. /\ rows'.node[k] \in Act
      /\ rows'.node[k] = "ready" => rows'.in[k] \in {{}, Due(k)} /\ (k = "final" => run' = "active")
      /\ rows'.node[k] \in {"running", "failed"} => rows'.in[k] = Due(k)
      /\ rows'.node[k] = "running" => run' = "active"
      /\ rows'.node[k] = "failed" /\ k \in {"write", "final"} => run' = "failed"
      /\ rows'.out[k] = rows.out[k] \/ (k \in {"pre", "final"} /\ rows'.out[k] = {<<"report", models>>})
      /\ recovery'.state = recovery.state \/ k \in {"pre", "final"}
  BY DEF KeepsTurn
<1>t. Turn(k, Due(k))
  BY DueMounted
<1>i. rows'.in[k] \in {{}, Due(k)}
  BY <1>g DEF Act
<1>a. rows.node[k] \in Act
  BY <1>t DEF Turn
<1>1. Current' = Current /\ (repairs # <<>> => Current \in Repairs)
  BY <1>f, Numbers DEF Current
<1>2. Repaired' = Repaired
  <2>1. CASE repairs = <<>>
    BY <2>1, <1>f DEF Repaired
  <2>2. CASE repairs # <<>> /\ k = Current
    BY <2>2, <1>a, <1>f, <1>g, <1>1 DEF Repaired, Act
  <2>3. CASE repairs # <<>> /\ k # Current
    BY <2>3, <1>k, <1>f, <1>1 DEF Repaired
  <2> QED BY <2>1, <2>2, <2>3
<1>3. \A x \in Keys : rows'.node[x] = "succeeded" <=> rows.node[x] = "succeeded"
  BY <1>a, <1>f, <1>g DEF Act
<1>4. ASSUME NEW S \in SUBSET Core PROVE Done(S)' = Done(S)
  BY <1>3, <1>k DEF Done
<1>5. TypeInv'
  BY <1>f, <1>o DEF TypeInv
<1>6. RequestsFit'
  BY <1>f, <1>o DEF RequestsFit, RequestFits, Trees
<1>7. RepairsFit'
  <2> SUFFICES ASSUME NEW i \in DOMAIN RepairKeys PROVE RepairFits(i)'
    BY DEF RepairsFit
  <2>1. RepairKeys[i] \in Repairs /\ RepairFits(i)
    BY <1>o, KeyFacts DEF RepairsFit
  <2>2. RepairKeys[i] # k => RepairFits(i)'
    BY <2>1, <1>f, <1>k DEF RepairFits
  <2>3. ASSUME RepairKeys[i] = k PROVE RepairFits(i)'
    <3>1. k = Current /\ repairs # <<>>
      BY <2>1, <2>3, <1>k, <1>c DEF InTurn
    <3>2. i = Len(repairs)
      <4>1. Len(repairs) \in DOMAIN RepairKeys /\ RepairKeys[Len(repairs)] = RepairKeys[i]
        BY <3>1, <2>3, Numbers DEF Current
      <4> QED BY <4>1 DEF Policy
    <3>3. \A a \in rows'.in[k] : a[2] = i
      BY <1>i, <2>1, <2>3, <3>2, DueFacts
    <3>4. rows'.out[k] = rows.out[k] /\ rows'.last[k] = rows.last[k]
      BY <1>f, <1>g, <1>k, <1>c, <2>1, <2>3
    <3>5. ~(i > Len(repairs)) /\ ~(i < Len(repairs))
      BY <3>2, Numbers
    <3> QED BY <2>1, <2>3, <1>3, <1>f, <1>g, <3>2, <3>3, <3>4, <3>5 DEF RepairFits
  <2> QED BY <2>2, <2>3
<1>8. InputsFit'
  <2> SUFFICES ASSUME NEW x \in Core, NEW a \in rows'.in[x] PROVE a[1] # "report"
    BY DEF InputsFit
  <2>1. CASE x = k
    BY <2>1, <1>i, DueFacts
  <2>2. CASE x # k
    BY <2>2, <1>f, <1>k, <1>o DEF InputsFit
  <2> QED BY <2>1, <2>2
<1>9. WriterFits'
  <2>1. Done({"write"})' = Done({"write"})
    BY <1>4, <1>c
  <2>2. rows'.in["write"] = {}
    <3>1. CASE k = "write"
      BY <3>1, <1>i, DueIs
    <3>2. CASE k # "write"
      BY <3>2, <1>f, <1>k, <1>c, <1>o DEF WriterFits
    <3> QED BY <3>1, <3>2
  <2> QED BY <1>2, <1>f, <1>o, <2>1, <2>2 DEF WriterFits, Trees
<1>10. OutputsFit'
  <2>1. \A x \in Core : x \notin {"pre", "final"} => rows'.out[x] = rows.out[x]
    BY <1>f, <1>g, <1>k
  <2>2. \A x \in Core : Done({x})' = Done({x})
    BY <1>4
  <2>3. \A x \in {"pre", "final"} : \/ rows'.out[x] = rows.out[x]
                                    \/ rows.node[x] # "succeeded" /\ rows'.out[x] = {<<"report", models>>}
    BY <1>a, <1>f, <1>g, <1>k, <1>c DEF Act
  <2>4. (IF Done({"pre"}) THEN OneTree(rows.out["pre"])
         ELSE rows.out["pre"] \subseteq {<<"report", models>>})'
    BY <1>c, <1>f, <1>o, <2>2, <2>3 DEF OutputsFit, OneTree, Trees, Done
  <2>5. (IF Done({"final"}) THEN OneTree(rows.out["final"])
         ELSE rows.out["final"] \subseteq {<<"report", models>>})'
    BY <1>c, <1>f, <1>o, <2>2, <2>3 DEF OutputsFit, OneTree, Trees, Done
  <2>6. /\ rows'.out["write"] = rows.out["write"] /\ rows'.out["seat"] = rows.out["seat"]
        /\ rows'.out["reduce"] = rows.out["reduce"] /\ rows'.out["fix"] = rows.out["fix"]
    BY <2>1, <1>c
  <2>7. /\ Done({"write"})' = Done({"write"}) /\ Done({"seat"})' = Done({"seat"})
        /\ Done({"reduce"})' = Done({"reduce"})
    BY <2>2, <1>c
  <2>8. Trees(models)' = Trees(models)
    BY <1>f DEF Trees
  <2> QED BY <1>f, <1>o, <2>4, <2>5, <2>6, <2>7, <2>8 DEF OutputsFit
<1>11. k # "pre" => rows'.out["pre"] = rows.out["pre"]
  BY <1>f, <1>k, <1>c
<1>12. /\ k # "pre" => Base' = Base /\ DueSeat' = DueSeat
       /\ k \notin {"pre", "seat"} => DueReduce' = DueReduce
  <2>1. k # "pre" => Base' = Base /\ DueSeat' = DueSeat
    BY <1>11, <1>f DEF Base, DueSeat, Kind
  <2>2. k \notin {"pre", "seat"} => DueReduce' = DueReduce
    BY <2>1, <1>f, <1>k, <1>c DEF DueReduce
  <2> QED BY <2>1, <2>2
<1>13. k \in Repairs => DueRepair(repairs[Len(repairs)])' = DueRepair(repairs[Len(repairs)])
  BY <1>f DEF DueRepair
<1>14. Turn(k, Due(k)) /\ /\ rows'.node[k] \in Act
                          /\ rows'.node[k] = "ready" => rows'.in[k] \in {{}, Due(k)}
                          /\ rows'.node[k] \in {"running", "failed"} => rows'.in[k] = Due(k)
                          /\ rows'.node[k] = "running" => run' = "active"
  BY <1>g, <1>t
<1>15. \A x \in Core \ {k} : /\ rows'.node[x] = rows.node[x] /\ rows'.in[x] = rows.in[x]
                             /\ rows'.out[x] = rows.out[x]
  BY <1>f, <1>k
<1>16. CASE k = "write" /\ Writing
  <2>1. Writing'
    <3>1. recovery'.state = recovery.state
      BY <1>16, <1>g
    <3> QED BY <1>16, <1>14, <1>15, <1>c, <1>f, <1>g, <3>1 DEF Writing
  <2>2. ~Validating /\ ~Finishing /\ ~Denied
    BY <1>16, <1>a DEF Validating, Finishing, Denied, Reviewed, Chain, Done, Act
  <2> QED BY <1>5, <1>6, <1>7, <1>8, <1>9, <1>10, <2>1, <2>2 DEF IInv, StageInv
<1>17. CASE k \in Repairs /\ k = Current /\ repairs # <<>> /\ UnderRepair
  <2>1. UnderRepair'
    <3>1. /\ Done({"write"})' /\ Done({"pre", "seat", "reduce"})' = Done({"pre", "seat", "reduce"})
      BY <1>4, <1>17, <1>c DEF UnderRepair
    <3>2. TailHeld' /\ rows'.out["final"] = {}
      BY <1>15, <1>17, <1>k, <1>c, <1>f DEF UnderRepair, TailHeld
    <3>3. recovery'.state # "open" /\ models' < MaxCandidates /\ ~Repaired'
      BY <1>2, <1>17, <1>k, <1>c, <1>f, <1>g DEF UnderRepair
    <3>4. Turn(Current, DueRepair(repairs[Len(repairs)]))'
      BY <1>1, <1>13, <1>14, <1>17, DueIs DEF Turn
    <3>5. /\ rows'.node["pre"] = rows.node["pre"] /\ Rearmable({"seat", "reduce"})' = Rearmable({"seat", "reduce"})
      BY <1>15, <1>17, <1>k, <1>c DEF Rearmable
    <3> QED BY <1>17, <1>f, <3>1, <3>2, <3>3, <3>4, <3>5 DEF UnderRepair
  <2>2. ~Validating /\ ~Finishing /\ ~Denied
    BY <1>17 DEF UnderRepair, Validating, Finishing, Denied, Reviewed, Chain
  <2> QED BY <1>5, <1>6, <1>7, <1>8, <1>9, <1>10, <2>1, <2>2 DEF IInv, StageInv
<1>c1. ASSUME Chain PROVE Chain'
  BY <1>2, <1>4, <1>c1, <1>c DEF Chain
<1>c2. ASSUME TailHeld, k \notin {"fix", "final"} PROVE TailHeld'
  BY <1>15, <1>c, <1>f, <1>c2 DEF TailHeld
<1>18. CASE k = "pre" /\ Validating
  <2>1. Validating'
    <3>1. Turn("pre", {<<"wiki", models, FALSE>>})'
      BY <1>14, <1>18, <1>f, DueIs DEF Turn
    <3>2. Rearmable({"seat", "reduce"})'
      BY <1>15, <1>18, <1>c DEF Validating, Rearmable
    <3> QED BY <1>18, <1>c1, <1>c2, <3>1, <3>2 DEF Validating
  <2>2. ~Finishing /\ ~Denied
    BY <1>18, <1>a DEF Finishing, Denied, Reviewed, Done, Act
  <2> QED BY <1>5, <1>6, <1>7, <1>8, <1>9, <1>10, <2>1, <2>2 DEF IInv, StageInv
<1>19. CASE k = "seat" /\ Reviewing
  <2>1. Reviewing'
    <3>1. Turn("seat", DueSeat)'
      BY <1>12, <1>14, <1>19, DueIs DEF Turn
    <3>2. Rearmable({"reduce"})' /\ Done({"pre"})'
      BY <1>4, <1>15, <1>19, <1>c DEF Reviewing, Rearmable
    <3> QED BY <1>19, <1>c1, <1>c2, <3>1, <3>2 DEF Reviewing
  <2>2. ~Validating /\ ~Finishing /\ ~Denied
    BY <1>19, <1>a DEF Reviewing, Validating, Turn, Finishing, Denied, Reviewed, Done, Act
  <2> QED BY <1>5, <1>6, <1>7, <1>8, <1>9, <1>10, <2>1, <2>2 DEF IInv, StageInv
<1>20. CASE k = "reduce" /\ Reducing
  <2>1. Reducing'
    <3>1. Turn("reduce", DueReduce)'
      BY <1>12, <1>14, <1>20, DueIs DEF Turn
    <3>2. Done({"pre", "seat"})'
      BY <1>4, <1>20, <1>c DEF Reducing
    <3> QED BY <1>20, <1>c1, <1>c2, <3>1, <3>2 DEF Reducing
  <2>2. ~Validating /\ ~Finishing /\ ~Denied
    BY <1>20, <1>a DEF Reducing, Validating, Turn, Finishing, Denied, Reviewed, Done, Act
  <2> QED BY <1>5, <1>6, <1>7, <1>8, <1>9, <1>10, <2>1, <2>2 DEF IInv, StageInv
<1>21. CASE k = "final" /\ Finishing
  <2>1. Finishing'
    <3>1. Turn("final", Base)'
      BY <1>12, <1>14, <1>21, DueIs DEF Turn
    <3>2. Reviewed' /\ Done({"fix"})'
      <4>1. Done({"pre", "seat", "reduce"})' /\ Done({"fix"})'
        BY <1>4, <1>21, <1>c DEF Finishing, Reviewed
      <4>2. Chain'
        BY <1>c1, <1>21 DEF Finishing, Reviewed
      <4> QED BY <4>1, <4>2 DEF Reviewed
    <3>3. models' \in accepted' /\ rows'.gates = {}
      BY <1>21, <1>f DEF Finishing
    <3>4. /\ rows'.node["final"] = "failed" => run' = "failed"
          /\ rows'.node["final"] = "ready" => run' = "active"
      BY <1>21, <1>g
    <3> QED BY <3>1, <3>2, <3>3, <3>4 DEF Finishing
  <2>2. ~Validating /\ ~Denied
    BY <1>21, <1>a DEF Validating, Turn, Finishing, Denied, Reviewed, Done, Act
  <2> QED BY <1>5, <1>6, <1>7, <1>8, <1>9, <1>10, <2>1, <2>2 DEF IInv, StageInv
<1> QED BY <1>16, <1>17, <1>18, <1>19, <1>20, <1>21 DEF InTurn

LEMMA RecoveryFrame ==
  ASSUME Policy, IInv, recovery' = recovery, repairs' = repairs, models' = models,
         Denied => Denied', Validating => Validating', Finishing => Finishing'
  PROVE  RecoveryFits'
<1>1. \A s : InBudget(s)' = InBudget(s)
  BY DEF InBudget, Sourced, Budget
<1>2. Denied' = (Denied') /\ (Validating \/ Finishing => Validating' \/ Finishing')
  OBVIOUS
<1>3. \A r : RequestFits(r, models)' = RequestFits(r, models)
  BY DEF RequestFits, Trees
<1> QED BY <1>1, <1>2, <1>3 DEF IInv, RecoveryFits

LEMMA ClaimInv == ASSUME Policy, IInv, NEW k \in Keys, Claim(k) PROVE IInv'
<1>1. /\ Claimable(k) /\ rows' = Claimed(k) /\ repairs' = repairs /\ latest' = latest
      /\ models' = models /\ recovery' = recovery /\ run' = run /\ accepted' = accepted
      /\ reruns' = reruns
  BY DEF Claim
<1>2. InTurn(k) /\ rows.node[k] = "ready" /\ run = "active"
  BY <1>1, ClaimableInTurn DEF Claimable
<1>3. Mounted(rows, k) = Due(k) /\ Turn(k, Due(k)) /\ Due(k) \in SUBSET Artifacts
  BY <1>2, DueMounted, DueFacts
<1>4. rows \in RowsSet /\ recovery \in RecoverySet /\ run \in {"active", "waiting", "failed"}
  BY DEF IInv, TypeInv
<1>5. /\ rows' \in RowsSet
      /\ rows'.node = [rows.node EXCEPT ![k] = "running"]
      /\ rows'.in = [rows.in EXCEPT ![k] = IF @ = {} THEN Due(k) ELSE @]
      /\ rows'.out = rows.out /\ rows'.last = rows.last /\ rows'.gates = rows.gates
  BY <1>1, <1>3, <1>4, ClaimedFields
<1>6. rows'.node[k] = "running" /\ rows'.in[k] = Due(k)
  BY <1>2, <1>3, <1>4, <1>5 DEF Turn, RowsSet
<1>7. \A x \in Keys \ {k} : rows'.node[x] = rows.node[x] /\ rows'.in[x] = rows.in[x]
  BY <1>4, <1>5 DEF RowsSet
<1>8. KeepsTurn(k)
  BY <1>1, <1>2, <1>4, <1>5, <1>6, <1>7 DEF KeepsTurn, Act
<1> QED BY <1>1, <1>2, <1>8, KeepsTurnInv, RecoveryFrame

(* When the node whose turn it is fails, nothing is unlocked.                *)
Quiet(d, rs) == LET u == Unlock(d, rs) IN
    /\ u \in RowsSet /\ \A x \in Keys : u.node[x] = d.node[x]
    /\ u.in = d.in /\ u.out = d.out /\ u.last = d.last /\ u.gates = d.gates
LEMMA NothingUnlocks ==
  ASSUME Policy, IInv, NEW k \in Keys, InTurn(k), NEW d \in RowsSet, NEW rs,
         d.node = [rows.node EXCEPT ![k] = "failed"]
  PROVE  Quiet(d, rs)
<1>k. /\ Core \subseteq Keys /\ Repairs \subseteq Keys /\ \A x \in Repairs : x \notin Core
  BY KeyFacts
<1>c. Core = {"write", "pre", "seat", "reduce", "fix", "final"}
  BY DEF Core
<1>t. rows \in RowsSet
  BY DEF IInv, TypeInv
<1>1. /\ \A x \in Keys \ {k} : d.node[x] = rows.node[x]
      /\ d.node[k] = "failed"
  BY <1>t DEF RowsSet
<1>2. \A x \in Repairs : d.node[x] \notin Locked
  BY <1>1, <1>k, RepairStates DEF Locked
<1>3. ASSUME NEW x \in Core PROVE ~UnlockedCore(d)[x]
  <2>1. /\ UnlockedCore(d)["write"] = (d.node["write"] \in Locked)
        /\ UnlockedCore(d)["pre"] => d.node["pre"] \in Locked /\ d.node["write"] = "succeeded"
        /\ UnlockedCore(d)["seat"] = (d.node["seat"] \in Locked /\ d.node["pre"] = "succeeded")
        /\ UnlockedCore(d)["reduce"] = (d.node["reduce"] \in Locked /\ d.node["seat"] = "succeeded")
        /\ UnlockedCore(d)["fix"] = FALSE
        /\ UnlockedCore(d)["final"] = (d.node["final"] \in Locked /\ d.node["fix"] = "succeeded")
    BY DEF UnlockedCore
  <2>2. \A y \in Core : d.node[y] = IF y = k THEN "failed" ELSE rows.node[y]
    BY <1>1, <1>k
  <2>3. CASE k = "write" /\ Writing
    BY <2>1, <2>2, <2>3, <1>c DEF Writing, Locked
  <2>4. CASE k \in Repairs /\ UnderRepair
    <3>1. \A y \in Core : d.node[y] = rows.node[y]
      BY <2>2, <2>4, <1>k
    <3> QED BY <2>1, <2>4, <3>1, <1>c DEF UnderRepair, Done, TailHeld, Rearmable, Locked
  <2>5. CASE k = "pre" /\ Validating
    BY <2>1, <2>2, <2>5, <1>c DEF Validating, Chain, Done, TailHeld, Rearmable, Locked
  <2>6. CASE k = "seat" /\ Reviewing
    BY <2>1, <2>2, <2>6, <1>c DEF Reviewing, Chain, Done, TailHeld, Rearmable, Locked
  <2>7. CASE k = "reduce" /\ Reducing
    BY <2>1, <2>2, <2>7, <1>c DEF Reducing, Chain, Done, TailHeld, Locked
  <2>8. CASE k = "final" /\ Finishing
    BY <2>1, <2>2, <2>8, <1>c DEF Finishing, Reviewed, Chain, Done, Locked
  <2> QED BY <2>3, <2>4, <2>5, <2>6, <2>7, <2>8 DEF InTurn
<1> DEFINE u == Unlock(d, rs)
<1>4. /\ u \in RowsSet /\ u.in = d.in /\ u.out = d.out /\ u.last = d.last /\ u.gates = d.gates
      /\ \A x \in Repairs : u.node[x] = d.node[x]
      /\ \A x \in Core : u.node[x] = IF UnlockedCore(d)[x] THEN "ready" ELSE d.node[x]
  BY <1>2, Unlocks
<1> HIDE DEF u
<1>5. \A x \in Keys : u.node[x] = d.node[x]
  BY <1>3, <1>4 DEF Keys
<1> QED BY <1>4, <1>5 DEF u, Quiet

(* The Writer's failure, or that of the last validation, leaves no work.     *)
LEMMA NoWorkLeft ==
  ASSUME Policy, IInv, NEW k \in {"write", "final"}, InTurn(k), NEW d,
         \A x \in Keys \ {k} : d.node[x] = rows.node[x], d.node[k] = "failed"
  PROVE  ~HasActiveWork(d)
<1>k. /\ Core \subseteq Keys /\ Repairs \subseteq Keys /\ Keys = Core \cup Repairs
      /\ \A x \in Repairs : x \notin Core
  BY KeyFacts DEF Keys
<1>c. Core = {"write", "pre", "seat", "reduce", "fix", "final"}
  BY DEF Core
<1>1. Repaired
  BY <1>k, <1>c DEF InTurn, Writing, Finishing, Reviewed, Chain, Repaired
<1>2. \A x \in Repairs : d.node[x] \in {"none", "succeeded"}
  BY <1>1, <1>k, <1>c, RepairStates
<1>3. \A x \in Core : d.node[x] = IF x = k THEN "failed" ELSE rows.node[x]
  BY <1>k
<1>4. /\ d.node["final"] # "succeeded"
      /\ \A x \in Core : d.node[x] \notin {"ready", "running", "waiting"}
  <2>1. CASE k = "write" /\ Writing
    BY <1>3, <1>c, <2>1 DEF Writing
  <2>2. CASE k = "final" /\ Finishing
    BY <1>3, <1>c, <2>2 DEF Finishing, Reviewed, Chain, Done
  <2> QED BY <1>k, <1>c, <2>1, <2>2 DEF InTurn
<1> QED BY <1>2, <1>4, <1>k DEF HasActiveWork

LEMMA FailInv == ASSUME Policy, IInv, NEW k \in Keys, Fail(k) PROVE IInv'
<1>1. /\ rows.node[k] = "running" /\ repairs' = repairs /\ latest' = latest /\ models' = models
      /\ recovery' = recovery /\ accepted' = accepted /\ reruns' = reruns
      /\ rows' = IF HasActiveWork(Failed(k)) THEN Unlock(Failed(k), repairs) ELSE Failed(k)
      /\ run' = IF ~HasActiveWork(Failed(k)) THEN "failed" ELSE IF run = "waiting" THEN run ELSE "active"
  BY DEF Fail, Fails, AfterFailure
<1>2. InTurn(k)
  BY <1>1, RunningInTurn
<1>3. Turn(k, Due(k))
  BY <1>2, DueMounted
<1>4. rows \in RowsSet /\ recovery \in RecoverySet
  BY DEF IInv, TypeInv
<1> DEFINE d == Failed(k)
<1>5. /\ d \in RowsSet /\ d.node = [rows.node EXCEPT ![k] = "failed"]
      /\ d.in = rows.in /\ d.out = rows.out /\ d.last = rows.last /\ d.gates = rows.gates
  BY <1>4, FailedFields
<1> HIDE DEF d
<1>6. /\ Unlock(d, repairs) \in RowsSet
      /\ \A x \in Keys : Unlock(d, repairs).node[x] = d.node[x]
      /\ Unlock(d, repairs).in = d.in /\ Unlock(d, repairs).out = d.out
      /\ Unlock(d, repairs).last = d.last /\ Unlock(d, repairs).gates = d.gates
  <2>1. d \in RowsSet /\ d.node = [rows.node EXCEPT ![k] = "failed"]
    BY <1>5
  <2>2. Quiet(d, repairs)
    BY <1>2, <2>1, NothingUnlocks
  <2> QED BY <2>2 DEF Quiet
<1>7. \A x \in Keys : d.node[x] = IF x = k THEN "failed" ELSE rows.node[x]
  BY <1>4, <1>5 DEF RowsSet
<1>8. /\ rows' \in RowsSet /\ \A x \in Keys : rows'.node[x] = IF x = k THEN "failed" ELSE rows.node[x]
      /\ rows'.in = rows.in /\ rows'.out = rows.out /\ rows'.last = rows.last /\ rows'.gates = rows.gates
  BY <1>1, <1>5, <1>6, <1>7 DEF d
<1>9. k \in {"write", "final"} => run' = "failed"
  <2>1. k \in {"write", "final"} => ~HasActiveWork(d)
    BY <1>2, <1>7, NoWorkLeft
  <2> QED BY <1>1, <2>1 DEF d
<1>10. run' \in {"active", "waiting", "failed"}
  BY <1>1
<1>11. rows.in[k] = Due(k)
  BY <1>1, <1>3 DEF Turn
<1>12. KeepsTurn(k)
  BY <1>1, <1>4, <1>8, <1>9, <1>10, <1>11 DEF KeepsTurn, Act
<1> QED BY <1>1, <1>2, <1>12, KeepsTurnInv, RecoveryFrame

LEMMA VersionIs ==
  ASSUME NEW S, NEW n, NEW t \in Trees(n), WikiIn(S) = {t}
  PROVE  Version(S) = n /\ (CHOOSE w \in WikiIn(S) : TRUE) = t
<1>1. t[2] = n
  BY TreeIs
<1>2. (CHOOSE w \in WikiIn(S) : TRUE) = t
  OBVIOUS
<1> QED BY <1>1, <1>2 DEF Version

(* Only the node whose turn it is, or a validation whose repair is at work,  *)
(* has failed.                                                               *)
LEMMA FailedInTurn ==
  ASSUME Policy, IInv, NEW k \in Keys, rows.node[k] = "failed"
  PROVE  InTurn(k) \/ (k = "pre" /\ UnderRepair)
<1>1. CASE k \in Repairs
  BY <1>1, RepairInTurn DEF InTurn, Act
<1>2. CASE k \in Core
  <2>1. StageInv
    BY DEF IInv
  <2>2. CASE Writing
    BY <1>2, <2>2 DEF Writing, InTurn
  <2>3. CASE UnderRepair
    BY <1>2, <2>3 DEF UnderRepair, Core, Done, TailHeld, Rearmable, Locked
  <2>4. CASE Validating
    BY <1>2, <2>4 DEF Validating, InTurn, Chain, Core, Done, TailHeld, Rearmable, Locked
  <2>5. CASE Reviewing
    BY <1>2, <2>5 DEF Reviewing, InTurn, Chain, Core, Done, TailHeld, Rearmable, Locked
  <2>6. CASE Reducing
    BY <1>2, <2>6 DEF Reducing, InTurn, Chain, Core, Done, TailHeld
  <2>7. CASE Asking \/ Denied \/ Finished
    BY <1>2, <2>7 DEF Asking, Denied, Finished, Reviewed, Chain, Core, Done
  <2>8. CASE Finishing
    BY <1>2, <2>8 DEF Finishing, InTurn, Reviewed, Chain, Core, Done
  <2> QED BY <2>1, <2>2, <2>3, <2>4, <2>5, <2>6, <2>7, <2>8 DEF StageInv
<1> QED BY <1>1, <1>2 DEF Keys

LEMMA RetryInv == ASSUME Policy, IInv, NEW k \in Keys, RetryFailedNode(k) PROVE IInv'
<1>1. /\ rows.node[k] = "failed" /\ rows' = [rows EXCEPT !.node[k] = "ready"] /\ run' = "active"
      /\ repairs' = repairs /\ latest' = latest /\ models' = models
      /\ recovery' = recovery /\ accepted' = accepted /\ reruns' = reruns
  BY DEF RetryFailedNode, MayRetry
<1>2. rows \in RowsSet /\ recovery \in RecoverySet
  BY DEF IInv, TypeInv
<1>3. /\ rows' \in RowsSet /\ rows'.node = [rows.node EXCEPT ![k] = "ready"]
      /\ rows'.in = rows.in /\ rows'.out = rows.out /\ rows'.last = rows.last
      /\ rows'.gates = rows.gates
  BY <1>1, <1>2, ReadyFields
<1>4. \A x \in Keys : rows'.node[x] = IF x = k THEN "ready" ELSE rows.node[x]
  BY <1>2, <1>3 DEF RowsSet
<1>5. CASE InTurn(k)
  <2>1. rows.in[k] = Due(k)
    BY <1>1, <1>5, DueMounted DEF Turn
  <2>2. KeepsTurn(k)
    BY <1>1, <1>2, <1>3, <1>4, <2>1 DEF KeepsTurn, Act
  <2> QED BY <1>1, <1>5, <2>2, KeepsTurnInv, RecoveryFrame
<1>6. CASE k = "pre" /\ UnderRepair
  <2>k. /\ Core \subseteq Keys /\ Repairs \subseteq Keys /\ \A x \in Repairs : x \notin Core
        /\ Core = {"write", "pre", "seat", "reduce", "fix", "final"}
    BY KeyFacts DEF Core
  <2>o. OutputsFit /\ InputsFit /\ WriterFits /\ TypeInv
    BY DEF IInv
  <2>1. SameRepairs(rows')
    BY <1>3, <1>4, <1>6, <2>k DEF SameRepairs
  <2>2. /\ RepairsFit' /\ RequestsFit' /\ Repaired' = Repaired /\ Current' = Current
        /\ repairs' \in Seq(Requests) /\ Len(repairs') <= Len(RepairKeys)
    BY <1>1, <2>1, RepairsFrame
  <2>3. \A x \in Core : x # "pre" => rows'.node[x] = rows.node[x]
    BY <1>4, <1>6, <2>k
  <2>4. rows.node["pre"] # "succeeded" /\ rows'.node["pre"] = "ready"
    BY <1>1, <1>4, <1>6
  <2>5. \A x \in Core : Done({x})' = Done({x})
    BY <2>3, <2>4 DEF Done
  <2>6. UnderRepair'
    <3>1. Current \in Repairs
      BY <1>6, Numbers DEF UnderRepair, Repaired
    <3>2. Turn(Current, DueRepair(repairs[Len(repairs)]))'
      <4>1. rows'.node[Current] = rows.node[Current] /\ rows'.in[Current] = rows.in[Current]
        BY <1>3, <1>4, <1>6, <2>k, <3>1
      <4>2. DueRepair(repairs[Len(repairs)])' = DueRepair(repairs[Len(repairs)])
        BY <1>1 DEF DueRepair
      <4> QED BY <1>1, <1>6, <2>2, <4>1, <4>2 DEF UnderRepair, Turn
    <3>3. TailHeld' /\ rows'.out["final"] = {} /\ Done({"write"})' /\ Rearmable({"seat", "reduce"})'
      BY <1>1, <1>3, <1>6, <2>3, <2>k DEF UnderRepair, TailHeld, Done, Rearmable
    <3> QED BY <1>1, <1>6, <2>2, <2>4, <3>2, <3>3 DEF UnderRepair, Done
  <2>7. OutputsFit' /\ InputsFit'
    <3>1. OneTree(rows.out["pre"])' = OneTree(rows.out["pre"])
          /\ OneTree(rows.out["final"])' = OneTree(rows.out["final"]) /\ Trees(models)' = Trees(models)
      BY <1>1, <1>3 DEF OneTree, Trees
    <3> QED BY <1>1, <1>3, <2>5, <2>k, <2>o, <3>1 DEF OutputsFit, InputsFit
  <2>8. WriterFits'
    BY <1>1, <1>3, <2>2, <2>5, <2>k, <2>o DEF WriterFits, Trees
  <2>9. RecoveryFits'
    BY <1>1, <1>6 DEF UnderRepair, RecoveryFits
  <2>10. TypeInv'
    BY <1>1, <1>3, <2>2, <2>o DEF TypeInv
  <2> QED BY <2>2, <2>6, <2>7, <2>8, <2>9, <2>10 DEF IInv, StageInv
<1> QED BY <1>1, <1>5, <1>6, FailedInTurn

(* The facts a refusal goes by.                                              *)
LEMMA RefusalFacts ==
  ASSUME Policy, IInv, NEW k \in {"pre", "final"}, rows.node[k] = "running"
  PROVE  /\ k \in Keys /\ InTurn(k) /\ Version(rows.in[k]) = models /\ models \in Versions
         /\ latest \in Trees(models) /\ Mechanical(k) \in Requests
         /\ RequestFits(Mechanical(k), models) /\ rows.in[k] = Due(k)
         /\ Mechanical(k).up = "write" /\ Mechanical(k).source = "mechanical"
<1>1. k \in Keys /\ InTurn(k)
  BY RunningInTurn, KeyFacts DEF Core
<1>2. rows.in[k] = Due(k)
  BY <1>1, DueMounted DEF Turn
<1>3. PICK t \in Trees(models) : WikiIn(Due(k)) = {t} /\ models \in Versions
  BY <1>1, DueFacts
<1>4. Version(rows.in[k]) = models
  BY <1>2, <1>3, VersionIs
<1>5. Done({"write"}) /\ latest \in Trees(models)
  <2>1. \A x \in Repairs : x \notin {"pre", "final"}
    BY KeyFacts DEF Core
  <2>2. Done({"write"})
    BY <1>1, <2>1 DEF InTurn, Validating, Finishing, Reviewed, Chain
  <2> QED BY <2>2 DEF IInv, WriterFits
<1>6. latest \in Wikis
  BY <1>5, Numbers
<1>7. <<"report", models>> \in Receipts
  BY <1>3 DEF Receipts
<1>8. Mechanical(k) = [source |-> "mechanical", up |-> "write", baseline |-> latest,
                       report |-> {<<"report", models>>}]
  BY <1>4 DEF Mechanical
<1> DEFINE r == <<"report", models>>
<1> HIDE DEF r
<1>9. /\ Mechanical(k) \in Requests /\ Mechanical(k).up = "write"
      /\ Mechanical(k).source = "mechanical"
      /\ Mechanical(k).baseline = latest /\ Mechanical(k).report = {r}
  BY <1>6, <1>7, <1>8 DEF Requests, r
<1> QED BY <1>1, <1>2, <1>3, <1>4, <1>5, <1>9 DEF RequestFits, r

LEMMA RefusedInv ==
  ASSUME Policy, IInv, NEW k \in Keys, Invalid(k), ~(InBudget("mechanical") /\ UnderCap)
  PROVE  IInv'
<1> DEFINE d == Refused(k)
<1>1. /\ k \in {"pre", "final"} /\ rows.node[k] = "running" /\ repairs' = repairs
      /\ latest' = latest /\ models' = models /\ accepted' = accepted /\ reruns' = reruns
      /\ rows' = IF HasActiveWork(d) THEN Unlock(d, repairs) ELSE d
      /\ run' = IF ~HasActiveWork(d) THEN "failed" ELSE IF run = "waiting" THEN run ELSE "active"
      /\ recovery' = IF ~HasActiveWork(d) /\ MayRecover("mechanical")
                     THEN [state |-> "open", source |-> "mechanical", request |-> {Mechanical(k)}]
                     ELSE recovery
  BY DEF Invalid, Fails, AfterFailure
<1>2. /\ InTurn(k) /\ Version(rows.in[k]) = models /\ models \in Versions
      /\ latest \in Trees(models) /\ Mechanical(k) \in Requests
      /\ RequestFits(Mechanical(k), models) /\ rows.in[k] = Due(k)
      /\ Mechanical(k).up = "write" /\ Mechanical(k).source = "mechanical"
  BY <1>1, RefusalFacts
<1>4. rows \in RowsSet /\ recovery \in RecoverySet
  BY DEF IInv, TypeInv
<1>5. /\ d \in RowsSet /\ d.node = [rows.node EXCEPT ![k] = "failed"]
      /\ d.out = [rows.out EXCEPT ![k] = {<<"report", models>>}]
      /\ d.in = rows.in /\ d.last = rows.last /\ d.gates = rows.gates
  BY <1>2, <1>4, RefusedFields
<1> HIDE DEF d
<1>6. Quiet(d, repairs)
  <2>1. d \in RowsSet /\ d.node = [rows.node EXCEPT ![k] = "failed"]
    BY <1>5
  <2> QED BY <1>2, <2>1, NothingUnlocks
<1>7. \A x \in Keys : /\ d.node[x] = IF x = k THEN "failed" ELSE rows.node[x]
                      /\ d.out[x] = IF x = k THEN {<<"report", models>>} ELSE rows.out[x]
  BY <1>4, <1>5 DEF RowsSet
<1>8. /\ rows' \in RowsSet /\ \A x \in Keys : rows'.node[x] = d.node[x]
      /\ rows'.in = d.in /\ rows'.out = d.out /\ rows'.last = d.last /\ rows'.gates = d.gates
  BY <1>1, <1>5, <1>6 DEF Quiet
<1>9. k = "final" => run' = "failed"
  <2>1. k = "final" => ~HasActiveWork(d)
    BY <1>2, <1>7, NoWorkLeft
  <2> QED BY <1>1, <2>1
<1>10. run' \in {"active", "waiting", "failed"}
  BY <1>1
<1>11. recovery' \in RecoverySet
  BY <1>1, <1>2, <1>4 DEF RecoverySet
<1>12. KeepsTurn(k)
  BY <1>1, <1>2, <1>5, <1>7, <1>8, <1>9, <1>10, <1>11 DEF KeepsTurn, Act
<1>13. /\ RecoveryFits' => IInv'
       /\ Validating => Validating'
       /\ Finishing => Finishing'
       /\ ~Denied
  BY <1>2, <1>12, KeepsTurnInv
<1>14. Validating \/ Finishing
  <2>1. \A x \in Repairs : x \notin {"pre", "final"}
    BY KeyFacts DEF Core
  <2> QED BY <1>1, <1>2, <2>1 DEF InTurn
<1>15. CASE recovery' = recovery
  BY <1>1, <1>13, <1>15, RecoveryFrame
<1>16. CASE recovery' # recovery
  <2>1. /\ recovery' = [state |-> "open", source |-> "mechanical", request |-> {Mechanical(k)}]
        /\ ~InBudget("mechanical")
    BY <1>1, <1>16 DEF MayRecover
  <2>2. PICK r \in Requests : r = Mechanical(k)
    BY <1>2
  <2>3. /\ recovery'.state = "open" /\ recovery'.request = {r} /\ recovery'.source = "mechanical"
        /\ r.up = "write" /\ r.source = "mechanical" /\ RequestFits(r, models)
    BY <1>2, <2>1, <2>2
  <2>4. ~InBudget(recovery.source)' /\ RequestFits(r, models)'
    BY <1>1, <2>1, <2>3 DEF InBudget, Sourced, Budget, RequestFits, Trees
  <2>5. RecoveryFits'
    BY <1>13, <1>14, <2>3, <2>4 DEF RecoveryFits
  <2> QED BY <1>13, <2>5
<1> QED BY <1>15, <1>16

-----------------------------------------------------------------------------
(* A step that seals the outputs of one node and unlocks.                    *)

LEMMA RegistersFacts ==
  ASSUME NEW S, NEW t, WikiIn(S) = {t}, recovery \in RecoverySet, Registers(S)
  PROVE  /\ latest' = t /\ recovery' \in RecoverySet /\ recovery'.state # "open"
         /\ recovery.state = "none" => recovery'.state = "none"
<1>1. latest' = t
  BY DEF Registers
<1>2. recovery' = IF recovery.state = "open" THEN [recovery EXCEPT !.state = "outdated"] ELSE recovery
  BY DEF Registers
<1> QED BY <1>1, <1>2 DEF RecoverySet

LEMMA OneWiki == ASSUME NEW t \in Wikis PROVE WikiIn({t}) = {t}
  BY DEF WikiIn

Sealed(d, k, S) ==
    /\ rows' \in RowsSet /\ rows'.in = rows.in /\ rows'.last = rows.last /\ rows'.gates = d.gates
    /\ rows'.out[k] = S /\ \A x \in Core \ {k} : rows'.out[x] = rows.out[x]
    /\ SameRepairs(rows')
    /\ rows'.node["write"] = IF d.node["write"] \in Locked THEN "ready" ELSE d.node["write"]
    /\ rows'.node["pre"] = IF /\ d.node["pre"] \in Locked /\ d.node["write"] = "succeeded"
                              /\ \A x \in Repairs : rows.node[x] \in {"none", "succeeded"}
                           THEN "ready" ELSE d.node["pre"]
    /\ rows'.node["seat"] = IF d.node["seat"] \in Locked /\ d.node["pre"] = "succeeded"
                            THEN "ready" ELSE d.node["seat"]
    /\ rows'.node["reduce"] = IF d.node["reduce"] \in Locked /\ d.node["seat"] = "succeeded"
                              THEN "ready" ELSE d.node["reduce"]
    /\ rows'.node["fix"] = d.node["fix"]
    /\ rows'.node["final"] = IF d.node["final"] \in Locked /\ d.node["fix"] = "succeeded"
                             THEN "ready" ELSE d.node["final"]

LEMMA SealedIs ==
  ASSUME Policy, IInv, NEW d \in RowsSet, NEW k \in Core, NEW S,
         rows' = Unlock(d, repairs), d.in = rows.in, d.last = rows.last,
         d.out = [rows.out EXCEPT ![k] = S], \A x \in Repairs : d.node[x] = rows.node[x]
  PROVE  Sealed(d, k, S)
<1>k. /\ Core \subseteq Keys /\ Repairs \subseteq Keys /\ \A x \in Repairs : x \notin Core
      /\ Core = {"write", "pre", "seat", "reduce", "fix", "final"}
  BY KeyFacts DEF Core
<1>t. rows \in RowsSet
  BY DEF IInv, TypeInv
<1>1. \A x \in Repairs : d.node[x] \notin Locked
  BY RepairStates DEF Locked
<1>2. /\ rows' \in RowsSet /\ rows'.in = d.in /\ rows'.out = d.out /\ rows'.last = d.last
      /\ rows'.gates = d.gates
      /\ \A x \in Repairs : rows'.node[x] = d.node[x]
      /\ \A x \in Core : rows'.node[x] = IF UnlockedCore(d)[x] THEN "ready" ELSE d.node[x]
  BY <1>1, Unlocks
<1>3. \A x \in Keys : rows'.out[x] = IF x = k THEN S ELSE rows.out[x]
  BY <1>2, <1>k, <1>t DEF RowsSet
<1>4. SameRepairs(rows')
  BY <1>2, <1>3, <1>k DEF SameRepairs
<1>5. /\ UnlockedCore(d)["write"] = (d.node["write"] \in Locked)
      /\ UnlockedCore(d)["pre"] = (/\ d.node["pre"] \in Locked /\ d.node["write"] = "succeeded"
                                   /\ \A x \in Repairs : d.node[x] \in {"none", "succeeded"})
      /\ UnlockedCore(d)["seat"] = (d.node["seat"] \in Locked /\ d.node["pre"] = "succeeded")
      /\ UnlockedCore(d)["reduce"] = (d.node["reduce"] \in Locked /\ d.node["seat"] = "succeeded")
      /\ UnlockedCore(d)["fix"] = FALSE
      /\ UnlockedCore(d)["final"] = (d.node["final"] \in Locked /\ d.node["fix"] = "succeeded")
  BY DEF UnlockedCore
<1>6. (\A x \in Repairs : d.node[x] \in {"none", "succeeded"})
        <=> (\A x \in Repairs : rows.node[x] \in {"none", "succeeded"})
  OBVIOUS
<1>7. \A x \in Core \ {k} : rows'.out[x] = rows.out[x]
  BY <1>3, <1>k
<1>8. rows'.out[k] = S
  BY <1>3, <1>k
<1> QED BY <1>2, <1>4, <1>5, <1>6, <1>7, <1>8, <1>k DEF Sealed

(* What every step of the core leaves of the invariant.                      *)
LEMMA CoreStep ==
  ASSUME Policy, IInv, SameRepairs(rows'), rows'.in = rows.in, repairs' = repairs
  PROVE  /\ RepairsFit' /\ RequestsFit' /\ InputsFit' /\ Repaired' = Repaired /\ Current' = Current
         /\ repairs' \in Seq(Requests) /\ Len(repairs') <= Len(RepairKeys)
<1>1. InputsFit'
  BY DEF IInv, InputsFit
<1> QED BY <1>1, RepairsFrame

LEMMA WriteFirstInv == ASSUME Policy, IInv, Write("write") PROVE IInv'
<1> DEFINE w == <<"wiki", 1, FALSE>>
           d == Committed("write", {w})
<1>k. /\ Core \subseteq Keys /\ Core = {"write", "pre", "seat", "reduce", "fix", "final"}
      /\ "write" \notin Repairs /\ "write" \in Keys
  BY KeyFacts DEF Core
<1>t. /\ rows \in RowsSet /\ recovery \in RecoverySet /\ run \in {"active", "waiting", "failed"}
      /\ OutputsFit /\ WriterFits /\ TypeInv
  BY DEF IInv, TypeInv
<1>0. rows.node["write"] = "running" /\ InTurn("write") /\ Writing
  <2>1. rows.node["write"] = "running" /\ InTurn("write")
    BY <1>k, RunningInTurn DEF Write
  <2> QED BY <2>1, <1>k DEF InTurn
<1>1. models = 0 /\ Repaired /\ repairs = <<>>
  BY <1>0, <1>t DEF WriterFits, Done, Writing, Repaired
<1>2. /\ rows' = Unlock(d, repairs) /\ models' = 1 /\ Registers({w}) /\ run' = Recomputed(rows')
      /\ repairs' = repairs /\ accepted' = accepted /\ reruns' = reruns
  BY <1>1, <1>k DEF Write
<1>3. w \in Wikis /\ WikiIn({w}) = {w} /\ {w} \in SUBSET Artifacts /\ w \in Trees(1)
  <2>1. 1 \in Versions
    BY KeyFacts
  <2>2. w \in Wikis
    BY <2>1, WikiType
  <2> QED BY <2>2, OneWiki DEF Artifacts, Trees
<1>w. w = <<"wiki", 1, FALSE>>
  OBVIOUS
<1> HIDE DEF w
<1>4. /\ d \in RowsSet /\ d.node = [rows.node EXCEPT !["write"] = "succeeded"]
      /\ d.out = [rows.out EXCEPT !["write"] = {w}] /\ d.in = rows.in /\ d.last = rows.last
      /\ d.gates = rows.gates
  BY <1>k, <1>t, <1>3, CommittedFields
<1>d. rows' = Unlock(d, repairs)
  BY <1>2
<1> HIDE DEF d
<1>5. \A x \in Keys : d.node[x] = IF x = "write" THEN "succeeded" ELSE rows.node[x]
  BY <1>4, <1>t DEF RowsSet
<1>6. Sealed(d, "write", {w})
  <2>1. "write" \in Core /\ \A x \in Repairs : d.node[x] = rows.node[x]
    BY <1>5, <1>k, KeyFacts
  <2>2. /\ d \in RowsSet /\ d.in = rows.in /\ d.last = rows.last
        /\ d.out = [rows.out EXCEPT !["write"] = {w}]
    BY <1>4
  <2> QED BY <1>d, <2>1, <2>2, SealedIs
<1>7. /\ rows' \in RowsSet /\ rows'.in = rows.in /\ rows'.last = rows.last /\ rows'.gates = {}
      /\ rows'.out["write"] = {w} /\ \A x \in Core \ {"write"} : rows'.out[x] = {}
      /\ SameRepairs(rows')
  BY <1>0, <1>4, <1>6, <1>k DEF Sealed, Writing
<1>8. /\ rows'.node["write"] = "succeeded" /\ rows'.node["pre"] = "ready"
      /\ rows'.node["seat"] = "blocked" /\ rows'.node["reduce"] = "blocked"
      /\ rows'.node["fix"] = "blocked" /\ rows'.node["final"] = "blocked"
  <2>1. \A x \in Repairs : rows.node[x] \in {"none", "succeeded"}
    BY <1>1, RepairStates
  <2> QED BY <1>0, <1>5, <1>6, <1>k, <2>1 DEF Sealed, Writing, Locked
<1>9. /\ RepairsFit' /\ RequestsFit' /\ InputsFit' /\ Repaired' = Repaired /\ Current' = Current
      /\ repairs' \in Seq(Requests) /\ Len(repairs') <= Len(RepairKeys)
  BY <1>2, <1>7, CoreStep
<1>10. /\ latest' = w /\ recovery' \in RecoverySet /\ recovery'.state # "open"
  BY <1>2, <1>3, <1>t, RegistersFacts
<1>11. \A x \in Core \ {"write"} : rows'.in[x] = {}
  BY <1>0, <1>7, <1>k DEF Writing
<1>12. Validating'
  BY <1>1, <1>2, <1>7, <1>8, <1>9, <1>11, <1>k
     DEF Validating, Chain, Done, TailHeld, Turn, Act, Rearmable, Locked
<1>13. run' \in {"active", "waiting", "failed"}
  BY <1>2, <1>t DEF Recomputed
<1>14. TypeInv'
  BY <1>2, <1>3, <1>7, <1>9, <1>10, <1>13, <1>t DEF TypeInv
<1>15. OutputsFit'
  BY <1>7, <1>8, <1>k, <1>w DEF OutputsFit, Done
<1>16. WriterFits'
  <2>1. models' = Len(repairs') + 1 /\ models' <= MaxCandidates
    BY <1>1, <1>2 DEF Policy
  <2>2. latest' \in Trees(models)'
    BY <1>2, <1>3, <1>10 DEF Trees
  <2> QED BY <1>1, <1>7, <1>8, <1>9, <1>t, <2>1, <2>2 DEF WriterFits, Done
<1>17. RecoveryFits'
  BY <1>10 DEF RecoveryFits
<1> QED BY <1>9, <1>12, <1>14, <1>15, <1>16, <1>17 DEF IInv, StageInv

LEMMA WriteRepairInv == ASSUME Policy, IInv, NEW k \in Repairs, Write(k) PROVE IInv'
<1> DEFINE n == Len(repairs)
           v == models + 1
           w == <<"wiki", v, FALSE>>
           d == Committed(k, {w})
           e == Rearmed(d)
<1>k. /\ Core \subseteq Keys /\ Core = {"write", "pre", "seat", "reduce", "fix", "final"}
      /\ \A x \in Repairs : x \in Keys /\ x \notin Core
  BY KeyFacts DEF Core
<1>t. /\ rows \in RowsSet /\ recovery \in RecoverySet /\ run \in {"active", "waiting", "failed"}
      /\ OutputsFit /\ WriterFits /\ TypeInv /\ RepairsFit /\ RequestsFit /\ InputsFit
  BY DEF IInv, TypeInv
<1>0. rows.node[k] = "running" /\ k = Current /\ repairs # <<>> /\ UnderRepair
  <2>1. rows.node[k] = "running"
    BY DEF Write
  <2> QED BY <2>1, RepairInTurn DEF Act
<1>1. /\ models = n /\ n \in DOMAIN repairs /\ n \in DOMAIN RepairKeys /\ n \in Nat /\ n > 0
      /\ v \in Versions /\ v = n + 1 /\ v \in Nat
  <2>1. models = n
    BY <1>0, <1>t DEF UnderRepair, WriterFits
  <2>2. n \in DOMAIN repairs /\ n \in DOMAIN RepairKeys /\ n \in Nat /\ n > 0
    BY <1>0, Numbers
  <2> QED BY <2>1, <2>2, KeyFacts
<1>2. /\ rows' = Unlock(e, repairs) /\ models' = v /\ Registers({w}) /\ run' = Recomputed(rows')
      /\ repairs' = repairs /\ accepted' = accepted /\ reruns' = reruns
  BY <1>k DEF Write
<1>n. n = Len(repairs)
  OBVIOUS
<1>v. v = models + 1
  OBVIOUS
<1>w. w = <<"wiki", v, FALSE>>
  OBVIOUS
<1> HIDE DEF n, v
<1>3. w \in Wikis /\ WikiIn({w}) = {w} /\ {w} \in SUBSET Artifacts /\ w \in Trees(v)
  <2>1. w \in Wikis
    BY <1>1, WikiType
  <2> QED BY <2>1, OneWiki DEF Artifacts, Trees
<1> HIDE DEF w
<1>4. /\ d \in RowsSet /\ d.node = [rows.node EXCEPT ![k] = "succeeded"]
      /\ d.out = [rows.out EXCEPT ![k] = {w}] /\ d.in = rows.in /\ d.last = rows.last
      /\ d.gates = rows.gates
  BY <1>k, <1>t, <1>3, CommittedFields
<1> HIDE DEF d
<1>5. \A x \in Keys : /\ d.node[x] = IF x = k THEN "succeeded" ELSE rows.node[x]
                      /\ d.out[x] = IF x = k THEN {w} ELSE rows.out[x]
  BY <1>4, <1>t DEF RowsSet
<1>6. /\ e \in RowsSet /\ e.gates = d.gates
      /\ \A x \in Keys :
            /\ e.node[x] = IF x = "pre" THEN "ready"
                           ELSE IF x \in {"seat", "reduce"} THEN "invalidated" ELSE d.node[x]
            /\ e.in[x] = IF x \in {"pre", "seat", "reduce"} THEN {} ELSE d.in[x]
            /\ e.out[x] = IF x \in {"pre", "seat", "reduce"} THEN {} ELSE d.out[x]
            /\ x \notin {"pre", "seat", "reduce"} => e.last[x] = d.last[x]
  BY <1>4, RearmedFields
<1>e. rows' = Unlock(e, repairs)
  BY <1>2
<1> HIDE DEF e
<1>7. \A x \in Repairs : /\ e.node[x] = IF x = k THEN "succeeded" ELSE rows.node[x]
                         /\ e.in[x] = rows.in[x] /\ e.last[x] = rows.last[x]
                         /\ e.out[x] = IF x = k THEN {w} ELSE rows.out[x]
  BY <1>4, <1>5, <1>6, <1>k
<1>8. \A x \in Repairs : e.node[x] \notin Locked
  BY <1>7, RepairStates DEF Locked
<1>9. /\ rows' \in RowsSet /\ rows'.in = e.in /\ rows'.out = e.out /\ rows'.last = e.last
      /\ rows'.gates = e.gates
      /\ \A x \in Repairs : rows'.node[x] = e.node[x]
      /\ \A x \in Core : rows'.node[x] = IF UnlockedCore(e)[x] THEN "ready" ELSE e.node[x]
  BY <1>6, <1>8, <1>e, Unlocks
<1>10. /\ e.node["write"] = "succeeded" /\ e.node["pre"] = "ready"
       /\ e.node["seat"] = "invalidated" /\ e.node["reduce"] = "invalidated"
       /\ e.node["fix"] = "blocked" /\ e.node["final"] \in {"blocked", "ready"}
  BY <1>0, <1>5, <1>6, <1>k DEF UnderRepair, TailHeld, Done
<1>11. /\ rows'.node["write"] = "succeeded" /\ rows'.node["pre"] = "ready"
       /\ rows'.node["seat"] = "invalidated" /\ rows'.node["reduce"] = "invalidated"
       /\ rows'.node["fix"] = "blocked" /\ rows'.node["final"] \in {"blocked", "ready"}
  <2>1. /\ UnlockedCore(e)["write"] = (e.node["write"] \in Locked)
        /\ UnlockedCore(e)["pre"] => e.node["pre"] \in Locked
        /\ UnlockedCore(e)["seat"] = (e.node["seat"] \in Locked /\ e.node["pre"] = "succeeded")
        /\ UnlockedCore(e)["reduce"] = (e.node["reduce"] \in Locked /\ e.node["seat"] = "succeeded")
        /\ UnlockedCore(e)["fix"] = FALSE
        /\ UnlockedCore(e)["final"] = (e.node["final"] \in Locked /\ e.node["fix"] = "succeeded")
    BY DEF UnlockedCore
  <2>2. \A x \in Core : ~UnlockedCore(e)[x]
    BY <1>10, <1>k, <2>1 DEF Locked
  <2> QED BY <1>9, <1>10, <1>k, <2>2
<1>12. /\ \A x \in {"pre", "seat", "reduce"} : rows'.in[x] = {} /\ rows'.out[x] = {}
       /\ \A x \in {"write", "fix", "final"} : rows'.in[x] = rows.in[x] /\ rows'.out[x] = rows.out[x]
       /\ rows'.last["write"] = rows.last["write"] /\ rows'.gates = rows.gates
  BY <1>4, <1>5, <1>6, <1>9, <1>k
<1>13. Current' = Current /\ Repaired'
  <2>1. Current' = Current
    BY <1>2 DEF Current
  <2> QED BY <1>0, <1>7, <1>9, <2>1 DEF Repaired
<1>14. /\ latest' = w /\ recovery' \in RecoverySet /\ recovery'.state # "open"
  BY <1>2, <1>3, <1>t, RegistersFacts
<1>15. run' \in {"active", "waiting", "failed"}
  BY <1>2, <1>t DEF Recomputed
<1>16. TypeInv'
  BY <1>1, <1>2, <1>3, <1>9, <1>14, <1>15, <1>6, <1>t DEF TypeInv
<1>17. Validating'
  <2>1. Chain' /\ TailHeld'
    BY <1>0, <1>11, <1>12, <1>13 DEF Chain, Done, TailHeld, UnderRepair
  <2>2. Turn("pre", {<<"wiki", models, FALSE>>})' /\ Rearmable({"seat", "reduce"})'
    BY <1>11, <1>12 DEF Turn, Act, Rearmable, Locked
  <2> QED BY <2>1, <2>2 DEF Validating
<1>18. OutputsFit'
  <2>1. rows'.out["write"] = {<<"wiki", 1, FALSE>>} /\ rows'.out["fix"] = {}
    BY <1>0, <1>12, <1>t DEF OutputsFit, UnderRepair, Done
  <2>2. rows'.out["final"] = {}
    BY <1>0, <1>12 DEF UnderRepair
  <2> QED BY <1>11, <1>12, <2>1, <2>2 DEF OutputsFit, Done
<1>19. InputsFit'
  BY <1>12, <1>t, <1>k DEF InputsFit
<1>20. WriterFits'
  <2>1. v <= MaxCandidates
    BY <1>0, <1>t, <1>v DEF UnderRepair, TypeInv, Policy
  <2>2. latest' \in Trees(models)'
    BY <1>2, <1>3, <1>14 DEF Trees
  <2>3. Done({"write"})'
    BY <1>11 DEF Done
  <2>4. rows'.last["write"] = {} /\ rows'.in["write"] = {}
    BY <1>12, <1>t DEF WriterFits
  <2>5. models' = Len(repairs') + 1
    BY <1>1, <1>2, <1>n
  <2> QED BY <1>2, <1>13, <2>1, <2>2, <2>3, <2>4, <2>5 DEF WriterFits
<1>21. RepairsFit'
  <2> SUFFICES ASSUME NEW i \in DOMAIN RepairKeys PROVE RepairFits(i)'
    BY DEF RepairsFit
  <2>1. RepairKeys[i] \in Repairs /\ RepairFits(i) /\ i \in Nat
    BY <1>t, KeyFacts DEF RepairsFit
  <2>2. CASE RepairKeys[i] # k
    <3>1. /\ rows'.node[RepairKeys[i]] = rows.node[RepairKeys[i]]
          /\ rows'.in[RepairKeys[i]] = rows.in[RepairKeys[i]]
          /\ rows'.out[RepairKeys[i]] = rows.out[RepairKeys[i]]
          /\ rows'.last[RepairKeys[i]] = rows.last[RepairKeys[i]]
      BY <1>7, <1>9, <2>1, <2>2
    <3> QED BY <1>2, <2>1, <3>1 DEF RepairFits
  <2>3. CASE RepairKeys[i] = k
    <3>1. i = n
      BY <1>0, <1>1, <1>n, <2>3 DEF Current, Policy
    <3>2. /\ rows'.node[RepairKeys[i]] = "succeeded" /\ rows'.out[RepairKeys[i]] = {w}
          /\ rows'.in[RepairKeys[i]] = rows.in[RepairKeys[i]]
          /\ rows'.last[RepairKeys[i]] = rows.last[RepairKeys[i]]
      BY <1>7, <1>9, <2>1, <2>3
    <3>3. w = <<"wiki", i + 1, FALSE>>
      BY <1>1, <1>w, <3>1
    <3>4. ~(i > Len(repairs)) /\ ~(i < Len(repairs))
      BY <1>n, <2>1, <3>1
    <3> QED BY <1>2, <2>1, <3>2, <3>3, <3>4 DEF RepairFits
  <2> QED BY <2>2, <2>3
<1>22. RequestsFit'
  BY <1>2, <1>t DEF RequestsFit, RequestFits, Trees
<1>23. RecoveryFits'
  BY <1>14 DEF RecoveryFits
<1> QED BY <1>16, <1>17, <1>18, <1>19, <1>20, <1>21, <1>22, <1>23 DEF IInv, StageInv

(* The steps of the round that write no version of their own.                *)
LEMMA RoundStepBut ==
  ASSUME Policy, IInv, Done({"write"}), rows' \in RowsSet, rows'.in = rows.in,
         rows'.last = rows.last, SameRepairs(rows'), rows'.node["write"] = "succeeded",
         rows'.out["write"] = rows.out["write"],
         repairs' = repairs, models' = models, reruns' = reruns,
         latest' \in Trees(models), recovery' \in RecoverySet,
         run' \in {"active", "waiting", "failed"}, accepted' \subseteq Versions
  PROVE  /\ TypeInv' /\ InputsFit' /\ WriterFits' /\ RepairsFit' /\ RequestsFit'
         /\ Done({"write"})' /\ Repaired' = Repaired /\ rows'.out["write"] = {<<"wiki", 1, FALSE>>}
<1>t. OutputsFit /\ WriterFits /\ TypeInv
  BY DEF IInv
<1>1. /\ RepairsFit' /\ RequestsFit' /\ InputsFit' /\ Repaired' = Repaired
      /\ repairs' \in Seq(Requests) /\ Len(repairs') <= Len(RepairKeys)
  BY CoreStep
<1>2. Done({"write"})'
  BY DEF Done
<1>3. latest' \in Wikis
  BY Numbers
<1>4. TypeInv'
  BY <1>1, <1>3, <1>t DEF TypeInv
<1>5. WriterFits'
  <2>1. Trees(models)' = Trees(models)
    BY DEF Trees
  <2>2. rows'.last["write"] = {} /\ rows'.in["write"] = {}
    BY <1>t DEF WriterFits
  <2> QED BY <1>1, <1>2, <1>t, <2>1, <2>2 DEF WriterFits
<1>6. rows'.out["write"] = {<<"wiki", 1, FALSE>>}
  BY <1>t DEF OutputsFit
<1> QED BY <1>1, <1>2, <1>4, <1>5, <1>6

LEMMA RoundStep ==
  ASSUME Policy, IInv, NEW d \in RowsSet, NEW k \in Core \ {"write"}, NEW S,
         Done({"write"}), d.node["write"] = "succeeded",
         Sealed(d, k, S), repairs' = repairs, models' = models, reruns' = reruns,
         latest' \in Trees(models), recovery' \in RecoverySet, recovery'.state # "open",
         run' \in {"active", "waiting", "failed"}, accepted' \subseteq Versions
  PROVE  /\ TypeInv' /\ InputsFit' /\ WriterFits' /\ RepairsFit' /\ RequestsFit' /\ RecoveryFits'
         /\ Done({"write"})' /\ Repaired' = Repaired /\ rows'.out["write"] = {<<"wiki", 1, FALSE>>}
<1>1. RecoveryFits'
  BY DEF RecoveryFits
<1>2. /\ rows' \in RowsSet /\ rows'.in = rows.in /\ rows'.last = rows.last /\ SameRepairs(rows')
      /\ rows'.node["write"] = "succeeded" /\ rows'.out["write"] = rows.out["write"]
  <2>1. "write" \in Core \ {k} /\ "succeeded" \notin Locked
    BY DEF Core, Locked
  <2> QED BY <2>1 DEF Sealed
<1> QED BY <1>1, <1>2, RoundStepBut

(* mechanicalValidate seals one tree of the version it was given.            *)
LEMMA ValidatedTree ==
  ASSUME NEW n \in Versions, NEW t \in Trees(n), NEW fixed \in BOOLEAN
  PROVE  <<"wiki", t[2], t[3] \/ fixed>> \in Trees(n)
<1>1. t[2] = n /\ t[3] \in BOOLEAN
  <2>1. CASE t = <<"wiki", n, FALSE>>
    BY <2>1
  <2>2. CASE t = <<"wiki", n, TRUE>>
    BY <2>2
  <2> QED BY <2>1, <2>2 DEF Trees
<1>2. (t[3] \/ fixed) = TRUE \/ (t[3] \/ fixed) = FALSE
  BY <1>1
<1> DEFINE b == t[3] \/ fixed
<1>3. b = TRUE \/ b = FALSE
  BY <1>2
<1> HIDE DEF b
<1>4. <<"wiki", n, b>> \in Trees(n)
  BY <1>3 DEF Trees
<1> QED BY <1>1, <1>4 DEF b

LEMMA ValidateInv ==
  ASSUME Policy, IInv, NEW k \in {"pre", "final"}, Validate(k) PROVE IInv'
<1>k. /\ Core \subseteq Keys /\ Core = {"write", "pre", "seat", "reduce", "fix", "final"}
      /\ \A x \in Repairs : x \in Keys /\ x \notin Core
      /\ k \in Keys /\ k \in Core \ {"write"} /\ k \notin Repairs
  BY KeyFacts DEF Core
<1>t. /\ rows \in RowsSet /\ recovery \in RecoverySet /\ run \in {"active", "waiting", "failed"}
      /\ accepted \subseteq Versions /\ OutputsFit
  BY DEF IInv, TypeInv
<1>0. PICK fixed \in BOOLEAN :
        LET seen == CHOOSE w \in WikiIn(rows.in[k]) : TRUE
            wiki == {<<"wiki", seen[2], seen[3] \/ fixed>>}
        IN  /\ rows.node[k] = "running" /\ Registers(wiki)
            /\ rows' = Unlock(Committed(k, wiki), repairs) /\ run' = Recomputed(rows')
            /\ repairs' = repairs /\ models' = models /\ accepted' = accepted /\ reruns' = reruns
  BY DEF Validate
<1>1. InTurn(k) /\ rows.in[k] = Due(k)
  <2>1. InTurn(k) /\ rows.node[k] = "running"
    BY <1>0, <1>k, RunningInTurn
  <2> QED BY <2>1, <1>k, DueMounted DEF Turn
<1>2. PICK t \in Trees(models) : WikiIn(rows.in[k]) = {t} /\ models \in Versions
  BY <1>1, <1>k, DueFacts
<1>3. (CHOOSE w \in WikiIn(rows.in[k]) : TRUE) = t
  BY <1>2, VersionIs
<1> DEFINE w == <<"wiki", t[2], t[3] \/ fixed>>
           d == Committed(k, {w})
<1>4. w \in Trees(models)
  BY <1>2, ValidatedTree
<1>5. /\ rows.node[k] = "running" /\ Registers({w})
      /\ rows' = Unlock(d, repairs) /\ run' = Recomputed(rows')
      /\ repairs' = repairs /\ models' = models /\ accepted' = accepted /\ reruns' = reruns
  BY <1>0, <1>3
<1> HIDE DEF w
<1>s. Done({"write"}) /\ ((k = "pre" /\ Validating) \/ (k = "final" /\ Finishing))
  BY <1>1, <1>k DEF InTurn, Validating, Finishing, Reviewed, Chain
<1>6. w \in Wikis /\ WikiIn({w}) = {w} /\ {w} \in SUBSET Artifacts
  <2>1. w \in Wikis
    BY <1>4, <1>s, Numbers
  <2> QED BY <2>1, OneWiki DEF Artifacts
<1>7. /\ d \in RowsSet /\ d.node = [rows.node EXCEPT ![k] = "succeeded"]
      /\ d.out = [rows.out EXCEPT ![k] = {w}] /\ d.in = rows.in /\ d.last = rows.last
      /\ d.gates = rows.gates
  BY <1>k, <1>t, <1>6, CommittedFields
<1>d. rows' = Unlock(d, repairs)
  BY <1>5
<1> HIDE DEF d
<1>8. \A x \in Keys : d.node[x] = IF x = k THEN "succeeded" ELSE rows.node[x]
  BY <1>7, <1>t DEF RowsSet
<1>9. Sealed(d, k, {w})
  <2>1. k \in Core /\ \A x \in Repairs : d.node[x] = rows.node[x]
    BY <1>8, <1>k
  <2>2. /\ d \in RowsSet /\ d.in = rows.in /\ d.last = rows.last
        /\ d.out = [rows.out EXCEPT ![k] = {w}]
    BY <1>7
  <2> QED BY <1>d, <2>1, <2>2, SealedIs
<1>10. /\ latest' = w /\ recovery' \in RecoverySet /\ recovery'.state # "open"
  BY <1>5, <1>6, <1>t, RegistersFacts
<1>11. run' \in {"active", "waiting", "failed"}
  BY <1>5, <1>t DEF Recomputed
<1>12. d.node["write"] = "succeeded"
  BY <1>8, <1>s, <1>k DEF Done
<1>13. /\ TypeInv' /\ InputsFit' /\ WriterFits' /\ RepairsFit' /\ RequestsFit' /\ RecoveryFits'
       /\ Done({"write"})' /\ Repaired' = Repaired /\ rows'.out["write"] = {<<"wiki", 1, FALSE>>}
  <2>1. latest' \in Trees(models) /\ accepted' \subseteq Versions
    BY <1>4, <1>5, <1>10, <1>t
  <2>2. repairs' = repairs /\ models' = models /\ reruns' = reruns
    BY <1>5
  <2>3. d \in RowsSet /\ k \in Core \ {"write"} /\ Done({"write"})
    BY <1>7, <1>k, <1>s
  <2> QED BY <1>9, <1>10, <1>11, <1>12, <2>1, <2>2, <2>3, RoundStep
<1>14. OneTree({w})'
  BY <1>4, <1>5 DEF OneTree, Trees
<1>15. Trees(models)' = Trees(models)
  BY <1>5 DEF Trees
<1>16. CASE k = "pre" /\ Validating
  <2>1. /\ rows'.out["pre"] = {w} /\ \A x \in Core \ {"pre"} : rows'.out[x] = rows.out[x]
        /\ rows'.in = rows.in /\ rows'.gates = {}
    BY <1>7, <1>9, <1>16 DEF Sealed, Validating, TailHeld
  <2>2. /\ rows'.node["pre"] = "succeeded" /\ rows'.node["seat"] = "ready"
        /\ rows'.node["reduce"] \in Locked /\ rows'.node["fix"] = "blocked"
        /\ rows'.node["final"] \in {"blocked", "ready"}
    BY <1>8, <1>9, <1>16, <1>k DEF Sealed, Validating, TailHeld, Rearmable, Locked
  <2>3. Reviewing'
    <3>1. Chain' /\ TailHeld' /\ Done({"pre"})'
      BY <1>13, <1>16, <2>1, <2>2 DEF Validating, Chain, TailHeld, Done
    <3>2. Turn("seat", DueSeat)' /\ Rearmable({"reduce"})'
      BY <1>16, <2>1, <2>2 DEF Validating, Turn, Act, Rearmable
    <3> QED BY <3>1, <3>2 DEF Reviewing
  <2>4. OutputsFit'
    <3>1. /\ rows.out["seat"] = {} /\ rows.out["reduce"] = {} /\ rows.out["fix"] = {}
          /\ rows.out["final"] \subseteq {<<"report", models>>}
      BY <1>16, <1>t DEF OutputsFit, Done, Validating, Rearmable, Locked, TailHeld
    <3> QED BY <1>5, <1>13, <1>14, <1>k, <2>1, <2>2, <3>1 DEF OutputsFit, Done, Locked
  <2> QED BY <1>13, <2>3, <2>4 DEF IInv, StageInv
<1>17. CASE k = "final" /\ Finishing
  <2>1. /\ rows'.out["final"] = {w} /\ \A x \in Core \ {"final"} : rows'.out[x] = rows.out[x]
        /\ rows'.in = rows.in /\ rows'.gates = {}
    BY <1>7, <1>9, <1>17 DEF Sealed, Finishing
  <2>2. \A x \in Core : rows'.node[x] = "succeeded"
    BY <1>8, <1>9, <1>17, <1>k DEF Sealed, Finishing, Reviewed, Chain, Done, Locked
  <2>3. Finished'
    <3>1. Reviewed' /\ Done({"fix", "final"})'
      BY <1>13, <1>17, <1>k, <2>2 DEF Finishing, Reviewed, Chain, Done
    <3>2. models' \in accepted'
      BY <1>5, <1>17 DEF Finishing
    <3>3. rows'.in["final"] = Base'
      BY <1>1, <1>5, <1>17, <1>k, <2>1, DueIs DEF Base
    <3> QED BY <2>1, <3>1, <3>2, <3>3 DEF Finished
  <2>4. OutputsFit'
    <3>1. \A x \in Core : rows'.node[x] = "succeeded" /\ (x # "final" => rows.node[x] = "succeeded")
      BY <1>17, <1>k, <2>2 DEF Finishing, Reviewed, Chain, Done
    <3>2. /\ OneTree(rows.out["pre"]) /\ rows.out["seat"] = {<<"finding", models>>}
          /\ \E t2 \in Trees(models) : rows.out["reduce"] = {<<"defects", models>>, t2}
          /\ rows.out["fix"] = {}
      BY <1>k, <1>t, <3>1 DEF OutputsFit, Done
    <3>3. OneTree(rows.out["pre"])'
      BY <1>15, <1>k, <2>1, <3>2 DEF OneTree
    <3> QED BY <1>5, <1>13, <1>14, <1>15, <1>k, <2>1, <3>1, <3>2, <3>3 DEF OutputsFit, Done
  <2> QED BY <1>13, <2>3, <2>4 DEF IInv, StageInv
<1> QED BY <1>s, <1>16, <1>17

LEMMA ReviewInv == ASSUME Policy, IInv, Review PROVE IInv'
<1> DEFINE f == <<"finding", models>>
           d == Committed("seat", {f})
<1>k. /\ Core \subseteq Keys /\ Core = {"write", "pre", "seat", "reduce", "fix", "final"}
      /\ \A x \in Repairs : x \in Keys /\ x \notin Core
  BY KeyFacts DEF Core
<1>t. /\ rows \in RowsSet /\ recovery \in RecoverySet /\ run \in {"active", "waiting", "failed"}
      /\ accepted \subseteq Versions /\ OutputsFit /\ WriterFits
  BY DEF IInv, TypeInv
<1>0. rows.node["seat"] = "running" /\ InTurn("seat") /\ Reviewing /\ rows.in["seat"] = Due("seat")
  <2>1. rows.node["seat"] = "running" /\ InTurn("seat")
    BY <1>k, RunningInTurn DEF Review
  <2>2. rows.in["seat"] = Due("seat")
    BY <2>1, <1>k, DueMounted DEF Turn
  <2> QED BY <2>1, <2>2, <1>k DEF InTurn
<1>1. PICK t \in Trees(models) : WikiIn(rows.in["seat"]) = {t} /\ models \in Versions
  BY <1>0, <1>k, DueFacts
<1>2. Version(rows.in["seat"]) = models
  BY <1>1, VersionIs
<1>3. /\ rows' = Unlock(d, repairs) /\ run' = Recomputed(rows')
      /\ repairs' = repairs /\ latest' = latest /\ models' = models /\ recovery' = recovery
      /\ accepted' = accepted /\ reruns' = reruns
  BY <1>2 DEF Review
<1>f. f = <<"finding", models>>
  OBVIOUS
<1> HIDE DEF f
<1>4. {f} \in SUBSET Artifacts
  BY <1>1, <1>f DEF Artifacts, Receipts
<1>5. /\ d \in RowsSet /\ d.node = [rows.node EXCEPT !["seat"] = "succeeded"]
      /\ d.out = [rows.out EXCEPT !["seat"] = {f}] /\ d.in = rows.in /\ d.last = rows.last
      /\ d.gates = rows.gates
  BY <1>k, <1>t, <1>4, CommittedFields
<1>d. rows' = Unlock(d, repairs)
  BY <1>3
<1> HIDE DEF d
<1>6. \A x \in Keys : d.node[x] = IF x = "seat" THEN "succeeded" ELSE rows.node[x]
  BY <1>5, <1>t DEF RowsSet
<1>7. Sealed(d, "seat", {f})
  <2>1. "seat" \in Core /\ \A x \in Repairs : d.node[x] = rows.node[x]
    BY <1>6, <1>k
  <2>2. /\ d \in RowsSet /\ d.in = rows.in /\ d.last = rows.last
        /\ d.out = [rows.out EXCEPT !["seat"] = {f}]
    BY <1>5
  <2> QED BY <1>d, <2>1, <2>2, SealedIs
<1>8. /\ rows' \in RowsSet /\ rows'.in = rows.in /\ rows'.last = rows.last /\ rows'.gates = {}
      /\ rows'.out["seat"] = {f} /\ \A x \in Core \ {"seat"} : rows'.out[x] = rows.out[x]
      /\ SameRepairs(rows')
  BY <1>0, <1>5, <1>7 DEF Sealed, Reviewing, TailHeld
<1>9. /\ rows'.node["write"] = "succeeded" /\ rows'.node["pre"] = "succeeded"
      /\ rows'.node["seat"] = "succeeded" /\ rows'.node["reduce"] = "ready"
      /\ rows'.node["fix"] = "blocked" /\ rows'.node["final"] \in {"blocked", "ready"}
  BY <1>0, <1>6, <1>7, <1>k DEF Sealed, Reviewing, Chain, Done, TailHeld, Rearmable, Locked
<1>10. /\ RepairsFit' /\ RequestsFit' /\ InputsFit' /\ Repaired' = Repaired
       /\ repairs' \in Seq(Requests) /\ Len(repairs') <= Len(RepairKeys)
  BY <1>3, <1>8, CoreStep
<1>11. run' \in {"active", "waiting", "failed"}
  BY <1>3, <1>t DEF Recomputed
<1>12. TypeInv'
  BY <1>3, <1>8, <1>10, <1>11 DEF IInv, TypeInv
<1>13. Done({"write"}) /\ Done({"write"})' /\ Repaired' = Repaired
  BY <1>0, <1>9, <1>10 DEF Reviewing, Chain, Done
<1>14. WriterFits'
  <2>1. Trees(models)' = Trees(models)
    BY <1>3 DEF Trees
  <2>2. rows'.last["write"] = {} /\ rows'.in["write"] = {}
    BY <1>8, <1>t DEF WriterFits
  <2> QED BY <1>3, <1>13, <1>t, <2>1, <2>2 DEF WriterFits
<1>15. Reducing'
  <2>1. rows.in["reduce"] = {}
    BY <1>0 DEF Reviewing, Rearmable
  <2> QED BY <1>0, <1>8, <1>9, <1>13, <2>1
          DEF Reducing, Reviewing, Chain, TailHeld, Turn, Act, Done
<1>16. OutputsFit'
  <2>1. /\ OneTree(rows.out["pre"]) /\ rows.out["reduce"] = {} /\ rows.out["fix"] = {}
        /\ rows.out["final"] \subseteq {<<"report", models>>} /\ rows.out["write"] = {<<"wiki", 1, FALSE>>}
    BY <1>0, <1>t DEF OutputsFit, Done, Reviewing, Chain, Rearmable, Locked, TailHeld
  <2>2. OneTree(rows.out["pre"])'
    BY <1>3, <1>8, <1>k, <2>1 DEF OneTree, Trees
  <2> QED BY <1>3, <1>8, <1>9, <1>f, <1>k, <2>1, <2>2 DEF OutputsFit, Done
<1>17. RecoveryFits'
  <2>1. ~Denied /\ ~Validating /\ ~Finishing
    BY <1>0 DEF Reviewing, Denied, Validating, Finishing, Reviewed, Turn, Done, Act
  <2> QED BY <1>3, <2>1, RecoveryFrame
<1> QED BY <1>10, <1>12, <1>14, <1>15, <1>16, <1>17 DEF IInv, StageInv

LEMMA ReducedIs ==
  ASSUME Policy, IInv, rows.node["reduce"] = "running"
  PROVE  /\ Reducing /\ models \in Versions /\ Reduced \in SUBSET Artifacts
         /\ Kind("defects", Reduced) = {<<"defects", models>>}
         /\ \E t \in Trees(models) : /\ Reduced = {<<"defects", models>>, t}
                                     /\ WikiIn(Reduced) = {t}
<1>k. /\ Core \subseteq Keys /\ "reduce" \in Core /\ "reduce" \notin {"write", "pre", "seat", "final"}
      /\ "reduce" \notin Repairs
  BY KeyFacts DEF Core
<1>1. InTurn("reduce") /\ Reducing /\ rows.in["reduce"] = DueReduce
  <2>1. InTurn("reduce")
    BY <1>k, RunningInTurn
  <2>2. Reducing
    BY <1>k, <2>1 DEF InTurn
  <2> QED BY <2>1, <2>2 DEF Reducing, Turn
<1>2. Done({"write"}) /\ Done({"pre"}) /\ Done({"seat"})
  BY <1>1 DEF Reducing, Chain, Done
<1>3. PICK t \in Trees(models) : Base = {t}
  BY <1>2, BaseIs DEF Done
<1>4. models \in Versions /\ t \in Wikis /\ t[1] = "wiki"
  BY <1>2, Numbers, TreeIs
<1> DEFINE f == <<"finding", models>>
           b == <<"defects", models>>
<1>5. rows.in["reduce"] = {t, f}
  <2>1. rows.out["seat"] = {f}
    BY <1>2 DEF IInv, OutputsFit
  <2> QED BY <1>1, <1>3, <2>1 DEF DueReduce
<1>6. f[1] = "finding" /\ f[2] = models /\ b[1] = "defects"
  OBVIOUS
<1>7. b \in Receipts /\ f \in Receipts
  BY <1>4 DEF Receipts
<1>b. b = <<"defects", models>>
  OBVIOUS
<1> HIDE DEF f, b
<1>8. f \notin Wikis /\ b \notin Wikis
  BY <1>7, WikisAndReceipts
<1>9. Kind("finding", rows.in["reduce"]) = {f}
  BY <1>4, <1>5, <1>6 DEF Kind
<1>10. WikiIn(rows.in["reduce"]) = {t}
  BY <1>4, <1>5, <1>8 DEF WikiIn
<1>11. Reduced = {b, t}
  <2>1. (CHOOSE x \in Kind("finding", rows.in["reduce"]) : TRUE) = f
    BY <1>9
  <2> QED BY <1>6, <1>10, <2>1 DEF Reduced, b
<1>12. Kind("defects", Reduced) = {b}
  BY <1>4, <1>6, <1>11 DEF Kind
<1>13. WikiIn(Reduced) = {t}
  BY <1>4, <1>8, <1>11 DEF WikiIn
<1>14. Reduced \in SUBSET Artifacts
  BY <1>4, <1>7, <1>11 DEF Artifacts
<1> QED BY <1>1, <1>4, <1>11, <1>12, <1>13, <1>14, <1>b

LEMMA ReduceCleanInv == ASSUME Policy, IInv, ReduceClean PROVE IInv'
<1> DEFINE c == Committed("reduce", Reduced)
           d == AutoPassed(c)
<1>k. /\ Core \subseteq Keys /\ Core = {"write", "pre", "seat", "reduce", "fix", "final"}
      /\ \A x \in Repairs : x \in Keys /\ x \notin Core
  BY KeyFacts DEF Core
<1>t. /\ rows \in RowsSet /\ recovery \in RecoverySet /\ OutputsFit /\ accepted \subseteq Versions
  BY DEF IInv, TypeInv
<1>0. /\ rows.node["reduce"] = "running" /\ rows' = Unlock(d, repairs) /\ run' = "active"
      /\ Registers(Reduced) /\ accepted' = accepted \cup {x[2] : x \in Kind("defects", Reduced)}
      /\ repairs' = repairs /\ models' = models /\ reruns' = reruns
  BY DEF ReduceClean
<1>1. /\ Reducing /\ models \in Versions /\ Reduced \in SUBSET Artifacts
      /\ Kind("defects", Reduced) = {<<"defects", models>>}
  BY <1>0, ReducedIs
<1>2. PICK t \in Trees(models) : Reduced = {<<"defects", models>>, t} /\ WikiIn(Reduced) = {t}
  BY <1>0, ReducedIs
<1>3. accepted' = accepted \cup {models}
  <2> DEFINE b == <<"defects", models>>
  <2>1. Kind("defects", Reduced) = {b} /\ b[2] = models
    BY <1>1
  <2> HIDE DEF b
  <2>2. {x[2] : x \in Kind("defects", Reduced)} = {models}
    BY <2>1
  <2> QED BY <1>0, <2>2
<1>4. /\ c \in RowsSet /\ c.node = [rows.node EXCEPT !["reduce"] = "succeeded"]
      /\ c.out = [rows.out EXCEPT !["reduce"] = Reduced] /\ c.in = rows.in /\ c.last = rows.last
      /\ c.gates = rows.gates
  BY <1>k, <1>t, <1>1, CommittedFields
<1> HIDE DEF c
<1>5. /\ d \in RowsSet
      /\ d.node = [c.node EXCEPT !["fix"] =
            IF @ \in {"blocked", "waiting", "ready", "running"} THEN "succeeded" ELSE @]
      /\ d.out = c.out /\ d.in = c.in /\ d.last = c.last /\ d.gates = c.gates
  BY <1>4, AutoPassedFields
<1>d. rows' = Unlock(d, repairs)
  BY <1>0
<1> HIDE DEF d
<1>6. \A x \in Keys : d.node[x] = IF x \in {"reduce", "fix"} THEN "succeeded" ELSE rows.node[x]
  <2>1. rows.node["fix"] = "blocked"
    BY <1>1 DEF Reducing, TailHeld
  <2> QED BY <1>4, <1>5, <1>k, <1>t, <2>1 DEF RowsSet
<1>7. Sealed(d, "reduce", Reduced)
  <2>1. "reduce" \in Core /\ \A x \in Repairs : d.node[x] = rows.node[x]
    BY <1>6, <1>k
  <2>2. /\ d \in RowsSet /\ d.in = rows.in /\ d.last = rows.last
        /\ d.out = [rows.out EXCEPT !["reduce"] = Reduced]
    BY <1>4, <1>5
  <2> QED BY <1>d, <2>1, <2>2, SealedIs
<1>8. /\ latest' = t /\ recovery' \in RecoverySet /\ recovery'.state # "open"
  BY <1>0, <1>2, <1>t, RegistersFacts
<1>s. Done({"write"}) /\ Done({"pre"}) /\ Done({"seat"}) /\ Repaired
  BY <1>1 DEF Reducing, Chain, Done
<1>9. /\ TypeInv' /\ InputsFit' /\ WriterFits' /\ RepairsFit' /\ RequestsFit' /\ RecoveryFits'
      /\ Done({"write"})' /\ Repaired' = Repaired /\ rows'.out["write"] = {<<"wiki", 1, FALSE>>}
  <2>1. latest' \in Trees(models) /\ accepted' \subseteq Versions /\ run' \in {"active", "waiting", "failed"}
    BY <1>0, <1>1, <1>3, <1>8, <1>t
  <2>2. repairs' = repairs /\ models' = models /\ reruns' = reruns
    BY <1>0
  <2>3. d \in RowsSet /\ "reduce" \in Core \ {"write"} /\ d.node["write"] = "succeeded"
    BY <1>5, <1>6, <1>k, <1>s DEF Done
  <2> QED BY <1>7, <1>8, <1>s, <2>1, <2>2, <2>3, RoundStep
<1>10. /\ rows'.node["write"] = "succeeded" /\ rows'.node["pre"] = "succeeded"
       /\ rows'.node["seat"] = "succeeded" /\ rows'.node["reduce"] = "succeeded"
       /\ rows'.node["fix"] = "succeeded" /\ rows'.node["final"] = "ready"
  BY <1>1, <1>6, <1>7, <1>k, <1>s DEF Sealed, Reducing, Done, TailHeld, Locked
<1>11. /\ rows'.gates = {} /\ rows'.in["final"] = {} /\ rows'.out["reduce"] = Reduced
       /\ \A x \in Core \ {"reduce"} : rows'.out[x] = rows.out[x]
  BY <1>1, <1>4, <1>5, <1>7 DEF Sealed, Reducing, TailHeld
<1>12. Finishing'
  <2>1. Reviewed' /\ Done({"fix"})'
    BY <1>9, <1>10, <1>s DEF Reviewed, Chain, Done
  <2>2. models' \in accepted'
    BY <1>0, <1>3
  <2> QED BY <1>0, <1>10, <1>11, <2>1, <2>2 DEF Finishing, Turn, Act
<1>13. OutputsFit'
  <2>1. /\ OneTree(rows.out["pre"]) /\ rows.out["seat"] = {<<"finding", models>>} /\ rows.out["fix"] = {}
        /\ rows.out["final"] \subseteq {<<"report", models>>}
    BY <1>1, <1>s, <1>t DEF OutputsFit, Done, Reducing, TailHeld
  <2>2. OneTree(rows.out["pre"])'
    BY <1>0, <1>11, <1>k, <2>1 DEF OneTree, Trees
  <2>3. \E u \in Trees(models)' : rows'.out["reduce"] = {<<"defects", models'>>, u}
    BY <1>0, <1>2, <1>11 DEF Trees
  <2> QED BY <1>0, <1>9, <1>10, <1>11, <1>k, <2>1, <2>2, <2>3 DEF OutputsFit, Done
<1> QED BY <1>9, <1>12, <1>13 DEF IInv, StageInv

LEMMA AskInv ==
  ASSUME Policy, IInv, rows.node["reduce"] = "running", Registers(Reduced),
         rows' = Asked(Committed("reduce", Reduced)), run' = "waiting", repairs' = repairs,
         models' = models, accepted' = accepted, reruns' = reruns
  PROVE  IInv'
<1> DEFINE c == Committed("reduce", Reduced)
           d == Asked(c)
<1>k. /\ Core \subseteq Keys /\ Core = {"write", "pre", "seat", "reduce", "fix", "final"}
      /\ \A x \in Repairs : x \in Keys /\ x \notin Core
  BY KeyFacts DEF Core
<1>t. /\ rows \in RowsSet /\ recovery \in RecoverySet /\ OutputsFit /\ accepted \subseteq Versions
  BY DEF IInv, TypeInv
<1>1. /\ Reducing /\ models \in Versions /\ Reduced \in SUBSET Artifacts
      /\ Kind("defects", Reduced) = {<<"defects", models>>}
  BY ReducedIs
<1>2. PICK t \in Trees(models) : Reduced = {<<"defects", models>>, t} /\ WikiIn(Reduced) = {t}
  BY ReducedIs
<1>3. Kind("defects", Reduced) \in SUBSET Receipts
  BY <1>1 DEF Receipts
<1>4. /\ c \in RowsSet /\ c.node = [rows.node EXCEPT !["reduce"] = "succeeded"]
      /\ c.out = [rows.out EXCEPT !["reduce"] = Reduced] /\ c.in = rows.in /\ c.last = rows.last
      /\ c.gates = rows.gates
  BY <1>k, <1>t, <1>1, CommittedFields
<1> HIDE DEF c
<1>5. /\ d \in RowsSet /\ d.node = [c.node EXCEPT !["fix"] = "waiting"]
      /\ d.gates = c.gates \cup Kind("defects", Reduced)
      /\ d.out = c.out /\ d.in = c.in /\ d.last = c.last
  BY <1>3, <1>4, AskedFields
<1>d. rows' = d
  BY DEF c
<1> HIDE DEF d
<1>6. /\ \A x \in Keys : d.node[x] = IF x = "reduce" THEN "succeeded"
                                     ELSE IF x = "fix" THEN "waiting" ELSE rows.node[x]
      /\ \A x \in Keys : d.out[x] = IF x = "reduce" THEN Reduced ELSE rows.out[x]
  BY <1>4, <1>5, <1>k, <1>t DEF RowsSet
<1>s. Done({"write"}) /\ Done({"pre"}) /\ Done({"seat"}) /\ Repaired
  BY <1>1 DEF Reducing, Chain, Done
<1>7. /\ d.node["write"] = "succeeded" /\ d.node["pre"] = "succeeded"
      /\ d.node["seat"] = "succeeded" /\ d.node["reduce"] = "succeeded"
      /\ d.node["fix"] = "waiting" /\ d.node["final"] \in {"blocked", "ready"}
  BY <1>1, <1>6, <1>k, <1>s DEF Reducing, Done, TailHeld
<1>8. /\ d.gates = {<<"defects", models>>} /\ d.in = rows.in /\ d.in["final"] = {}
      /\ d.last = rows.last
      /\ d.out["reduce"] = Reduced /\ \A x \in Core \ {"reduce"} : d.out[x] = rows.out[x]
  BY <1>1, <1>4, <1>5, <1>6, <1>k DEF Reducing, TailHeld
<1>9. SameRepairs(rows')
  BY <1>d, <1>6, <1>8, <1>k DEF SameRepairs
<1>10. Sealed(d, "reduce", Reduced)
  BY <1>d, <1>5, <1>7, <1>8, <1>9 DEF Sealed, Locked
<1>11. /\ latest' = t /\ recovery' \in RecoverySet /\ recovery'.state # "open"
  BY <1>2, <1>t, RegistersFacts
<1>12. /\ TypeInv' /\ InputsFit' /\ WriterFits' /\ RepairsFit' /\ RequestsFit' /\ RecoveryFits'
       /\ Done({"write"})' /\ Repaired' = Repaired /\ rows'.out["write"] = {<<"wiki", 1, FALSE>>}
  <2>1. latest' \in Trees(models) /\ accepted' \subseteq Versions /\ run' \in {"active", "waiting", "failed"}
    BY <1>11, <1>t
  <2>3. d \in RowsSet /\ "reduce" \in Core \ {"write"} /\ d.node["write"] = "succeeded"
    BY <1>5, <1>7, <1>k
  <2> QED BY <1>10, <1>11, <1>s, <2>1, <2>3, RoundStep
<1>13. Asking'
  <2>1. Reviewed'
    BY <1>d, <1>7, <1>12, <1>s DEF Reviewed, Chain, Done
  <2> QED BY <1>d, <1>7, <1>8, <2>1 DEF Asking
<1>14. OutputsFit'
  <2>1. /\ OneTree(rows.out["pre"]) /\ rows.out["seat"] = {<<"finding", models>>} /\ rows.out["fix"] = {}
        /\ rows.out["final"] \subseteq {<<"report", models>>}
    BY <1>1, <1>s, <1>t DEF OutputsFit, Done, Reducing, TailHeld
  <2>2. OneTree(rows.out["pre"])'
    BY <1>d, <1>8, <1>k, <2>1 DEF OneTree, Trees
  <2>3. \E u \in Trees(models)' : rows'.out["reduce"] = {<<"defects", models'>>, u}
    BY <1>d, <1>2, <1>8 DEF Trees
  <2> QED BY <1>d, <1>7, <1>8, <1>12, <1>k, <2>1, <2>2, <2>3 DEF OutputsFit, Done
<1> QED BY <1>12, <1>13, <1>14 DEF IInv, StageInv

-----------------------------------------------------------------------------
(* The answers to the fix gate.                                              *)

LEMMA AskedNow ==
  ASSUME Policy, IInv, NEW g \in rows.gates
  PROVE  /\ Asking /\ g = <<"defects", models>> /\ g[2] = models /\ models \in Versions
         /\ recovery.state # "open" /\ Done({"write"}) /\ latest \in Trees(models)
<1>1. Asking
  BY DEF IInv, StageInv, Writing, UnderRepair, Validating, Reviewing, Reducing, Finishing, Finished,
     Denied, TailHeld
<1>2. Done({"write"}) /\ g = <<"defects", models>>
  BY <1>1 DEF Asking, Reviewed, Chain
<1>3. models \in Versions /\ latest \in Trees(models)
  BY <1>2, Numbers DEF IInv, WriterFits
<1>4. recovery.state # "open"
  <2>1. ~Denied /\ ~Validating /\ ~Finishing
    BY <1>1 DEF Asking, Denied, Validating, Finishing, Reviewed, Turn, Done, Act
  <2> QED BY <2>1 DEF IInv, RecoveryFits
<1> QED BY <1>1, <1>2, <1>3, <1>4

(* What an answer leaves of the invariant, whether it unlocks or not.        *)
LEMMA Answered ==
  ASSUME Policy, IInv, NEW g \in rows.gates, NEW unlocks \in BOOLEAN,
         rows' = IF unlocks THEN Unlock(Resolved(g), repairs) ELSE Resolved(g),
         repairs' = repairs, latest' = latest, models' = models, reruns' = reruns,
         recovery' \in RecoverySet, run' \in {"active", "waiting", "failed"},
         accepted' \subseteq Versions
  PROVE  /\ TypeInv' /\ InputsFit' /\ WriterFits' /\ RepairsFit' /\ RequestsFit' /\ OutputsFit'
         /\ Reviewed' /\ Done({"fix"})' /\ rows'.gates = {} /\ rows'.in["final"] = {}
         /\ rows'.node["final"] \in IF unlocks THEN {"ready"} ELSE {"blocked", "ready"}
<1> DEFINE d == Resolved(g)
<1>k. /\ Core \subseteq Keys /\ Core = {"write", "pre", "seat", "reduce", "fix", "final"}
      /\ \A x \in Repairs : x \in Keys /\ x \notin Core
  BY KeyFacts DEF Core
<1>t. rows \in RowsSet /\ OutputsFit
  BY DEF IInv, TypeInv
<1>1. Asking /\ g = <<"defects", models>> /\ Done({"write"}) /\ latest \in Trees(models)
  BY AskedNow
<1>2. /\ d \in RowsSet
      /\ d.node = [rows.node EXCEPT !["fix"] =
            IF @ \in {"waiting", "ready", "running"} THEN "succeeded" ELSE @]
      /\ d.gates = rows.gates \ {g}
      /\ d.in = rows.in /\ d.out = rows.out /\ d.last = rows.last
  BY <1>t, ResolvedFields
<1>d. rows' = IF unlocks THEN Unlock(d, repairs) ELSE d
  OBVIOUS
<1> HIDE DEF d
<1>3. \A x \in Keys : d.node[x] = IF x = "fix" THEN "succeeded" ELSE rows.node[x]
  BY <1>1, <1>2, <1>k, <1>t DEF RowsSet, Asking
<1>4. /\ d.node["write"] = "succeeded" /\ d.node["pre"] = "succeeded"
      /\ d.node["seat"] = "succeeded" /\ d.node["reduce"] = "succeeded"
      /\ d.node["fix"] = "succeeded" /\ d.node["final"] \in {"blocked", "ready"}
      /\ d.in["final"] = {} /\ d.gates = {}
  BY <1>1, <1>2, <1>3, <1>k DEF Asking, Reviewed, Chain, Done
<1>5. rows.out["fix"] = {}
  BY <1>t DEF OutputsFit
<1>6. \A x \in Repairs : d.node[x] = rows.node[x]
  BY <1>3, <1>k
<1>7. /\ rows' \in RowsSet /\ rows'.in = rows.in /\ rows'.last = rows.last /\ SameRepairs(rows')
      /\ \A x \in Core : rows'.out[x] = rows.out[x]
      /\ \A x \in Core \ {"final"} : rows'.node[x] = "succeeded"
      /\ rows'.node["final"] \in IF unlocks THEN {"ready"} ELSE {"blocked", "ready"}
      /\ rows'.gates = {}
  <2>1. CASE unlocks
    <3>1. d.out = [rows.out EXCEPT !["fix"] = {}]
      BY <1>2, <1>5, <1>t, <1>k DEF RowsSet
    <3>2. Sealed(d, "fix", {})
      <4>1. "fix" \in Core /\ rows' = Unlock(d, repairs)
        BY <1>d, <1>k, <2>1
      <4> QED BY <1>2, <1>6, <3>1, <4>1, SealedIs
    <3>3. rows'.node["final"] = "ready" /\ rows'.gates = {}
      BY <1>4, <3>2 DEF Sealed, Locked
    <3>4. \A x \in Core \ {"final"} : rows'.node[x] = "succeeded"
      BY <1>4, <1>k, <3>2 DEF Sealed, Locked
    <3>5. \A x \in Core : rows'.out[x] = rows.out[x]
      BY <1>5, <3>2 DEF Sealed
    <3> QED BY <2>1, <3>2, <3>3, <3>4, <3>5 DEF Sealed
  <2>2. CASE ~unlocks
    <3>1. SameRepairs(rows')
      BY <1>d, <1>2, <1>6, <2>2 DEF SameRepairs
    <3> QED BY <1>d, <1>2, <1>4, <1>k, <2>2, <3>1
  <2> QED BY <2>1, <2>2
<1>9. /\ TypeInv' /\ InputsFit' /\ WriterFits' /\ RepairsFit' /\ RequestsFit'
      /\ Done({"write"})' /\ Repaired' = Repaired /\ rows'.out["write"] = {<<"wiki", 1, FALSE>>}
  <2>1. latest' \in Trees(models) /\ rows'.node["write"] = "succeeded"
        /\ rows'.out["write"] = rows.out["write"]
    BY <1>1, <1>7, <1>k
  <2> QED BY <1>1, <1>7, <2>1, RoundStepBut
<1>10. Reviewed' /\ Done({"fix"})'
  BY <1>1, <1>7, <1>9, <1>k DEF Asking, Reviewed, Chain, Done
<1>11. rows'.in["final"] = {}
  BY <1>1, <1>7 DEF Asking
<1>12. OutputsFit'
  <2>1. /\ OneTree(rows.out["pre"]) /\ rows.out["seat"] = {<<"finding", models>>}
        /\ \E t \in Trees(models) : rows.out["reduce"] = {<<"defects", models>>, t}
        /\ rows.out["final"] \subseteq {<<"report", models>>}
    BY <1>1, <1>t DEF OutputsFit, Done, Asking, Reviewed
  <2>2. OneTree(rows.out["pre"])'
    BY <1>7, <1>k, <2>1 DEF OneTree, Trees
  <2>3. \E u \in Trees(models)' : rows'.out["reduce"] = {<<"defects", models'>>, u}
    BY <1>7, <1>k, <2>1 DEF Trees
  <2>4. rows'.node["final"] # "succeeded"
    BY <1>7
  <2> QED BY <1>5, <1>7, <1>9, <1>k, <2>1, <2>2, <2>3, <2>4 DEF OutputsFit, Done
<1> QED BY <1>7, <1>9, <1>10, <1>11, <1>12

LEMMA PassInv == ASSUME Policy, IInv, NEW g \in rows.gates, Pass(g) PROVE IInv'
<1>1. Asking /\ g[2] = models /\ models \in Versions /\ recovery.state # "open"
  BY AskedNow
<1>2. /\ rows' = Unlock(Resolved(g), repairs) /\ run' = "active" /\ accepted' = accepted \cup {g[2]}
      /\ repairs' = repairs /\ latest' = latest /\ models' = models /\ recovery' = recovery
      /\ reruns' = reruns
  BY DEF Pass
<1>t. recovery \in RecoverySet /\ accepted \subseteq Versions
  BY DEF IInv, TypeInv
<1>3. /\ TypeInv' /\ InputsFit' /\ WriterFits' /\ RepairsFit' /\ RequestsFit' /\ OutputsFit'
      /\ Reviewed' /\ Done({"fix"})' /\ rows'.gates = {} /\ rows'.in["final"] = {}
      /\ rows'.node["final"] = "ready"
  <2>1. /\ accepted' \subseteq Versions /\ recovery' \in RecoverySet
        /\ run' \in {"active", "waiting", "failed"} /\ TRUE \in BOOLEAN
        /\ rows' = IF TRUE THEN Unlock(Resolved(g), repairs) ELSE Resolved(g)
    BY <1>1, <1>2, <1>t
  <2>2. /\ TypeInv' /\ InputsFit' /\ WriterFits' /\ RepairsFit' /\ RequestsFit' /\ OutputsFit'
        /\ Reviewed' /\ Done({"fix"})' /\ rows'.gates = {} /\ rows'.in["final"] = {}
        /\ rows'.node["final"] \in IF TRUE THEN {"ready"} ELSE {"blocked", "ready"}
    BY <1>2, <2>1, Answered
  <2> QED BY <2>2
<1>4. models' \in accepted' /\ run' = "active"
  BY <1>1, <1>2
<1>5. Finishing'
  BY <1>3, <1>4 DEF Finishing, Turn, Act
<1>6. RecoveryFits'
  BY <1>1, <1>2 DEF RecoveryFits
<1> QED BY <1>3, <1>5, <1>6 DEF IInv, StageInv

(* A denial, or a fix beyond the budget.                                     *)
LEMMA DeniedInv ==
  ASSUME Policy, IInv, NEW g \in rows.gates, rows' = Resolved(g), run' = "failed",
         repairs' = repairs, latest' = latest, models' = models, accepted' = accepted,
         reruns' = reruns,
         \/ recovery' = recovery
         \/ /\ ~InBudget("semantic")
            /\ recovery' = [state |-> "open", source |-> "semantic", request |-> {Semantic}]
  PROVE  IInv'
<1>1. /\ recovery.state # "open" /\ latest \in Trees(models) /\ latest \in Wikis
  BY AskedNow, Numbers
<1>t. recovery \in RecoverySet /\ accepted \subseteq Versions
  BY DEF IInv, TypeInv
<1>2. PICK r \in Requests : /\ r = Semantic /\ r.up = "reduce" /\ r.source = "semantic"
                             /\ RequestFits(r, models)
  <2>1. Semantic \in Requests /\ Semantic.up = "reduce" /\ Semantic.source = "semantic"
        /\ Semantic.baseline = latest /\ Semantic.report = {}
    BY <1>1 DEF Semantic, Requests
  <2>2. RequestFits(Semantic, models)
    BY <1>1, <2>1 DEF RequestFits
  <2> QED BY <2>1, <2>2
<1>3. recovery' \in RecoverySet
  BY <1>2, <1>t DEF RecoverySet
<1>4. /\ TypeInv' /\ InputsFit' /\ WriterFits' /\ RepairsFit' /\ RequestsFit' /\ OutputsFit'
      /\ Reviewed' /\ Done({"fix"})' /\ rows'.gates = {} /\ rows'.in["final"] = {}
      /\ rows'.node["final"] \in {"blocked", "ready"}
  <2>1. /\ accepted' \subseteq Versions /\ run' \in {"active", "waiting", "failed"} /\ FALSE \in BOOLEAN
        /\ rows' = IF FALSE THEN Unlock(Resolved(g), repairs) ELSE Resolved(g)
    BY <1>t
  <2>2. /\ TypeInv' /\ InputsFit' /\ WriterFits' /\ RepairsFit' /\ RequestsFit' /\ OutputsFit'
        /\ Reviewed' /\ Done({"fix"})' /\ rows'.gates = {} /\ rows'.in["final"] = {}
        /\ rows'.node["final"] \in IF FALSE THEN {"ready"} ELSE {"blocked", "ready"}
    BY <1>3, <2>1, Answered
  <2> QED BY <2>2
<1>5. Denied'
  BY <1>4 DEF Denied
<1>6. RecoveryFits'
  <2>1. CASE recovery' = recovery
    BY <1>1, <2>1 DEF RecoveryFits
  <2>2. CASE recovery' # recovery
    <3>1. /\ ~InBudget("semantic") /\ recovery'.source = "semantic" /\ recovery'.request = {r}
      BY <1>2, <2>2
    <3>2. ~InBudget(recovery.source)' /\ RequestFits(r, models)'
      BY <1>2, <3>1 DEF InBudget, Sourced, Budget, RequestFits, Trees
    <3> QED BY <1>2, <1>5, <3>1, <3>2 DEF RecoveryFits
  <2> QED BY <2>1, <2>2
<1> QED BY <1>4, <1>5, <1>6 DEF IInv, StageInv

-----------------------------------------------------------------------------
(* scheduleRepair: from whatever stage, the round is under repair.           *)

(* The evaluation a repair is scheduled from: reviewed, or with its          *)
(* validation at rest.                                                       *)
Resting(d, r, failed) ==
    \/ /\ failed # "pre" /\ \A x \in {"pre", "seat", "reduce"} : d.node[x] = "succeeded"
       /\ OneTree(d.out["pre"]) /\ d.out["seat"] = {<<"finding", models>>}
       /\ \E t \in Trees(models) : d.out["reduce"] = {<<"defects", models>>, t}
    \/ /\ r.up = "write" /\ d.node["pre"] # "succeeded"
       /\ \/ failed = "pre"
          \/ d.node["pre"] \in {"ready", "failed"} /\ d.out["pre"] \subseteq {<<"report", models>>}
       /\ \A x \in {"seat", "reduce"} : d.node[x] \in Locked /\ rows.in[x] = {} /\ d.out[x] = {}

(* Nobody has mounted what a refused last validation left.                   *)
LEMMA ReportUnread ==
  ASSUME Policy, IInv, Chain, NEW k \in Keys, NEW a \in rows.in[k]
  PROVE  a # <<"report", models>>
<1>1. CASE k \in Core
  BY <1>1 DEF IInv, InputsFit
<1>2. CASE k \in Repairs
  <2>1. PICK i \in DOMAIN RepairKeys : k = RepairKeys[i]
    BY <1>2, KeyFacts
  <2>2. RepairFits(i) /\ i \in Nat
    BY KeyFacts DEF IInv, RepairsFit
  <2>3. a[2] = i
    BY <2>1, <2>2 DEF RepairFits
  <2>4. models = Len(repairs) + 1 /\ Len(repairs) \in Nat
    BY Numbers DEF IInv, WriterFits, Chain
  <2>5. ~(i > Len(repairs))
    BY <2>1, <2>2 DEF RepairFits
  <2>6. i # models
    BY <2>2, <2>4, <2>5
  <2>7. a = <<"report", models>> => a[2] = models
    OBVIOUS
  <2> QED BY <2>3, <2>6, <2>7
<1> QED BY <1>1, <1>2 DEF Keys

LEMMA RepairInv ==
  ASSUME Policy, IInv, NEW d \in RowsSet, NEW r \in Requests,
         NEW failed \in {"pre", "final", "none"},
         Repair(d, r, failed), Chain, models < MaxCandidates, RequestFits(r, models),
         models' = models, latest' \in Trees(models), accepted' = accepted, reruns' = reruns,
         recovery' \in RecoverySet, recovery'.state # "open",
         d.in = rows.in, d.last = rows.last,
         \A x \in Repairs : d.node[x] = rows.node[x] /\ d.out[x] = rows.out[x],
         d.node["write"] = "succeeded", d.out["write"] = rows.out["write"], d.out["fix"] = {},
         d.out["final"] \subseteq {<<"report", models>>},
         Resting(d, r, failed)
  PROVE  IInv'
<1> DEFINE n == Len(repairs)
           m == n + 1
           s == Scheduled(d, r, failed)
<1>k. /\ Core \subseteq Keys /\ Core = {"write", "pre", "seat", "reduce", "fix", "final"}
      /\ \A x \in Repairs : x \in Keys /\ x \notin Core
  BY KeyFacts DEF Core
<1>t. /\ OutputsFit /\ WriterFits /\ TypeInv /\ RepairsFit /\ RequestsFit /\ InputsFit
  BY DEF IInv
<1>n. /\ n \in Nat /\ m \in Nat /\ m > n /\ m > 0 /\ models = m /\ NextKey = RepairKeys[m]
      /\ Done({"write"}) /\ Repaired
  <2>1. n \in Nat /\ Done({"write"}) /\ Repaired
    BY Numbers DEF Chain
  <2> QED BY <2>1, <1>t DEF WriterFits, NextKey
<1>0. /\ m \in DOMAIN RepairKeys /\ repairs' = Append(repairs, r) /\ run' = "active"
      /\ rows' = Unlock(s, repairs') /\ NextKey \in Repairs
  <2>1. n < Len(RepairKeys) /\ Len(RepairKeys) \in Nat /\ DOMAIN RepairKeys = 1 .. Len(RepairKeys)
    BY KeyFacts DEF Repair
  <2>2. m \in DOMAIN RepairKeys
    BY <1>n, <2>1
  <2> QED BY <1>n, <2>2, KeyFacts DEF Repair
<1>l. n = Len(repairs) /\ m = n + 1
  OBVIOUS
<1> HIDE DEF n, m
<1>1. RepairFits(m) /\ rows.node[NextKey] = "none" /\ rows.in[NextKey] = {}
      /\ rows.out[NextKey] = {} /\ rows.last[NextKey] = {}
  <2>1. RepairFits(m) /\ m > Len(repairs)
    BY <1>0, <1>l, <1>n, <1>t DEF RepairsFit
  <2> QED BY <1>n, <2>1 DEF RepairFits
<1>2. /\ s \in RowsSet
      /\ \A x \in Keys :
            /\ s.node[x] = IF x = NextKey THEN "ready"
                           ELSE IF x = "fix" THEN "blocked"
                           ELSE IF x = failed THEN "ready"
                           ELSE IF x = "final" THEN "blocked" ELSE d.node[x]
            /\ s.in[x] = IF x \in Rerun(failed) THEN {} ELSE d.in[x]
            /\ s.out[x] = IF x \in Rerun(failed) THEN {} ELSE d.out[x]
            /\ x \notin Rerun(failed) => s.last[x] = d.last[x]
      /\ s.gates = {}
  <2>1. \A c \in Keys \ {"fix"} : d.out["final"] \cap d.in[c] = {}
    BY ReportUnread
  <2>2. Repairs \cap (Core \cup {"none"}) = {}
    BY DEF Policy
  <2> QED BY <1>0, <2>1, <2>2, ScheduledFields
<1>s. rows' = Unlock(s, repairs')
  BY <1>0
<1> HIDE DEF s
<1>r. /\ Rerun(failed) \subseteq {"pre", "fix", "final"} /\ {"fix", "final"} \subseteq Rerun(failed)
      /\ "pre" \in Rerun(failed) <=> failed = "pre"
      /\ failed \notin Repairs /\ failed \notin {"write", "seat", "reduce", "fix"}
      /\ NextKey \notin Core /\ NextKey \in Keys
  <2>1. "none" \notin Keys /\ {"pre", "final"} \subseteq Keys
    BY KeyFacts DEF Core
  <2> QED BY <1>0, <1>k, <2>1, KeyFacts DEF Rerun
<1>3. \A x \in Repairs : /\ s.node[x] = IF x = NextKey THEN "ready" ELSE rows.node[x]
                         /\ s.in[x] = rows.in[x] /\ s.out[x] = rows.out[x]
                         /\ s.last[x] = rows.last[x]
  <2> SUFFICES ASSUME NEW x \in Repairs
               PROVE  /\ s.node[x] = IF x = NextKey THEN "ready" ELSE rows.node[x]
                      /\ s.in[x] = rows.in[x] /\ s.out[x] = rows.out[x]
                      /\ s.last[x] = rows.last[x]
    OBVIOUS
  <2>1. x \in Keys /\ x \notin Rerun(failed) /\ x \notin {"fix", "final"} /\ x # failed
    BY <1>k, <1>r
  <2> QED BY <1>2, <2>1
<1>4. /\ s.node["write"] = "succeeded" /\ s.out["write"] = rows.out["write"]
      /\ s.in["write"] = rows.in["write"] /\ s.last["write"] = rows.last["write"]
      /\ s.node["fix"] = "blocked" /\ s.node["final"] \in {"blocked", "ready"}
      /\ s.in["final"] = {} /\ s.out["final"] = {} /\ s.out["fix"] = {}
      /\ s.node["pre"] = IF failed = "pre" THEN "ready" ELSE d.node["pre"]
      /\ s.in["pre"] \in {{}, rows.in["pre"]} /\ s.in["fix"] = {}
      /\ s.out["pre"] = IF failed = "pre" THEN {} ELSE d.out["pre"]
      /\ \A x \in {"seat", "reduce"} : /\ s.node[x] = d.node[x] /\ s.in[x] = rows.in[x]
                                       /\ s.out[x] = d.out[x]
  BY <1>2, <1>k, <1>r
<1>5. /\ s.node["pre"] \notin Locked
      /\ s.node["seat"] \in Locked => s.node["pre"] # "succeeded"
      /\ s.node["reduce"] \in Locked => s.node["seat"] # "succeeded"
  BY <1>4 DEF Resting, Locked
<1>6. /\ rows' \in RowsSet /\ rows'.in = s.in /\ rows'.out = s.out /\ rows'.last = s.last
      /\ rows'.gates = {}
      /\ \A x \in Repairs : rows'.node[x] = s.node[x]
      /\ \A x \in Core : rows'.node[x] = s.node[x]
  <2>1. \A x \in Repairs : s.node[x] \notin Locked
    BY <1>3, RepairStates DEF Locked
  <2>2. /\ rows' \in RowsSet /\ rows'.in = s.in /\ rows'.out = s.out /\ rows'.last = s.last
        /\ rows'.gates = s.gates
        /\ \A x \in Repairs : rows'.node[x] = s.node[x]
        /\ \A x \in Core : rows'.node[x] = IF UnlockedCore(s)[x] THEN "ready" ELSE s.node[x]
    BY <1>2, <1>s, <2>1, Unlocks
  <2>3. /\ UnlockedCore(s)["write"] = (s.node["write"] \in Locked)
        /\ UnlockedCore(s)["pre"] => s.node["pre"] \in Locked
        /\ UnlockedCore(s)["seat"] = (s.node["seat"] \in Locked /\ s.node["pre"] = "succeeded")
        /\ UnlockedCore(s)["reduce"] = (s.node["reduce"] \in Locked /\ s.node["seat"] = "succeeded")
        /\ UnlockedCore(s)["fix"] = FALSE
        /\ UnlockedCore(s)["final"] = (s.node["final"] \in Locked /\ s.node["fix"] = "succeeded")
    BY DEF UnlockedCore
  <2>4. \A x \in Core : ~UnlockedCore(s)[x]
    BY <1>4, <1>5, <1>k, <2>3 DEF Locked
  <2> QED BY <1>2, <2>2, <2>4
<1>7. /\ repairs' \in Seq(Requests) /\ Len(repairs') = m /\ repairs'[m] = r
      /\ DOMAIN repairs' = 1 .. m /\ m <= Len(RepairKeys)
      /\ \A i \in 1 .. n : repairs'[i] = repairs[i]
      /\ repairs' # <<>>
  <2>1. repairs \in Seq(Requests)
    BY <1>t DEF TypeInv
  <2>2. m <= Len(RepairKeys)
    BY <1>0, KeyFacts
  <2> QED BY <1>0, <1>l, <2>1, <2>2
<1>8. Current' = NextKey /\ rows'.node[NextKey] = "ready" /\ ~Repaired'
  <2>1. Current' = NextKey
    BY <1>7, <1>n DEF Current
  <2>2. rows'.node[NextKey] = "ready"
    BY <1>0, <1>3, <1>6
  <2> QED BY <1>7, <2>1, <2>2 DEF Repaired
<1>9. UnderRepair'
  <2>1. Done({"write"})' /\ TailHeld' /\ rows'.out["final"] = {}
    BY <1>4, <1>6, <1>k DEF Done, TailHeld
  <2>2. Turn(Current, DueRepair(repairs[Len(repairs)]))'
    <3>1. rows'.in[NextKey] = {}
      BY <1>0, <1>1, <1>3, <1>6
    <3> QED BY <1>8, <3>1 DEF Turn, Act
  <2>3. \/ Done({"pre", "seat", "reduce"})'
        \/ /\ rows'.node["pre"] \in {"ready", "failed"} /\ Rearmable({"seat", "reduce"})'
           /\ r.up = "write"
    <3>1. CASE /\ failed # "pre" /\ \A x \in {"pre", "seat", "reduce"} : d.node[x] = "succeeded"
      BY <1>4, <1>6, <1>k, <3>1 DEF Done
    <3>2. CASE /\ r.up = "write"
               /\ failed = "pre" \/ d.node["pre"] \in {"ready", "failed"}
               /\ \A x \in {"seat", "reduce"} : d.node[x] \in Locked /\ rows.in[x] = {}
      BY <1>4, <1>6, <1>k, <3>2 DEF Rearmable
    <3> QED BY <3>1, <3>2 DEF Resting
  <2>4. models' < MaxCandidates
    OBVIOUS
  <2> QED BY <1>7, <1>8, <2>1, <2>2, <2>3, <2>4 DEF UnderRepair
<1>10. TypeInv'
  <2>1. latest' \in Wikis
    BY <1>n, Numbers
  <2> QED BY <1>0, <1>6, <1>7, <1>t, <2>1 DEF TypeInv
<1>11. OutputsFit'
  <2>1. rows'.out["write"] = {<<"wiki", 1, FALSE>>} /\ Done({"write"})'
    BY <1>4, <1>6, <1>k, <1>n, <1>t DEF OutputsFit, Done
  <2>2. rows'.out["fix"] = {} /\ rows'.out["final"] = {} /\ rows'.node["final"] # "succeeded"
    BY <1>4, <1>6, <1>k
  <2>3. Trees(models)' = Trees(models)
    BY DEF Trees
  <2>4. CASE /\ failed # "pre" /\ \A x \in {"pre", "seat", "reduce"} : d.node[x] = "succeeded"
             /\ OneTree(d.out["pre"]) /\ d.out["seat"] = {<<"finding", models>>}
             /\ \E t \in Trees(models) : d.out["reduce"] = {<<"defects", models>>, t}
    <3>1. /\ rows'.out["pre"] = d.out["pre"] /\ rows'.out["seat"] = d.out["seat"]
          /\ rows'.out["reduce"] = d.out["reduce"]
          /\ rows'.node["pre"] = "succeeded" /\ rows'.node["seat"] = "succeeded"
          /\ rows'.node["reduce"] = "succeeded"
      BY <1>4, <1>6, <1>k, <2>4
    <3>2. OneTree(rows.out["pre"])'
      BY <2>3, <2>4, <3>1 DEF OneTree
    <3>3. \E t \in Trees(models)' : rows'.out["reduce"] = {<<"defects", models'>>, t}
      BY <2>3, <2>4, <3>1
    <3> QED BY <2>1, <2>2, <2>4, <3>1, <3>2, <3>3 DEF OutputsFit, Done
  <2>5. CASE /\ d.node["pre"] # "succeeded"
             /\ \/ failed = "pre"
                \/ d.node["pre"] \in {"ready", "failed"} /\ d.out["pre"] \subseteq {<<"report", models>>}
             /\ \A x \in {"seat", "reduce"} : d.node[x] \in Locked /\ rows.in[x] = {} /\ d.out[x] = {}
    <3>1. /\ rows'.out["pre"] \subseteq {<<"report", models>>} /\ rows'.out["seat"] = {}
          /\ rows'.out["reduce"] = {}
          /\ rows'.node["pre"] # "succeeded" /\ rows'.node["seat"] # "succeeded"
          /\ rows'.node["reduce"] # "succeeded"
      BY <1>4, <1>6, <1>k, <2>5 DEF Locked
    <3> QED BY <2>1, <2>2, <3>1 DEF OutputsFit, Done
  <2> QED BY <2>4, <2>5 DEF Resting
<1>12. InputsFit'
  <2>1. \A x \in Core : s.in[x] = {} \/ s.in[x] = rows.in[x]
    BY <1>4, <1>k
  <2> QED BY <1>6, <1>t, <2>1 DEF InputsFit
<1>13. WriterFits'
  <2>1. rows'.last["write"] = {} /\ rows'.in["write"] = {} /\ Done({"write"})'
    BY <1>4, <1>6, <1>k, <1>t DEF WriterFits, Done
  <2>2. models' = Len(repairs') /\ models' <= MaxCandidates
    BY <1>7, <1>n, <1>t DEF WriterFits
  <2>3. latest' \in Trees(models)'
    BY DEF Trees
  <2> QED BY <1>8, <2>1, <2>2, <2>3 DEF WriterFits
<1>14. RepairsFit'
  <2> SUFFICES ASSUME NEW i \in DOMAIN RepairKeys PROVE RepairFits(i)'
    BY DEF RepairsFit
  <2> DEFINE x == RepairKeys[i]
  <2>1. x \in Repairs /\ RepairFits(i) /\ i \in Nat /\ i > 0
    BY <1>t, KeyFacts DEF RepairsFit
  <2>2. /\ rows'.in[x] = rows.in[x] /\ rows'.out[x] = rows.out[x] /\ rows'.last[x] = rows.last[x]
        /\ rows'.node[x] = IF x = NextKey THEN "ready" ELSE rows.node[x]
    BY <1>3, <1>6, <2>1
  <2>3. x = NextKey <=> i = m
    BY <1>0, <1>n DEF Policy
  <2>4. /\ rows.last[x] = {} /\ \A a \in rows.in[x] : a[2] = i
        /\ rows.out[x] = IF rows.node[x] = "succeeded" THEN {<<"wiki", i + 1, FALSE>>} ELSE {}
        /\ i > n => rows.node[x] = "none" /\ rows.in[x] = {}
        /\ i < n => rows.node[x] = "succeeded"
    BY <1>l, <2>1 DEF RepairFits
  <2>5. i = n => rows.node[x] = "succeeded"
    <3>1. i = n => repairs # <<>> /\ Current = x
      BY <1>l, <2>1, Numbers DEF Current
    <3> QED BY <1>n, <3>1 DEF Repaired
  <2>x. x = RepairKeys[i]
    OBVIOUS
  <2> HIDE DEF x
  <2>6. CASE i = m
    <3>1. /\ rows'.node[x] = "ready" /\ rows'.out[x] = {} /\ rows'.last[x] = {} /\ rows'.in[x] = {}
      BY <1>1, <2>2, <2>3, <2>6
    <3>2. ~(i > m) /\ ~(i < m)
      BY <1>n, <2>6
    <3> QED BY <1>7, <2>x, <3>1, <3>2 DEF RepairFits, Act
  <2>7. CASE i # m
    <3>1. rows'.node[x] = rows.node[x]
      BY <2>2, <2>3, <2>7
    <3>2. (i > m => i > n) /\ (i < m => i = n \/ i < n)
      BY <1>l, <1>n, <2>1
    <3>3. /\ i > m => rows'.node[x] = "none" /\ rows'.in[x] = {}
          /\ i < m => rows'.node[x] = "succeeded"
      BY <2>2, <2>4, <2>5, <3>1, <3>2
    <3>4. /\ rows'.last[x] = {} /\ \A a \in rows'.in[x] : a[2] = i
          /\ rows'.out[x] = IF rows'.node[x] = "succeeded" THEN {<<"wiki", i + 1, FALSE>>} ELSE {}
      BY <2>2, <2>4, <3>1
    <3> QED BY <1>7, <2>7, <2>x, <3>3, <3>4 DEF RepairFits
  <2> QED BY <2>6, <2>7
<1>15. RequestsFit'
  <2> SUFFICES ASSUME NEW i \in 1 .. m PROVE RequestFits(repairs'[i], i)
    BY <1>7 DEF RequestsFit, RequestFits, Trees
  <2>1. CASE i = m
    BY <1>7, <1>n, <2>1
  <2>2. CASE i # m
    <3>1. i \in 1 .. n
      BY <1>l, <1>n, <2>2
    <3>2. RequestFits(repairs[i], i)
      BY <1>l, <1>t, <3>1, Numbers DEF RequestsFit
    <3> QED BY <1>7, <3>1, <3>2
  <2> QED BY <2>1, <2>2
<1>16. RecoveryFits'
  BY DEF RecoveryFits
<1> QED BY <1>9, <1>10, <1>11, <1>12, <1>13, <1>14, <1>15, <1>16 DEF IInv, StageInv

(* The outputs and the stage a repair is scheduled from.                     *)
LEMMA RestingReviewed ==
  ASSUME Policy, IInv, Reviewed, NEW d, NEW r, NEW failed \in {"final", "none"},
         \A x \in {"pre", "seat", "reduce"} : d.node[x] = rows.node[x] /\ d.out[x] = rows.out[x]
  PROVE  Resting(d, r, failed)
<1>1. \A x \in {"pre", "seat", "reduce"} : d.node[x] = "succeeded" /\ rows.node[x] = "succeeded"
  BY DEF Reviewed, Done
<1>2. /\ OneTree(rows.out["pre"]) /\ rows.out["seat"] = {<<"finding", models>>}
      /\ \E t \in Trees(models) : rows.out["reduce"] = {<<"defects", models>>, t}
  BY <1>1 DEF IInv, OutputsFit, Done
<1>3. /\ d.out["pre"] = rows.out["pre"] /\ d.out["seat"] = rows.out["seat"]
      /\ d.out["reduce"] = rows.out["reduce"]
  OBVIOUS
<1>4. failed # "pre"
  OBVIOUS
<1>5. OneTree(d.out["pre"])
  BY <1>2, <1>3
<1> QED BY <1>1, <1>2, <1>3, <1>4, <1>5 DEF Resting

LEMMA RestingValidation ==
  ASSUME Policy, IInv, Validating, NEW d, NEW r, r.up = "write", NEW failed,
         d.node["pre"] # "succeeded",
         \/ failed = "pre"
         \/ d.node["pre"] \in {"ready", "failed"} /\ d.out["pre"] = rows.out["pre"],
         \A x \in {"seat", "reduce"} : d.node[x] = rows.node[x] /\ d.out[x] = rows.out[x]
  PROVE  Resting(d, r, failed)
<1>1. \A x \in {"seat", "reduce"} : rows.node[x] \in Locked /\ rows.in[x] = {}
  BY DEF Validating, Rearmable
<1>2. rows.out["seat"] = {} /\ rows.out["reduce"] = {}
  BY <1>1 DEF IInv, OutputsFit, Done, Locked
<1>3. rows.node["pre"] # "succeeded" => rows.out["pre"] \subseteq {<<"report", models>>}
  BY DEF IInv, OutputsFit, Done
<1>4. rows.node["pre"] # "succeeded"
  BY DEF Validating, Turn, Act
<1> QED BY <1>1, <1>2, <1>3, <1>4 DEF Resting

LEMMA BlockingInv == ASSUME Policy, IInv, ReduceBlocking PROVE IInv'
<1> DEFINE d == Committed("reduce", Reduced)
           req == [Semantic EXCEPT !.baseline = latest']
<1>k. /\ Core \subseteq Keys /\ Core = {"write", "pre", "seat", "reduce", "fix", "final"}
      /\ \A x \in Repairs : x \in Keys /\ x \notin Core
  BY KeyFacts DEF Core
<1>t. /\ rows \in RowsSet /\ recovery \in RecoverySet /\ OutputsFit
  BY DEF IInv, TypeInv
<1>0. /\ rows.node["reduce"] = "running" /\ Registers(Reduced)
      /\ models' = models /\ accepted' = accepted /\ reruns' = reruns
      /\ IF AutoRepair /\ InBudget("semantic") /\ UnderCap
         THEN Repair(d, req, "none")
         ELSE rows' = Asked(d) /\ run' = "waiting" /\ repairs' = repairs
  BY DEF ReduceBlocking
<1>1. CASE ~(AutoRepair /\ InBudget("semantic") /\ UnderCap)
  BY <1>0, <1>1, AskInv
<1>2. CASE AutoRepair /\ InBudget("semantic") /\ UnderCap
  <2>1. /\ Reducing /\ models \in Versions /\ Reduced \in SUBSET Artifacts
    BY <1>0, ReducedIs
  <2>2. PICK t \in Trees(models) : Reduced = {<<"defects", models>>, t} /\ WikiIn(Reduced) = {t}
    BY <1>0, ReducedIs
  <2>3. latest' = t /\ recovery' \in RecoverySet /\ recovery'.state # "open"
    BY <1>0, <1>t, <2>2, RegistersFacts
  <2>s. Done({"write"}) /\ Done({"pre"}) /\ Done({"seat"}) /\ Chain
    BY <2>1 DEF Reducing, Chain, Done
  <2>4. t \in Wikis
    BY <2>s, Numbers
  <2>5. PICK r \in Requests : r = req /\ RequestFits(r, models)
    <3>1. req = [source |-> "semantic", up |-> "reduce", baseline |-> t, report |-> {}]
      BY <2>3 DEF Semantic
    <3>2. /\ req \in Requests /\ req.baseline = t /\ req.report = {} /\ req.up = "reduce"
          /\ req.source = "semantic"
      BY <2>4, <3>1 DEF Requests
    <3> HIDE DEF req
    <3> QED BY <3>2 DEF RequestFits
  <2>6. Repair(d, r, "none")
    BY <1>0, <1>2, <2>5
  <2> HIDE DEF req
  <2>7. /\ d \in RowsSet /\ d.node = [rows.node EXCEPT !["reduce"] = "succeeded"]
        /\ d.out = [rows.out EXCEPT !["reduce"] = Reduced] /\ d.in = rows.in /\ d.last = rows.last
        /\ d.gates = rows.gates
    BY <1>k, <1>t, <2>1, CommittedFields
  <2> HIDE DEF d
  <2>8. \A x \in Keys : /\ d.node[x] = IF x = "reduce" THEN "succeeded" ELSE rows.node[x]
                        /\ d.out[x] = IF x = "reduce" THEN Reduced ELSE rows.out[x]
    BY <2>7, <1>t DEF RowsSet
  <2>9. \A x \in Repairs : d.node[x] = rows.node[x] /\ d.out[x] = rows.out[x]
    BY <2>8, <1>k
  <2>10. /\ d.node["write"] = "succeeded" /\ d.out["write"] = rows.out["write"]
         /\ d.out["fix"] = {} /\ d.out["final"] \subseteq {<<"report", models>>}
    <3>1. rows.node["final"] # "succeeded"
      BY <2>1 DEF Reducing, TailHeld
    <3> QED BY <1>k, <1>t, <2>8, <2>s, <3>1 DEF OutputsFit, Done
  <2>11. Resting(d, r, "none")
    <3>1. \A x \in {"pre", "seat", "reduce"} : d.node[x] = "succeeded"
      BY <1>k, <2>8, <2>s DEF Done
    <3>2. OneTree(rows.out["pre"]) /\ rows.out["seat"] = {<<"finding", models>>}
      BY <1>t, <2>s DEF OutputsFit
    <3>3. d.out["pre"] = rows.out["pre"] /\ d.out["seat"] = rows.out["seat"] /\ d.out["reduce"] = Reduced
      BY <1>k, <2>8
    <3>4. OneTree(d.out["pre"])
      BY <3>2, <3>3
    <3> QED BY <2>2, <3>1, <3>2, <3>3, <3>4 DEF Resting
  <2>12. models < MaxCandidates /\ latest' \in Trees(models) /\ "none" \in {"pre", "final", "none"}
    BY <1>2, <2>3 DEF UnderCap
  <2>13. d \in RowsSet /\ d.in = rows.in /\ d.last = rows.last
    BY <2>7
  <2>14. models' = models /\ accepted' = accepted /\ reruns' = reruns
    BY <1>0
  <2> QED BY <2>3, <2>5, <2>6, <2>9, <2>10, <2>11, <2>12, <2>13, <2>14, <2>s, RepairInv
<1> QED BY <1>1, <1>2

LEMMA InvalidInv == ASSUME Policy, IInv, NEW k \in Keys, Invalid(k) PROVE IInv'
<1>1. CASE ~(InBudget("mechanical") /\ UnderCap)
  BY <1>1, RefusedInv
<1>2. CASE InBudget("mechanical") /\ UnderCap
  <2> DEFINE d == Refused(k)
  <2>k. /\ Core \subseteq Keys /\ Core = {"write", "pre", "seat", "reduce", "fix", "final"}
        /\ \A x \in Repairs : x \in Keys /\ x \notin Core
    BY KeyFacts DEF Core
  <2>t. rows \in RowsSet /\ recovery \in RecoverySet /\ OutputsFit
    BY DEF IInv, TypeInv
  <2>1. /\ k \in {"pre", "final"} /\ rows.node[k] = "running"
        /\ Repair(d, Mechanical(k), k) /\ recovery' = recovery
        /\ latest' = latest /\ models' = models /\ accepted' = accepted /\ reruns' = reruns
    BY <1>2 DEF Invalid, Fails
  <2>2. /\ InTurn(k) /\ Version(rows.in[k]) = models /\ models \in Versions
        /\ latest \in Trees(models) /\ Mechanical(k) \in Requests
        /\ RequestFits(Mechanical(k), models) /\ Mechanical(k).up = "write"
    BY <2>1, RefusalFacts
  <2>3. PICK r \in Requests : r = Mechanical(k) /\ RequestFits(r, models) /\ r.up = "write"
    BY <2>2
  <2>4. (k = "pre" /\ Validating) \/ (k = "final" /\ Finishing)
    <3>1. k \notin Repairs
      BY <2>1, <2>k
    <3> QED BY <2>1, <2>2, <3>1 DEF InTurn
  <2>5. Chain /\ Done({"write"}) /\ rows.node["final"] # "succeeded"
    BY <2>4 DEF Validating, Finishing, Reviewed, Chain, TailHeld, Turn, Act
  <2>6. recovery.state # "open"
    <3>1. ~Denied
      BY <2>1, <2>4 DEF Validating, Denied, Reviewed, Done
    <3> SUFFICES ASSUME recovery.state = "open" PROVE FALSE
      OBVIOUS
    <3>2. PICK q \in Requests : /\ recovery.source = q.source /\ RequestFits(q, models)
                                /\ q.up # "reduce"
      BY <3>1 DEF IInv, RecoveryFits
    <3>3. recovery.source = "mechanical" /\ ~InBudget(recovery.source)
      BY <3>2 DEF Requests, RequestFits, IInv, RecoveryFits
    <3> QED BY <1>2, <3>3
  <2>7. /\ d \in RowsSet /\ d.node = [rows.node EXCEPT ![k] = "failed"]
        /\ d.out = [rows.out EXCEPT ![k] = {<<"report", models>>}]
        /\ d.in = rows.in /\ d.last = rows.last /\ d.gates = rows.gates
    BY <2>2, <2>t, RefusedFields
  <2>d. Repair(d, r, k)
    BY <2>1, <2>3
  <2> HIDE DEF d
  <2>8. \A x \in Keys : /\ d.node[x] = IF x = k THEN "failed" ELSE rows.node[x]
                        /\ d.out[x] = IF x = k THEN {<<"report", models>>} ELSE rows.out[x]
    BY <2>7, <2>t DEF RowsSet
  <2>9. \A x \in Repairs : d.node[x] = rows.node[x] /\ d.out[x] = rows.out[x]
    BY <2>1, <2>8, <2>k
  <2>10. /\ d.node["write"] = "succeeded" /\ d.out["write"] = rows.out["write"]
         /\ d.out["fix"] = {} /\ d.out["final"] \subseteq {<<"report", models>>}
    BY <2>1, <2>5, <2>8, <2>k, <2>t DEF OutputsFit, Done
  <2>11. Resting(d, r, k)
    <3>1. CASE k = "pre" /\ Validating
      <4>1. /\ d.node["pre"] # "succeeded" /\ r.up = "write" /\ k = "pre"
            /\ \A x \in {"seat", "reduce"} : d.node[x] = rows.node[x] /\ d.out[x] = rows.out[x]
        BY <2>3, <2>8, <2>k, <3>1
      <4> QED BY <3>1, <4>1, RestingValidation
    <3>2. CASE k = "final" /\ Finishing
      <4>1. \A x \in {"pre", "seat", "reduce"} : d.node[x] = rows.node[x] /\ d.out[x] = rows.out[x]
        BY <2>8, <2>k, <3>2
      <4>2. Reviewed /\ k \in {"final", "none"}
        BY <3>2 DEF Finishing
      <4> QED BY <4>1, <4>2, RestingReviewed
    <3> QED BY <2>4, <3>1, <3>2
  <2>12. models < MaxCandidates /\ latest' \in Trees(models) /\ k \in {"pre", "final", "none"}
    BY <1>2, <2>1, <2>2 DEF UnderCap
  <2>13. d \in RowsSet /\ d.in = rows.in /\ d.last = rows.last
    BY <2>7
  <2>14. /\ models' = models /\ accepted' = accepted /\ reruns' = reruns
         /\ recovery' \in RecoverySet /\ recovery'.state # "open"
    BY <2>1, <2>6, <2>t
  <2> QED BY <2>3, <2>d, <2>5, <2>9, <2>10, <2>11, <2>12, <2>13, <2>14, RepairInv
<1> QED BY <1>1, <1>2

LEMMA FixInv == ASSUME Policy, IInv, NEW g \in rows.gates, Fix(g) PROVE IInv'
<1>t. rows \in RowsSet /\ recovery \in RecoverySet /\ OutputsFit
  BY DEF IInv, TypeInv
<1>0. latest' = latest /\ models' = models /\ accepted' = accepted /\ reruns' = reruns
  BY DEF Fix
<1>1. CASE ~InBudget("semantic")
  <2>1. /\ rows' = Resolved(g) /\ run' = "failed" /\ repairs' = repairs
        /\ recovery' = [state |-> "open", source |-> "semantic", request |-> {Semantic}]
    BY <1>1 DEF Fix
  <2> QED BY <1>0, <1>1, <2>1, DeniedInv
<1>2. CASE InBudget("semantic")
  <2> DEFINE d == Resolved(g)
  <2>k. /\ Core \subseteq Keys /\ Core = {"write", "pre", "seat", "reduce", "fix", "final"}
        /\ \A x \in Repairs : x \in Keys /\ x \notin Core
    BY KeyFacts DEF Core
  <2>1. UnderCap /\ Repair(d, Semantic, "none") /\ recovery' = recovery
    BY <1>2 DEF Fix
  <2>2. /\ Asking /\ g = <<"defects", models>> /\ models \in Versions
        /\ recovery.state # "open" /\ Done({"write"}) /\ latest \in Trees(models)
    BY AskedNow
  <2>3. PICK r \in Requests : r = Semantic /\ RequestFits(r, models)
    <3>1. latest \in Wikis
      BY <2>2, Numbers
    <3>2. Semantic \in Requests /\ Semantic.up = "reduce" /\ Semantic.source = "semantic"
          /\ Semantic.baseline = latest /\ Semantic.report = {}
      BY <3>1 DEF Semantic, Requests
    <3>3. RequestFits(Semantic, models)
      BY <2>2, <3>2 DEF RequestFits
    <3> QED BY <3>2, <3>3
  <2>4. /\ d \in RowsSet
        /\ d.node = [rows.node EXCEPT !["fix"] =
              IF @ \in {"waiting", "ready", "running"} THEN "succeeded" ELSE @]
        /\ d.in = rows.in /\ d.out = rows.out /\ d.last = rows.last
    BY <1>t, ResolvedFields
  <2>d. Repair(d, r, "none")
    BY <2>1, <2>3
  <2> HIDE DEF d
  <2>5. \A x \in Keys : x # "fix" => d.node[x] = rows.node[x]
    BY <2>4, <1>t DEF RowsSet
  <2>6. \A x \in Repairs : d.node[x] = rows.node[x] /\ d.out[x] = rows.out[x]
    BY <2>4, <2>5, <2>k
  <2>7. /\ d.node["write"] = "succeeded" /\ d.out["write"] = rows.out["write"]
        /\ d.out["fix"] = {} /\ d.out["final"] \subseteq {<<"report", models>>}
    <3>1. rows.node["final"] # "succeeded"
      BY <2>2 DEF Asking
    <3> QED BY <1>t, <2>2, <2>4, <2>5, <2>k, <3>1 DEF OutputsFit, Done
  <2>8. Resting(d, r, "none")
    <3>1. \A x \in {"pre", "seat", "reduce"} : d.node[x] = rows.node[x] /\ d.out[x] = rows.out[x]
      BY <2>4, <2>5, <2>k
    <3>2. Reviewed /\ "none" \in {"final", "none"}
      BY <2>2 DEF Asking
    <3> QED BY <3>1, <3>2, RestingReviewed
  <2>9. models < MaxCandidates /\ latest' \in Trees(models) /\ "none" \in {"pre", "final", "none"}
    BY <1>0, <2>1, <2>2 DEF UnderCap
  <2>10. Chain /\ recovery' \in RecoverySet /\ recovery'.state # "open"
    BY <1>t, <2>1, <2>2 DEF Asking, Reviewed
  <2>11. d \in RowsSet /\ d.in = rows.in /\ d.last = rows.last
    BY <2>4
  <2> QED BY <1>0, <2>3, <2>d, <2>6, <2>7, <2>8, <2>9, <2>10, <2>11, RepairInv
<1> QED BY <1>1, <1>2

LEMMA ContinueInv == ASSUME Policy, IInv, Continue PROVE IInv'
<1>t. rows \in RowsSet /\ recovery \in RecoverySet /\ OutputsFit /\ WriterFits
  BY DEF IInv, TypeInv
<1>0. /\ recovery.state = "open" /\ run = "failed" /\ UnderCap
      /\ recovery' = [recovery EXCEPT !.state = "continued"]
      /\ latest' = latest /\ models' = models /\ accepted' = accepted /\ reruns' = reruns
  BY DEF Continue
<1>1. PICK r \in Requests :
        /\ recovery.request = {r} /\ RequestFits(r, models)
        /\ IF r.up = "reduce" THEN Denied ELSE Validating \/ Finishing
  BY <1>0 DEF IInv, RecoveryFits
<1>2. Repair(rows, r, "none")
  BY <1>1 DEF Continue
<1>3. Chain /\ Done({"write"}) /\ rows.node["final"] # "succeeded"
  BY <1>1 DEF Denied, Validating, Finishing, Reviewed, Chain, TailHeld, Turn, Act
<1>4. Resting(rows, r, "none")
  <2>1. CASE Denied \/ Finishing
    <3>1. Reviewed /\ "none" \in {"final", "none"}
      BY <2>1 DEF Denied, Finishing
    <3> QED BY <3>1, RestingReviewed
  <2>2. CASE Validating /\ r.up # "reduce"
    <3>1. r.up = "write"
      BY <2>2 DEF Requests
    <3>2. rows.node["pre"] \in {"ready", "failed"}
      BY <1>0, <2>2 DEF Validating, Turn, Act
    <3>3. rows.node["pre"] # "succeeded" /\ rows.out["pre"] = rows.out["pre"]
      BY <3>2
    <3> QED BY <2>2, <3>1, <3>2, <3>3, RestingValidation
  <2> QED BY <1>1, <2>1, <2>2
<1>5. models < MaxCandidates /\ latest' \in Trees(models) /\ "none" \in {"pre", "final", "none"}
  BY <1>0, <1>3, <1>t DEF UnderCap, WriterFits
<1>6. recovery' \in RecoverySet /\ recovery'.state # "open"
  BY <1>0, <1>t DEF RecoverySet
<1>7. /\ rows.node["write"] = "succeeded" /\ rows.out["fix"] = {}
      /\ rows.out["final"] \subseteq {<<"report", models>>}
  BY <1>3, <1>t DEF OutputsFit, Done
<1> QED BY <1>0, <1>2, <1>3, <1>4, <1>5, <1>6, <1>7, <1>1, <1>t, RepairInv

-----------------------------------------------------------------------------
(* Every step, and the theorems.                                             *)

LEMMA StutterInv == ASSUME IInv, UNCHANGED vars PROVE IInv'
<1>1. /\ rows' = rows /\ repairs' = repairs /\ latest' = latest /\ models' = models
      /\ recovery' = recovery /\ run' = run /\ accepted' = accepted /\ reruns' = reruns
  BY DEF vars
<1>2. /\ TypeInv' /\ OutputsFit' /\ InputsFit' /\ WriterFits' /\ RepairsFit' /\ RequestsFit'
  BY <1>1 DEF IInv, TypeInv, OutputsFit, InputsFit, WriterFits, RepairsFit, RepairFits, RequestsFit,
              Done, OneTree, Repaired, Current
<1>3. Current' = Current /\ (Repaired' <=> Repaired) /\ \A S : Done(S)' <=> Done(S)
  BY <1>1 DEF Current, Repaired, Done
<1>4. /\ (Writing <=> Writing') /\ (UnderRepair <=> UnderRepair') /\ (Validating <=> Validating')
      /\ (Reviewing <=> Reviewing') /\ (Reducing <=> Reducing') /\ (Asking <=> Asking')
      /\ (Finishing <=> Finishing') /\ (Finished <=> Finished') /\ (Denied <=> Denied')
  BY <1>1 DEF Writing, UnderRepair, Validating, Reviewing, Reducing, Asking, Finishing, Finished,
              Denied, Reviewed, Chain, TailHeld, Turn, Rearmable, Base, DueSeat, DueReduce,
              DueRepair, Done, Repaired, Current
<1>5. StageInv'
  BY <1>4 DEF IInv, StageInv
<1>6. RecoveryFits'
  BY <1>1, <1>4 DEF IInv, RecoveryFits, InBudget, Sourced
<1> QED BY <1>2, <1>5, <1>6 DEF IInv

LEMMA WorkInv == ASSUME Policy, IInv, NEW k \in Keys, Work(k) PROVE IInv'
<1>1. CASE Write(k)
  <2>1. k = "write" \/ k \in Repairs
    BY <1>1 DEF Write
  <2> QED BY <1>1, <2>1, WriteFirstInv, WriteRepairInv
<1>2. CASE Validate(k)
  <2>1. k \in {"pre", "final"}
    BY <1>2 DEF Validate
  <2> QED BY <1>2, <2>1, ValidateInv
<1>3. CASE Review
  BY <1>3, ReviewInv
<1>4. CASE ReduceClean
  BY <1>4, ReduceCleanInv
<1>5. CASE ReduceBlocking
  BY <1>5, BlockingInv
<1>6. CASE Fail(k)
  BY <1>6, FailInv
<1>7. CASE Invalid(k)
  BY <1>7, InvalidInv
<1> QED BY <1>1, <1>2, <1>3, <1>4, <1>5, <1>6, <1>7 DEF Work

LEMMA NextInv == ASSUME Policy, IInv, [Next]_vars, reruns' = 0 PROVE IInv'
<1>1. CASE UNCHANGED vars
  BY <1>1, StutterInv
<1>2. CASE \E k \in Keys : Claim(k) \/ Work(k) \/ RetryFailedNode(k)
  BY <1>2, ClaimInv, WorkInv, RetryInv
<1>3. CASE \E g \in rows.gates : Pass(g) \/ Deny(g) \/ Fix(g)
  <2>1. PICK g \in rows.gates : Pass(g) \/ Deny(g) \/ Fix(g)
    BY <1>3
  <2>2. CASE Deny(g)
    <3>1. /\ rows' = Resolved(g) /\ run' = "failed" /\ repairs' = repairs /\ latest' = latest
          /\ models' = models /\ accepted' = accepted /\ reruns' = reruns /\ recovery' = recovery
      BY <2>2 DEF Deny
    <3> QED BY <3>1, DeniedInv
  <2> QED BY <2>1, <2>2, PassInv, FixInv
<1>4. CASE Continue
  BY <1>4, ContinueInv
<1>5. CASE RerunWriter
  <2>1. reruns = 0 /\ reruns' = reruns + 1
    BY <1>5 DEF RerunWriter, IInv, TypeInv
  <2> QED BY <2>1
<1> QED BY <1>1, <1>2, <1>3, <1>4, <1>5 DEF Next

(* The invariant holds until the Writer is rerun.                            *)
RerunInv == reruns \in Nat /\ (reruns = 0 => IInv)
LEMMA RerunsCount == ASSUME reruns \in Nat, [Next]_vars PROVE reruns' \in {reruns, reruns + 1}
<1>1. CASE UNCHANGED vars
  BY <1>1 DEF vars
<1>2. ASSUME NEW k \in Keys, Claim(k) \/ Work(k) \/ RetryFailedNode(k) PROVE reruns' = reruns
  BY <1>2 DEF Claim, Work, RetryFailedNode, Write, Validate, Review, ReduceClean, ReduceBlocking,
              Fail, Invalid
<1>3. ASSUME NEW g \in rows.gates, Pass(g) \/ Deny(g) \/ Fix(g) PROVE reruns' = reruns
  BY <1>3 DEF Pass, Deny, Fix
<1>4. Continue => reruns' = reruns
  BY DEF Continue
<1>5. RerunWriter => reruns' = reruns + 1
  BY DEF RerunWriter
<1> QED BY <1>1, <1>2, <1>3, <1>4, <1>5 DEF Next

LEMMA RerunInvHolds == Spec => []RerunInv
<1>p. Policy
  BY PolicyAssumption
<1>1. Init => RerunInv
  BY <1>p, InitInv DEF RerunInv, Init
<1>2. RerunInv /\ [Next]_vars => RerunInv'
  <2> SUFFICES ASSUME RerunInv, [Next]_vars PROVE RerunInv'
    OBVIOUS
  <2>1. reruns \in Nat /\ reruns' \in {reruns, reruns + 1}
    BY RerunsCount DEF RerunInv
  <2>2. ASSUME reruns' = 0 PROVE IInv'
    <3>1. reruns = 0
      BY <2>1, <2>2
    <3> QED BY <1>p, <2>2, <3>1, NextInv DEF RerunInv
  <2> QED BY <2>1, <2>2 DEF RerunInv
<1> QED BY <1>1, <1>2, PTL DEF Spec

-----------------------------------------------------------------------------
(* What the invariant says of a round.                                       *)

LEMMA PathHeld == ASSUME Policy, IInv PROVE PathIsHeld
<1> SUFFICES ASSUME NEW k \in Repairs, rows.node[k] \in {"ready", "running"}
             PROVE  rows.gates = {} /\ rows.node["final"] \notin {"running", "succeeded"}
  BY DEF PathIsHeld, Repairing
<1>1. UnderRepair
  BY RepairInTurn DEF Act
<1> QED BY <1>1 DEF UnderRepair, TailHeld

(* The tree of the last validation is of the version written last.           *)
LEMMA FinalIsOfModels ==
  ASSUME Policy, IInv, Finishing \/ Finished PROVE Version(Base) = models
<1>1. Done({"write", "pre"})
  BY DEF Finishing, Finished, Reviewed, Chain, Done
<1>2. PICK t \in Trees(models) : Base = {t}
  BY <1>1, BaseIs
<1>3. t \in Wikis
  BY <1>1, Numbers DEF Done
<1>4. WikiIn(Base) = {t}
  BY <1>2, <1>3, OneWiki
<1> QED BY <1>4, VersionIs

LEMMA AcceptedFinal == ASSUME Policy, IInv PROVE OnlyAcceptedIsFinal
<1> SUFFICES ASSUME rows.node["final"] \in {"running", "succeeded"}
             PROVE  Version(rows.in["final"]) \in accepted
  BY DEF OnlyAcceptedIsFinal
<1>1. Finishing \/ Finished
  BY DEF IInv, StageInv, Writing, UnderRepair, Validating, Reviewing, Reducing, Asking, Denied,
         TailHeld, Core
<1>2. rows.in["final"] = Base /\ models \in accepted
  BY <1>1 DEF Finishing, Finished, Turn, Act
<1> QED BY <1>1, <1>2, FinalIsOfModels

LEMMA DefectsSeen == ASSUME Policy, IInv PROVE RepairSeesItsDefects
<1> SUFFICES ASSUME NEW k \in Repairs, rows.node[k] = "running", NEW d \in rows.in[k] \cap Receipts
             PROVE  d[2] = Version(rows.in[k])
  BY DEF RepairSeesItsDefects
<1>1. k \in Keys /\ k # "write"
  BY KeyFacts DEF Core
<1>2. InTurn(k)
  BY <1>1, RunningInTurn
<1>3. rows.in[k] = Due(k)
  BY <1>1, <1>2, DueMounted DEF Turn
<1>4. PICK t \in Trees(models) : WikiIn(Due(k)) = {t}
  BY <1>1, <1>2, DueFacts
<1>5. Version(Due(k)) = models
  BY <1>4, VersionIs
<1>6. t \in Due(k) /\ t[2] = models
  BY <1>4, TreeIs DEF WikiIn
<1>7. \A a \in Due(k) : a[2] = Len(repairs)
  BY <1>1, <1>2, DueFacts
<1> QED BY <1>3, <1>5, <1>6, <1>7

(* The node whose turn it is waits for nothing.                              *)
LEMMA TurnIsClaimable ==
  ASSUME Policy, IInv, NEW k \in Keys, InTurn(k), rows.node[k] = "ready", run = "active"
  PROVE  Claimable(k)
<1>1. k # "fix"
  BY KeyFacts DEF InTurn, Core
<1>2. k = "write" \/ WikiIn(Mounted(rows, k)) # {}
  BY DueMounted, DueFacts
<1>3. UpstreamsSucceeded(rows, repairs, k)
  <2>1. CASE k \in Repairs
    <3>1. k = Current /\ repairs # <<>> /\ UnderRepair
      BY <2>1, RepairInTurn DEF Act
    <3>2. /\ Len(repairs) \in 1 .. Len(repairs) /\ repairs[Len(repairs)] \in Requests
          /\ Len(repairs) <= Len(RepairKeys) /\ repairs \in Seq(Requests)
      BY <3>1, Numbers DEF IInv, TypeInv
    <3>3. Upstream(rows, repairs, k) = {repairs[Len(repairs)].up}
      BY <3>1, <3>2, RequestOf DEF Current
    <3>4. rows.node[repairs[Len(repairs)].up] = "succeeded"
      BY <3>1, <3>2 DEF UnderRepair, Done, Requests
    <3> QED BY <3>3, <3>4 DEF UpstreamsSucceeded
  <2>2. CASE k \notin Repairs
    <3>1. /\ Validating => UpstreamsSucceeded(rows, repairs, "pre")
      <4> SUFFICES ASSUME Validating PROVE UpstreamsSucceeded(rows, repairs, "pre")
        OBVIOUS
      <4>1. rows.node["write"] = "succeeded" /\ Repaired
        BY DEF Validating, Chain, Done
      <4> QED BY <4>1, RepairStates, CoreUpstreams
    <3>2. Reviewing => UpstreamsSucceeded(rows, repairs, "seat")
      BY CoreUpstreams DEF Reviewing, Done
    <3>3. Reducing => UpstreamsSucceeded(rows, repairs, "reduce")
      BY CoreUpstreams DEF Reducing, Done
    <3>4. Finishing => UpstreamsSucceeded(rows, repairs, "final")
      BY CoreUpstreams DEF Finishing, Done
    <3>5. UpstreamsSucceeded(rows, repairs, "write")
      BY CoreUpstreams
    <3> QED BY <2>2, <3>1, <3>2, <3>3, <3>4, <3>5 DEF InTurn
  <2> QED BY <2>1, <2>2
<1> QED BY <1>1, <1>2, <1>3 DEF Claimable

(* A node that failed in an active run has sealed nothing anybody mounted.   *)
LEMMA FailedUnread ==
  ASSUME Policy, IInv, NEW k \in Keys, InTurn(k), rows.node[k] = "failed", run = "active"
  PROVE  Lineage(rows, k) = {}
<1>1. CASE k = "pre" /\ Validating
  <2>1. Chain /\ rows.out["pre"] \subseteq {<<"report", models>>}
    BY <1>1 DEF Validating, IInv, OutputsFit, Done
  <2>2. \A c \in Keys : rows.out["pre"] \cap rows.in[c] = {}
    BY <2>1, ReportUnread
  <2> QED BY <1>1, <2>2, NoConsumers
<1>2. CASE ~(k = "pre" /\ Validating)
  <2>1. rows.out[k] = {}
    <3>1. CASE k \in Repairs
      <4>1. k = Current /\ repairs # <<>> /\ Len(repairs) \in DOMAIN RepairKeys
        BY <3>1, RepairInTurn, Numbers DEF Act
      <4>2. RepairFits(Len(repairs))
        BY <4>1 DEF IInv, RepairsFit
      <4> QED BY <4>1, <4>2 DEF RepairFits, Current
    <3>2. CASE k \notin Repairs
      <4>1. k \in {"seat", "reduce"}
        BY <1>2, <3>2 DEF InTurn, Writing, Finishing
      <4> QED BY <4>1 DEF IInv, OutputsFit, Done
    <3> QED BY <3>1, <3>2
  <2> QED BY <2>1, NoConsumers
<1> QED BY <1>1, <1>2

LEMMA WayOn == ASSUME Policy, IInv PROVE NotDead
<1> SUFFICES ASSUME run = "active", ~HasWork PROVE \E k \in Keys : MayRetry(k)
  BY DEF NotDead
<1>k. Core \subseteq Keys /\ Core = {"write", "pre", "seat", "reduce", "fix", "final"}
  BY KeyFacts DEF Core
<1>1. PICK k \in Keys : InTurn(k) /\ rows.node[k] \in Act
  <2>1. ~Finished /\ ~Denied /\ ~Asking
    BY DEF HasWork, Finished, Denied, Asking, Done
  <2>2. CASE Writing
    BY <1>k, <2>2 DEF InTurn, Writing
  <2>3. CASE UnderRepair
    <3>1. repairs # <<>> /\ Current \in Repairs /\ Current \in Keys
      BY <2>3, Numbers DEF UnderRepair, Repaired
    <3> QED BY <2>3, <3>1 DEF InTurn, UnderRepair, Turn
  <2>4. CASE Validating
    BY <1>k, <2>4 DEF InTurn, Validating, Turn
  <2>5. CASE Reviewing
    BY <1>k, <2>5 DEF InTurn, Reviewing, Turn
  <2>6. CASE Reducing
    BY <1>k, <2>6 DEF InTurn, Reducing, Turn
  <2>7. CASE Finishing
    BY <1>k, <2>7 DEF InTurn, Finishing, Turn
  <2> QED BY <2>1, <2>2, <2>3, <2>4, <2>5, <2>6, <2>7 DEF IInv, StageInv
<1>2. rows.node[k] = "failed"
  BY <1>1, TurnIsClaimable DEF HasWork, Act
<1>3. Mounted(rows, k) = rows.in[k]
  BY <1>1, <1>2, DueMounted DEF Turn
<1>4. MayRetry(k)
  BY <1>1, <1>2, <1>3, FailedUnread DEF MayRetry
<1> QED BY <1>4

(* A round of evaluation is about one Wiki, for every policy and as long as  *)
(* the Writer is not rerun: nobody is asked about a Wiki that is being       *)
(* repaired, a repair is given the Wiki its defects were found in, only what *)
(* was accepted is validated last, and whatever fails there is a way on      *)
(* (scheduleRepair, bindAttemptInputs, evaluation/candidate.ts).             *)
THEOREM RoundIsOfOneWiki == Spec => []EvaluationIsOfOneWiki
<1>1. RerunInv => EvaluationIsOfOneWiki
  BY PolicyAssumption, PathHeld, AcceptedFinal, DefectsSeen, WayOn
     DEF RerunInv, EvaluationIsOfOneWiki
<1> QED BY <1>1, RerunInvHolds, PTL

(* Until the Writer is rerun, the rows, requests and artifacts of a round    *)
(* are of the types the tables of the store give them.                       *)
THEOREM TypeCorrect == Spec => [](reruns = 0 => TypeOK)
<1>1. ASSUME Policy, IInv PROVE TypeOK
  <2>1. rows.node \in [Keys -> NodeStates] /\ rows.gates \subseteq Receipts
        /\ \A k \in Keys : rows.in[k] \cup rows.out[k] \cup rows.last[k] \subseteq Wikis \cup Receipts
    BY <1>1 DEF IInv, TypeInv, RowsSet, Artifacts
  <2>2. \A i \in DOMAIN repairs : repairs[i] \in Requests
    BY <1>1, Numbers DEF IInv, TypeInv
  <2>3. models \in 0 .. Cardinality(Versions)
    <3>1. (Len(RepairKeys) + 1) * (MaxReruns + 1) \in Nat
      BY <1>1, KeyFacts DEF Policy
    <3>2. Cardinality(Versions) = (Len(RepairKeys) + 1) * (MaxReruns + 1)
      BY <3>1, FS_Interval DEF Versions
    <3>3. models = 0 \/ models \in Versions
      BY <1>1, Numbers DEF IInv, WriterFits
    <3> QED BY <3>1, <3>2, <3>3 DEF Versions
  <2> QED BY <1>1, <2>1, <2>2, <2>3 DEF TypeOK, IInv, TypeInv, Requests, RecoverySet
<1>2. RerunInv => (reruns = 0 => TypeOK)
  BY PolicyAssumption, <1>1 DEF RerunInv
<1> QED BY <1>2, RerunInvHolds, PTL

-----------------------------------------------------------------------------
(* The budgets, also when the Writer is rerun.                               *)

Sources == {"semantic", "mechanical"}
RecoveryOf(Q) == [state : {"none", "open", "outdated", "continued"},
                  source : Sources \cup {"none"}, request : Q]
Waits(c) == c.source \in Sources /\ \A r \in c.request : r.source = c.source
BudgetInv ==
    /\ \E S : repairs \in Seq(S)
    /\ \E Q : recovery \in RecoveryOf(Q)
    /\ recovery.state = "open" => Waits(recovery)
    /\ BudgetIsKept

LEMMA SourcedIsNat == ASSUME NEW S, repairs \in Seq(S), NEW source PROVE Sourced(source) \in Nat
<1> DEFINE I == {i \in DOMAIN repairs : repairs[i].source = source}
<1>1. Len(repairs) \in Nat /\ DOMAIN repairs = 1 .. Len(repairs)
  OBVIOUS
<1>2. IsFiniteSet(1 .. Len(repairs))
  BY <1>1, FS_Interval
<1>3. I \subseteq 1 .. Len(repairs)
  BY <1>1
<1>4. IsFiniteSet(I)
  BY <1>2, <1>3, FS_Subset
<1> QED BY <1>4, FS_CardinalityType DEF Sourced

(* One more request is one more repair of its kind.                          *)
LEMMA SourcedAppend ==
  ASSUME NEW S, repairs \in Seq(S), NEW r, repairs' = Append(repairs, r), NEW source
  PROVE  Sourced(source)' = Sourced(source) + (IF r.source = source THEN 1 ELSE 0)
<1> DEFINE n == Len(repairs)
           I == {i \in DOMAIN repairs : repairs[i].source = source}
           J == {i \in DOMAIN repairs' : repairs'[i].source = source}
<1>1. n \in Nat /\ DOMAIN repairs = 1 .. n
  OBVIOUS
<1>2. DOMAIN repairs' = 1 .. (n + 1) /\ repairs'[n + 1] = r
      /\ \A i \in 1 .. n : repairs'[i] = repairs[i]
  <2>1. repairs \in Seq(S \cup {r}) /\ r \in S \cup {r}
    OBVIOUS
  <2> QED BY <2>1
<1>3. I \subseteq 1 .. n /\ n + 1 \notin I
  BY <1>1
<1>4. IsFiniteSet(I)
  <2>1. IsFiniteSet(1 .. n)
    BY <1>1, FS_Interval
  <2> QED BY <1>3, <2>1, FS_Subset
<1>5. J = IF r.source = source THEN I \cup {n + 1} ELSE I
  <2>1. \A i : i \in J <=> i \in I \/ (i = n + 1 /\ r.source = source)
    BY <1>1, <1>2
  <2> HIDE DEF I, J
  <2> QED BY <2>1
<1>6. Sourced(source) = Cardinality(I) /\ Sourced(source)' = Cardinality(J)
  BY DEF Sourced
<1>7. Cardinality(I) \in Nat /\ Cardinality(I \cup {n + 1}) = Cardinality(I) + 1
  BY <1>3, <1>4, FS_AddElement, FS_CardinalityType
<1> HIDE DEF I, J
<1> QED BY <1>5, <1>6, <1>7

Room(source) == IF recovery.state = "continued" /\ recovery.source = source THEN 1 ELSE 0

(* A step that schedules no repair, and continues nothing.                   *)
LEMMA NoRepair ==
  ASSUME BudgetInv, repairs' = repairs, NEW Q, recovery' \in RecoveryOf(Q),
         recovery'.state = "open" => Waits(recovery'),
         recovery.state = "continued" => recovery' = recovery
  PROVE  BudgetInv'
<1>1. PICK S : repairs \in Seq(S)
  BY DEF BudgetInv
<1>2. ASSUME NEW source \in Sources
      PROVE  Sourced(source)' <= Budget(source) + Room(source)'
  <2>1. Sourced(source) <= Budget(source) + Room(source)
    BY <1>2 DEF BudgetInv, BudgetIsKept, Room, Sources
  <2>2. Room(source) \in {0, 1} /\ Room(source)' \in {0, 1} /\ (Room(source) = 1 => Room(source)' = 1)
    BY DEF Room
  <2>3. Sourced(source)' = Sourced(source) /\ Sourced(source) \in Nat /\ Budget(source) \in Nat
    BY <1>1, SourcedIsNat, PolicyAssumption DEF Sourced, Budget, Policy
  <2> QED BY <2>1, <2>2, <2>3
<1>3. BudgetIsKept'
  BY <1>2 DEF BudgetIsKept, Room, Sources
<1> QED BY <1>1, <1>3 DEF BudgetInv

(* A repair within its budget, or the one the operator continues.            *)
LEMMA OneRepair ==
  ASSUME BudgetInv, NEW d, NEW r, NEW failed, Repair(d, r, failed),
         r.source \in Sources, NEW Q, recovery' \in RecoveryOf(Q),
         \/ /\ InBudget(r.source)
            /\ recovery.state = "continued" => recovery' = recovery
         \/ /\ recovery.state = "open" /\ recovery'.state = "continued"
            /\ recovery.source = r.source /\ recovery'.source = r.source,
         recovery'.state = "open" => recovery' = recovery
  PROVE  BudgetInv'
<1>1. PICK S : repairs \in Seq(S)
  BY DEF BudgetInv
<1>2. repairs' = Append(repairs, r)
  BY DEF Repair
<1>3. ASSUME NEW source \in Sources
      PROVE  Sourced(source)' <= Budget(source) + Room(source)'
  <2>1. Sourced(source) <= Budget(source) + Room(source)
    BY <1>3 DEF BudgetInv, BudgetIsKept, Room, Sources
  <2>2. /\ Sourced(source) \in Nat /\ Budget(source) \in Nat
        /\ Sourced(source)' = Sourced(source) + (IF r.source = source THEN 1 ELSE 0)
    BY <1>1, <1>2, SourcedIsNat, SourcedAppend, PolicyAssumption DEF Budget, Policy
  <2>3. Room(source) \in {0, 1} /\ Room(source)' \in {0, 1}
    BY DEF Room
  <2>4. CASE InBudget(r.source) /\ (recovery.state = "continued" => recovery' = recovery)
    <3>1. Room(source) = 1 => Room(source)' = 1
      BY <2>4 DEF Room
    <3>2. r.source = source => Sourced(source) < Budget(source)
      BY <2>4 DEF InBudget
    <3> QED BY <2>1, <2>2, <2>3, <3>1, <3>2
  <2>5. CASE /\ recovery.state = "open" /\ recovery'.state = "continued"
             /\ recovery.source = r.source /\ recovery'.source = r.source
    <3>1. Room(source) = 0 /\ (r.source = source => Room(source)' = 1)
      BY <2>5 DEF Room
    <3> QED BY <2>1, <2>2, <2>3, <3>1
  <2> QED BY <2>4, <2>5
<1>4. BudgetIsKept'
  BY <1>3 DEF BudgetIsKept, Room, Sources
<1>5. \E T : repairs' \in Seq(T)
  <2>1. repairs \in Seq(S \cup {r}) /\ r \in S \cup {r}
    BY <1>1
  <2>2. repairs' \in Seq(S \cup {r})
    BY <1>2, <2>1
  <2> QED BY <2>2
<1> QED BY <1>4, <1>5 DEF BudgetInv

LEMMA BudgetInit == Init => BudgetInv
<1> SUFFICES ASSUME Init PROVE BudgetInv
  OBVIOUS
<1>1. /\ repairs = <<>> /\ recovery = NoRecovery
  BY DEF Init
<1>2. repairs \in Seq({}) /\ recovery \in RecoveryOf({{}}) /\ recovery.state = "none"
  BY <1>1 DEF NoRecovery, RecoveryOf
<1>3. ASSUME NEW source PROVE Sourced(source) = 0
  <2>1. {i \in DOMAIN repairs : repairs[i].source = source} = {}
    BY <1>1
  <2> QED BY <2>1, FS_EmptySet DEF Sourced
<1>4. \A source \in Sources : Budget(source) \in Nat
  BY PolicyAssumption DEF Budget, Policy
<1> QED BY <1>2, <1>3, <1>4 DEF BudgetInv, BudgetIsKept, Sources

LEMMA Registered ==
  ASSUME NEW Q, recovery \in RecoveryOf(Q), NEW S, Registers(S)
  PROVE  /\ recovery' \in RecoveryOf(Q) /\ recovery'.state # "open"
         /\ recovery.state = "continued" => recovery' = recovery
  BY DEF Registers, RecoveryOf

LEMMA BudgetNext == ASSUME BudgetInv, [Next]_vars PROVE BudgetInv'
<1>q. PICK Q : recovery \in RecoveryOf(Q)
  BY DEF BudgetInv
<1>w. recovery.state = "open" => Waits(recovery)
  BY DEF BudgetInv
<1>0. ASSUME repairs' = repairs, recovery' = recovery PROVE BudgetInv'
  BY <1>0, <1>q, <1>w, NoRepair
<1>r. ASSUME NEW S, Registers(S), repairs' = repairs PROVE BudgetInv'
  BY <1>q, <1>r, NoRepair, Registered
<1>o. ASSUME NEW source \in Sources, NEW r, r.source = source, repairs' = repairs,
             recovery' = [state |-> "open", source |-> source, request |-> {r}],
             recovery.state = "none"
      PROVE  BudgetInv'
  <2>1. recovery' \in RecoveryOf({{r}})
    BY <1>o DEF RecoveryOf
  <2>2. Waits(recovery')
    BY <1>o DEF Waits
  <2> QED BY <1>o, <2>1, <2>2, NoRepair
<1>1. CASE UNCHANGED vars
  BY <1>0, <1>1 DEF vars
<1>2. ASSUME NEW k \in Keys, Claim(k) \/ RetryFailedNode(k) \/ Fail(k) \/ Review PROVE BudgetInv'
  BY <1>0, <1>2 DEF Claim, RetryFailedNode, Fail, Review
<1>3. ASSUME NEW k \in Keys, Write(k) \/ Validate(k) \/ ReduceClean PROVE BudgetInv'
  BY <1>3, <1>r DEF Write, Validate, ReduceClean
<1>4. CASE ReduceBlocking
  <2>1. Registers(Reduced)
    BY <1>4 DEF ReduceBlocking
  <2>2. CASE repairs' = repairs
    BY <1>r, <2>1, <2>2
  <2>3. CASE repairs' # repairs
    <3>1. /\ Repair(Committed("reduce", Reduced), [Semantic EXCEPT !.baseline = latest'], "none")
          /\ InBudget("semantic")
      BY <1>4, <2>3 DEF ReduceBlocking
    <3>2. [Semantic EXCEPT !.baseline = latest'].source = "semantic"
      BY DEF Semantic
    <3>3. PICK r : r = [Semantic EXCEPT !.baseline = latest']
      OBVIOUS
    <3>4. Repair(Committed("reduce", Reduced), r, "none") /\ r.source = "semantic"
      BY <3>1, <3>2, <3>3
    <3>5. /\ recovery' \in RecoveryOf(Q) /\ recovery'.state # "open"
          /\ recovery.state = "continued" => recovery' = recovery
      BY <1>q, <2>1, Registered
    <3> QED BY <3>1, <3>4, <3>5, OneRepair DEF Sources
  <2> QED BY <2>2, <2>3
<1>5. ASSUME NEW k \in Keys, Invalid(k) PROVE BudgetInv'
  <2>s. Mechanical(k).source = "mechanical"
    BY DEF Mechanical
  <2>1. CASE InBudget("mechanical") /\ UnderCap
    <3>1. Repair(Refused(k), Mechanical(k), k) /\ recovery' = recovery
      BY <1>5, <2>1 DEF Invalid
    <3> QED BY <1>q, <2>1, <2>s, <3>1, OneRepair DEF Sources
  <2>2. CASE ~(InBudget("mechanical") /\ UnderCap)
    <3>1. /\ repairs' = repairs
          /\ \/ recovery' = recovery
             \/ /\ recovery.state = "none"
                /\ recovery' = [state |-> "open", source |-> "mechanical",
                                request |-> {Mechanical(k)}]
      BY <1>5, <2>2 DEF Invalid, MayRecover
    <3> QED BY <1>0, <1>o, <2>s, <3>1 DEF Sources
  <2> QED BY <2>1, <2>2
<1>6. ASSUME NEW g \in rows.gates, Pass(g) \/ Deny(g) PROVE BudgetInv'
  BY <1>0, <1>6 DEF Pass, Deny
<1>7. ASSUME NEW g \in rows.gates, Fix(g) PROVE BudgetInv'
  <2>s. Semantic.source = "semantic"
    BY DEF Semantic
  <2>1. CASE InBudget("semantic")
    <3>1. Repair(Resolved(g), Semantic, "none") /\ recovery' = recovery
      BY <1>7, <2>1 DEF Fix
    <3> QED BY <1>q, <2>1, <2>s, <3>1, OneRepair DEF Sources
  <2>2. CASE ~InBudget("semantic")
    <3>1. /\ repairs' = repairs /\ recovery.state = "none"
          /\ recovery' = [state |-> "open", source |-> "semantic", request |-> {Semantic}]
      BY <1>7, <2>2 DEF Fix, MayRecover
    <3> QED BY <1>o, <2>s, <3>1 DEF Sources
  <2> QED BY <2>1, <2>2
<1>8. CASE Continue
  <2>1. /\ recovery.state = "open" /\ recovery' = [recovery EXCEPT !.state = "continued"]
        /\ \E r \in recovery.request : Repair(rows, r, "none")
    BY <1>8 DEF Continue
  <2>2. PICK r \in recovery.request : Repair(rows, r, "none")
    BY <2>1
  <2>3. r.source = recovery.source /\ r.source \in Sources
    BY <1>w, <2>1 DEF Waits
  <2>4. /\ recovery' \in RecoveryOf(Q) /\ recovery'.state = "continued"
        /\ recovery'.source = recovery.source
    BY <1>q, <2>1 DEF RecoveryOf
  <2> QED BY <2>1, <2>2, <2>3, <2>4, OneRepair
<1>9. CASE RerunWriter
  BY <1>0, <1>9 DEF RerunWriter
<1> QED BY <1>1, <1>2, <1>3, <1>4, <1>5, <1>6, <1>7, <1>8, <1>9 DEF Next, Work

(* The repairs of each kind stay within their budget, but for the one the    *)
(* operator continued, whatever is rerun; and until the Writer is rerun,     *)
(* models write no more candidates than the policy allows (scheduleRepair,   *)
(* evaluationBudget).                                                        *)
THEOREM BudgetsHold == Spec => []BudgetsAreKept
<1>1. Init => BudgetInv
  BY BudgetInit
<1>2. BudgetInv /\ [Next]_vars => BudgetInv'
  BY BudgetNext
<1>3. BudgetInv => BudgetIsKept
  BY DEF BudgetInv
<1>4. RerunInv => (reruns = 0 => CapIsKept)
  BY DEF RerunInv, IInv, WriterFits, CapIsKept
<1>5. BudgetIsKept /\ (reruns = 0 => CapIsKept) => BudgetsAreKept
  BY DEF BudgetsAreKept
<1> QED BY <1>1, <1>2, <1>3, <1>4, <1>5, RerunInvHolds, PTL DEF Spec
=============================================================================
