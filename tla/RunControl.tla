------------------------------ MODULE RunControl ------------------------------
(***************************************************************************)
(* The durable control plane of one Wiki Run while its execution graph is  *)
(* worked off (packages/workflow/src/wiki-runs).  Rows of the SQLite       *)
(* store survive a crash; the workers (one promise per claimed attempt)    *)
(* do not.  A SQLite transaction runs in one turn of the event loop, so    *)
(* it is one action; what an action may not span is an await: executing an *)
(* attempt, sealing its artifacts and committing them are separate steps,  *)
(* and commands, a crash or a restart fall between them.                   *)
(*                                                                         *)
(* An artifact is named by the attempt that sealed it, an input envelope   *)
(* is the set of artifacts it mounts, and its digest is the envelope.      *)
(***************************************************************************)
EXTENDS Naturals, FiniteSets

CONSTANTS
    Keys,          \* node keys of the materialised execution graph
    Upstream,      \* Upstream[k]: the keys k has an edge from
    FinalKey,      \* the publish node: its success ends the run
    AskKeys,       \* keys whose attempt may ask the operator (Pi kinds)
    EvidenceKeys,  \* keys whose failure seals all their declared outputs (plan.scout)
    PartialKeys,   \* keys whose success seals several required artifacts (plan)
    AutoRetryKeys, \* kinds requeued by the control plane (research, scouts)
    MaxAutoAttempts, \* RESEARCH_AUTO_RETRY_MAX_ATTEMPTS
    MaxConcurrent, \* orchestration.maxConcurrentAttempts
    MaxGen,        \* bound: generations of a node
    MaxAttempts,   \* bound: attempts of the run
    MaxCrashes,    \* bound: crashes of the owner
    MaxCloses,     \* bound: graceful closes of the owner
    Commands       \* bound: the commands the operator issues

ASSUME KeysAssumption == FinalKey \in Keys /\ Upstream \in [Keys -> SUBSET Keys]
ASSUME KindsAssumption ==
    /\ AskKeys \subseteq Keys /\ EvidenceKeys \subseteq Keys
    /\ PartialKeys \subseteq Keys /\ AutoRetryKeys \subseteq Keys
ASSUME BoundsAssumption ==
    /\ MaxGen \in Nat /\ MaxAttempts \in Nat /\ MaxCrashes \in Nat /\ MaxCloses \in Nat
    /\ MaxConcurrent \in Nat \ {0} /\ MaxAutoAttempts \in Nat \ {0}
    /\ Commands \subseteq {"cancel", "pause", "retry", "rerun"}

Gens == 0 .. MaxGen
Attempts == 1 .. MaxAttempts
NoAttempt == 0

NodeStates == {"absent", "blocked", "ready", "running", "waiting",
               "succeeded", "failed", "cancelled", "invalidated"}
RunStates == {"queued", "running", "waiting_for_operator", "paused",
              "failed", "published", "cancelled"}
AttemptStates == {"absent", "running", "succeeded", "failed", "interrupted",
                  "suspended", "cancelled"}
LiveStates == {"queued", "running"}

VARIABLES
    runState,        \* runs.state
    cancelRequested, \* runs.cancel_requested
    gen,             \* gen[k]: MAX(generation) of the rows of key k
    node,            \* node[k][g]: nodes.state, "absent" where there is no row
    cur,             \* cur[k][g]: nodes.current_attempt_id
    last,            \* last[k][g]: nodes.last_attempt_id
    parent,          \* parent[k][g]: detail_json.parentAttemptId
    att,             \* att[a]: the row of attempts, with its attempt_inputs
    out,             \* out[k][g]: the attempt whose artifact node_outputs records
    gates,           \* open operator_input gates, as <<key, generation>>
    prep,            \* prep[a]: sealed rows of artifact_preparations still 'prepared'
    work,            \* work[a]: where the worker of attempt a is (in memory)
    said,            \* said[a]: what the executor of attempt a answered
    owner,           \* the process that owns the store
    crashes,         \* crashes so far
    closes           \* graceful closes so far

rows == <<gen, node, cur, last, parent, att, out>>
vars == <<runState, cancelRequested, gen, node, cur, last, parent, att, out,
          gates, prep, work, said, owner, crashes, closes>>

AbsentAttempt == [state |-> "absent", key |-> FinalKey, gen |-> 0,
                  inputs |-> {}, answer |-> NoAttempt]

(* "some": a group that lacks a required role, "all": one that validates.  *)
PrepStates == {"none", "some", "all"}
(* exec: in the executor; settled: it answered; noted: the evidence of a   *)
(* failure is committed and failNode is still to run.                      *)
WorkStates == {"none", "exec", "settled", "noted"}
Outcomes == {"ok", "bad", "ask"}

TypeOK ==
    /\ runState \in RunStates
    /\ cancelRequested \in BOOLEAN
    /\ gen \in [Keys -> Gens]
    /\ node \in [Keys -> [Gens -> NodeStates]]
    /\ cur \in [Keys -> [Gens -> Attempts \cup {NoAttempt}]]
    /\ last \in [Keys -> [Gens -> Attempts \cup {NoAttempt}]]
    /\ parent \in [Keys -> [Gens -> Attempts \cup {NoAttempt}]]
    /\ att \in [Attempts -> [state: AttemptStates, key: Keys, gen: Gens,
                             inputs: SUBSET Attempts,
                             answer: Attempts \cup {NoAttempt}]]
    /\ out \in [Keys -> [Gens -> Attempts \cup {NoAttempt}]]
    /\ gates \subseteq Keys \X Gens
    /\ prep \in [Attempts -> PrepStates]
    /\ work \in [Attempts -> WorkStates]
    /\ said \in [Attempts -> Outcomes \cup {"nothing"}]
    /\ owner \in {"up", "down", "recovering"}
    /\ crashes \in 0 .. MaxCrashes /\ closes \in 0 .. MaxCloses

-----------------------------------------------------------------------------
(* The graph and its lineage.                                              *)

State(k) == node[k][gen[k]]

(* Mutant: a join is ready when one of its branches is. *)
AnyUpstreamSucceeded(nd, k) ==
    Upstream[k] = {} \/ \E u \in Upstream[k] : nd[u][gen[u]] = "succeeded"

(* upstreamsSucceeded over the node rows nd. *)
UpstreamsSucceeded(nd, k) ==
    \A u \in Upstream[k] : nd[u][gen[u]] = "succeeded"

(* Mutant: unlock forgets the generations that a rerun invalidated. *)
UnlockOnlyBlocked(nd) ==
    [k \in Keys |->
        IF nd[k][gen[k]] = "blocked" /\ UpstreamsSucceeded(nd, k)
        THEN [nd[k] EXCEPT ![gen[k]] = "ready"]
        ELSE nd[k]]

(* Mutant: unlock looks at the rows as they were before the commit. *)
UnlockFromOldRows(nd) ==
    [k \in Keys |->
        IF nd[k][gen[k]] \in {"blocked", "invalidated"} /\ UpstreamsSucceeded(node, k)
        THEN [nd[k] EXCEPT ![gen[k]] = "ready"]
        ELSE nd[k]]

(* unlockReadyNodes: promote blocked and invalidated current generations. *)
Unlock(nd) ==
    [k \in Keys |->
        IF nd[k][gen[k]] \in {"blocked", "invalidated"} /\ UpstreamsSucceeded(nd, k)
        THEN [nd[k] EXCEPT ![gen[k]] = "ready"]
        ELSE nd[k]]

(* upstreamSealedOutputs: what the upstreams' current generations sealed. *)
SealedInputs(k) ==
    {out[u][gen[u]] : u \in {v \in Upstream[k] : State(v) = "succeeded"}} \ {NoAttempt}

(* c mounted, at its live generation, an output of u's live generation. *)
Consumes(c, u) ==
    /\ out[u][gen[u]] # NoAttempt
    /\ \E a \in Attempts :
          /\ att[a].state # "absent" /\ att[a].key = c /\ att[a].gen = gen[c]
          /\ out[u][gen[u]] \in att[a].inputs

(* Mutant: a rerun invalidates the direct consumers only. *)
DirectConsumers(k) == {c \in Keys \ {k} : Consumes(c, k)}

(* lineageInvalidationClosure: the transitive consumers of k. *)
Lineage(k) ==
    LET Closed(S) == \A u \in S, c \in Keys : Consumes(c, u) => c \in S
    IN  {c \in Keys \ {k} : \A S \in SUBSET Keys : k \in S /\ Closed(S) => c \in S}

(* isCurrent: a still holds the lease of its node. *)
IsCurrent(a) ==
    LET k == att[a].key
        g == att[a].gen
    IN  /\ ~cancelRequested
        /\ att[a].state = "running"
        /\ node[k][g] = "running"
        /\ cur[k][g] = a

Running == {a \in Attempts : att[a].state = "running"}
HasReady(nd) == \E k \in Keys : nd[k][gen[k]] = "ready"
HasActiveWork(nd) == \E k \in Keys : nd[k][gen[k]] \in {"ready", "running", "waiting"}

(* Mutant: a command updates the node rows and forgets the attempts. *)
RetireNone(from, to) == att

(* The UPDATE of attempts by which a command retires those in some states. *)
Retire(from, to) ==
    [a \in Attempts |-> IF att[a].state \in from
                        THEN [att[a] EXCEPT !.state = to] ELSE att[a]]

(* Mutant: the node rows are forgotten. *)
ReleaseNone(from, to) == node

(* The UPDATE of nodes that goes with it; it also clears the lease. *)
Release(from, to) ==
    [k \in Keys |-> [g \in Gens |-> IF node[k][g] \in from THEN to ELSE node[k][g]]]
ReleaseLease(from) ==
    [k \in Keys |-> [g \in Gens |-> IF node[k][g] \in from THEN NoAttempt ELSE cur[k][g]]]

-----------------------------------------------------------------------------
Init ==
    /\ runState = "running" /\ cancelRequested = FALSE
    /\ gen = [k \in Keys |-> 0]
    /\ node = [k \in Keys |-> [g \in Gens |->
                  IF g # 0 THEN "absent"
                  ELSE IF Upstream[k] = {} THEN "ready" ELSE "blocked"]]
    /\ cur = [k \in Keys |-> [g \in Gens |-> NoAttempt]]
    /\ last = cur /\ parent = cur /\ out = cur
    /\ att = [a \in Attempts |-> AbsentAttempt]
    /\ gates = {}
    /\ prep = [a \in Attempts |-> "none"]
    /\ work = [a \in Attempts |-> "none"]
    /\ said = [a \in Attempts |-> "nothing"]
    /\ owner = "up" /\ crashes = 0 /\ closes = 0

-----------------------------------------------------------------------------
(* The scheduler.                                                          *)

(* Mutant: a retry copies the frozen inputs without the answer. *)
EnvelopeWithoutAnswer(k) ==
    LET g == gen[k]
        l == last[k][g]
        p == parent[k][g]
    IN  IF l # NoAttempt /\ att[l].state \in {"failed", "interrupted", "suspended"}
        THEN [inputs |-> att[l].inputs, answer |-> NoAttempt]
        ELSE IF p # NoAttempt /\ att[p].state = "suspended"
        THEN [inputs |-> att[p].inputs, answer |-> p]
        ELSE [inputs |-> SealedInputs(k), answer |-> NoAttempt]

(* retrySourceAttempt, operatorContinuationSource, bindAttemptInputs: the  *)
(* envelope of the next attempt of k.                                      *)
Envelope(k) ==
    LET g == gen[k]
        l == last[k][g]
        p == parent[k][g]
    IN  IF l # NoAttempt /\ att[l].state \in {"failed", "interrupted", "suspended"}
        THEN [inputs |-> att[l].inputs, answer |-> att[l].answer]
        ELSE IF p # NoAttempt /\ att[p].state = "suspended"
        THEN [inputs |-> att[p].inputs, answer |-> p]
        ELSE [inputs |-> SealedInputs(k), answer |-> NoAttempt]

Claimable(k) ==
    /\ owner = "up"
    /\ State(k) = "ready" /\ ~cancelRequested /\ runState \in LiveStates
    /\ Cardinality(Running) < MaxConcurrent
    /\ UpstreamsSucceeded(node, k)

(* claimReadyNode and claimPreparedRow: one transaction. *)
Claim(k, a) ==
    /\ Claimable(k)
    /\ att[a].state = "absent" /\ \A b \in 1 .. a - 1 : att[b].state # "absent"
    /\ att' = [att EXCEPT ![a] = [state |-> "running", key |-> k, gen |-> gen[k],
                                  inputs |-> Envelope(k).inputs,
                                  answer |-> Envelope(k).answer]]
    /\ node' = [node EXCEPT ![k][gen[k]] = "running"]
    /\ cur' = [cur EXCEPT ![k][gen[k]] = a]
    /\ last' = [last EXCEPT ![k][gen[k]] = a]
    /\ runState' = "running"
    /\ work' = [work EXCEPT ![a] = "exec"]
    /\ UNCHANGED <<cancelRequested, gen, parent, out, gates, prep, said, owner, crashes, closes>>

(* The executor settles: success, failure or a question for the operator. *)
ExecutorSettles(a, o) ==
    /\ owner = "up" /\ work[a] = "exec" /\ IsCurrent(a)
    /\ o = "ask" => att[a].key \in AskKeys
    /\ work' = [work EXCEPT ![a] = "settled"]
    /\ said' = [said EXCEPT ![a] = o]
    /\ UNCHANGED <<runState, cancelRequested, rows, gates, prep, owner, crashes, closes>>

(* prepareUnsealedArtifact and sealPreparation.  The group of a success is *)
(* complete at once or after a first partial seal; a failure seals its     *)
(* transcript and its evidence, which may be the declared output; a        *)
(* question seals only its transcript.                                     *)
Seal(a, p) ==
    /\ owner = "up" /\ work[a] = "settled" /\ IsCurrent(a)
    /\ \/ /\ said[a] = "ok" /\ p = "some"
          /\ prep[a] = "none" /\ att[a].key \in PartialKeys
       \/ /\ said[a] = "ok" /\ p = "all"
          /\ prep[a] = IF att[a].key \in PartialKeys THEN "some" ELSE "none"
       \/ /\ said[a] = "bad" /\ prep[a] = "none"
          /\ p = IF att[a].key \in EvidenceKeys THEN "all" ELSE "some"
       \/ /\ said[a] = "ask" /\ p = "some" /\ prep[a] = "none"
    /\ prep' = [prep EXCEPT ![a] = p]
    /\ UNCHANGED <<runState, cancelRequested, rows, gates, work, said, owner, crashes, closes>>

(* Mutant: the conflict key of node_outputs lacks the generation. *)
RecordOutputOfKey(a) ==
    LET k == att[a].key
    IN  IF \A g \in Gens : out[k][g] = NoAttempt THEN [out EXCEPT ![k][att[a].gen] = a] ELSE out

(* node_outputs keeps the first artifact recorded for a generation. *)
RecordOutput(a) ==
    LET k == att[a].key
        g == att[a].gen
    IN  IF out[k][g] = NoAttempt THEN [out EXCEPT ![k][g] = a] ELSE out

(* Mutant: a group is committed without looking at its roles. *)
AnyGroup(a) == prep[a] # "none"

(* validateNodeOutputs: the sealed group has every required role. *)
CompleteGroup(a) == prep[a] = "all"

(* recomputeRunState over the unlocked rows nd. *)
RecomputedRunState(nd) ==
    IF HasReady(nd)
    THEN IF runState \in LiveStates \cup {"waiting_for_operator"} THEN "queued" ELSE runState
    ELSE IF gates # {} THEN "waiting_for_operator" ELSE "running"

(* commitSuccessfulAttempt: commitNodeArtifacts, then onAttemptSucceeded. *)
CommitSucceeded(a) ==
    LET k  == att[a].key
        g  == att[a].gen
        nd == [node EXCEPT ![k][g] = "succeeded"]
    IN  /\ att' = [att EXCEPT ![a].state = "succeeded"]
        /\ cur' = [cur EXCEPT ![k][g] = NoAttempt]
        /\ out' = RecordOutput(a)
        /\ prep' = [prep EXCEPT ![a] = "none"]
        /\ IF k = FinalKey
           THEN node' = nd /\ runState' = "published"
           ELSE node' = Unlock(nd) /\ runState' = RecomputedRunState(Unlock(nd))
        /\ UNCHANGED <<cancelRequested, gen, last, parent, gates>>

WorkerCommits(a) ==
    /\ owner = "up" /\ work[a] = "settled" /\ said[a] = "ok" /\ CompleteGroup(a) /\ IsCurrent(a)
    /\ CommitSucceeded(a)
    /\ work' = [work EXCEPT ![a] = "none"]
    /\ UNCHANGED <<said, owner, crashes, closes>>

(* commitFailedAttemptArtifacts: the evidence of a failure. *)
WorkerCommitsEvidence(a) ==
    /\ owner = "up" /\ work[a] = "settled" /\ said[a] = "bad" /\ prep[a] # "none" /\ IsCurrent(a)
    /\ out' = IF CompleteGroup(a) THEN RecordOutput(a) ELSE out
    /\ prep' = [prep EXCEPT ![a] = "none"]
    /\ work' = [work EXCEPT ![a] = "noted"]
    /\ UNCHANGED <<runState, cancelRequested, gen, node, cur, last, parent, att,
                   gates, said, owner, crashes, closes>>

(* shouldAutoRetryResearch, given that the failure class allows a retry. *)
AutoRetries(a, at) ==
    /\ att[a].key \in AutoRetryKeys
    /\ Cardinality({b \in Attempts :
            /\ at[b].key = att[a].key /\ at[b].gen = att[a].gen
            /\ at[b].state \in {"failed", "interrupted", "cancelled"}})
          < MaxAutoAttempts

(* failNode, after the evidence is committed, or when the executor, a      *)
(* seal or the output contract threw; retryable: the failure class is      *)
(* transient or infrastructure.                                            *)
WorkerFails(a, retryable) ==
    LET k  == att[a].key
        g  == att[a].gen
        at == [att EXCEPT ![a].state = "failed"]
        nd == [node EXCEPT ![k][g] = "failed"]
    IN  /\ owner = "up" /\ IsCurrent(a) /\ work[a] \in {"settled", "noted"}
        /\ att' = at
        /\ cur' = [cur EXCEPT ![k][g] = NoAttempt]
        /\ IF retryable /\ AutoRetries(a, at)
           THEN node' = [nd EXCEPT ![k][g] = "ready"] /\ runState' = "queued"
           ELSE IF ~HasActiveWork(nd)
           THEN node' = nd /\ runState' = "failed"
           ELSE /\ node' = Unlock(nd)
                /\ runState' = IF runState = "waiting_for_operator" THEN runState
                               ELSE "running"
        /\ prep' = [prep EXCEPT ![a] = "none"]
        /\ work' = [work EXCEPT ![a] = "none"]
        /\ said' = [said EXCEPT ![a] = "nothing"]
        /\ UNCHANGED <<cancelRequested, gen, last, parent, out, gates, owner, crashes, closes>>

(* suspendForOperatorInput and openOperatorInputGate. *)
WorkerSuspends(a) ==
    LET k == att[a].key
        g == att[a].gen
    IN  /\ owner = "up" /\ work[a] = "settled" /\ said[a] = "ask" /\ IsCurrent(a)
        /\ att' = [att EXCEPT ![a].state = "suspended"]
        /\ node' = [node EXCEPT ![k][g] = "waiting"]
        /\ cur' = [cur EXCEPT ![k][g] = NoAttempt]
        /\ gates' = gates \cup {<<k, g>>}
        /\ runState' = "waiting_for_operator"
        /\ prep' = [prep EXCEPT ![a] = "none"]
        /\ work' = [work EXCEPT ![a] = "none"]
        /\ said' = [said EXCEPT ![a] = "nothing"]
        /\ UNCHANGED <<cancelRequested, gen, last, parent, out, owner, crashes, closes>>

(* Mutant: a worker that has lost its lease ends its attempt all the same. *)
WorkerFailsLate(a) ==
    /\ owner = "up" /\ work[a] # "none" /\ ~IsCurrent(a)
    /\ att' = [att EXCEPT ![a].state = "failed"]
    /\ work' = [work EXCEPT ![a] = "none"]
    /\ prep' = [prep EXCEPT ![a] = "none"]
    /\ said' = [said EXCEPT ![a] = "nothing"]
    /\ UNCHANGED <<runState, cancelRequested, node, gen, cur, last, parent, out, gates, owner, crashes, closes>>

(* A worker that is no longer current leaves; finally orphans its group. *)
WorkerLeaves(a) ==
    /\ owner = "up" /\ work[a] # "none" /\ ~IsCurrent(a)
    /\ work' = [work EXCEPT ![a] = "none"]
    /\ prep' = [prep EXCEPT ![a] = "none"]
    /\ said' = [said EXCEPT ![a] = "nothing"]
    /\ UNCHANGED <<runState, cancelRequested, rows, gates, owner, crashes, closes>>

-----------------------------------------------------------------------------
(* Commands: each is one transaction of dispatch.                          *)

Claimables == {"blocked", "ready", "running", "waiting", "invalidated"}

(* cancelRun with applyRunCancelTransitions. *)
CancelRun ==
    /\ owner = "up"
    /\ runState \in LiveStates \cup {"waiting_for_operator", "paused"}
    /\ cancelRequested' = TRUE /\ runState' = "cancelled"
    /\ gates' = {}
    /\ att' = Retire({"running", "suspended"}, "cancelled")
    /\ node' = Release(Claimables, "cancelled")
    /\ cur' = ReleaseLease(Claimables)
    /\ UNCHANGED <<gen, last, parent, out, prep, work, said, owner, crashes, closes>>

(* Mutant: a finished run is paused like a live one. *)
PauseAny ==
    /\ owner = "up" /\ runState # "paused"
    /\ runState' = "paused"
    /\ att' = Retire({"running"}, "suspended")
    /\ node' = Release({"running"}, "ready")
    /\ cur' = ReleaseLease({"running"})
    /\ UNCHANGED <<cancelRequested, gen, last, parent, out, gates, prep, work,
                   said, owner, crashes, closes>>

PauseRun ==
    /\ owner = "up"
    /\ runState \in LiveStates \cup {"waiting_for_operator"}
    /\ runState' = "paused"
    /\ att' = Retire({"running"}, "suspended")
    /\ node' = Release({"running"}, "ready")
    /\ cur' = ReleaseLease({"running"})
    /\ UNCHANGED <<cancelRequested, gen, last, parent, out, gates, prep, work,
                   said, owner, crashes, closes>>

ResumeRun ==
    /\ owner = "up" /\ runState = "paused"
    /\ runState' = "queued"
    /\ UNCHANGED <<cancelRequested, rows, gates, prep, work, said, owner, crashes, closes>>

(* retryFailedNode with requeueFailedNode: same generation, same envelope. *)
RetryFailedNode(k) ==
    LET l == last[k][gen[k]]
    IN  /\ owner = "up" /\ ~cancelRequested
        /\ State(k) = "failed" /\ l # NoAttempt
        /\ att[l].state \in {"failed", "interrupted"}
        /\ runState \notin {"published", "cancelled"}
        /\ Lineage(k) = {}
        /\ att[l].answer = NoAttempt /\ att[l].inputs = SealedInputs(k)
        /\ node' = [node EXCEPT ![k][gen[k]] = "ready"]
        /\ cur' = [cur EXCEPT ![k][gen[k]] = NoAttempt]
        /\ runState' = "queued"
        /\ UNCHANGED <<cancelRequested, gen, last, parent, att, out, gates, prep,
                       work, said, owner, crashes, closes>>

(* Mutants: withdraw no gate, withdraw every gate of the run. *)
WithdrawNone(targets) == gates
WithdrawAll(targets) == {}

(* withdrawOpenGatesForNode, for the generations a rerun replaces. *)
Withdraw(targets) == {x \in gates : ~(x[1] \in targets /\ x[2] = gen[x[1]])}

(* rerunNode with applyRerunAt: a new generation of k and of its consumers. *)
RerunNode(k) ==
    LET targets == {k} \cup Lineage(k)
    IN  /\ owner = "up" /\ ~cancelRequested
        /\ runState \notin {"published", "cancelled"}
        /\ \A t \in targets : gen[t] < MaxGen
        /\ gen' = [t \in Keys |-> IF t \in targets THEN gen[t] + 1 ELSE gen[t]]
        /\ att' = [a \in Attempts |->
                      IF /\ att[a].state = "running" /\ att[a].key \in targets
                         /\ att[a].gen = gen[att[a].key]
                      THEN [att[a] EXCEPT !.state = "cancelled"] ELSE att[a]]
        /\ node' = [t \in Keys |-> [g \in Gens |->
                      IF t \in targets /\ g = gen[t]
                      THEN IF node[t][g] \in Claimables THEN "cancelled" ELSE node[t][g]
                      ELSE IF t \in targets /\ g = gen[t] + 1
                      THEN IF t = k THEN "ready" ELSE "invalidated"
                      ELSE node[t][g]]]
        /\ cur' = [t \in Keys |-> [g \in Gens |->
                      IF t \in targets /\ g = gen[t] THEN NoAttempt ELSE cur[t][g]]]
        /\ parent' = [t \in Keys |-> [g \in Gens |->
                      IF t \in targets /\ g = gen[t] + 1 THEN parent[t][gen[t]]
                      ELSE parent[t][g]]]
        /\ gates' = Withdraw(targets)
        /\ runState' = "queued"
        /\ UNCHANGED <<cancelRequested, last, out, prep, work, said, owner, crashes, closes>>

(* Mutant: the gate stays open when it is answered. *)
AnswerKeepsGate(k, g) ==
    /\ owner = "up" /\ ~cancelRequested /\ runState # "paused"
    /\ <<k, g>> \in gates /\ g = gen[k] /\ node[k][g] = "waiting"
    /\ last[k][g] # NoAttempt /\ att[last[k][g]].state = "suspended"
    /\ g < MaxGen
    /\ gen' = [gen EXCEPT ![k] = g + 1]
    /\ node' = [node EXCEPT ![k][g + 1] = "ready"]
    /\ parent' = [parent EXCEPT ![k][g + 1] = last[k][g]]
    /\ runState' = "queued"
    /\ UNCHANGED <<cancelRequested, cur, last, att, out, gates, prep, work, said, owner, crashes, closes>>

(* resolveGate with applyOperatorInputGateDecision: the answer opens the   *)
(* next generation, which continues the suspended parent.                  *)
AnswerGate(k, g) ==
    /\ owner = "up" /\ ~cancelRequested /\ runState # "paused"
    /\ <<k, g>> \in gates /\ g = gen[k] /\ node[k][g] = "waiting"
    /\ last[k][g] # NoAttempt /\ att[last[k][g]].state = "suspended"
    /\ g < MaxGen
    /\ gates' = gates \ {<<k, g>>}
    /\ gen' = [gen EXCEPT ![k] = g + 1]
    /\ node' = [node EXCEPT ![k][g + 1] = "ready"]
    /\ parent' = [parent EXCEPT ![k][g + 1] = last[k][g]]
    /\ runState' = "queued"
    /\ UNCHANGED <<cancelRequested, cur, last, att, out, prep, work, said, owner, crashes, closes>>

-----------------------------------------------------------------------------
(* The owner process.                                                      *)

(* Mutant: the node takes over the state of its attempt. *)
InterruptedNodesAsAttempts ==
    [k \in Keys |-> [g \in Gens |->
        IF cur[k][g] \in Running THEN "interrupted" ELSE node[k][g]]]

(* interruptRunningAttempts *)
InterruptedNodes ==
    [k \in Keys |-> [g \in Gens |->
        IF cur[k][g] \in Running THEN "failed" ELSE node[k][g]]]
InterruptRunning ==
    /\ att' = Retire({"running"}, "interrupted")
    /\ node' = InterruptedNodes
    /\ cur' = [k \in Keys |-> [g \in Gens |->
                  IF cur[k][g] \in Running THEN NoAttempt ELSE cur[k][g]]]
    /\ runState' = IF Running # {} THEN "failed" ELSE runState
    /\ UNCHANGED <<cancelRequested, gen, last, parent, out, gates>>

(* Mutant: close drops the workers and interrupts nothing. *)
CloseAbruptly ==
    /\ owner = "up" /\ closes < MaxCloses
    /\ work' = [a \in Attempts |-> "none"]
    /\ owner' = "down" /\ closes' = closes + 1
    /\ UNCHANGED <<runState, cancelRequested, rows, gates, prep, said, crashes>>

(* close: interrupt, then the workers leave and orphan their groups. *)
Close ==
    /\ owner = "up" /\ closes < MaxCloses
    /\ InterruptRunning
    /\ prep' = [a \in Attempts |-> IF work[a] # "none" THEN "none" ELSE prep[a]]
    /\ work' = [a \in Attempts |-> "none"]
    /\ owner' = "down" /\ closes' = closes + 1
    /\ UNCHANGED <<said, crashes>>

Crash ==
    /\ owner \in {"up", "recovering"} /\ crashes < MaxCrashes
    /\ work' = [a \in Attempts |-> "none"]
    /\ owner' = "down" /\ crashes' = crashes + 1
    /\ UNCHANGED <<runState, cancelRequested, rows, gates, prep, said, closes>>

Open ==
    /\ owner = "down" /\ owner' = "recovering"
    /\ UNCHANGED <<runState, cancelRequested, rows, gates, prep, work, said, crashes, closes>>

(* recoverPreparedArtifacts, one group: commit it if the attempt is        *)
(* current, orphan it if not; a group that lacks a required role throws    *)
(* out of recover and the store is closed again.                           *)
RecoverGroup(a) ==
    /\ owner = "recovering" /\ prep[a] # "none"
    /\ \/ /\ IsCurrent(a) /\ CompleteGroup(a)
          /\ CommitSucceeded(a)
          /\ UNCHANGED owner
       \/ /\ IsCurrent(a) /\ ~CompleteGroup(a)
          /\ owner' = "down"
          /\ UNCHANGED <<runState, cancelRequested, rows, gates, prep>>
       \/ /\ ~IsCurrent(a)
          /\ prep' = [prep EXCEPT ![a] = "none"]
          /\ UNCHANGED <<runState, cancelRequested, rows, gates, owner>>
    /\ UNCHANGED <<work, said, crashes, closes>>

(* recover, last step: interrupt what is still running, then schedule. *)
RecoverInterrupt ==
    /\ owner = "recovering" /\ \A a \in Attempts : prep[a] = "none"
    /\ InterruptRunning
    /\ owner' = "up"
    /\ UNCHANGED <<prep, work, said, crashes, closes>>

-----------------------------------------------------------------------------
Scheduler == \E k \in Keys, a \in Attempts : Claim(k, a)
Worker(a) ==
    \/ \E o \in {"ok", "bad", "ask"} : ExecutorSettles(a, o)
    \/ \E p \in {"some", "all"} : Seal(a, p)
    \/ WorkerCommits(a)
    \/ WorkerCommitsEvidence(a)
    \/ \E r \in BOOLEAN : WorkerFails(a, r)
    \/ WorkerSuspends(a)
    \/ WorkerLeaves(a)
Command ==
    \/ "cancel" \in Commands /\ CancelRun
    \/ "pause" \in Commands /\ (PauseRun \/ ResumeRun)
    \/ "retry" \in Commands /\ \E k \in Keys : RetryFailedNode(k)
    \/ "rerun" \in Commands /\ \E k \in Keys : RerunNode(k)
    \/ \E k \in Keys, g \in Gens : AnswerGate(k, g)
Recovery == Open \/ RecoverInterrupt \/ \E a \in Attempts : RecoverGroup(a)

Next == Scheduler \/ (\E a \in Attempts : Worker(a)) \/ Command \/ Recovery \/ Close \/ Crash

Spec == Init /\ [][Next]_vars

(* The event loop keeps running what is enabled; an executor settles (its  *)
(* turns and wall time are capped); the server is started again.           *)
FairSpec ==
    /\ Spec /\ WF_vars(Scheduler) /\ WF_vars(Recovery)
    /\ \A a \in Attempts : WF_vars(Worker(a))
-----------------------------------------------------------------------------
(* What the materialised graph is, and what a run must not combine, for    *)
(* its progress.                                                           *)

(* The execution graph has no cycle. *)
GraphIsAcyclic == \A S \in SUBSET Keys \ {{}} : \E k \in S : Upstream[k] \cap S = {}

(* The publish node comes after everything else. *)
PublishIsLast ==
    \A S \in SUBSET Keys : FinalKey \in S /\ (\A k \in S : Upstream[k] \subseteq S) => S = Keys

(* No question is answered in a run whose nodes are rerun: a continuation  *)
(* that is not claimed yet escapes the rerun of its upstream.              *)
NoStaleContinuation == AskKeys = {} \/ "rerun" \notin Commands

-----------------------------------------------------------------------------
(* Properties.                                                             *)

(* A running attempt holds the lease of its node: the node's live          *)
(* generation is running under that attempt, and no cancelled, paused or   *)
(* failed run has one (claimPreparedRow, isCurrent and every command that  *)
(* retires an attempt together with its node).                             *)
RunningIsLeased ==
    \A a \in Running :
        LET k == att[a].key
        IN  /\ att[a].gen = gen[k] /\ State(k) = "running" /\ cur[k][gen[k]] = a
            /\ ~cancelRequested
            /\ runState \notin {"paused", "failed", "cancelled"}

(* Conversely a node shown as running, in any generation, is being worked  *)
(* on by a running attempt: no handler strands it (pauseRun, cancelRun,    *)
(* applyRerunAt, interruptRunningAttempts).                                *)
RunningNodeHasAttempt ==
    \A k \in Keys, g \in Gens :
        node[k][g] = "running" => cur[k][g] \in Running /\ g = gen[k]

(* The lease in both directions: whoever runs holds it, and what is shown   *)
(* as running is held (claimPreparedRow, isCurrent, the retiring commands). *)
AttemptsAreLeased == RunningIsLeased /\ RunningNodeHasAttempt

(* "Late Attempts cannot commit": an attempt ends in success or failure    *)
(* only out of the lease of the live generation of an uncancelled run      *)
(* (isCurrent inside commitNodeArtifacts and writeFailedAttemptTerminal).  *)
LateAttemptsCannotCommit ==
    [][\A a \in Attempts :
          att'[a].state # att[a].state /\ att'[a].state \in {"succeeded", "failed"}
          => /\ ~cancelRequested
             /\ att[a].state = "running"
             /\ att[a].gen = gen[att[a].key] /\ cur[att[a].key][att[a].gen] = a]_vars

(* Cancellation prevents every future claim, answer and artifact commit,   *)
(* across crashes and recovery too (applyRunCancelTransitions).            *)
CancelIsFinal ==
    [][cancelRequested =>
          /\ cancelRequested' /\ runState' = "cancelled" /\ gen' = gen
          /\ out' = out /\ gates' = {} /\ Running' = {}]_vars

(* An envelope is never mixed or stale: what a running or succeeded live   *)
(* node mounted is exactly what the live generations of its upstreams      *)
(* sealed, whatever retries and reruns fell in between (bindAttemptInputs, *)
(* retrySourceAttempt, applyRerunAt).  The continuation of a question has  *)
(* the envelope in which it was asked, even after a rerun of an upstream.  *)
EnvelopeIsCurrent ==
    \A k \in Keys :
        LET a == last[k][gen[k]]
        IN  State(k) \in {"running", "succeeded"}
            => IF att[a].answer = NoAttempt
               THEN UpstreamsSucceeded(node, k) /\ att[a].inputs = SealedInputs(k)
               ELSE att[a].inputs = att[att[a].answer].inputs

(* What "invalidates only downstream nodes that consumed old output        *)
(* lineage" promises, and what an answered question escapes: nothing runs  *)
(* or stays done on an upstream that is being done again.                  *)
RerunReachesConsumers ==
    \A k \in Keys :
        State(k) \in {"running", "waiting", "succeeded"} => UpstreamsSucceeded(node, k)

(* The output recorded for a succeeded generation was sealed by the        *)
(* attempt that succeeded (node_outputs of commitNodeArtifacts).           *)
OutputIsOfSuccess ==
    \A k \in Keys, g \in Gens :
        node[k][g] = "succeeded" => out[k][g] = last[k][g] /\ att[out[k][g]].state = "succeeded"

(* A generation that continues an answered question succeeds only with the *)
(* answer among its inputs, whatever pauses, retries and restarts fall in  *)
(* between (operatorContinuationSource, retrySourceAttempt).               *)
AnswerIsDelivered ==
    \A k \in Keys, g \in Gens :
        node[k][g] = "succeeded" /\ parent[k][g] # NoAttempt
        => att[last[k][g]].answer # NoAttempt

(* An open question can be answered: its node waits in the live generation *)
(* on a suspended attempt, so resolveGate does not refuse it as stale; and *)
(* a run that waits for the operator has a question to show.               *)
GatesAreAnswerable ==
    /\ \A x \in gates :
          /\ x[2] = gen[x[1]] /\ State(x[1]) = "waiting"
          /\ att[last[x[1]][x[2]]].state = "suspended"
    /\ runState = "waiting_for_operator" => gates # {}

(* A question reaches its end: it can be answered while it is open, and the *)
(* continuation succeeds only with the answer (resolveGate, retry).        *)
AnswersArrive == GatesAreAnswerable /\ AnswerIsDelivered

(* A node waits in its live generation only behind an open question. *)
WaitingHasGate ==
    \A k \in Keys : State(k) = "waiting" => <<k, gen[k]>> \in gates

(* What the executor reported as failed is never committed as a success,   *)
(* also not by the replay of prepared groups after a crash.                *)
FailureIsNotCommitted ==
    \A a \in Attempts : att[a].state = "succeeded" => said[a] = "ok"

(* Where the failure of a key seals no declared output, what is recorded   *)
(* for it is genuine: OutputIsOfSuccess and FailureIsNotCommitted hold of  *)
(* it, over every retry, rerun, crash and replay of prepared groups        *)
(* (commitNodeArtifacts, recoverPreparedArtifacts).                        *)
ResultsAreGenuine ==
    /\ \A k \in Keys \ EvidenceKeys, g \in Gens :
          node[k][g] = "succeeded" => out[k][g] = last[k][g] /\ att[out[k][g]].state = "succeeded"
    /\ \A a \in Attempts :
          att[a].state = "succeeded" /\ att[a].key \notin EvidenceKeys => said[a] = "ok"

(* The rows tell one history: envelopes are current, whoever waits has a   *)
(* question, and what succeeded is recorded as such (bindAttemptInputs,    *)
(* suspendForOperatorInput, applyRerunAt, commitNodeArtifacts).            *)
HistoryIsConsistent == EnvelopeIsCurrent /\ WaitingHasGate /\ ResultsAreGenuine

(* A live run that has nothing to claim and nothing running stalls only    *)
(* on a failed node, which the operator can retry or rerun: no order of    *)
(* unlock, rerun, pause and recovery loses a wake-up in the graph          *)
(* (unlockReadyNodes, recomputeRunState).                                  *)
StallsOnlyOnFailure ==
    runState \in LiveStates /\ ~HasActiveWork(node)
    => \E k \in Keys : State(k) = "failed"

(* "A published Run cannot rerun in place": nothing opens it again.        *)
PublishedIsFinal == [][runState = "published" => runState' = "published"]_vars

(* No attempt runs for ever: it commits, fails, is retired by a command or *)
(* is interrupted by the next recovery (interruptRunningAttempts).         *)
AttemptsEnd == \A a \in Attempts : att[a].state = "running" ~> att[a].state # "running"

(* Recovery succeeds: the store opens again after every crash. *)
StoreReopens == owner # "up" ~> owner = "up"
=============================================================================
