--------------------------- MODULE RunControlProofs ---------------------------
(***************************************************************************)
(* Proofs about RunControl, for every execution graph, every bound and     *)
(* every set of commands, in three parts.                                  *)
(*   The rows: their types, and the lease that ties a running attempt to   *)
(*   the live generation of its node.                                      *)
(*   The history that the rows tell: an envelope is neither mixed nor      *)
(*   stale, whoever waits has a question, a question reaches its end, and  *)
(*   what is recorded of a success is genuine.                             *)
(*   What becomes of a run, for every acyclic graph in which everything    *)
(*   comes before the publish node: it stalls only on a failure, a rerun   *)
(*   reaches whoever consumed, and published is final.                     *)
(***************************************************************************)
EXTENDS RunControl, TLAPS

NodeRows == [Keys -> [Gens -> NodeStates]]
LeaseRows == [Keys -> [Gens -> Attempts \cup {NoAttempt}]]
AttemptRow == [state: AttemptStates, key: Keys, gen: Gens,
               inputs: SUBSET Attempts, answer: Attempts \cup {NoAttempt}]

-----------------------------------------------------------------------------
(* What the helpers return.                                                *)

(* Generation 0 is within the bound. *)
LEMMA ZeroIsGen == 0 \in Gens
  BY BoundsAssumption DEF Gens

(* Unlocking maps node rows to node rows and starts nothing. *)
LEMMA UnlockRows ==
  ASSUME NEW nd \in NodeRows, gen \in [Keys -> Gens]
  PROVE  /\ Unlock(nd) \in NodeRows
         /\ \A k \in Keys, g \in Gens :
               Unlock(nd)[k][g] = "running" <=> nd[k][g] = "running"
<1> DEFINE row(k) == IF nd[k][gen[k]] \in {"blocked", "invalidated"} /\ UpstreamsSucceeded(nd, k)
                     THEN [nd[k] EXCEPT ![gen[k]] = "ready"]
                     ELSE nd[k]
<1>1. ASSUME NEW k \in Keys
      PROVE  /\ row(k) \in [Gens -> NodeStates]
             /\ \A g \in Gens : row(k)[g] = "running" <=> nd[k][g] = "running"
  <2>1. nd[k] \in [Gens -> NodeStates] /\ gen[k] \in Gens
    BY DEF NodeRows
  <2>2. "ready" \in NodeStates
    BY DEF NodeStates
  <2> QED BY <2>1, <2>2
<1>2. Unlock(nd) = [k \in Keys |-> row(k)]
  BY DEF Unlock
<1> QED BY <1>1, <1>2 DEF NodeRows

(* The envelope of a claim is typed. *)
LEMMA EnvelopeType ==
  ASSUME TypeOK, NEW k \in Keys
  PROVE  /\ Envelope(k).inputs \in SUBSET Attempts
         /\ Envelope(k).answer \in Attempts \cup {NoAttempt}
<1>1. SealedInputs(k) \in SUBSET Attempts
  BY KeysAssumption DEF SealedInputs, TypeOK, State
<1>2. /\ last[k][gen[k]] \in Attempts \cup {NoAttempt}
      /\ parent[k][gen[k]] \in Attempts \cup {NoAttempt}
  BY DEF TypeOK
<1>3. \A a \in Attempts : att[a].inputs \in SUBSET Attempts
                          /\ att[a].answer \in Attempts \cup {NoAttempt}
  BY DEF TypeOK
<1> QED BY <1>1, <1>2, <1>3 DEF Envelope

(* The updates of a command are typed. *)
LEMMA RetireRows ==
  ASSUME TypeOK, NEW from, NEW to \in AttemptStates
  PROVE  Retire(from, to) \in [Attempts -> AttemptRow]
<1>1. ASSUME NEW a \in Attempts
      PROVE  att[a] \in AttemptRow /\ [att[a] EXCEPT !.state = to] \in AttemptRow
  <2>1. att[a] \in AttemptRow
    BY DEF TypeOK, AttemptRow
  <2> QED BY <2>1 DEF AttemptRow
<1> QED BY <1>1 DEF Retire

LEMMA ReleaseRows ==
  ASSUME TypeOK, NEW from, NEW to \in NodeStates
  PROVE  Release(from, to) \in NodeRows /\ ReleaseLease(from) \in LeaseRows
  BY DEF TypeOK, Release, ReleaseLease, NodeRows, LeaseRows

(* Setting the state of one attempt keeps the rows typed. *)
LEMMA AttemptUpdate ==
  ASSUME TypeOK, NEW a \in Attempts, NEW s \in AttemptStates
  PROVE  [att EXCEPT ![a].state = s] \in [Attempts -> AttemptRow]
<1>1. att \in [Attempts -> AttemptRow]
  BY DEF TypeOK, AttemptRow
<1>2. [att[a] EXCEPT !.state = s] \in AttemptRow
  BY <1>1 DEF AttemptRow
<1> QED BY <1>1, <1>2

(* Setting the state or the lease of one generation keeps the rows typed. *)
LEMMA RowUpdate ==
  ASSUME TypeOK, NEW k \in Keys, NEW g \in Gens,
         NEW s \in NodeStates, NEW l \in Attempts \cup {NoAttempt}
  PROVE  /\ [node EXCEPT ![k][g] = s] \in NodeRows
         /\ [cur EXCEPT ![k][g] = l] \in LeaseRows
         /\ [last EXCEPT ![k][g] = l] \in LeaseRows
         /\ [parent EXCEPT ![k][g] = l] \in LeaseRows
         /\ [out EXCEPT ![k][g] = l] \in LeaseRows
  BY DEF TypeOK, NodeRows, LeaseRows

(* The state of the run after a commit, and the recorded output, are typed. *)
LEMMA CommitType ==
  ASSUME TypeOK, NEW a \in Attempts
  PROVE  /\ RecordOutput(a) \in LeaseRows
         /\ \A nd : RecomputedRunState(nd) \in RunStates
<1>1. /\ att[a].key \in Keys /\ att[a].gen \in Gens
      /\ out \in LeaseRows
  BY DEF TypeOK, LeaseRows
<1>2. RecordOutput(a) \in LeaseRows
  <2>1. [out EXCEPT ![att[a].key][att[a].gen] = a] \in LeaseRows
    BY <1>1 DEF LeaseRows
  <2> QED BY <1>1, <2>1 DEF RecordOutput
<1>3. ASSUME NEW nd PROVE RecomputedRunState(nd) \in RunStates
  BY DEF TypeOK, RecomputedRunState, RunStates, LiveStates
<1> QED BY <1>2, <1>3

-----------------------------------------------------------------------------
(* The initial state is typed. *)
LEMMA InitType == Init => TypeOK
<1> SUFFICES ASSUME Init PROVE TypeOK
  OBVIOUS
<1>1. gen \in [Keys -> Gens] /\ node \in [Keys -> [Gens -> NodeStates]]
  BY ZeroIsGen DEF Init, NodeStates
<1>2. /\ cur \in [Keys -> [Gens -> Attempts \cup {NoAttempt}]]
      /\ last = cur /\ parent = cur /\ out = cur
  BY DEF Init
<1>3. att \in [Attempts -> [state: AttemptStates, key: Keys, gen: Gens,
                            inputs: SUBSET Attempts,
                            answer: Attempts \cup {NoAttempt}]]
  <2>1. AbsentAttempt \in [state: AttemptStates, key: Keys, gen: Gens,
                           inputs: SUBSET Attempts,
                           answer: Attempts \cup {NoAttempt}]
    BY ZeroIsGen, KeysAssumption DEF AbsentAttempt, AttemptStates
  <2> QED BY <2>1 DEF Init
<1>4. /\ runState \in RunStates /\ cancelRequested \in BOOLEAN
      /\ gates \subseteq Keys \X Gens
      /\ owner \in {"up", "down", "recovering"}
  BY DEF Init, RunStates
<1>5. crashes \in 0 .. MaxCrashes /\ closes \in 0 .. MaxCloses
  BY BoundsAssumption DEF Init
<1>6. /\ prep \in [Attempts -> PrepStates]
      /\ work \in [Attempts -> WorkStates]
      /\ said \in [Attempts -> Outcomes \cup {"nothing"}]
  BY DEF Init, PrepStates, WorkStates
<1> QED BY <1>1, <1>2, <1>3, <1>4, <1>5, <1>6 DEF TypeOK

(* The groups of actions that the induction step treats one by one. *)
LEMMA NextCases ==
  ASSUME Next
  PROVE  \/ \E k \in Keys, a \in Attempts : Claim(k, a)
         \/ \E a \in Attempts : Worker(a)
         \/ CancelRun \/ PauseRun \/ ResumeRun
         \/ \E k \in Keys : RetryFailedNode(k) \/ RerunNode(k)
         \/ \E k \in Keys, g \in Gens : AnswerGate(k, g)
         \/ Open \/ RecoverInterrupt \/ Close \/ Crash
         \/ \E a \in Attempts : RecoverGroup(a)
  BY DEF Next, Scheduler, Command, Recovery

(* interruptRunningAttempts keeps the rows typed. *)
LEMMA InterruptType ==
  ASSUME TypeOK, InterruptRunning
  PROVE  /\ runState' \in RunStates /\ cancelRequested' \in BOOLEAN
         /\ gen' \in [Keys -> Gens] /\ node' \in NodeRows /\ cur' \in LeaseRows
         /\ last' \in LeaseRows /\ parent' \in LeaseRows /\ out' \in LeaseRows
         /\ att' \in [Attempts -> AttemptRow] /\ gates' \subseteq Keys \X Gens
<1>1. att' \in [Attempts -> AttemptRow]
  BY RetireRows DEF InterruptRunning, AttemptStates
<1>2. node' \in NodeRows
  BY DEF InterruptRunning, InterruptedNodes, TypeOK, NodeRows, NodeStates
<1>3. cur' \in LeaseRows
  BY DEF InterruptRunning, TypeOK, LeaseRows
<1>4. runState' \in RunStates
  BY DEF InterruptRunning, TypeOK, RunStates
<1> QED BY <1>1, <1>2, <1>3, <1>4 DEF InterruptRunning, TypeOK, LeaseRows

(* commitSuccessfulAttempt keeps the rows typed. *)
LEMMA CommitRows ==
  ASSUME TypeOK, NEW a \in Attempts, CommitSucceeded(a)
  PROVE  /\ runState' \in RunStates /\ cancelRequested' \in BOOLEAN
         /\ gen' \in [Keys -> Gens] /\ node' \in NodeRows /\ cur' \in LeaseRows
         /\ last' \in LeaseRows /\ parent' \in LeaseRows /\ out' \in LeaseRows
         /\ att' \in [Attempts -> AttemptRow] /\ gates' \subseteq Keys \X Gens
         /\ prep' \in [Attempts -> PrepStates]
<1> DEFINE k == att[a].key
           g == att[a].gen
           nd == [node EXCEPT ![k][g] = "succeeded"]
<1>1. k \in Keys /\ g \in Gens
  BY DEF TypeOK
<1>2. nd \in NodeRows /\ [cur EXCEPT ![k][g] = NoAttempt] \in LeaseRows
  <2>1. "succeeded" \in NodeStates /\ NoAttempt \in Attempts \cup {NoAttempt}
    BY DEF NodeStates
  <2> HIDE DEF k, g
  <2> QED BY <1>1, <2>1, RowUpdate
<1>3. att' \in [Attempts -> AttemptRow]
  <2>1. "succeeded" \in AttemptStates
    BY DEF AttemptStates
  <2> QED BY <2>1, AttemptUpdate DEF CommitSucceeded
<1>4. node' \in NodeRows
  <2>1. gen \in [Keys -> Gens]
    BY DEF TypeOK
  <2>2. Unlock(nd) \in NodeRows
    BY <1>2, <2>1, UnlockRows
  <2>3. node' = nd \/ node' = Unlock(nd)
    BY DEF CommitSucceeded
  <2> QED BY <1>2, <2>2, <2>3
<1>5. runState' \in RunStates
  <2>1. runState' = "published" \/ \E rows0 : runState' = RecomputedRunState(rows0)
    BY DEF CommitSucceeded
  <2> QED BY <2>1, CommitType DEF RunStates
<1>6. out' \in LeaseRows /\ cur' \in LeaseRows
  BY <1>2, CommitType DEF CommitSucceeded
<1>7. prep' \in [Attempts -> PrepStates]
  BY DEF CommitSucceeded, TypeOK, PrepStates
<1> QED BY <1>3, <1>4, <1>5, <1>6, <1>7 DEF CommitSucceeded, TypeOK, LeaseRows

-----------------------------------------------------------------------------
(* Every step keeps the types: first the worker of an attempt. *)
LEMMA WorkerType ==
  ASSUME TypeOK, NEW a \in Attempts, Worker(a)
  PROVE  TypeOK'
<1> DEFINE k == att[a].key
           g == att[a].gen
<1>0. /\ k \in Keys /\ g \in Gens
      /\ "suspended" \in AttemptStates /\ "failed" \in AttemptStates
      /\ {"failed", "waiting", "ready"} \subseteq NodeStates
  BY DEF TypeOK, AttemptStates, NodeStates
<1>1. ASSUME NEW o \in {"ok", "bad", "ask"}, ExecutorSettles(a, o)
      PROVE  TypeOK'
  BY <1>1 DEF TypeOK, ExecutorSettles, rows, WorkStates, Outcomes
<1>2. ASSUME NEW p \in {"some", "all"}, Seal(a, p)
      PROVE  TypeOK'
  BY <1>2 DEF TypeOK, Seal, rows, PrepStates
<1>3. CASE WorkerCommits(a)
  <2>1. CommitSucceeded(a)
    BY <1>3 DEF WorkerCommits
  <2>2. work' \in [Attempts -> WorkStates]
    BY <1>3 DEF WorkerCommits, TypeOK, WorkStates
  <2> QED BY <1>3, <2>1, <2>2, CommitRows
          DEF WorkerCommits, TypeOK, NodeRows, LeaseRows, AttemptRow
<1>4. CASE WorkerCommitsEvidence(a)
  <2>1. out' \in LeaseRows
    BY <1>4, CommitType DEF WorkerCommitsEvidence, TypeOK, LeaseRows
  <2> QED BY <1>4, <2>1 DEF WorkerCommitsEvidence, TypeOK, LeaseRows, PrepStates, WorkStates
<1>5. ASSUME NEW r \in BOOLEAN, WorkerFails(a, r)
      PROVE  TypeOK'
  <2> DEFINE nd == [node EXCEPT ![k][g] = "failed"]
  <2>1. /\ nd \in NodeRows /\ [nd EXCEPT ![k][g] = "ready"] \in NodeRows
        /\ [cur EXCEPT ![k][g] = NoAttempt] \in LeaseRows
    <3> HIDE DEF k, g
    <3> QED BY <1>0 DEF TypeOK, NodeRows, LeaseRows
  <2>2. Unlock(nd) \in NodeRows
    <3>1. gen \in [Keys -> Gens]
      BY DEF TypeOK
    <3> QED BY <2>1, <3>1, UnlockRows
  <2>3. node' \in NodeRows
    BY <1>5, <2>1, <2>2 DEF WorkerFails
  <2>4. runState' \in RunStates
    BY <1>5 DEF WorkerFails, TypeOK, RunStates
  <2>5. att' \in [Attempts -> AttemptRow] /\ cur' \in LeaseRows
    BY <1>0, <1>5, <2>1, AttemptUpdate DEF WorkerFails
  <2>6. /\ prep' \in [Attempts -> PrepStates] /\ work' \in [Attempts -> WorkStates]
        /\ said' \in [Attempts -> Outcomes \cup {"nothing"}]
    BY <1>5 DEF WorkerFails, TypeOK, PrepStates, WorkStates
  <2> QED BY <1>5, <2>3, <2>4, <2>5, <2>6
          DEF WorkerFails, TypeOK, NodeRows, LeaseRows, AttemptRow
<1>6. CASE WorkerSuspends(a)
  <2>1. node' \in NodeRows /\ cur' \in LeaseRows
    <3> HIDE DEF k, g
    <3>1. /\ [node EXCEPT ![k][g] = "waiting"] \in NodeRows
          /\ [cur EXCEPT ![k][g] = NoAttempt] \in LeaseRows
      BY <1>0 DEF TypeOK, NodeRows, LeaseRows
    <3> QED BY <1>6, <3>1 DEF WorkerSuspends, k, g
  <2>2. att' \in [Attempts -> AttemptRow]
    BY <1>0, <1>6, AttemptUpdate DEF WorkerSuspends
  <2>3. gates' \subseteq Keys \X Gens
    BY <1>0, <1>6 DEF WorkerSuspends, TypeOK
  <2>4. /\ prep' \in [Attempts -> PrepStates] /\ work' \in [Attempts -> WorkStates]
        /\ said' \in [Attempts -> Outcomes \cup {"nothing"}]
    BY <1>6 DEF WorkerSuspends, TypeOK, PrepStates, WorkStates
  <2> QED BY <1>6, <2>1, <2>2, <2>3, <2>4
          DEF WorkerSuspends, TypeOK, NodeRows, LeaseRows, AttemptRow, RunStates
<1>7. CASE WorkerLeaves(a)
  BY <1>7 DEF TypeOK, WorkerLeaves, rows, PrepStates, WorkStates
<1> QED BY <1>1, <1>2, <1>3, <1>4, <1>5, <1>6, <1>7 DEF Worker

(* Then the scheduler and the commands. *)
LEMMA ClaimType ==
  ASSUME TypeOK, NEW k \in Keys, NEW a \in Attempts, Claim(k, a)
  PROVE  TypeOK'
<1>0. gen[k] \in Gens /\ "running" \in NodeStates /\ "running" \in RunStates
  BY DEF TypeOK, NodeStates, RunStates
<1>1. att' \in [Attempts -> AttemptRow]
  <2> DEFINE e == Envelope(k)
  <2>1. e.inputs \in SUBSET Attempts /\ e.answer \in Attempts \cup {NoAttempt}
    BY EnvelopeType
  <2>2. att' = [att EXCEPT ![a] = [state |-> "running", key |-> k, gen |-> gen[k],
                                   inputs |-> e.inputs, answer |-> e.answer]]
    BY DEF Claim
  <2> HIDE DEF e
  <2>3. [state |-> "running", key |-> k, gen |-> gen[k],
         inputs |-> e.inputs, answer |-> e.answer] \in AttemptRow
    BY <1>0, <2>1 DEF AttemptRow, AttemptStates
  <2> QED BY <2>2, <2>3 DEF TypeOK, AttemptRow
<1>2. node' \in NodeRows /\ cur' \in LeaseRows /\ last' \in LeaseRows
  BY <1>0 DEF Claim, TypeOK, NodeRows, LeaseRows
<1>3. work' \in [Attempts -> WorkStates]
  BY DEF Claim, TypeOK, WorkStates
<1> QED BY <1>0, <1>1, <1>2, <1>3 DEF Claim, TypeOK, NodeRows, LeaseRows, AttemptRow

LEMMA CancelPauseType ==
  ASSUME TypeOK, CancelRun \/ PauseRun \/ ResumeRun
  PROVE  TypeOK'
<1>0. /\ {"cancelled", "suspended"} \subseteq AttemptStates
      /\ {"cancelled", "ready"} \subseteq NodeStates
      /\ {"cancelled", "paused", "queued"} \subseteq RunStates
  BY DEF AttemptStates, NodeStates, RunStates
<1>1. CASE CancelRun
  <2>1. /\ att' \in [Attempts -> AttemptRow] /\ node' \in NodeRows /\ cur' \in LeaseRows
    BY <1>0, <1>1, RetireRows, ReleaseRows DEF CancelRun
  <2> QED BY <1>0, <1>1, <2>1 DEF CancelRun, TypeOK, NodeRows, LeaseRows, AttemptRow
<1>2. CASE PauseRun
  <2>1. /\ att' \in [Attempts -> AttemptRow] /\ node' \in NodeRows /\ cur' \in LeaseRows
    BY <1>0, <1>2, RetireRows, ReleaseRows DEF PauseRun
  <2> QED BY <1>0, <1>2, <2>1 DEF PauseRun, TypeOK, NodeRows, LeaseRows, AttemptRow
<1>3. CASE ResumeRun
  BY <1>0, <1>3 DEF ResumeRun, TypeOK, rows
<1> QED BY <1>1, <1>2, <1>3

LEMMA RequeueType ==
  ASSUME TypeOK, NEW k \in Keys, RetryFailedNode(k) \/ RerunNode(k)
  PROVE  TypeOK'
<1>0. /\ "cancelled" \in AttemptStates
      /\ {"cancelled", "ready", "invalidated"} \subseteq NodeStates
      /\ "queued" \in RunStates /\ gen[k] \in Gens
  BY DEF TypeOK, AttemptStates, NodeStates, RunStates
<1>1. CASE RetryFailedNode(k)
  <2>1. node' \in NodeRows /\ cur' \in LeaseRows
    BY <1>0, <1>1 DEF RetryFailedNode, TypeOK, NodeRows, LeaseRows
  <2> QED BY <1>0, <1>1, <2>1 DEF RetryFailedNode, TypeOK, NodeRows, LeaseRows
<1>2. CASE RerunNode(k)
  <2> DEFINE targets == {k} \cup Lineage(k)
  <2>1. gen' \in [Keys -> Gens]
    <3>1. \A t \in targets : gen[t] < MaxGen
      BY <1>2 DEF RerunNode
    <3>2. gen' = [t \in Keys |-> IF t \in targets THEN gen[t] + 1 ELSE gen[t]]
      BY <1>2 DEF RerunNode
    <3> HIDE DEF targets
    <3> QED BY <3>1, <3>2, BoundsAssumption DEF TypeOK, Gens
  <2>2. att' \in [Attempts -> AttemptRow]
    <3>1. \A b \in Attempts : /\ att[b] \in AttemptRow
                              /\ [att[b] EXCEPT !.state = "cancelled"] \in AttemptRow
      <4> TAKE b \in Attempts
      <4>1. att[b] \in AttemptRow
        BY DEF TypeOK, AttemptRow
      <4> QED BY <1>0, <4>1 DEF AttemptRow
    <3> QED BY <1>2, <3>1 DEF RerunNode
  <2>3. node' \in NodeRows
    <3>1. node \in NodeRows
      BY DEF TypeOK, NodeRows
    <3>2. node' = [t \in Keys |-> [g \in Gens |->
                      IF t \in targets /\ g = gen[t]
                      THEN IF node[t][g] \in Claimables THEN "cancelled" ELSE node[t][g]
                      ELSE IF t \in targets /\ g = gen[t] + 1
                      THEN IF t = k THEN "ready" ELSE "invalidated"
                      ELSE node[t][g]]]
      BY <1>2 DEF RerunNode
    <3> HIDE DEF targets
    <3> QED BY <1>0, <3>1, <3>2 DEF NodeRows
  <2>4. cur' \in LeaseRows /\ parent' \in LeaseRows
    <3>1. cur \in LeaseRows /\ parent \in LeaseRows /\ gen \in [Keys -> Gens]
      BY DEF TypeOK, LeaseRows
    <3>2. /\ cur' = [t \in Keys |-> [g \in Gens |->
                      IF t \in targets /\ g = gen[t] THEN NoAttempt ELSE cur[t][g]]]
          /\ parent' = [t \in Keys |-> [g \in Gens |->
                      IF t \in targets /\ g = gen[t] + 1 THEN parent[t][gen[t]]
                      ELSE parent[t][g]]]
      BY <1>2 DEF RerunNode
    <3> HIDE DEF targets
    <3> QED BY <3>1, <3>2 DEF LeaseRows
  <2>5. gates' \subseteq Keys \X Gens
    BY <1>2 DEF RerunNode, Withdraw, TypeOK
  <2> QED BY <1>0, <1>2, <2>1, <2>2, <2>3, <2>4, <2>5
          DEF RerunNode, TypeOK, NodeRows, LeaseRows, AttemptRow
<1> QED BY <1>1, <1>2

LEMMA AnswerType ==
  ASSUME TypeOK, NEW k \in Keys, NEW g \in Gens, AnswerGate(k, g)
  PROVE  TypeOK'
<1>1. g + 1 \in Gens
  BY BoundsAssumption DEF AnswerGate, Gens
<1>2. gen' \in [Keys -> Gens]
  BY <1>1 DEF AnswerGate, TypeOK
<1>3. node' \in NodeRows
  BY <1>1 DEF AnswerGate, TypeOK, NodeRows, NodeStates
<1>4. parent' \in LeaseRows
  <2>1. last[k][g] \in Attempts \cup {NoAttempt}
    BY DEF TypeOK
  <2> QED BY <1>1, <2>1 DEF AnswerGate, TypeOK, LeaseRows
<1> QED BY <1>2, <1>3, <1>4 DEF AnswerGate, TypeOK, NodeRows, LeaseRows, RunStates

(* Last the owner process. *)
LEMMA OwnerType ==
  ASSUME TypeOK,
         Open \/ RecoverInterrupt \/ Close \/ Crash \/ \E a \in Attempts : RecoverGroup(a)
  PROVE  TypeOK'
<1>1. CASE Open
  BY <1>1 DEF Open, TypeOK, rows
<1>2. CASE RecoverInterrupt
  <2>1. InterruptRunning
    BY <1>2 DEF RecoverInterrupt
  <2> QED BY <1>2, <2>1, InterruptType DEF RecoverInterrupt, TypeOK, NodeRows, LeaseRows, AttemptRow
<1>3. CASE Close
  <2>1. InterruptRunning
    BY <1>3 DEF Close
  <2>2. closes' \in 0 .. MaxCloses
    BY <1>3, BoundsAssumption DEF Close, TypeOK
  <2>3. prep' \in [Attempts -> PrepStates] /\ work' \in [Attempts -> WorkStates]
    BY <1>3 DEF Close, TypeOK, PrepStates, WorkStates
  <2> QED BY <1>3, <2>1, <2>2, <2>3, InterruptType
          DEF Close, TypeOK, NodeRows, LeaseRows, AttemptRow
<1>4. CASE Crash
  <2>1. crashes' \in 0 .. MaxCrashes
    BY <1>4, BoundsAssumption DEF Crash, TypeOK
  <2> QED BY <1>4, <2>1 DEF Crash, TypeOK, rows, WorkStates
<1>5. ASSUME NEW a \in Attempts, RecoverGroup(a)
      PROVE  TypeOK'
  <2>1. CASE CommitSucceeded(a) /\ UNCHANGED owner
    BY <1>5, <2>1, CommitRows DEF RecoverGroup, TypeOK, NodeRows, LeaseRows, AttemptRow
  <2>2. CASE /\ owner' = "down"
             /\ UNCHANGED <<runState, cancelRequested, rows, gates, prep>>
    BY <1>5, <2>2 DEF RecoverGroup, TypeOK, rows
  <2>3. CASE /\ prep' = [prep EXCEPT ![a] = "none"]
             /\ UNCHANGED <<runState, cancelRequested, rows, gates, owner>>
    BY <1>5, <2>3 DEF RecoverGroup, TypeOK, rows, PrepStates
  <2> QED BY <1>5, <2>1, <2>2, <2>3 DEF RecoverGroup
<1> QED BY <1>1, <1>2, <1>3, <1>4, <1>5

LEMMA NextType == TypeOK /\ [Next]_vars => TypeOK'
<1> SUFFICES ASSUME TypeOK, [Next]_vars PROVE TypeOK'
  OBVIOUS
<1>1. CASE UNCHANGED vars
  BY <1>1 DEF vars, TypeOK
<1>2. CASE Next
  BY <1>2, NextCases, ClaimType, WorkerType, CancelPauseType, RequeueType, AnswerType, OwnerType
<1> QED BY <1>1, <1>2

(* The rows keep their types in every reachable state, whatever commands,  *)
(* failures, crashes and restarts the run goes through.                    *)
THEOREM TypeCorrect == Spec => []TypeOK
  BY InitType, NextType, PTL DEF Spec

-----------------------------------------------------------------------------
(* The lease.  RunningIsLeased alone is not inductive: an interrupted, a   *)
(* paused or a rerun node must not be left running, so the invariant also  *)
(* says that a running node is held by a running attempt of its own.       *)
LeaseIsHeld ==
    \A k \in Keys, g \in Gens :
        node[k][g] = "running"
        => g = gen[k] /\ cur[k][g] \in Running /\ att[cur[k][g]].key = k

IInv == TypeOK /\ RunningIsLeased /\ LeaseIsHeld

(* Where nothing runs there is nothing to lease. *)
LEMMA NothingRuns ==
  ASSUME TypeOK', Running' = {}, \A k \in Keys, g \in Gens : node'[k][g] # "running"
  PROVE  IInv'
  BY DEF IInv, RunningIsLeased, LeaseIsHeld

(* A step that touches neither rows nor run keeps the leases. *)
LEMMA LeaseUntouched ==
  ASSUME IInv, TypeOK', UNCHANGED <<runState, cancelRequested, gen, node, cur, att>>
  PROVE  IInv'
  BY DEF IInv, RunningIsLeased, LeaseIsHeld, Running, State

(* A step that ends one leased attempt, releases its node and starts no    *)
(* other keeps the leases of the others.                                   *)
LEMMA LeaseReleased ==
  ASSUME IInv, TypeOK', NEW a \in Running,
         NEW s \in AttemptStates \ {"running"},
         att' = [att EXCEPT ![a].state = s],
         cur' = [cur EXCEPT ![att[a].key][att[a].gen] = NoAttempt],
         gen' = gen, cancelRequested' = cancelRequested,
         \A k \in Keys, g \in Gens :
             (node'[k][g] = "running")
             <=> (node[k][g] = "running" /\ ~(k = att[a].key /\ g = att[a].gen)),
         Running' = {} \/ runState' \notin {"paused", "failed", "cancelled"}
  PROVE  IInv'
<1>1. /\ a \in Attempts /\ att[a].key \in Keys /\ att[a].gen \in Gens
      /\ att[a].gen = gen[att[a].key] /\ cur[att[a].key][att[a].gen] = a
      /\ ~cancelRequested
  BY DEF IInv, TypeOK, RunningIsLeased, Running
<1>2. /\ \A b \in Attempts : att'[b].key = att[b].key /\ att'[b].gen = att[b].gen
      /\ Running' = Running \ {a}
  <2>1. \A b \in Attempts \ {a} : att'[b] = att[b]
    BY DEF IInv, TypeOK
  <2>2. att'[a].state = s /\ att'[a].key = att[a].key /\ att'[a].gen = att[a].gen
    BY <1>1 DEF IInv, TypeOK
  <2> QED BY <1>1, <2>1, <2>2 DEF Running
<1>3. \A k \in Keys, g \in Gens :
         cur'[k][g] = IF k = att[a].key /\ g = att[a].gen THEN NoAttempt ELSE cur[k][g]
  BY <1>1 DEF IInv, TypeOK
<1>4. RunningIsLeased'
  <2> SUFFICES ASSUME NEW b \in Running'
               PROVE  /\ att'[b].gen = gen'[att'[b].key]
                      /\ node'[att'[b].key][gen'[att'[b].key]] = "running"
                      /\ cur'[att'[b].key][gen'[att'[b].key]] = b
                      /\ ~cancelRequested'
                      /\ runState' \notin {"paused", "failed", "cancelled"}
    BY DEF RunningIsLeased, State
  <2>1. b \in Running /\ b # a /\ b \in Attempts
    BY <1>2 DEF Running
  <2>2. /\ att[b].key \in Keys /\ att[b].gen \in Gens
        /\ att[b].gen = gen[att[b].key]
        /\ node[att[b].key][att[b].gen] = "running" /\ cur[att[b].key][att[b].gen] = b
    BY <2>1 DEF IInv, TypeOK, RunningIsLeased, State
  <2>3. ~(att[b].key = att[a].key /\ att[b].gen = att[a].gen)
    BY <1>1, <2>1, <2>2
  <2> QED BY <1>1, <1>2, <1>3, <2>1, <2>2, <2>3
<1>5. LeaseIsHeld'
  <2> SUFFICES ASSUME NEW k \in Keys, NEW g \in Gens, node'[k][g] = "running"
               PROVE  /\ g = gen'[k] /\ cur'[k][g] \in Running'
                      /\ att'[cur'[k][g]].key = k
    BY DEF LeaseIsHeld
  <2>1. node[k][g] = "running" /\ ~(k = att[a].key /\ g = att[a].gen)
    OBVIOUS
  <2>2. g = gen[k] /\ cur[k][g] \in Running /\ att[cur[k][g]].key = k
    BY <2>1 DEF IInv, LeaseIsHeld
  <2>3. cur[k][g] # a
    BY <1>1, <2>1, <2>2
  <2> QED BY <1>2, <1>3, <2>1, <2>2, <2>3 DEF Running
<1> QED BY <1>4, <1>5 DEF IInv

(* An attempt that is current holds a lease, in a run that is going on. *)
LEMMA CurrentIsLeased ==
  ASSUME IInv, NEW a \in Attempts, IsCurrent(a)
  PROVE  /\ a \in Running /\ att[a].key \in Keys /\ att[a].gen \in Gens
         /\ node[att[a].key][att[a].gen] = "running"
         /\ runState \notin {"paused", "failed", "cancelled"} /\ ~cancelRequested
  BY DEF IInv, TypeOK, RunningIsLeased, IsCurrent, Running

(* commitSuccessfulAttempt releases exactly the lease of the attempt. *)
LEMMA CommitLease ==
  ASSUME IInv, TypeOK', NEW a \in Attempts, IsCurrent(a), CommitSucceeded(a)
  PROVE  IInv'
<1> DEFINE k == att[a].key
           g == att[a].gen
           nd == [node EXCEPT ![k][g] = "succeeded"]
<1>1. /\ a \in Running /\ k \in Keys /\ g \in Gens /\ node[k][g] = "running"
      /\ runState \notin {"paused", "failed", "cancelled"}
  BY CurrentIsLeased
<1>2. /\ nd \in NodeRows
      /\ \A x \in Keys, y \in Gens :
            (nd[x][y] = "running") <=> (node[x][y] = "running" /\ ~(x = k /\ y = g))
  <2>1. node \in NodeRows /\ "succeeded" \in NodeStates
    BY DEF IInv, TypeOK, NodeRows, NodeStates
  <2> HIDE DEF k, g
  <2> QED BY <1>1, <2>1 DEF NodeRows
<1>3. \A x \in Keys, y \in Gens :
         (node'[x][y] = "running") <=> (node[x][y] = "running" /\ ~(x = k /\ y = g))
  <2>1. gen \in [Keys -> Gens]
    BY DEF IInv, TypeOK
  <2>2. \A x \in Keys, y \in Gens : Unlock(nd)[x][y] = "running" <=> nd[x][y] = "running"
    <3> HIDE DEF nd
    <3> QED BY <1>2, <2>1, UnlockRows
  <2>3. node' = nd \/ node' = Unlock(nd)
    BY DEF CommitSucceeded
  <2> HIDE DEF k, g, nd
  <2> QED BY <1>2, <2>2, <2>3
<1>4. runState' \notin {"paused", "failed", "cancelled"}
  BY <1>1 DEF CommitSucceeded, RecomputedRunState
<1>5. /\ att' = [att EXCEPT ![a].state = "succeeded"]
      /\ cur' = [cur EXCEPT ![att[a].key][att[a].gen] = NoAttempt]
      /\ gen' = gen /\ cancelRequested' = cancelRequested
  BY DEF CommitSucceeded
<1>6. "succeeded" \in AttemptStates \ {"running"}
  BY DEF AttemptStates
<1> QED BY <1>1, <1>3, <1>4, <1>5, <1>6, LeaseReleased

(* failNode: the run is failed only when no other attempt is running. *)
LEMMA FailLease ==
  ASSUME IInv, TypeOK', NEW a \in Attempts, NEW r \in BOOLEAN, WorkerFails(a, r)
  PROVE  IInv'
<1> DEFINE k == att[a].key
           g == att[a].gen
           nd == [node EXCEPT ![k][g] = "failed"]
<1>1. /\ a \in Running /\ k \in Keys /\ g \in Gens /\ node[k][g] = "running"
      /\ runState \notin {"paused", "failed", "cancelled"}
  BY CurrentIsLeased DEF WorkerFails
<1>2. /\ nd \in NodeRows
      /\ \A x \in Keys, y \in Gens : ~(x = k /\ y = g) => nd[x][y] = node[x][y]
      /\ nd[k][g] = "failed"
  <2>1. node \in NodeRows /\ "failed" \in NodeStates
    BY DEF IInv, TypeOK, NodeRows, NodeStates
  <2> HIDE DEF k, g
  <2> QED BY <1>1, <2>1 DEF NodeRows
<1>3. \A x \in Keys, y \in Gens :
         (node'[x][y] = "running") <=> (node[x][y] = "running" /\ ~(x = k /\ y = g))
  <2>1. gen \in [Keys -> Gens]
    BY DEF IInv, TypeOK
  <2>2. \A x \in Keys, y \in Gens : Unlock(nd)[x][y] = "running" <=> nd[x][y] = "running"
    <3> HIDE DEF nd
    <3> QED BY <1>2, <2>1, UnlockRows
  <2>3. node' = nd \/ node' = Unlock(nd) \/ node' = [nd EXCEPT ![k][g] = "ready"]
    BY DEF WorkerFails
  <2>4. \A x \in Keys, y \in Gens :
           ([nd EXCEPT ![k][g] = "ready"][x][y] = "running")
           <=> (node[x][y] = "running" /\ ~(x = k /\ y = g))
    <3> HIDE DEF k, g, nd
    <3> QED BY <1>1, <1>2 DEF NodeRows
  <2>5. CASE node' = [nd EXCEPT ![k][g] = "ready"]
    BY <2>4, <2>5, Zenon
  <2>6. CASE node' = nd \/ node' = Unlock(nd)
    <3> HIDE DEF k, g, nd
    <3> QED BY <1>2, <2>2, <2>6
  <2> QED BY <2>3, <2>5, <2>6
<1>4. /\ att' = [att EXCEPT ![a].state = "failed"]
      /\ cur' = [cur EXCEPT ![att[a].key][att[a].gen] = NoAttempt]
      /\ gen' = gen /\ cancelRequested' = cancelRequested
  BY DEF WorkerFails
<1>5. Running' = {} \/ runState' \notin {"paused", "failed", "cancelled"}
  <2>1. CASE HasActiveWork(nd)
    BY <1>1, <2>1 DEF WorkerFails
  <2>2. CASE ~HasActiveWork(nd)
    <3> SUFFICES ASSUME NEW b \in Running' PROVE FALSE
      BY <2>2
    <3>1. b \in Running /\ b # a
      BY <1>1, <1>4 DEF Running, IInv, TypeOK
    <3>2. /\ att[b].key \in Keys /\ att[b].gen = gen[att[b].key] /\ att[b].gen \in Gens
          /\ node[att[b].key][att[b].gen] = "running" /\ cur[att[b].key][att[b].gen] = b
      BY <3>1 DEF IInv, TypeOK, RunningIsLeased, State, Running
    <3>3. cur[k][g] = a
      BY <1>1 DEF IInv, RunningIsLeased
    <3>4. nd[att[b].key][gen[att[b].key]] = "running"
      BY <1>2, <3>1, <3>2, <3>3
    <3> QED BY <2>2, <3>2, <3>4 DEF HasActiveWork
  <2> QED BY <2>1, <2>2
<1>6. "failed" \in AttemptStates \ {"running"}
  BY DEF AttemptStates
<1> QED BY <1>1, <1>3, <1>4, <1>5, <1>6, LeaseReleased

(* suspendForOperatorInput releases the lease and the run waits. *)
LEMMA SuspendLease ==
  ASSUME IInv, TypeOK', NEW a \in Attempts, WorkerSuspends(a)
  PROVE  IInv'
<1> DEFINE k == att[a].key
           g == att[a].gen
<1>1. a \in Running /\ k \in Keys /\ g \in Gens /\ node[k][g] = "running"
  BY CurrentIsLeased DEF WorkerSuspends
<1>2. \A x \in Keys, y \in Gens :
         (node'[x][y] = "running") <=> (node[x][y] = "running" /\ ~(x = k /\ y = g))
  <2>1. node \in NodeRows /\ node' = [node EXCEPT ![k][g] = "waiting"]
    BY DEF IInv, TypeOK, NodeRows, WorkerSuspends
  <2> HIDE DEF k, g
  <2> QED BY <1>1, <2>1 DEF NodeRows
<1>3. /\ att' = [att EXCEPT ![a].state = "suspended"]
      /\ cur' = [cur EXCEPT ![att[a].key][att[a].gen] = NoAttempt]
      /\ gen' = gen /\ cancelRequested' = cancelRequested
      /\ runState' = "waiting_for_operator"
  BY DEF WorkerSuspends
<1>4. "suspended" \in AttemptStates \ {"running"}
  BY DEF AttemptStates
<1> QED BY <1>1, <1>2, <1>3, <1>4, LeaseReleased

(* claimPreparedRow takes the lease of a ready node. *)
LEMMA ClaimLease ==
  ASSUME IInv, TypeOK', NEW k \in Keys, NEW a \in Attempts, Claim(k, a)
  PROVE  IInv'
<1>1. /\ gen[k] \in Gens /\ node[k][gen[k]] = "ready" /\ ~cancelRequested
      /\ att[a].state = "absent" /\ runState' = "running"
      /\ gen' = gen /\ cancelRequested' = cancelRequested
  BY DEF IInv, TypeOK, Claim, Claimable, State
<1>2. /\ att'[a].state = "running" /\ att'[a].key = k /\ att'[a].gen = gen[k]
      /\ \A b \in Attempts \ {a} : att'[b] = att[b]
      /\ Running' = Running \cup {a}
  <2>1. /\ att'[a].state = "running" /\ att'[a].key = k /\ att'[a].gen = gen[k]
        /\ \A b \in Attempts \ {a} : att'[b] = att[b]
    BY DEF Claim, IInv, TypeOK
  <2> QED BY <2>1 DEF Running
<1>3. \A x \in Keys, y \in Gens :
         /\ node'[x][y] = IF x = k /\ y = gen[k] THEN "running" ELSE node[x][y]
         /\ cur'[x][y] = IF x = k /\ y = gen[k] THEN a ELSE cur[x][y]
  BY <1>1 DEF Claim, IInv, TypeOK
<1>4. RunningIsLeased'
  <2> SUFFICES ASSUME NEW b \in Running'
               PROVE  /\ att'[b].gen = gen[att'[b].key]
                      /\ node'[att'[b].key][gen[att'[b].key]] = "running"
                      /\ cur'[att'[b].key][gen[att'[b].key]] = b
    BY <1>1 DEF RunningIsLeased, State
  <2>1. CASE b = a
    BY <1>1, <1>2, <1>3, <2>1
  <2>2. CASE b # a
    <3>1. b \in Running /\ b \in Attempts /\ att'[b] = att[b]
      BY <1>2, <2>2 DEF Running
    <3>2. /\ att[b].key \in Keys /\ gen[att[b].key] \in Gens
          /\ att[b].gen = gen[att[b].key]
          /\ node[att[b].key][gen[att[b].key]] = "running"
          /\ cur[att[b].key][gen[att[b].key]] = b
      BY <3>1 DEF IInv, TypeOK, RunningIsLeased, State
    <3> QED BY <1>1, <1>3, <3>1, <3>2
  <2> QED BY <2>1, <2>2
<1>5. LeaseIsHeld'
  <2> SUFFICES ASSUME NEW x \in Keys, NEW y \in Gens, node'[x][y] = "running"
               PROVE  /\ y = gen[x] /\ cur'[x][y] \in Running'
                      /\ att'[cur'[x][y]].key = x
    BY <1>1 DEF LeaseIsHeld
  <2>1. CASE x = k /\ y = gen[k]
    BY <1>2, <1>3, <2>1
  <2>2. CASE ~(x = k /\ y = gen[k])
    <3>1. y = gen[x] /\ cur[x][y] \in Running /\ att[cur[x][y]].key = x
      BY <1>3, <2>2 DEF IInv, LeaseIsHeld
    <3> QED BY <1>1, <1>2, <1>3, <2>2, <3>1 DEF Running
  <2> QED BY <2>1, <2>2
<1> QED BY <1>4, <1>5 DEF IInv

(* Cancel, pause and the interruption of a dead owner's attempts stop all. *)
LEMMA StopLease ==
  ASSUME IInv, TypeOK', CancelRun \/ PauseRun \/ InterruptRunning
  PROVE  IInv'
<1>1. Running' = {}
  <2>1. att' = Retire({"running", "suspended"}, "cancelled")
        \/ att' = Retire({"running"}, "suspended")
        \/ att' = Retire({"running"}, "interrupted")
    BY DEF CancelRun, PauseRun, InterruptRunning
  <2>2. ASSUME NEW from, NEW to, "running" \in from, to # "running", NEW b \in Attempts
        PROVE  Retire(from, to)[b].state # "running"
    <3>1. att[b] \in AttemptRow
      BY DEF IInv, TypeOK, AttemptRow
    <3>2. [att[b] EXCEPT !.state = to].state = to
      BY <3>1 DEF AttemptRow
    <3> QED BY <2>2, <3>2 DEF Retire
  <2>3. \A b \in Attempts : att'[b].state # "running"
    BY <2>1, <2>2
  <2> QED BY <2>3 DEF Running
<1>2. \A k \in Keys, g \in Gens : node'[k][g] # "running"
  <2>1. CASE CancelRun
    BY <2>1 DEF CancelRun, Release, Claimables, IInv, TypeOK
  <2>2. CASE PauseRun
    BY <2>2 DEF PauseRun, Release, IInv, TypeOK
  <2>3. CASE InterruptRunning
    BY <2>3 DEF InterruptRunning, InterruptedNodes, IInv, LeaseIsHeld
  <2> QED BY <2>1, <2>2, <2>3
<1> QED BY <1>1, <1>2, NothingRuns

(* The rows of the attempts and of the leased nodes stay; the run goes on. *)
LEMMA LeaseKept ==
  ASSUME IInv, TypeOK', att' = att, cancelRequested' = cancelRequested,
         runState' \notin {"paused", "failed", "cancelled"} \/ Running = {},
         \A k \in Keys, g \in Gens :
            /\ node'[k][g] = "running" <=> node[k][g] = "running"
            /\ node[k][g] = "running" => gen'[k] = gen[k] /\ cur'[k][g] = cur[k][g]
  PROVE  IInv'
<1>1. Running' = Running
  BY DEF Running
<1>2. RunningIsLeased'
  <2> SUFFICES ASSUME NEW b \in Running
               PROVE  /\ att[b].gen = gen'[att[b].key]
                      /\ node'[att[b].key][gen'[att[b].key]] = "running"
                      /\ cur'[att[b].key][gen'[att[b].key]] = b
                      /\ ~cancelRequested
    BY <1>1 DEF RunningIsLeased, State
  <2>1. /\ att[b].key \in Keys /\ att[b].gen \in Gens /\ att[b].gen = gen[att[b].key]
        /\ node[att[b].key][att[b].gen] = "running"
        /\ cur[att[b].key][att[b].gen] = b /\ ~cancelRequested
    BY DEF IInv, TypeOK, RunningIsLeased, State, Running
  <2> QED BY <2>1
<1>3. LeaseIsHeld'
  BY <1>1 DEF IInv, LeaseIsHeld
<1> QED BY <1>2, <1>3 DEF IInv

LEMMA ResumeLease ==
  ASSUME IInv, TypeOK', ResumeRun
  PROVE  IInv'
  BY LeaseKept DEF ResumeRun, rows

LEMMA RetryLease ==
  ASSUME IInv, TypeOK', NEW k \in Keys, RetryFailedNode(k)
  PROVE  IInv'
<1>1. \A x \in Keys, y \in Gens :
         /\ node'[x][y] = IF x = k /\ y = gen[k] THEN "ready" ELSE node[x][y]
         /\ cur'[x][y] = IF x = k /\ y = gen[k] THEN NoAttempt ELSE cur[x][y]
  BY DEF RetryFailedNode, IInv, TypeOK
<1>2. node[k][gen[k]] = "failed"
  BY DEF RetryFailedNode, State
<1>3. /\ att' = att /\ cancelRequested' = cancelRequested /\ gen' = gen
      /\ runState' = "queued"
  BY DEF RetryFailedNode
<1> QED BY <1>1, <1>2, <1>3, LeaseKept

(* The answered generation was waiting, so nobody held its lease. *)
LEMMA AnswerLease ==
  ASSUME IInv, TypeOK', NEW k \in Keys, NEW g \in Gens, AnswerGate(k, g)
  PROVE  IInv'
<1>1. /\ g = gen[k] /\ node[k][g] = "waiting" /\ g + 1 \in Gens
  BY BoundsAssumption DEF AnswerGate, Gens
<1>2. \A x \in Keys, y \in Gens :
         /\ node'[x][y] = IF x = k /\ y = g + 1 THEN "ready" ELSE node[x][y]
         /\ x # k => gen'[x] = gen[x]
  BY DEF AnswerGate, IInv, TypeOK
<1>3. \A y \in Gens : node[k][y] # "running"
  BY <1>1 DEF IInv, LeaseIsHeld
<1>4. /\ att' = att /\ cancelRequested' = cancelRequested /\ cur' = cur
      /\ runState' = "queued"
  BY DEF AnswerGate
<1> QED BY <1>1, <1>2, <1>3, <1>4, LeaseKept

(* A rerun cancels the attempts that hold the generations it replaces and  *)
(* leaves the leases of all other keys.                                    *)
LEMMA RerunLease ==
  ASSUME IInv, TypeOK', NEW k \in Keys, RerunNode(k)
  PROVE  IInv'
<1> DEFINE targets == {k} \cup Lineage(k)
<1>1. /\ cancelRequested' = cancelRequested /\ runState' = "queued"
      /\ \A x \in Keys : x \notin targets => gen'[x] = gen[x]
  BY DEF RerunNode
<1>2. \A b \in Attempts :
         /\ att'[b].key = att[b].key /\ att'[b].gen = att[b].gen
         /\ att'[b].state = IF /\ att[b].state = "running" /\ att[b].key \in targets
                               /\ att[b].gen = gen[att[b].key]
                            THEN "cancelled" ELSE att[b].state
  <2> SUFFICES ASSUME NEW b \in Attempts
               PROVE  /\ att'[b].key = att[b].key /\ att'[b].gen = att[b].gen
                      /\ att'[b].state = IF /\ att[b].state = "running" /\ att[b].key \in targets
                                            /\ att[b].gen = gen[att[b].key]
                                         THEN "cancelled" ELSE att[b].state
    OBVIOUS
  <2>1. att[b] \in AttemptRow
    BY DEF IInv, TypeOK, AttemptRow
  <2>2. att'[b] = IF /\ att[b].state = "running" /\ att[b].key \in targets
                     /\ att[b].gen = gen[att[b].key]
                  THEN [att[b] EXCEPT !.state = "cancelled"] ELSE att[b]
    BY DEF RerunNode
  <2> HIDE DEF targets
  <2> QED BY <2>1, <2>2 DEF AttemptRow
<1>3. \A x \in Keys, y \in Gens :
         /\ (node'[x][y] = "running") <=> (node[x][y] = "running" /\ ~(x \in targets /\ y = gen[x])
                                          /\ ~(x \in targets /\ y = gen[x] + 1))
         /\ x \notin targets => cur'[x][y] = cur[x][y]
  <2>1. /\ node' = [t \in Keys |-> [g \in Gens |->
                      IF t \in targets /\ g = gen[t]
                      THEN IF node[t][g] \in Claimables THEN "cancelled" ELSE node[t][g]
                      ELSE IF t \in targets /\ g = gen[t] + 1
                      THEN IF t = k THEN "ready" ELSE "invalidated"
                      ELSE node[t][g]]]
        /\ cur' = [t \in Keys |-> [g \in Gens |->
                      IF t \in targets /\ g = gen[t] THEN NoAttempt ELSE cur[t][g]]]
    BY DEF RerunNode
  <2> HIDE DEF targets
  <2> QED BY <2>1 DEF Claimables
<1>4. \A x \in Keys, y \in Gens : node[x][y] = "running" => y = gen[x]
  BY DEF IInv, LeaseIsHeld
<1>5. \A b \in Running : /\ att[b].key \in Keys /\ att[b].gen \in Gens /\ b \in Attempts
                         /\ att[b].gen = gen[att[b].key]
                         /\ node[att[b].key][att[b].gen] = "running"
                         /\ cur[att[b].key][att[b].gen] = b
                         /\ ~cancelRequested
  BY DEF IInv, TypeOK, RunningIsLeased, State, Running
<1>6. \A b \in Running' : b \in Running /\ att[b].key \notin targets
  BY <1>2, <1>5 DEF Running
<1> HIDE DEF targets
<1>7. RunningIsLeased'
  <2> SUFFICES ASSUME NEW b \in Running'
               PROVE  /\ att'[b].gen = gen'[att'[b].key]
                      /\ node'[att'[b].key][gen'[att'[b].key]] = "running"
                      /\ cur'[att'[b].key][gen'[att'[b].key]] = b
                      /\ ~cancelRequested
    BY <1>1 DEF RunningIsLeased, State
  <2> QED BY <1>1, <1>2, <1>3, <1>5, <1>6
<1>8. LeaseIsHeld'
  <2> SUFFICES ASSUME NEW x \in Keys, NEW y \in Gens, node'[x][y] = "running"
               PROVE  y = gen'[x] /\ cur'[x][y] \in Running' /\ att'[cur'[x][y]].key = x
    BY DEF LeaseIsHeld
  <2>1. node[x][y] = "running" /\ x \notin targets /\ y = gen[x]
    BY <1>3, <1>4
  <2>2. cur[x][y] \in Running /\ att[cur[x][y]].key = x
    BY <2>1 DEF IInv, LeaseIsHeld
  <2>3. cur[x][y] \in Attempts /\ cur[x][y] \in Running'
    BY <1>2, <2>1, <2>2 DEF Running
  <2> QED BY <1>1, <1>2, <1>3, <2>1, <2>2, <2>3
<1> QED BY <1>7, <1>8 DEF IInv

-----------------------------------------------------------------------------
LEMMA InitLease == Init => IInv
<1> SUFFICES ASSUME Init PROVE IInv
  OBVIOUS
<1>1. \A a \in Attempts : att[a].state = "absent"
  BY DEF Init, AbsentAttempt
<1>2. \A k \in Keys, g \in Gens : node[k][g] # "running"
  BY DEF Init
<1> QED BY <1>1, <1>2, InitType DEF IInv, RunningIsLeased, LeaseIsHeld, Running

LEMMA WorkerLease ==
  ASSUME IInv, TypeOK', NEW a \in Attempts, Worker(a)
  PROVE  IInv'
<1>1. CASE (\E o \in {"ok", "bad", "ask"} : ExecutorSettles(a, o))
           \/ (\E p \in {"some", "all"} : Seal(a, p))
           \/ WorkerCommitsEvidence(a) \/ WorkerLeaves(a)
  BY <1>1, LeaseUntouched
  DEF ExecutorSettles, Seal, WorkerCommitsEvidence, WorkerLeaves, rows
<1>2. CASE WorkerCommits(a)
  BY <1>2, CommitLease DEF WorkerCommits
<1>3. ASSUME NEW r \in BOOLEAN, WorkerFails(a, r) PROVE IInv'
  BY <1>3, FailLease
<1>4. CASE WorkerSuspends(a)
  BY <1>4, SuspendLease
<1> QED BY <1>1, <1>2, <1>3, <1>4 DEF Worker

LEMMA OwnerLease ==
  ASSUME IInv, TypeOK',
         Open \/ RecoverInterrupt \/ Close \/ Crash \/ \E a \in Attempts : RecoverGroup(a)
  PROVE  IInv'
<1>1. CASE Open \/ Crash
  BY <1>1, LeaseUntouched DEF Open, Crash, rows
<1>2. CASE RecoverInterrupt \/ Close
  BY <1>2, StopLease DEF RecoverInterrupt, Close
<1>3. ASSUME NEW a \in Attempts, RecoverGroup(a) PROVE IInv'
  <2>1. CASE IsCurrent(a) /\ CommitSucceeded(a)
    BY <2>1, CommitLease
  <2>2. CASE UNCHANGED <<runState, cancelRequested, rows>>
    BY <2>2, LeaseUntouched DEF rows
  <2> QED BY <1>3, <2>1, <2>2 DEF RecoverGroup
<1> QED BY <1>1, <1>2, <1>3

LEMMA NextLease == IInv /\ [Next]_vars => IInv'
<1> SUFFICES ASSUME IInv, [Next]_vars PROVE IInv'
  OBVIOUS
<1>1. TypeOK'
  BY NextType DEF IInv
<1>2. CASE UNCHANGED vars
  BY <1>1, <1>2, LeaseUntouched DEF vars
<1>3. CASE Next
  <2>1. CASE CancelRun \/ PauseRun \/ ResumeRun
    BY <1>1, <2>1, StopLease, ResumeLease
  <2>2. CASE \E k \in Keys : RetryFailedNode(k) \/ RerunNode(k)
    BY <1>1, <2>2, RetryLease, RerunLease
  <2> QED BY <1>1, <1>3, <2>1, <2>2, NextCases, ClaimLease, WorkerLease, AnswerLease, OwnerLease
<1> QED BY <1>2, <1>3

LEMMA LeaseInvariant == Spec => []IInv
  BY InitLease, NextLease, PTL DEF Spec

(* A running attempt holds the lease of the live generation of its node in *)
(* a run that is neither cancelled, paused nor failed: no interleaving of  *)
(* commands, late workers, crashes and recovery breaks it.                 *)
THEOREM RunningLeased == Spec => []RunningIsLeased
<1>1. IInv => RunningIsLeased
  BY DEF IInv
<1> QED BY <1>1, LeaseInvariant, PTL

(* A node shown as running is worked on by a running attempt: with the     *)
(* lease the other way round, AttemptsAreLeased.                           *)
THEOREM AttemptsLeased == Spec => []AttemptsAreLeased
<1>1. IInv => AttemptsAreLeased
  BY DEF IInv, LeaseIsHeld, AttemptsAreLeased, RunningNodeHasAttempt
<1> QED BY <1>1, LeaseInvariant, PTL

-----------------------------------------------------------------------------
(* What a step may never do.                                               *)

(* Only a current attempt ends in success or in failure. *)
LEMMA FinishedWasCurrent ==
  ASSUME TypeOK, Next, NEW a \in Attempts,
         att'[a].state # att[a].state, att'[a].state \in {"succeeded", "failed"}
  PROVE  IsCurrent(a)
<1>0. \A b \in Attempts : att[b] \in AttemptRow
  BY DEF TypeOK, AttemptRow
<1>1. ASSUME NEW k \in Keys, NEW b \in Attempts, Claim(k, b) PROVE IsCurrent(a)
  BY <1>1 DEF Claim, TypeOK
<1>2. ASSUME NEW b \in Attempts, Worker(b) PROVE IsCurrent(a)
  <2>1. CASE UNCHANGED att
    BY <2>1
  <2>2. CASE IsCurrent(b) /\ \E s \in {"succeeded", "failed", "suspended"} :
                                att' = [att EXCEPT ![b].state = s]
    BY <2>2 DEF TypeOK
  <2> QED BY <1>2, <2>1, <2>2 DEF Worker, ExecutorSettles, Seal, WorkerCommits, CommitSucceeded,
             WorkerCommitsEvidence, WorkerFails, WorkerSuspends, WorkerLeaves, rows
<1>3. ASSUME NEW from, NEW to \in {"cancelled", "suspended", "interrupted"}, att' = Retire(from, to)
      PROVE  FALSE
  BY <1>0, <1>3 DEF Retire, AttemptRow
<1>4. CASE CancelRun \/ PauseRun \/ ResumeRun
  BY <1>3, <1>4 DEF CancelRun, PauseRun, ResumeRun, rows
<1>5. ASSUME NEW k \in Keys, RetryFailedNode(k) \/ RerunNode(k) PROVE IsCurrent(a)
  <2>1. att' = att \/ att'[a] = att[a] \/ att'[a] = [att[a] EXCEPT !.state = "cancelled"]
    BY <1>5 DEF RetryFailedNode, RerunNode
  <2> QED BY <1>0, <2>1 DEF AttemptRow
<1>6. ASSUME NEW k \in Keys, NEW g \in Gens, AnswerGate(k, g) PROVE IsCurrent(a)
  BY <1>6 DEF AnswerGate
<1>7. CASE Open \/ RecoverInterrupt \/ Close \/ Crash
  BY <1>3, <1>7 DEF Open, RecoverInterrupt, Close, Crash, InterruptRunning, rows
<1>8. ASSUME NEW b \in Attempts, RecoverGroup(b) PROVE IsCurrent(a)
  <2>1. CASE UNCHANGED att
    BY <2>1
  <2>2. CASE IsCurrent(b) /\ att' = [att EXCEPT ![b].state = "succeeded"]
    BY <2>2 DEF TypeOK
  <2> QED BY <1>8, <2>1, <2>2 DEF RecoverGroup, CommitSucceeded, rows
<1> QED BY <1>1, <1>2, <1>4, <1>5, <1>6, <1>7, <1>8, NextCases

(* Late attempts cannot commit, in any interleaving and after any crash.   *)
THEOREM LateCannotCommit == Spec => LateAttemptsCannotCommit
<1> DEFINE Late == \A a \in Attempts :
          att'[a].state # att[a].state /\ att'[a].state \in {"succeeded", "failed"}
          => /\ ~cancelRequested
             /\ att[a].state = "running"
             /\ att[a].gen = gen[att[a].key] /\ cur[att[a].key][att[a].gen] = a
<1>1. IInv /\ [Next]_vars => [Late]_vars
  <2> SUFFICES ASSUME IInv, Next, NEW a \in Attempts,
                      att'[a].state # att[a].state, att'[a].state \in {"succeeded", "failed"}
               PROVE  /\ ~cancelRequested
                      /\ att[a].state = "running"
                      /\ att[a].gen = gen[att[a].key] /\ cur[att[a].key][att[a].gen] = a
    OBVIOUS
  <2>1. IsCurrent(a)
    BY FinishedWasCurrent DEF IInv
  <2> QED BY <2>1 DEF IsCurrent, IInv, RunningIsLeased, Running
<1>2. Spec => [][Late]_vars
  BY <1>1, LeaseInvariant, PTL DEF Spec
<1> QED BY <1>2 DEF LateAttemptsCannotCommit

(* A cancelled run stays as it is: no gate, no claim, no commit. *)
CInv == IInv /\ (cancelRequested => runState = "cancelled" /\ gates = {})

CancelledStep ==
    cancelRequested =>
          /\ cancelRequested' /\ runState' = "cancelled" /\ gen' = gen
          /\ out' = out /\ gates' = {} /\ Running' = {}

LEMMA CancelStep == CInv /\ [Next]_vars => CancelledStep /\ CInv'
<1> SUFFICES ASSUME CInv, [Next]_vars PROVE CancelledStep /\ CInv'
  OBVIOUS
<1>1. IInv'
  BY NextLease DEF CInv
<1>2. CASE UNCHANGED vars
  BY <1>1, <1>2 DEF vars, CInv, CancelledStep, IInv, RunningIsLeased, Running
<1>3. CASE Next /\ cancelRequested
  <2>0. /\ Running = {} /\ runState = "cancelled" /\ gates = {}
        /\ \A a \in Attempts : ~IsCurrent(a)
    BY <1>3 DEF CInv, IInv, RunningIsLeased, IsCurrent, Running
  <2> DEFINE Settled == /\ cancelRequested' = cancelRequested /\ runState' = runState
                        /\ gen' = gen /\ out' = out /\ gates' = gates
  <2>1. Settled
    <3>1. \A k \in Keys, a \in Attempts : ~Claim(k, a)
      BY <1>3 DEF Claim, Claimable
    <3>2. ASSUME NEW a \in Attempts, Worker(a) PROVE Settled
      BY <2>0, <3>2 DEF Worker, ExecutorSettles, Seal, WorkerCommits,
         WorkerCommitsEvidence, WorkerFails, WorkerSuspends, WorkerLeaves, rows
    <3>3. /\ ~CancelRun /\ ~PauseRun /\ ~ResumeRun
          /\ \A k \in Keys : ~RetryFailedNode(k) /\ ~RerunNode(k)
          /\ \A k \in Keys, g \in Gens : ~AnswerGate(k, g)
      BY <1>3, <2>0 DEF CancelRun, PauseRun, ResumeRun, RetryFailedNode, RerunNode,
         AnswerGate, LiveStates
    <3>4. CASE Open \/ RecoverInterrupt \/ Close \/ Crash
      BY <2>0, <3>4 DEF Open, RecoverInterrupt, Close, Crash, InterruptRunning, rows
    <3>5. ASSUME NEW a \in Attempts, RecoverGroup(a) PROVE Settled
      BY <2>0, <3>5 DEF RecoverGroup, rows
    <3> QED BY <1>3, <3>1, <3>2, <3>3, <3>4, <3>5, NextCases
  <2>2. Running' = {}
    BY <1>1, <1>3, <2>1 DEF IInv, RunningIsLeased
  <2> QED BY <1>1, <1>3, <2>0, <2>1, <2>2 DEF CancelledStep, CInv
<1>4. CASE Next /\ ~cancelRequested
  <2>1. cancelRequested' => CancelRun
    <3>1. ASSUME NEW a \in Attempts, Worker(a) PROVE cancelRequested' = cancelRequested
      BY <3>1 DEF Worker, ExecutorSettles, Seal, WorkerCommits, CommitSucceeded,
         WorkerCommitsEvidence, WorkerFails, WorkerSuspends, WorkerLeaves
    <3>2. ASSUME NEW a \in Attempts, RecoverGroup(a) PROVE cancelRequested' = cancelRequested
      BY <3>2 DEF RecoverGroup, CommitSucceeded
    <3>3. CASE Open \/ RecoverInterrupt \/ Close \/ Crash
      BY <1>4, <3>3 DEF Open, RecoverInterrupt, Close, Crash, InterruptRunning
    <3> QED BY <1>4, <3>1, <3>2, <3>3, NextCases
            DEF Claim, PauseRun, ResumeRun, RetryFailedNode, RerunNode, AnswerGate
  <2> QED BY <1>1, <1>4, <2>1 DEF CancelledStep, CInv, CancelRun
<1> QED BY <1>2, <1>3, <1>4

(* Cancellation is final: after it nothing is claimed, answered, committed *)
(* or reopened, also not by the recovery of a crashed owner.               *)
THEOREM CancellationIsFinal == Spec => CancelIsFinal
<1>1. Init => CInv
  BY InitLease DEF CInv, Init
<1>2. CInv /\ [Next]_vars => [CancelledStep]_vars
  BY CancelStep
<1>3. Spec => [][CancelledStep]_vars
  BY <1>1, <1>2, CancelStep, PTL DEF Spec
<1> QED BY <1>3 DEF CancelIsFinal, CancelledStep

-----------------------------------------------------------------------------

(* Attempts that a node may be tried again after, in the same generation.  *)
Ended == {"failed", "interrupted", "suspended"}

-----------------------------------------------------------------------------
(* The inductive invariant.                                                *)

(* The row of a generation and the attempts it names.                      *)
RowFits(k, g) ==
    LET n == node[k][g]
        l == last[k][g]
        p == parent[k][g]
        o == out[k][g]
    IN  /\ g > gen[k] => n = "absent" /\ p = NoAttempt
        /\ n \in {"absent", "blocked", "invalidated"} => l = NoAttempt /\ o = NoAttempt
        /\ n \in {"running", "waiting", "succeeded", "failed"} => l # NoAttempt
        /\ n = "ready" /\ l # NoAttempt => att[l].state \in Ended
        /\ n = "waiting" => att[l].state = "suspended"
        /\ n = "succeeded" => o # NoAttempt
        /\ l # NoAttempt => att[l].state # "absent" /\ att[l].key = k /\ att[l].gen = g
        /\ o # NoAttempt => att[o].state # "absent" /\ att[o].key = k /\ att[o].gen = g
        /\ p # NoAttempt /\ l # NoAttempt => att[l].answer # NoAttempt
        /\ p # NoAttempt /\ ~cancelRequested => att[p].state = "suspended"
        /\ cur[k][g] # NoAttempt => n = "running"

(* An attempt and the row of its generation; an answer and its question.   *)
AttemptFits(a) ==
    LET t == att[a]
    IN  t.state # "absent" =>
        /\ t.gen <= gen[t.key] /\ last[t.key][t.gen] # NoAttempt
        /\ t.state = "running" => last[t.key][t.gen] = a
        /\ t.answer # NoAttempt =>
              att[t.answer].state # "absent" /\ t.inputs = att[t.answer].inputs

(* The envelope of an attempt of a live generation.                        *)
EnvelopeFits(a) ==
    LET t == att[a]
    IN  t.state # "absent" /\ t.gen = gen[t.key] /\ t.answer = NoAttempt
        => UpstreamsSucceeded(node, t.key) /\ t.inputs = SealedInputs(t.key)

(* The open gates are those of the live generations that wait.             *)
GatesFit ==
    /\ \A k \in Keys : State(k) = "waiting" <=> <<k, gen[k]>> \in gates
    /\ \A x \in gates : x[2] = gen[x[1]]
    /\ runState = "waiting_for_operator" => gates # {}

HistoryInv ==
    /\ IInv
    /\ \A k \in Keys, g \in Gens : RowFits(k, g)
    /\ \A a \in Attempts : AttemptFits(a) /\ EnvelopeFits(a)
    /\ GatesFit

-----------------------------------------------------------------------------
(* What a step leaves as it is.                                            *)

(* What is written of an attempt stays, and one that ended stays ended.    *)
EnvelopeStays(a) ==
    att[a].state # "absent" =>
    /\ att'[a].state # "absent"
    /\ att'[a].key = att[a].key /\ att'[a].gen = att[a].gen
    /\ att'[a].inputs = att[a].inputs /\ att'[a].answer = att[a].answer

AttemptStays(a) ==
    EnvelopeStays(a) /\ (att[a].state \in Ended => att'[a].state = att[a].state)

(* A succeeded live generation stays what it is. *)
DoneStays(k) ==
    State(k) = "succeeded" =>
    /\ gen'[k] = gen[k] /\ node'[k][gen[k]] = "succeeded"
    /\ out'[k][gen[k]] = out[k][gen[k]]

(* The row of a generation that the step does not touch, but to unlock it. *)
RowStays(k, g) ==
    /\ gen'[k] = gen[k]
    /\ \/ node'[k][g] = node[k][g]
       \/ /\ node[k][g] \in {"blocked", "invalidated"} /\ g = gen[k]
          /\ node'[k][g] = "ready"
    /\ last'[k][g] = last[k][g] /\ parent'[k][g] = parent[k][g]
    /\ out'[k][g] = out[k][g] /\ cur'[k][g] = cur[k][g]

LEMMA RowKept ==
  ASSUME TypeOK, NEW k \in Keys, NEW g \in Gens, RowFits(k, g), RowStays(k, g),
         \A b \in Attempts : AttemptStays(b), cancelRequested' = cancelRequested
  PROVE  RowFits(k, g)'
<1>1. /\ last[k][g] \in Attempts \cup {NoAttempt} /\ parent[k][g] \in Attempts \cup {NoAttempt}
      /\ out[k][g] \in Attempts \cup {NoAttempt}
  BY DEF TypeOK
<1> QED BY <1>1 DEF RowFits, RowStays, AttemptStays, EnvelopeStays, Ended

LEMMA AttemptKept ==
  ASSUME TypeOK, NEW a \in Attempts, att[a].state # "absent", AttemptFits(a),
         \A b \in Attempts : EnvelopeStays(b),
         gen'[att[a].key] >= gen[att[a].key], gen'[att[a].key] \in Nat,
         last'[att[a].key][att[a].gen] # NoAttempt,
         att'[a].state = "running" => last'[att[a].key][att[a].gen] = a
  PROVE  AttemptFits(a)'
<1>1. /\ att[a].answer \in Attempts \cup {NoAttempt}
      /\ att[a].key \in Keys /\ att[a].gen \in Nat /\ gen[att[a].key] \in Nat
  BY DEF TypeOK, Gens
<1> QED BY <1>1 DEF AttemptFits, EnvelopeStays

(* The sealed inputs of a node whose upstreams stay done. *)
LEMMA SealedSame ==
  ASSUME NEW k \in Keys, UpstreamsSucceeded(node, k), \A u \in Upstream[k] : DoneStays(u)
  PROVE  UpstreamsSucceeded(node, k)' /\ SealedInputs(k)' = SealedInputs(k)
  BY DEF UpstreamsSucceeded, SealedInputs, DoneStays, State

LEMMA EnvelopeKept ==
  ASSUME TypeOK, NEW a \in Attempts, att[a].state # "absent", EnvelopeFits(a), EnvelopeStays(a),
         att[a].gen = gen'[att[a].key] => att[a].gen = gen[att[a].key],
         att[a].gen = gen[att[a].key] /\ att[a].answer = NoAttempt
            => \A u \in Upstream[att[a].key] : DoneStays(u)
  PROVE  EnvelopeFits(a)'
<1>1. att[a].key \in Keys
  BY DEF TypeOK
<1> QED BY <1>1, SealedSame DEF EnvelopeFits, EnvelopeStays

(* A step that begins no attempt and opens no generation. *)
NothingBegins ==
    /\ gen' = gen /\ last' = last
    /\ \A b \in Attempts : /\ EnvelopeStays(b)
                           /\ att'[b].state = "running" => att[b].state = "running"
                           /\ att'[b].state # "absent" => att[b].state # "absent"
    /\ \A u \in Keys : DoneStays(u)

LEMMA AttemptsKept ==
  ASSUME HistoryInv, NothingBegins
  PROVE  \A b \in Attempts : AttemptFits(b)' /\ EnvelopeFits(b)'
<1> SUFFICES ASSUME NEW b \in Attempts PROVE AttemptFits(b)' /\ EnvelopeFits(b)'
  OBVIOUS
<1>0. TypeOK /\ AttemptFits(b) /\ EnvelopeFits(b)
  BY DEF HistoryInv, IInv
<1>1. CASE att[b].state = "absent"
  BY <1>1 DEF NothingBegins, AttemptFits, EnvelopeFits
<1>2. CASE att[b].state # "absent"
  <2>1. att[b].key \in Keys /\ gen[att[b].key] \in Nat /\ gen' = gen /\ last' = last
    BY <1>0 DEF TypeOK, Gens, NothingBegins
  <2>2. Upstream[att[b].key] \subseteq Keys
    BY <2>1, KeysAssumption
  <2>3. /\ last[att[b].key][att[b].gen] # NoAttempt
        /\ att'[b].state = "running" => last[att[b].key][att[b].gen] = b
    BY <1>0, <1>2 DEF AttemptFits, NothingBegins
  <2>4. gen'[att[b].key] >= gen[att[b].key] /\ gen'[att[b].key] \in Nat
    BY <2>1
  <2>5. \A c \in Attempts : EnvelopeStays(c)
    BY DEF NothingBegins
  <2>6. AttemptFits(b)'
    BY <1>0, <1>2, <2>1, <2>3, <2>4, <2>5, AttemptKept
  <2>7. EnvelopeFits(b)'
    BY <1>0, <1>2, <2>1, <2>2, <2>5, EnvelopeKept DEF NothingBegins
  <2> QED BY <2>6, <2>7
<1> QED BY <1>1, <1>2

(* An attempt holds its row. *)
LEMMA CurrentIsLast ==
  ASSUME HistoryInv, NEW k \in Keys, NEW g \in Gens, node[k][g] = "running"
  PROVE  /\ g = gen[k] /\ last[k][g] \in Running
         /\ att[last[k][g]].key = k /\ att[last[k][g]].gen = g
         /\ cur[k][g] = last[k][g]
<1> DEFINE b == cur[k][g]
<1>1. g = gen[k] /\ b \in Running /\ att[b].key = k
  BY DEF HistoryInv, IInv, LeaseIsHeld
<1>2. b \in Attempts /\ att[b].state = "running" /\ att[b].gen = gen[k]
  BY <1>1 DEF Running, HistoryInv, IInv, RunningIsLeased
<1>3. last[k][g] = b
  BY <1>1, <1>2 DEF HistoryInv, AttemptFits
<1> QED BY <1>1, <1>2, <1>3

-----------------------------------------------------------------------------
(* The end of an attempt: success, failure or a question.                  *)

(* Unlocking makes some live generations ready and leaves the rest. *)
LEMMA UnlockRow ==
  ASSUME NEW nd \in NodeRows, gen \in [Keys -> Gens], NEW k \in Keys, NEW g \in Gens
  PROVE  \/ Unlock(nd)[k][g] = nd[k][g]
         \/ /\ nd[k][g] \in {"blocked", "invalidated"} /\ g = gen[k]
            /\ Unlock(nd)[k][g] = "ready"
<1>1. nd[k] \in [Gens -> NodeStates]
  BY DEF NodeRows
<1>2. Unlock(nd)[k] = IF nd[k][gen[k]] \in {"blocked", "invalidated"} /\ UpstreamsSucceeded(nd, k)
                      THEN [nd[k] EXCEPT ![gen[k]] = "ready"]
                      ELSE nd[k]
  BY DEF Unlock
<1> QED BY <1>1, <1>2

(* Attempt a of row k, g ends in state s. *)
Ends(a, k, g, s) ==
    /\ IsCurrent(a) /\ k = att[a].key /\ g = att[a].gen
    /\ att' = [att EXCEPT ![a].state = s]
    /\ gen' = gen /\ last' = last /\ parent' = parent /\ cancelRequested' = cancelRequested
    /\ \A x \in Keys, y \in Gens : ~(x = k /\ y = g) => RowStays(x, y)
    /\ cur'[k][g] = NoAttempt /\ out'[k][g] \in {out[k][g], a}
    /\ \/ s = "succeeded" /\ node'[k][g] = "succeeded" /\ out'[k][g] # NoAttempt
       \/ s = "failed" /\ node'[k][g] \in {"failed", "ready"}
       \/ s = "suspended" /\ node'[k][g] = "waiting"

LEMMA EndKeepsRows ==
  ASSUME HistoryInv, NEW a \in Attempts, NEW k \in Keys, NEW g \in Gens,
         NEW s \in {"succeeded", "failed", "suspended"}, Ends(a, k, g, s)
  PROVE  /\ \A x \in Keys, y \in Gens : RowFits(x, y)'
         /\ \A b \in Attempts : AttemptFits(b)' /\ EnvelopeFits(b)'
<1>0. TypeOK
  BY DEF HistoryInv, IInv
<1>1. \A b \in Attempts : AttemptStays(b) /\ (att'[b].state = "running" => att[b].state = "running")
                          /\ (att'[b].state = "absent" <=> att[b].state = "absent")
  <2>1. att[a].state = "running"
    BY DEF Ends, IsCurrent
  <2> QED BY <1>0, <2>1 DEF Ends, AttemptStays, EnvelopeStays, TypeOK, Ended
<1>2. /\ node[k][g] = "running" /\ g = gen[k] /\ g \in Nat /\ last[k][g] = a /\ ~cancelRequested
      /\ parent[k][g] \in Attempts \cup {NoAttempt} /\ out[k][g] \in Attempts \cup {NoAttempt}
      /\ att'[a].state = s /\ att'[a].key = k /\ att'[a].gen = g /\ att'[a].answer = att[a].answer
      /\ a # NoAttempt
  <2>1. node[k][g] = "running" /\ cur[k][g] = a
    BY DEF Ends, IsCurrent
  <2>2. g = gen[k] /\ last[k][g] = a
    BY <2>1, CurrentIsLast
  <2>3. g \in Nat /\ a # NoAttempt
    BY DEF Gens, Attempts, NoAttempt
  <2>4. /\ parent[k][g] \in Attempts \cup {NoAttempt} /\ out[k][g] \in Attempts \cup {NoAttempt}
        /\ att'[a].state = s /\ att'[a].key = k /\ att'[a].gen = g /\ att'[a].answer = att[a].answer
    BY <1>0 DEF TypeOK, Ends
  <2> QED BY <2>1, <2>2, <2>3, <2>4 DEF Ends, IsCurrent
<1>3. RowFits(k, g)'
  <2>1. RowFits(k, g)
    BY DEF HistoryInv
  <2>2. /\ gen'[k] = g /\ last'[k][g] = a /\ parent'[k][g] = parent[k][g]
        /\ ~(g > g) /\ s # "absent" /\ cur'[k][g] = NoAttempt
        /\ out'[k][g] \in {out[k][g], a}
        /\ \/ s = "succeeded" /\ node'[k][g] = "succeeded" /\ out'[k][g] # NoAttempt
           \/ s = "failed" /\ node'[k][g] \in {"failed", "ready"}
           \/ s = "suspended" /\ node'[k][g] = "waiting"
    BY <1>2 DEF Ends
  <2>3. parent[k][g] # NoAttempt => att'[parent[k][g]].state = "suspended" /\ att[a].answer # NoAttempt
    BY <1>1, <1>2, <2>1 DEF RowFits, AttemptStays, EnvelopeStays, Ended
  <2>4. out[k][g] # NoAttempt => /\ att'[out[k][g]].state # "absent"
                                 /\ att'[out[k][g]].key = k /\ att'[out[k][g]].gen = g
    BY <1>1, <1>2, <2>1 DEF RowFits, AttemptStays, EnvelopeStays
  <2> QED BY <1>2, <2>2, <2>3, <2>4 DEF RowFits, Ended
<1>4. ASSUME NEW x \in Keys, NEW y \in Gens PROVE RowFits(x, y)'
  BY <1>0, <1>1, <1>3, RowKept DEF HistoryInv, Ends
<1>5. NothingBegins
  <2>1. \A u \in Keys : DoneStays(u)
    <3> SUFFICES ASSUME NEW u \in Keys, State(u) = "succeeded" PROVE DoneStays(u)
      BY DEF DoneStays
    <3>1. gen[u] \in Gens /\ ~(u = k /\ gen[u] = g)
      BY <1>0, <1>2 DEF State, TypeOK
    <3> QED BY <3>1 DEF Ends, RowStays, DoneStays, State
  <2> QED BY <1>1, <2>1 DEF NothingBegins, Ends, AttemptStays
<1> QED BY <1>4, <1>5, AttemptsKept

(* The gates stay where nobody begins or ceases to wait. *)
LEMMA GatesKept ==
  ASSUME HistoryInv, gen' = gen, gates' = gates,
         \A k \in Keys : State(k) = "waiting" <=> node'[k][gen[k]] = "waiting",
         runState' = "waiting_for_operator" => gates # {}
  PROVE  GatesFit'
  BY DEF HistoryInv, GatesFit, State

LEMMA CommitKeeps ==
  ASSUME HistoryInv, IInv', NEW a \in Attempts, IsCurrent(a), CommitSucceeded(a)
  PROVE  HistoryInv'
<1> DEFINE k == att[a].key
           g == att[a].gen
           nd == [node EXCEPT ![k][g] = "succeeded"]
<1>0. TypeOK /\ k \in Keys /\ g \in Gens
  BY DEF HistoryInv, IInv, TypeOK
<1>1. nd \in NodeRows /\ \A x \in Keys, y \in Gens :
                            nd[x][y] = IF x = k /\ y = g THEN "succeeded" ELSE node[x][y]
  <2> HIDE DEF k, g
  <2> QED BY <1>0, RowUpdate DEF TypeOK, NodeRows, NodeStates
<1>2. /\ att' = [att EXCEPT ![a].state = "succeeded"]
      /\ UNCHANGED <<gen, last, parent, cancelRequested, gates>>
      /\ cur' = [cur EXCEPT ![k][g] = NoAttempt]
      /\ node' = nd \/ node' = Unlock(nd)
      /\ runState' = "published" \/ runState' = RecomputedRunState(Unlock(nd))
      /\ out' = IF out[k][g] = NoAttempt THEN [out EXCEPT ![k][g] = a] ELSE out
  BY DEF CommitSucceeded, RecordOutput
<1>3. \A x \in Keys, y \in Gens :
         IF x = k /\ y = g
         THEN node'[x][y] = "succeeded"
         ELSE \/ node'[x][y] = node[x][y]
              \/ /\ node[x][y] \in {"blocked", "invalidated"} /\ y = gen[x]
                 /\ node'[x][y] = "ready"
  <2> SUFFICES ASSUME NEW x \in Keys, NEW y \in Gens
               PROVE  IF x = k /\ y = g
                      THEN node'[x][y] = "succeeded"
                      ELSE \/ node'[x][y] = node[x][y]
                           \/ /\ node[x][y] \in {"blocked", "invalidated"} /\ y = gen[x]
                              /\ node'[x][y] = "ready"
    OBVIOUS
  <2>1. gen \in [Keys -> Gens]
    BY <1>0 DEF TypeOK
  <2> HIDE DEF nd, k, g
  <2> QED BY <1>1, <1>2, <2>1, UnlockRow
<1>4. /\ cur'[k][g] = NoAttempt /\ out'[k][g] \in {out[k][g], a} /\ out'[k][g] # NoAttempt
      /\ \A x \in Keys, y \in Gens : ~(x = k /\ y = g)
            => cur'[x][y] = cur[x][y] /\ out'[x][y] = out[x][y]
  <2>1. a # NoAttempt
    BY DEF Attempts, NoAttempt
  <2> HIDE DEF k, g
  <2> QED BY <1>0, <1>2, <2>1 DEF TypeOK
<1>5. Ends(a, k, g, "succeeded")
  <2>1. \A x \in Keys, y \in Gens : ~(x = k /\ y = g) => RowStays(x, y)
    BY <1>2, <1>3, <1>4 DEF RowStays
  <2> QED BY <1>0, <1>2, <1>3, <1>4, <2>1 DEF Ends
<1>6. node[k][g] = "running"
  BY DEF IsCurrent
<1>7. GatesFit'
  <2>1. \A x \in Keys : State(x) = "waiting" <=> node'[x][gen[x]] = "waiting"
    <3> SUFFICES ASSUME NEW x \in Keys
                 PROVE  State(x) = "waiting" <=> node'[x][gen[x]] = "waiting"
      OBVIOUS
    <3>1. gen[x] \in Gens
      BY <1>0 DEF TypeOK
    <3> HIDE DEF k, g
    <3> QED BY <1>3, <1>6, <3>1 DEF State
  <2>2. runState = "waiting_for_operator" => gates # {}
    BY DEF HistoryInv, GatesFit
  <2>3. runState' = "waiting_for_operator" => gates # {}
    BY <1>2, <2>2 DEF RecomputedRunState, LiveStates
  <2> QED BY <1>2, <2>1, <2>3, GatesKept
<1> HIDE DEF k, g, nd
<1> QED BY <1>0, <1>5, <1>7, EndKeepsRows DEF HistoryInv

(* The evidence of a failure may become the output of the running row. *)
LEMMA EvidenceKeeps ==
  ASSUME HistoryInv, IInv', NEW a \in Attempts, WorkerCommitsEvidence(a)
  PROVE  HistoryInv'
<1> DEFINE k == att[a].key
           g == att[a].gen
<1>0. TypeOK /\ k \in Keys /\ g \in Gens /\ node[k][g] = "running" /\ a # NoAttempt
      /\ att[a].state = "running"
  <2>1. a # NoAttempt
    BY DEF Attempts, NoAttempt
  <2> QED BY <2>1 DEF HistoryInv, IInv, TypeOK, WorkerCommitsEvidence, IsCurrent
<1>1. /\ gen' = gen /\ node' = node /\ cur' = cur /\ last' = last /\ parent' = parent
      /\ att' = att /\ gates' = gates /\ runState' = runState /\ cancelRequested' = cancelRequested
      /\ out' = out \/ out' = [out EXCEPT ![k][g] = a]
  BY DEF WorkerCommitsEvidence, RecordOutput
<1>2. /\ \A x \in Keys, y \in Gens : ~(x = k /\ y = g) => out'[x][y] = out[x][y]
      /\ out'[k][g] \in {out[k][g], a}
  <2> HIDE DEF k, g
  <2> QED BY <1>0, <1>1 DEF TypeOK
<1>3. ASSUME NEW x \in Keys, NEW y \in Gens PROVE RowFits(x, y)'
  <2>1. RowFits(x, y)
    BY DEF HistoryInv
  <2>2. CASE x = k /\ y = g
    BY <1>0, <1>1, <1>2, <2>1, <2>2 DEF RowFits
  <2>3. CASE ~(x = k /\ y = g)
    BY <1>1, <1>2, <2>1, <2>3 DEF RowFits
  <2> QED BY <2>2, <2>3
<1>4. NothingBegins
  <2>1. ASSUME NEW u \in Keys, State(u) = "succeeded" PROVE DoneStays(u)
    <3>1. gen[u] \in Gens /\ ~(u = k /\ gen[u] = g)
      BY <1>0, <2>1 DEF State, TypeOK
    <3> QED BY <1>1, <1>2, <2>1, <3>1 DEF DoneStays, State
  <2>2. \A u \in Keys : DoneStays(u)
    BY <2>1 DEF DoneStays
  <2> QED BY <1>1, <2>2 DEF NothingBegins, EnvelopeStays
<1>5. GatesFit'
  BY <1>1 DEF HistoryInv, GatesFit, State
<1> QED BY <1>3, <1>4, <1>5, AttemptsKept DEF HistoryInv

LEMMA FailKeeps ==
  ASSUME HistoryInv, IInv', NEW a \in Attempts, NEW r \in BOOLEAN, WorkerFails(a, r)
  PROVE  HistoryInv'
<1> DEFINE k == att[a].key
           g == att[a].gen
           nd == [node EXCEPT ![k][g] = "failed"]
<1>0. TypeOK /\ k \in Keys /\ g \in Gens /\ node[k][g] = "running" /\ IsCurrent(a)
  BY DEF HistoryInv, IInv, TypeOK, WorkerFails, IsCurrent
<1>1. nd \in NodeRows /\ \A x \in Keys, y \in Gens :
                            nd[x][y] = IF x = k /\ y = g THEN "failed" ELSE node[x][y]
  <2> HIDE DEF k, g
  <2> QED BY <1>0, RowUpdate DEF TypeOK, NodeRows, NodeStates
<1>2. /\ att' = [att EXCEPT ![a].state = "failed"]
      /\ gen' = gen /\ last' = last /\ parent' = parent /\ cancelRequested' = cancelRequested
      /\ gates' = gates /\ out' = out
      /\ cur' = [cur EXCEPT ![k][g] = NoAttempt]
      /\ node' = nd \/ node' = Unlock(nd) \/ node' = [nd EXCEPT ![k][g] = "ready"]
      /\ runState' = "waiting_for_operator" => runState = "waiting_for_operator"
  BY DEF WorkerFails
<1>3. \A x \in Keys, y \in Gens :
         IF x = k /\ y = g
         THEN node'[x][y] \in {"failed", "ready"}
         ELSE \/ node'[x][y] = node[x][y]
              \/ /\ node[x][y] \in {"blocked", "invalidated"} /\ y = gen[x]
                 /\ node'[x][y] = "ready"
  <2> SUFFICES ASSUME NEW x \in Keys, NEW y \in Gens
               PROVE  IF x = k /\ y = g
                      THEN node'[x][y] \in {"failed", "ready"}
                      ELSE \/ node'[x][y] = node[x][y]
                           \/ /\ node[x][y] \in {"blocked", "invalidated"} /\ y = gen[x]
                              /\ node'[x][y] = "ready"
    OBVIOUS
  <2>1. gen \in [Keys -> Gens]
    BY <1>0 DEF TypeOK
  <2>2. CASE node' = nd \/ node' = Unlock(nd)
    <3> HIDE DEF nd, k, g
    <3> QED BY <1>1, <2>1, <2>2, UnlockRow
  <2>3. CASE node' = [nd EXCEPT ![k][g] = "ready"]
    <3> HIDE DEF nd, k, g
    <3> QED BY <1>0, <1>1, <2>3 DEF NodeRows
  <2> QED BY <1>2, <2>2, <2>3
<1>4. /\ cur'[k][g] = NoAttempt
      /\ \A x \in Keys, y \in Gens : ~(x = k /\ y = g) => cur'[x][y] = cur[x][y]
  <2> HIDE DEF k, g
  <2> QED BY <1>0, <1>2 DEF TypeOK
<1>5. Ends(a, k, g, "failed")
  <2>1. \A x \in Keys, y \in Gens : ~(x = k /\ y = g) => RowStays(x, y)
    <3> HIDE DEF k, g, nd
    <3> QED BY <1>2, <1>3, <1>4 DEF RowStays
  <2> QED BY <1>0, <1>2, <1>3, <1>4, <2>1 DEF Ends
<1>7. GatesFit'
  <2>1. \A x \in Keys : State(x) = "waiting" <=> node'[x][gen[x]] = "waiting"
    <3> SUFFICES ASSUME NEW x \in Keys
                 PROVE  State(x) = "waiting" <=> node'[x][gen[x]] = "waiting"
      OBVIOUS
    <3>1. gen[x] \in Gens
      BY <1>0 DEF TypeOK
    <3> HIDE DEF k, g
    <3> QED BY <1>0, <1>3, <3>1 DEF State
  <2>2. runState' = "waiting_for_operator" => gates # {}
    BY <1>2 DEF HistoryInv, GatesFit
  <2> QED BY <1>2, <2>1, <2>2, GatesKept
<1> HIDE DEF k, g, nd
<1> QED BY <1>0, <1>5, <1>7, EndKeepsRows DEF HistoryInv

LEMMA SuspendKeeps ==
  ASSUME HistoryInv, IInv', NEW a \in Attempts, WorkerSuspends(a)
  PROVE  HistoryInv'
<1> DEFINE k == att[a].key
           g == att[a].gen
<1>0. TypeOK /\ k \in Keys /\ g \in Gens /\ node[k][g] = "running" /\ IsCurrent(a)
  BY DEF HistoryInv, IInv, TypeOK, WorkerSuspends, IsCurrent
<1>1. /\ att' = [att EXCEPT ![a].state = "suspended"]
      /\ gen' = gen /\ last' = last /\ parent' = parent /\ cancelRequested' = cancelRequested
      /\ gates' = gates \cup {<<k, g>>} /\ out' = out
      /\ cur' = [cur EXCEPT ![k][g] = NoAttempt]
      /\ node' = [node EXCEPT ![k][g] = "waiting"]
  BY DEF WorkerSuspends
<1>2. /\ node'[k][g] = "waiting" /\ cur'[k][g] = NoAttempt
      /\ \A x \in Keys, y \in Gens : ~(x = k /\ y = g)
            => node'[x][y] = node[x][y] /\ cur'[x][y] = cur[x][y]
  <2> HIDE DEF k, g
  <2> QED BY <1>0, <1>1 DEF TypeOK
<1> HIDE DEF k, g
<1>3. Ends(a, k, g, "suspended")
  <2>1. \A x \in Keys, y \in Gens : ~(x = k /\ y = g) => RowStays(x, y)
    BY <1>1, <1>2 DEF RowStays
  <2> QED BY <1>0, <1>1, <1>2, <2>1 DEF Ends, k, g
<1>4. g = gen[k]
  BY <1>0, CurrentIsLast
<1>5. GatesFit'
  <2>1. \A x \in Keys : gen[x] \in Gens
    BY <1>0 DEF TypeOK
  <2>2. GatesFit
    BY DEF HistoryInv
  <2>3. \A x \in Keys : State(x)' = "waiting" <=> x = k \/ State(x) = "waiting"
    BY <1>0, <1>1, <1>2, <1>4, <2>1 DEF State
  <2>4. \A x \in Keys : State(x)' = "waiting" <=> <<x, gen'[x]>> \in gates'
    BY <1>1, <1>4, <2>2, <2>3 DEF GatesFit
  <2>5. \A x \in gates' : x[2] = gen'[x[1]]
    BY <1>1, <1>4, <2>2 DEF GatesFit
  <2> QED BY <1>1, <2>4, <2>5 DEF GatesFit
<1> QED BY <1>0, <1>3, <1>5, EndKeepsRows DEF HistoryInv

-----------------------------------------------------------------------------
(* The claim: the envelope of the next attempt. *)
LEMMA ClaimKeeps ==
  ASSUME HistoryInv, IInv', NEW k \in Keys, NEW a \in Attempts, Claim(k, a)
  PROVE  HistoryInv'
<1> DEFINE g == gen[k]
           l == last[k][g]
           p == parent[k][g]
           e == Envelope(k)
<1>0. /\ TypeOK /\ g \in Gens /\ node[k][g] = "ready" /\ ~cancelRequested /\ RowFits(k, g)
      /\ l \in Attempts \cup {NoAttempt} /\ p \in Attempts \cup {NoAttempt}
      /\ out[k][g] \in Attempts \cup {NoAttempt}
      /\ att[a].state = "absent" /\ UpstreamsSucceeded(node, k)
  BY DEF HistoryInv, IInv, TypeOK, Claim, Claimable, State
<1>1. a # NoAttempt
  BY DEF Attempts, NoAttempt
<1>2. /\ att'[a].state = "running" /\ att'[a].key = k /\ att'[a].gen = g
      /\ att'[a].inputs = e.inputs /\ att'[a].answer = e.answer
      /\ \A b \in Attempts \ {a} : att'[b] = att[b]
      /\ gen' = gen /\ parent' = parent /\ out' = out /\ gates' = gates
      /\ cancelRequested' = cancelRequested /\ runState' = "running"
  <2> HIDE DEF e
  <2>1. att' = [att EXCEPT ![a] = [state |-> "running", key |-> k, gen |-> g,
                                  inputs |-> e.inputs, answer |-> e.answer]]
    BY DEF Claim, e
  <2> QED BY <1>0, <2>1 DEF Claim, TypeOK
<1>3. \A x \in Keys, y \in Gens :
         /\ node'[x][y] = IF x = k /\ y = g THEN "running" ELSE node[x][y]
         /\ cur'[x][y] = IF x = k /\ y = g THEN a ELSE cur[x][y]
         /\ last'[x][y] = IF x = k /\ y = g THEN a ELSE last[x][y]
  BY <1>0 DEF Claim, TypeOK
<1>4. \/ /\ l # NoAttempt /\ att[l].state \in Ended
         /\ e.inputs = att[l].inputs /\ e.answer = att[l].answer
      \/ /\ l = NoAttempt /\ p # NoAttempt /\ att[p].state = "suspended"
         /\ e.inputs = att[p].inputs /\ e.answer = p
      \/ /\ l = NoAttempt /\ p = NoAttempt
         /\ e.inputs = SealedInputs(k) /\ e.answer = NoAttempt
  BY <1>0 DEF Envelope, RowFits, Ended
<1>5. \A b \in Attempts : AttemptStays(b)
  BY <1>0, <1>2 DEF AttemptStays, EnvelopeStays, Ended
<1>6. \A u \in Keys : DoneStays(u)
  <2> SUFFICES ASSUME NEW u \in Keys, State(u) = "succeeded" PROVE DoneStays(u)
    BY DEF DoneStays
  <2>1. gen[u] \in Gens /\ ~(u = k /\ gen[u] = g)
    BY <1>0 DEF State, TypeOK
  <2> QED BY <1>2, <1>3, <2>1 DEF DoneStays, State
<1>7. /\ e.answer # NoAttempt => e.answer \in Attempts /\ att[e.answer].state # "absent"
                                 /\ e.inputs = att[e.answer].inputs
      /\ e.answer = NoAttempt => e.inputs = SealedInputs(k)
      /\ p # NoAttempt => e.answer # NoAttempt
  <2>1. CASE l # NoAttempt /\ att[l].state \in Ended
             /\ e.inputs = att[l].inputs /\ e.answer = att[l].answer
    <3> HIDE DEF e
    <3>1. AttemptFits(l) /\ EnvelopeFits(l) /\ l \in Attempts /\ att[l].state # "absent"
      BY <1>0, <2>1 DEF HistoryInv, Ended
    <3>2. att[l].key = k /\ att[l].gen = g /\ (p # NoAttempt => att[l].answer # NoAttempt)
      BY <1>0, <2>1 DEF RowFits
    <3>3. att[l].answer \in Attempts \cup {NoAttempt}
      BY <1>0, <3>1 DEF TypeOK
    <3> QED BY <2>1, <3>1, <3>2, <3>3 DEF AttemptFits, EnvelopeFits
  <2>2. CASE l = NoAttempt
    <3> HIDE DEF e
    <3> QED BY <1>0, <1>4, <2>2
  <2> QED BY <1>4, <2>1, <2>2
<1> HIDE DEF g, l, p, e
<1>8. ASSUME NEW x \in Keys, NEW y \in Gens PROVE RowFits(x, y)'
  <2>0. RowFits(x, y)
    BY DEF HistoryInv
  <2>1. CASE x = k /\ y = g
    <3>1. /\ node'[k][g] = "running" /\ last'[k][g] = a /\ parent'[k][g] = p
          /\ out'[k][g] = out[k][g] /\ gen'[k] = g /\ ~(g > g)
      BY <1>0, <1>2, <1>3 DEF Gens, g, p
    <3>2. p # NoAttempt => att'[p].state = "suspended"
      BY <1>0, <1>5 DEF RowFits, AttemptStays, Ended, p, g
    <3>3. out[k][g] # NoAttempt => /\ att'[out[k][g]].state # "absent"
                                   /\ att'[out[k][g]].key = k /\ att'[out[k][g]].gen = g
      BY <1>0, <1>5 DEF RowFits, AttemptStays, EnvelopeStays
    <3> QED BY <1>1, <1>2, <1>7, <2>1, <3>1, <3>2, <3>3 DEF RowFits
  <2>2. CASE ~(x = k /\ y = g)
    <3>1. RowStays(x, y)
      BY <1>2, <1>3, <2>2 DEF RowStays
    <3> QED BY <1>0, <1>2, <1>5, <2>0, <3>1, RowKept
  <2> QED BY <2>1, <2>2
<1>9. AttemptFits(a)' /\ EnvelopeFits(a)'
  <2>1. e.answer # NoAttempt => /\ att'[e.answer].state # "absent"
                                /\ att'[e.answer].inputs = e.inputs
    BY <1>5, <1>7 DEF AttemptStays, EnvelopeStays
  <2>2. AttemptFits(a)'
    <3>1. g <= g
      BY <1>0 DEF Gens
    <3> QED BY <1>0, <1>1, <1>2, <1>3, <2>1, <3>1 DEF AttemptFits, g
  <2>3. EnvelopeFits(a)'
    <3>1. \A u \in Upstream[k] : DoneStays(u)
      BY <1>6, KeysAssumption
    <3>2. UpstreamsSucceeded(node, k)' /\ SealedInputs(k)' = SealedInputs(k)
      BY <1>0, <3>1, SealedSame
    <3> QED BY <1>2, <1>7, <3>2 DEF EnvelopeFits
  <2> QED BY <2>2, <2>3
<1>10. ASSUME NEW b \in Attempts, b # a PROVE AttemptFits(b)' /\ EnvelopeFits(b)'
  <2>1. CASE att[b].state = "absent"
    BY <1>2, <1>10, <2>1 DEF AttemptFits, EnvelopeFits
  <2>2. CASE att[b].state # "absent"
    <3>1. /\ AttemptFits(b) /\ EnvelopeFits(b) /\ att[b].key \in Keys /\ att[b].gen \in Gens
          /\ gen[att[b].key] \in Nat
      BY <1>0 DEF HistoryInv, TypeOK, Gens
    <3>2. att[b].state = "running" => ~(att[b].key = k /\ att[b].gen = g)
      BY <1>0 DEF HistoryInv, IInv, RunningIsLeased, Running, State, g
    <3>3. /\ last'[att[b].key][att[b].gen] # NoAttempt
          /\ att'[b].state = "running" => last'[att[b].key][att[b].gen] = b
      BY <1>1, <1>2, <1>3, <1>10, <2>2, <3>1, <3>2 DEF AttemptFits
    <3>4. \A c \in Attempts : EnvelopeStays(c)
      BY <1>5 DEF AttemptStays
    <3>5. gen'[att[b].key] >= gen[att[b].key] /\ gen'[att[b].key] \in Nat
      BY <1>2, <3>1
    <3>6. \A u \in Upstream[att[b].key] : DoneStays(u)
      BY <1>6, <3>1, KeysAssumption
    <3>7. AttemptFits(b)'
      BY <1>0, <2>2, <3>1, <3>3, <3>4, <3>5, AttemptKept
    <3>8. EnvelopeFits(b)'
      BY <1>0, <1>2, <2>2, <3>1, <3>4, <3>6, EnvelopeKept
    <3> QED BY <3>7, <3>8
  <2> QED BY <2>1, <2>2
<1>11. GatesFit'
  <2>1. \A x \in Keys : State(x) = "waiting" <=> node'[x][gen[x]] = "waiting"
    <3> SUFFICES ASSUME NEW x \in Keys
                 PROVE  State(x) = "waiting" <=> node'[x][gen[x]] = "waiting"
      OBVIOUS
    <3>1. gen[x] \in Gens
      BY <1>0 DEF TypeOK
    <3> QED BY <1>0, <1>3, <3>1 DEF State
  <2> QED BY <1>2, <2>1, GatesKept
<1> QED BY <1>8, <1>9, <1>10, <1>11 DEF HistoryInv

-----------------------------------------------------------------------------
(* Commands that stop attempts, and the interruption of a dead owner's.    *)

(* What ran is stopped with its attempt; every other row stays. *)
Stops(s, to) ==
    /\ att' = Retire({"running"}, s) /\ gen' = gen /\ last' = last /\ parent' = parent
    /\ out' = out /\ gates' = gates /\ cancelRequested' = cancelRequested
    /\ \A x \in Keys, y \in Gens :
          IF node[x][y] = "running"
          THEN node'[x][y] = to /\ cur'[x][y] = NoAttempt
          ELSE node'[x][y] = node[x][y] /\ cur'[x][y] = cur[x][y]
    /\ runState' = "waiting_for_operator" => runState = "waiting_for_operator"

LEMMA StopKeeps ==
  ASSUME HistoryInv, IInv', NEW s \in {"suspended", "interrupted"}, NEW to \in {"ready", "failed"},
         Stops(s, to)
  PROVE  HistoryInv'
<1>0. TypeOK
  BY DEF HistoryInv, IInv
<1>1. \A b \in Attempts : /\ AttemptStays(b) /\ att'[b].state # "running"
                          /\ att[b].state = "running" => att'[b].state = s
                          /\ att'[b].state = "absent" <=> att[b].state = "absent"
  <2> SUFFICES ASSUME NEW b \in Attempts
               PROVE  /\ AttemptStays(b) /\ att'[b].state # "running"
                      /\ att[b].state = "running" => att'[b].state = s
                      /\ att'[b].state = "absent" <=> att[b].state = "absent"
    OBVIOUS
  <2>1. att[b] \in AttemptRow
    BY <1>0 DEF TypeOK, AttemptRow
  <2>2. att'[b] = IF att[b].state = "running" THEN [att[b] EXCEPT !.state = s] ELSE att[b]
    BY DEF Stops, Retire
  <2> QED BY <2>1, <2>2 DEF AttemptRow, AttemptStays, EnvelopeStays, Ended
<1>2. ASSUME NEW x \in Keys, NEW y \in Gens PROVE RowFits(x, y)'
  <2>0. RowFits(x, y)
    BY DEF HistoryInv
  <2>1. CASE node[x][y] = "running"
    <3>1. /\ last[x][y] \in Running /\ last[x][y] \in Attempts /\ y = gen[x]
          /\ parent[x][y] \in Attempts \cup {NoAttempt} /\ out[x][y] \in Attempts \cup {NoAttempt}
      BY <1>0, <2>1, CurrentIsLast DEF TypeOK, Running
    <3>2. att'[last[x][y]].state = s
      BY <1>1, <3>1 DEF Running
    <3>3. ~(y > y)
      BY DEF Gens
    <3>4. /\ node'[x][y] = to /\ cur'[x][y] = NoAttempt /\ gen'[x] = y
          /\ last'[x][y] = last[x][y] /\ parent'[x][y] = parent[x][y] /\ out'[x][y] = out[x][y]
          /\ cancelRequested' = cancelRequested
      BY <2>1, <3>1 DEF Stops
    <3> QED BY <1>1, <2>0, <2>1, <3>1, <3>2, <3>3, <3>4 DEF RowFits, AttemptStays, EnvelopeStays, Ended
  <2>2. CASE node[x][y] # "running"
    <3>1. RowStays(x, y) /\ cancelRequested' = cancelRequested
      BY <2>2 DEF RowStays, Stops
    <3> QED BY <1>0, <1>1, <2>0, <3>1, RowKept
  <2> QED BY <2>1, <2>2
<1>3. NothingBegins
  <2>1. ASSUME NEW u \in Keys, State(u) = "succeeded" PROVE DoneStays(u)
    <3>1. gen[u] \in Gens
      BY <1>0 DEF TypeOK
    <3> QED BY <2>1, <3>1 DEF Stops, DoneStays, State
  <2>2. \A u \in Keys : DoneStays(u)
    BY <2>1 DEF DoneStays
  <2> QED BY <1>1, <2>2 DEF NothingBegins, Stops, AttemptStays
<1>4. GatesFit'
  <2>1. ASSUME NEW x \in Keys PROVE State(x) = "waiting" <=> node'[x][gen[x]] = "waiting"
    <3>1. gen[x] \in Gens
      BY <1>0 DEF TypeOK
    <3> QED BY <3>1 DEF State, Stops
  <2>2. runState' = "waiting_for_operator" => gates # {}
    BY DEF HistoryInv, GatesFit, Stops
  <2> QED BY <2>1, <2>2, GatesKept DEF Stops
<1> QED BY <1>2, <1>3, <1>4, AttemptsKept DEF HistoryInv

LEMMA PauseKeeps ==
  ASSUME HistoryInv, IInv', PauseRun
  PROVE  HistoryInv'
<1>1. Stops("suspended", "ready")
  BY DEF PauseRun, Stops, Release, ReleaseLease
<1> QED BY <1>1, StopKeeps

(* A row is leased to a running attempt just when it is running. *)
LEMMA InterruptKeeps ==
  ASSUME HistoryInv, IInv', InterruptRunning
  PROVE  HistoryInv'
<1>1. ASSUME NEW x \in Keys, NEW y \in Gens
      PROVE  cur[x][y] \in Running <=> node[x][y] = "running"
  <2>1. RowFits(x, y) /\ NoAttempt \notin Running
    BY DEF HistoryInv, Running, Attempts, NoAttempt
  <2>2. cur[x][y] # NoAttempt => node[x][y] = "running"
    BY <2>1 DEF RowFits
  <2> QED BY <2>1, <2>2, CurrentIsLast
<1>2. Stops("interrupted", "failed")
  BY <1>1 DEF InterruptRunning, InterruptedNodes, Stops
<1> QED BY <1>2, StopKeeps

(* Cancellation leaves nothing that could go on. *)
LEMMA CancelKeeps ==
  ASSUME HistoryInv, IInv', CancelRun
  PROVE  HistoryInv'
<1>0. TypeOK
  BY DEF HistoryInv, IInv
<1>1. \A b \in Attempts : /\ EnvelopeStays(b) /\ att'[b].state # "running"
                          /\ att'[b].state = "absent" <=> att[b].state = "absent"
  <2> SUFFICES ASSUME NEW b \in Attempts
               PROVE  /\ EnvelopeStays(b) /\ att'[b].state # "running"
                      /\ att'[b].state = "absent" <=> att[b].state = "absent"
    OBVIOUS
  <2>1. att[b] \in AttemptRow
    BY <1>0 DEF TypeOK, AttemptRow
  <2>2. att'[b] = IF att[b].state \in {"running", "suspended"}
                  THEN [att[b] EXCEPT !.state = "cancelled"] ELSE att[b]
    BY DEF CancelRun, Retire
  <2> QED BY <2>1, <2>2 DEF AttemptRow, EnvelopeStays
<1>2. /\ gen' = gen /\ last' = last /\ parent' = parent /\ out' = out /\ gates' = {}
      /\ cancelRequested' /\ runState' = "cancelled"
      /\ \A x \in Keys, y \in Gens :
            IF node[x][y] \in Claimables
            THEN node'[x][y] = "cancelled" /\ cur'[x][y] = NoAttempt
            ELSE node'[x][y] = node[x][y] /\ cur'[x][y] = cur[x][y]
  BY DEF CancelRun, Release, ReleaseLease
<1>3. ASSUME NEW x \in Keys, NEW y \in Gens PROVE RowFits(x, y)'
  <2>0. RowFits(x, y) /\ last[x][y] \in Attempts \cup {NoAttempt}
        /\ out[x][y] \in Attempts \cup {NoAttempt}
    BY <1>0 DEF HistoryInv, TypeOK
  <2>1. CASE node[x][y] \in Claimables
    BY <1>1, <1>2, <2>0, <2>1 DEF RowFits, EnvelopeStays, Claimables
  <2>2. CASE node[x][y] \notin Claimables
    BY <1>1, <1>2, <2>0, <2>2 DEF RowFits, EnvelopeStays, Claimables
  <2> QED BY <2>1, <2>2
<1>4. NothingBegins
  <2>1. ASSUME NEW u \in Keys, State(u) = "succeeded" PROVE DoneStays(u)
    <3>1. gen[u] \in Gens
      BY <1>0 DEF TypeOK
    <3> QED BY <1>2, <2>1, <3>1 DEF DoneStays, State, Claimables
  <2>2. \A u \in Keys : DoneStays(u)
    BY <2>1 DEF DoneStays
  <2> QED BY <1>1, <1>2, <2>2 DEF NothingBegins
<1>5. GatesFit'
  <2>1. ASSUME NEW x \in Keys PROVE node'[x][gen[x]] # "waiting"
    <3>1. gen[x] \in Gens
      BY <1>0 DEF TypeOK
    <3> QED BY <1>2, <3>1 DEF Claimables
  <2> QED BY <1>2, <2>1 DEF GatesFit, State
<1> QED BY <1>3, <1>4, <1>5, AttemptsKept DEF HistoryInv

-----------------------------------------------------------------------------
(* Commands that let the run go on. *)

(* A step that leaves rows, attempts and gates alone. *)
LEMMA RowsUntouched ==
  ASSUME HistoryInv, IInv', gen' = gen, node' = node, cur' = cur, last' = last, parent' = parent,
         att' = att, out' = out, gates' = gates, cancelRequested' = cancelRequested,
         runState' = "waiting_for_operator" => runState = "waiting_for_operator"
  PROVE  HistoryInv'
<1>1. \A x \in Keys, y \in Gens : RowFits(x, y)'
  BY DEF HistoryInv, RowFits
<1>2. NothingBegins
  BY DEF NothingBegins, EnvelopeStays, DoneStays, State
<1>3. GatesFit'
  BY DEF HistoryInv, GatesFit, State
<1> QED BY <1>1, <1>2, <1>3, AttemptsKept DEF HistoryInv

LEMMA RetryKeeps ==
  ASSUME HistoryInv, IInv', NEW k \in Keys, RetryFailedNode(k)
  PROVE  HistoryInv'
<1> DEFINE g == gen[k]
           l == last[k][g]
<1>0. /\ TypeOK /\ g \in Gens /\ RowFits(k, g) /\ node[k][g] = "failed" /\ l # NoAttempt
      /\ att[l].state \in Ended
  BY DEF HistoryInv, IInv, TypeOK, RetryFailedNode, State, Ended
<1>1. /\ gen' = gen /\ last' = last /\ parent' = parent /\ att' = att /\ out' = out
      /\ gates' = gates /\ cancelRequested' = cancelRequested /\ runState' = "queued"
      /\ \A x \in Keys, y \in Gens :
            /\ node'[x][y] = IF x = k /\ y = g THEN "ready" ELSE node[x][y]
            /\ cur'[x][y] = IF x = k /\ y = g THEN NoAttempt ELSE cur[x][y]
  BY <1>0 DEF RetryFailedNode, TypeOK
<1>2. ASSUME NEW x \in Keys, NEW y \in Gens PROVE RowFits(x, y)'
  <2>0. RowFits(x, y) /\ ~(g > g)
    BY <1>0 DEF HistoryInv, Gens
  <2>1. CASE x = k /\ y = g
    <3> HIDE DEF g
    <3> QED BY <1>0, <1>1, <2>0, <2>1 DEF RowFits, g
  <2>2. CASE ~(x = k /\ y = g)
    BY <1>1, <2>0, <2>2 DEF RowFits
  <2> QED BY <2>1, <2>2
<1>3. NothingBegins
  <2>1. ASSUME NEW u \in Keys, State(u) = "succeeded" PROVE DoneStays(u)
    <3>1. gen[u] \in Gens /\ ~(u = k /\ gen[u] = g)
      BY <1>0, <2>1 DEF State, TypeOK
    <3> QED BY <1>1, <2>1, <3>1 DEF DoneStays, State
  <2>2. \A u \in Keys : DoneStays(u)
    BY <2>1 DEF DoneStays
  <2> QED BY <1>1, <2>2 DEF NothingBegins, EnvelopeStays
<1>4. GatesFit'
  <2>1. ASSUME NEW x \in Keys PROVE State(x) = "waiting" <=> node'[x][gen[x]] = "waiting"
    <3>1. gen[x] \in Gens
      BY <1>0 DEF TypeOK
    <3> QED BY <1>0, <1>1, <3>1 DEF State
  <2> QED BY <1>1, <2>1, GatesKept
<1> QED BY <1>2, <1>3, <1>4, AttemptsKept DEF HistoryInv

(* The generations that a step opens; attempts keep what is written of them. *)
LEMMA NewGenerationKeeps ==
  ASSUME HistoryInv, NEW opened \in SUBSET Keys,
         last' = last,
         \A x \in Keys : gen'[x] = IF x \in opened THEN gen[x] + 1 ELSE gen[x],
         \A b \in Attempts : /\ EnvelopeStays(b)
                             /\ att'[b].state = "running" => att[b].state = "running"
                             /\ att'[b].state # "absent" => att[b].state # "absent",
         NEW b \in Attempts,
         \A u \in Keys : att[b].state # "absent" /\ att[b].gen = gen[att[b].key]
                         /\ att[b].answer = NoAttempt /\ att[b].key \notin opened
                         /\ u \in Upstream[att[b].key] => DoneStays(u)
  PROVE  AttemptFits(b)' /\ EnvelopeFits(b)'
<1>0. TypeOK /\ AttemptFits(b) /\ EnvelopeFits(b)
  BY DEF HistoryInv, IInv
<1>1. CASE att[b].state = "absent"
  BY <1>1 DEF AttemptFits, EnvelopeFits
<1>2. CASE att[b].state # "absent"
  <2>1. att[b].key \in Keys /\ gen[att[b].key] \in Nat /\ att[b].gen \in Nat
    BY <1>0 DEF TypeOK, Gens
  <2>2. Upstream[att[b].key] \subseteq Keys
    BY <2>1, KeysAssumption
  <2>3. /\ last[att[b].key][att[b].gen] # NoAttempt /\ att[b].gen <= gen[att[b].key]
        /\ att'[b].state = "running" => last[att[b].key][att[b].gen] = b
    BY <1>0, <1>2 DEF AttemptFits
  <2>4. /\ gen'[att[b].key] >= gen[att[b].key] /\ gen'[att[b].key] \in Nat
        /\ att[b].gen = gen'[att[b].key] => att[b].gen = gen[att[b].key] /\ att[b].key \notin opened
    BY <2>1, <2>3
  <2>5. \A c \in Attempts : EnvelopeStays(c)
    OBVIOUS
  <2>6. AttemptFits(b)'
    BY <1>0, <1>2, <2>1, <2>3, <2>4, <2>5, AttemptKept
  <2>7. EnvelopeFits(b)'
    <3>1. CASE att[b].gen = gen'[att[b].key]
      <4>1. att[b].gen = gen[att[b].key] /\ att[b].answer = NoAttempt
            => \A u \in Upstream[att[b].key] : DoneStays(u)
        BY <1>2, <2>2, <2>4, <3>1
      <4> QED BY <1>0, <1>2, <2>4, <2>5, <4>1, EnvelopeKept
    <3>2. CASE att[b].gen # gen'[att[b].key]
      BY <1>2, <2>5, <3>2 DEF EnvelopeFits, EnvelopeStays
    <3> QED BY <3>1, <3>2
  <2> QED BY <2>6, <2>7
<1> QED BY <1>1, <1>2

(* The answered generation waited; the next continues its attempt. *)
LEMMA AnswerKeeps ==
  ASSUME HistoryInv, IInv', NEW k \in Keys, NEW g \in Gens, AnswerGate(k, g)
  PROVE  HistoryInv'
<1>0. /\ TypeOK /\ g \in Nat /\ g + 1 \in Gens /\ g = gen[k] /\ node[k][g] = "waiting"
      /\ last[k][g] # NoAttempt /\ att[last[k][g]].state = "suspended" /\ ~cancelRequested
  BY BoundsAssumption DEF HistoryInv, IInv, AnswerGate, Gens
<1>1. /\ last' = last /\ att' = att /\ out' = out /\ cur' = cur
      /\ gates' = gates \ {<<k, g>>} /\ cancelRequested' = cancelRequested
      /\ runState' = "queued"
      /\ \A x \in Keys : gen'[x] = IF x \in {k} THEN gen[x] + 1 ELSE gen[x]
      /\ \A x \in Keys, y \in Gens :
            /\ node'[x][y] = IF x = k /\ y = g + 1 THEN "ready" ELSE node[x][y]
            /\ parent'[x][y] = IF x = k /\ y = g + 1 THEN last[k][g] ELSE parent[x][y]
  BY <1>0 DEF AnswerGate, TypeOK
<1>2. ASSUME NEW x \in Keys, NEW y \in Gens PROVE RowFits(x, y)'
  <2>0. RowFits(x, y) /\ y \in Nat /\ gen[x] \in Nat
    BY <1>0 DEF HistoryInv, TypeOK, Gens
  <2>1. CASE x = k /\ y = g + 1
    <3>1. y > gen[x] /\ ~(y > gen'[x])
      BY <1>0, <1>1, <2>0, <2>1
    <3>2. node[x][y] = "absent" /\ last[x][y] = NoAttempt /\ out[x][y] = NoAttempt
          /\ cur[x][y] = NoAttempt
      BY <2>0, <3>1 DEF RowFits
    <3>3. /\ node'[x][y] = "ready" /\ parent'[x][y] = last[k][g]
          /\ last'[x][y] = NoAttempt /\ out'[x][y] = NoAttempt /\ cur'[x][y] = NoAttempt
      BY <1>1, <2>1, <3>2
    <3> QED BY <1>0, <1>1, <3>1, <3>3 DEF RowFits
  <2>2. CASE ~(x = k /\ y = g + 1)
    <3>1. y > gen'[x] => y > gen[x]
      BY <1>1, <2>0
    <3> QED BY <1>1, <2>0, <2>2, <3>1 DEF RowFits
  <2> QED BY <2>1, <2>2
<1>3. ASSUME NEW b \in Attempts PROVE AttemptFits(b)' /\ EnvelopeFits(b)'
  <2>1. ASSUME NEW u \in Keys PROVE DoneStays(u)
    <3>1. CASE u = k
      BY <1>0, <3>1 DEF DoneStays, State
    <3>2. CASE u # k
      <4>1. gen[u] \in Gens /\ gen'[u] = gen[u]
        BY <1>0, <1>1, <3>2 DEF TypeOK
      <4> QED BY <1>1, <3>2, <4>1 DEF DoneStays, State
    <3> QED BY <3>1, <3>2
  <2>2. \A c \in Attempts : EnvelopeStays(c)
    BY <1>1 DEF EnvelopeStays
  <2> QED BY <1>1, <2>1, <2>2, NewGenerationKeeps
<1>4. GatesFit'
  <2>1. GatesFit /\ gates \subseteq Keys \X Gens
    BY <1>0 DEF HistoryInv, TypeOK
  <2>2. ASSUME NEW x \in Keys PROVE node'[x][gen'[x]] = "waiting" <=> <<x, gen'[x]>> \in gates'
    <3>1. CASE x = k
      <4>1. <<k, g + 1>> \notin gates
        BY <1>0, <2>1 DEF GatesFit
      <4> QED BY <1>0, <1>1, <3>1, <4>1
    <3>2. CASE x # k
      <4>1. gen[x] \in Gens /\ gen'[x] = gen[x]
        BY <1>0, <1>1, <3>2 DEF TypeOK
      <4> QED BY <1>1, <2>1, <3>2, <4>1 DEF GatesFit, State
    <3> QED BY <3>1, <3>2
  <2>3. ASSUME NEW x \in gates' PROVE x[2] = gen'[x[1]]
    <3>1. x \in gates /\ x # <<k, g>> /\ x[1] \in Keys /\ x = <<x[1], x[2]>>
      BY <1>1, <2>1
    <3>2. x[2] = gen[x[1]]
      BY <2>1, <3>1 DEF GatesFit
    <3> QED BY <1>0, <1>1, <3>1, <3>2
  <2> QED BY <1>1, <2>2, <2>3 DEF GatesFit, State
<1> QED BY <1>2, <1>3, <1>4 DEF HistoryInv

(* lineageInvalidationClosure is closed under consumption. *)
LEMMA LineageIsClosed ==
  ASSUME NEW k \in Keys, NEW u \in {k} \cup Lineage(k), NEW c \in Keys, Consumes(c, u)
  PROVE  c \in {k} \cup Lineage(k)
<1> SUFFICES ASSUME c # k, NEW S \in SUBSET Keys, k \in S,
                    \A v \in S, d \in Keys : Consumes(d, v) => d \in S
             PROVE  c \in S
  BY DEF Lineage
<1>1. u \in S
  BY DEF Lineage
<1> QED BY <1>1

(* A rerun leaves no live envelope on an output that it replaces, but that *)
(* of a continuation.                                                      *)
LEMMA RerunKeeps ==
  ASSUME HistoryInv, IInv', NEW k \in Keys, RerunNode(k)
  PROVE  HistoryInv'
<1> DEFINE targets == {k} \cup Lineage(k)
<1>0. /\ TypeOK /\ ~cancelRequested /\ targets \in SUBSET Keys
      /\ \A t \in targets : gen[t] \in Nat /\ gen[t] + 1 \in Gens
  <2>1. TypeOK /\ ~cancelRequested /\ targets \in SUBSET Keys /\ \A t \in targets : gen[t] < MaxGen
    BY DEF HistoryInv, IInv, RerunNode, Lineage
  <2> HIDE DEF targets
  <2>2. \A t \in targets : gen[t] \in Gens
    BY <2>1 DEF TypeOK
  <2> QED BY <2>1, <2>2, BoundsAssumption DEF Gens
<1>1. /\ last' = last /\ out' = out /\ gates' = Withdraw(targets)
      /\ cancelRequested' = cancelRequested /\ runState' = "queued"
      /\ \A x \in Keys : gen'[x] = IF x \in targets THEN gen[x] + 1 ELSE gen[x]
      /\ \A x \in Keys, y \in Gens :
            /\ node'[x][y] = IF x \in targets /\ y = gen[x]
                             THEN IF node[x][y] \in Claimables THEN "cancelled" ELSE node[x][y]
                             ELSE IF x \in targets /\ y = gen[x] + 1
                             THEN IF x = k THEN "ready" ELSE "invalidated"
                             ELSE node[x][y]
            /\ cur'[x][y] = IF x \in targets /\ y = gen[x] THEN NoAttempt ELSE cur[x][y]
            /\ parent'[x][y] = IF x \in targets /\ y = gen[x] + 1 THEN parent[x][gen[x]]
                               ELSE parent[x][y]
  BY DEF RerunNode
<1>2. \A b \in Attempts : /\ AttemptStays(b)
                          /\ att'[b].state = "running" => att[b].state = "running"
                          /\ att'[b].state # "absent" => att[b].state # "absent"
  <2> SUFFICES ASSUME NEW b \in Attempts
               PROVE  /\ AttemptStays(b)
                      /\ att'[b].state = "running" => att[b].state = "running"
                      /\ att'[b].state # "absent" => att[b].state # "absent"
    OBVIOUS
  <2>1. att[b] \in AttemptRow
    BY <1>0 DEF TypeOK, AttemptRow
  <2>2. att'[b] = IF /\ att[b].state = "running" /\ att[b].key \in targets
                     /\ att[b].gen = gen[att[b].key]
                  THEN [att[b] EXCEPT !.state = "cancelled"] ELSE att[b]
    BY DEF RerunNode
  <2> HIDE DEF targets
  <2> QED BY <2>1, <2>2 DEF AttemptRow, AttemptStays, EnvelopeStays, Ended
<1>consumers. ASSUME NEW u \in targets, NEW c \in Keys, Consumes(c, u) PROVE c \in targets
  BY <1>consumers, LineageIsClosed
<1> HIDE DEF targets
<1>3. ASSUME NEW x \in Keys, NEW y \in Gens PROVE RowFits(x, y)'
  <2>0. /\ RowFits(x, y) /\ y \in Nat /\ gen[x] \in Nat /\ gen[x] \in Gens
        /\ last[x][y] \in Attempts \cup {NoAttempt} /\ out[x][y] \in Attempts \cup {NoAttempt}
        /\ parent[x][y] \in Attempts \cup {NoAttempt}
    <3>1. gen[x] \in Gens
      BY <1>0 DEF TypeOK
    <3>2. y \in Nat /\ gen[x] \in Nat
      BY <3>1 DEF Gens
    <3> QED BY <1>0, <3>1, <3>2 DEF HistoryInv, TypeOK
  <2>1. CASE x \notin targets
    <3>1. RowStays(x, y)
      BY <1>1, <2>1 DEF RowStays
    <3> QED BY <1>0, <1>1, <1>2, <2>0, <3>1, RowKept
  <2>2. CASE x \in targets /\ y = gen[x]
    <3>1. ~(y > gen'[x]) /\ ~(y > gen[x])
      BY <1>1, <2>0, <2>2
    <3>2. /\ node'[x][y] = IF node[x][y] \in Claimables THEN "cancelled" ELSE node[x][y]
          /\ cur'[x][y] = NoAttempt /\ parent'[x][y] = parent[x][y]
          /\ last'[x][y] = last[x][y] /\ out'[x][y] = out[x][y]
      BY <1>1, <2>0, <2>2
    <3> QED BY <1>1, <1>2, <2>0, <3>1, <3>2
            DEF RowFits, AttemptStays, EnvelopeStays, Ended, Claimables
  <2>3. CASE x \in targets /\ y = gen[x] + 1
    <3>1. ~(y > gen'[x]) /\ y > gen[x] /\ y # gen[x]
      BY <1>1, <2>0, <2>3
    <3>2. node[x][y] = "absent" /\ last[x][y] = NoAttempt /\ out[x][y] = NoAttempt
          /\ cur[x][y] = NoAttempt
      BY <2>0, <3>1 DEF RowFits
    <3>3. /\ node'[x][y] \in {"ready", "invalidated"} /\ cur'[x][y] = NoAttempt
          /\ parent'[x][y] = parent[x][gen[x]] /\ last'[x][y] = NoAttempt /\ out'[x][y] = NoAttempt
      BY <1>1, <2>3, <3>1, <3>2
    <3>4. RowFits(x, gen[x]) /\ parent[x][gen[x]] \in Attempts \cup {NoAttempt}
      BY <1>0, <2>0 DEF HistoryInv, TypeOK
    <3>5. parent[x][gen[x]] # NoAttempt => att'[parent[x][gen[x]]].state = "suspended"
      BY <1>0, <1>2, <3>4 DEF RowFits, AttemptStays, Ended
    <3> QED BY <1>1, <3>1, <3>3, <3>5 DEF RowFits
  <2>4. CASE x \in targets /\ y # gen[x] /\ y # gen[x] + 1
    <3>1. y > gen'[x] => y > gen[x]
      BY <1>1, <2>0, <2>4
    <3>2. /\ node'[x][y] = node[x][y] /\ cur'[x][y] = cur[x][y] /\ parent'[x][y] = parent[x][y]
          /\ last'[x][y] = last[x][y] /\ out'[x][y] = out[x][y]
      BY <1>1, <2>4
    <3> QED BY <1>1, <1>2, <2>0, <3>1, <3>2 DEF RowFits, AttemptStays, EnvelopeStays, Ended
  <2> QED BY <2>1, <2>2, <2>3, <2>4
<1>4. ASSUME NEW b \in Attempts PROVE AttemptFits(b)' /\ EnvelopeFits(b)'
  <2>1. ASSUME NEW u \in Keys, att[b].state # "absent", att[b].gen = gen[att[b].key],
               att[b].answer = NoAttempt, att[b].key \notin targets, u \in Upstream[att[b].key]
        PROVE  DoneStays(u)
    <3>1. /\ att[b].key \in Keys /\ gen[u] \in Gens /\ EnvelopeFits(b) /\ RowFits(u, gen[u])
      BY <1>0 DEF HistoryInv, TypeOK
    <3>2. node[u][gen[u]] = "succeeded" /\ att[b].inputs = SealedInputs(att[b].key)
      BY <2>1, <3>1 DEF EnvelopeFits, UpstreamsSucceeded
    <3>3. out[u][gen[u]] # NoAttempt
      BY <3>1, <3>2 DEF RowFits
    <3>4. out[u][gen[u]] \in att[b].inputs
      BY <2>1, <3>2, <3>3 DEF SealedInputs, State
    <3>5. Consumes(att[b].key, u)
      BY <2>1, <3>3, <3>4 DEF Consumes
    <3>6. u \notin targets
      BY <1>consumers, <2>1, <3>1, <3>5
    <3> QED BY <1>1, <3>1, <3>6 DEF DoneStays, State
  <2>2. \A c \in Attempts : EnvelopeStays(c)
    BY <1>2 DEF AttemptStays
  <2> QED BY <1>0, <1>1, <1>2, <2>1, <2>2, NewGenerationKeeps
<1>5. GatesFit'
  <2>1. GatesFit /\ gates \subseteq Keys \X Gens
    BY <1>0 DEF HistoryInv, TypeOK
  <2>2. ASSUME NEW x \in Keys PROVE node'[x][gen'[x]] = "waiting" <=> <<x, gen'[x]>> \in gates'
    <3>0. gen[x] \in Gens /\ gen[x] \in Nat
      BY <1>0 DEF TypeOK, Gens
    <3>1. CASE x \in targets
      <4>1. gen'[x] = gen[x] + 1 /\ gen[x] + 1 \in Gens /\ gen[x] + 1 # gen[x]
        BY <1>0, <1>1, <3>0, <3>1
      <4>2. node'[x][gen[x] + 1] \in {"ready", "invalidated"}
        BY <1>1, <3>1, <4>1
      <4>3. <<x, gen[x] + 1>> \notin gates
        BY <2>1, <4>1 DEF GatesFit
      <4> QED BY <1>1, <4>1, <4>2, <4>3 DEF Withdraw
    <3>2. CASE x \notin targets
      <4>1. gen'[x] = gen[x] /\ node'[x][gen[x]] = node[x][gen[x]]
        BY <1>1, <3>0, <3>2
      <4>2. <<x, gen[x]>> \in gates' <=> <<x, gen[x]>> \in gates
        BY <1>1, <3>2 DEF Withdraw
      <4> QED BY <2>1, <4>1, <4>2 DEF GatesFit, State
    <3> QED BY <3>1, <3>2
  <2>3. ASSUME NEW x \in gates' PROVE x[2] = gen'[x[1]]
    <3>1. x \in gates /\ x[1] \in Keys /\ ~(x[1] \in targets /\ x[2] = gen[x[1]])
      BY <1>1, <2>1 DEF Withdraw
    <3>2. x[2] = gen[x[1]]
      BY <2>1, <3>1 DEF GatesFit
    <3> QED BY <1>1, <3>1, <3>2
  <2> QED BY <1>1, <2>2, <2>3 DEF GatesFit, State
<1> QED BY <1>3, <1>4, <1>5 DEF HistoryInv

-----------------------------------------------------------------------------
(* The invariant and what follows from it.                                 *)
LEMMA InitHistory == Init => HistoryInv
<1> SUFFICES ASSUME Init PROVE HistoryInv
  OBVIOUS
<1>1. /\ \A a \in Attempts : att[a].state = "absent"
      /\ \A k \in Keys : gen[k] = 0
      /\ \A k \in Keys, g \in Gens :
            /\ last[k][g] = NoAttempt /\ parent[k][g] = NoAttempt
            /\ out[k][g] = NoAttempt /\ cur[k][g] = NoAttempt
            /\ node[k][g] \in {"absent", "ready", "blocked"}
            /\ g # 0 => node[k][g] = "absent"
      /\ gates = {} /\ runState = "running"
  BY DEF Init, AbsentAttempt
<1>2. \A k \in Keys, g \in Gens : RowFits(k, g)
  <2> SUFFICES ASSUME NEW k \in Keys, NEW g \in Gens PROVE RowFits(k, g)
    OBVIOUS
  <2>1. g > gen[k] => g # 0
    BY <1>1 DEF Gens
  <2> QED BY <1>1, <2>1 DEF RowFits
<1>3. \A a \in Attempts : AttemptFits(a) /\ EnvelopeFits(a)
  BY <1>1 DEF AttemptFits, EnvelopeFits
<1>4. GatesFit
  BY <1>1, ZeroIsGen DEF GatesFit, State
<1> QED BY <1>2, <1>3, <1>4, InitLease DEF HistoryInv

LEMMA NextHistory == HistoryInv /\ [Next]_vars => HistoryInv'
<1> SUFFICES ASSUME HistoryInv, [Next]_vars PROVE HistoryInv'
  OBVIOUS
<1>0. IInv'
  BY NextLease DEF HistoryInv
<1>1. CASE UNCHANGED vars
  BY <1>0, <1>1, RowsUntouched DEF vars
<1>2. ASSUME NEW k \in Keys, NEW a \in Attempts, Claim(k, a) PROVE HistoryInv'
  BY <1>0, <1>2, ClaimKeeps
<1>3. ASSUME NEW a \in Attempts, Worker(a) PROVE HistoryInv'
  <2>1. CASE (\E o \in {"ok", "bad", "ask"} : ExecutorSettles(a, o))
             \/ (\E p \in {"some", "all"} : Seal(a, p)) \/ WorkerLeaves(a)
    BY <1>0, <2>1, RowsUntouched DEF ExecutorSettles, Seal, WorkerLeaves, rows
  <2>2. CASE WorkerCommits(a)
    BY <1>0, <2>2, CommitKeeps DEF WorkerCommits
  <2>3. CASE WorkerCommitsEvidence(a)
    BY <1>0, <2>3, EvidenceKeeps
  <2>4. ASSUME NEW r \in BOOLEAN, WorkerFails(a, r) PROVE HistoryInv'
    BY <1>0, <2>4, FailKeeps
  <2>5. CASE WorkerSuspends(a)
    BY <1>0, <2>5, SuspendKeeps
  <2> QED BY <1>3, <2>1, <2>2, <2>3, <2>4, <2>5 DEF Worker
<1>4. CASE CancelRun \/ PauseRun \/ ResumeRun
  <2>1. CASE ResumeRun
    BY <1>0, <2>1, RowsUntouched DEF ResumeRun, rows
  <2> QED BY <1>0, <1>4, <2>1, CancelKeeps, PauseKeeps
<1>5. ASSUME NEW k \in Keys, RetryFailedNode(k) \/ RerunNode(k) PROVE HistoryInv'
  BY <1>0, <1>5, RetryKeeps, RerunKeeps
<1>6. ASSUME NEW k \in Keys, NEW g \in Gens, AnswerGate(k, g) PROVE HistoryInv'
  BY <1>0, <1>6, AnswerKeeps
<1>7. CASE Open \/ RecoverInterrupt \/ Close \/ Crash
  <2>1. CASE Open \/ Crash
    BY <1>0, <2>1, RowsUntouched DEF Open, Crash, rows
  <2>2. CASE RecoverInterrupt \/ Close
    BY <1>0, <2>2, InterruptKeeps DEF RecoverInterrupt, Close
  <2> QED BY <1>7, <2>1, <2>2
<1>8. ASSUME NEW a \in Attempts, RecoverGroup(a) PROVE HistoryInv'
  <2>1. CASE IsCurrent(a) /\ CommitSucceeded(a)
    BY <1>0, <2>1, CommitKeeps
  <2>2. CASE UNCHANGED <<runState, cancelRequested, rows, gates>>
    BY <1>0, <2>2, RowsUntouched DEF rows
  <2> QED BY <1>8, <2>1, <2>2 DEF RecoverGroup
<1> QED BY <1>1, <1>2, <1>3, <1>4, <1>5, <1>6, <1>7, <1>8, NextCases

LEMMA HistoryInvariant == Spec => []HistoryInv
  BY InitHistory, NextHistory, PTL DEF Spec

(* A question reaches its end: while it is open its node waits in the live *)
(* generation on a suspended attempt, so that the answer is not refused as *)
(* stale, and a generation that continues an answer succeeds only with it  *)
(* among its inputs, whatever pauses, retries, reruns and crashes fall in  *)
(* between (resolveGate, operatorContinuationSource, retrySourceAttempt).  *)
THEOREM AnswersDelivered == Spec => []AnswersArrive
<1>1. ASSUME HistoryInv PROVE AnswersArrive
  <2>0. TypeOK /\ GatesFit
    BY <1>1 DEF HistoryInv, IInv
  <2>1. ASSUME NEW x \in gates
        PROVE  /\ x[2] = gen[x[1]] /\ State(x[1]) = "waiting"
               /\ att[last[x[1]][x[2]]].state = "suspended"
    <3>1. x[1] \in Keys /\ x[2] \in Gens /\ x = <<x[1], x[2]>> /\ x[2] = gen[x[1]]
      BY <2>0 DEF TypeOK, GatesFit
    <3>2. State(x[1]) = "waiting" /\ RowFits(x[1], x[2])
      BY <1>1, <2>0, <3>1 DEF GatesFit, HistoryInv
    <3> QED BY <3>1, <3>2 DEF State, RowFits
  <2>2. GatesAreAnswerable
    BY <2>0, <2>1 DEF GatesAreAnswerable, GatesFit
  <2>3. AnswerIsDelivered
    BY <1>1 DEF AnswerIsDelivered, HistoryInv, RowFits
  <2> QED BY <2>2, <2>3 DEF AnswersArrive
<1> QED BY <1>1, HistoryInvariant, PTL

-----------------------------------------------------------------------------
(* What is recorded of a success.                                          *)

(* The worker of an attempt and the group it has sealed. *)
WorkFits(a) ==
    LET honest == att[a].key \notin EvidenceKeys
    IN  /\ att[a].state = "absent" => work[a] = "none" /\ prep[a] = "none"
        /\ work[a] # "none" => owner = "up" /\ att[a].state # "succeeded"
        /\ work[a] = "exec" => prep[a] = "none"
        /\ honest /\ (prep[a] = "all" \/ att[a].state = "succeeded") => said[a] = "ok"

(* The output of a row whose key seals no evidence. *)
RecordFits(k, g) ==
    k \notin EvidenceKeys =>
    /\ out[k][g] # NoAttempt => node[k][g] = "succeeded"
    /\ node[k][g] = "succeeded"
       => out[k][g] = last[k][g] /\ att[out[k][g]].state = "succeeded"

RecordInv ==
    /\ HistoryInv
    /\ \A a \in Attempts : WorkFits(a)
    /\ \A k \in Keys, g \in Gens : RecordFits(k, g)

(* A step that records nothing in the row of k and g and does not undo its *)
(* success.                                                                *)
RecordStays(k, g) ==
    /\ out'[k][g] = out[k][g]
    /\ node'[k][g] = "succeeded" <=> node[k][g] = "succeeded"
    /\ node[k][g] = "succeeded" => last'[k][g] = last[k][g]

SuccessStays ==
    \A b \in Attempts : att[b].state = "succeeded" => att'[b].state = "succeeded"

LEMMA RecordKept ==
  ASSUME HistoryInv, NEW k \in Keys, NEW g \in Gens, RecordFits(k, g),
         RecordStays(k, g), SuccessStays
  PROVE  RecordFits(k, g)'
<1>1. RowFits(k, g) /\ out[k][g] \in Attempts \cup {NoAttempt}
  BY DEF HistoryInv, IInv, TypeOK
<1>2. node[k][g] = "succeeded" => out[k][g] \in Attempts
  BY <1>1 DEF RowFits
<1> QED BY <1>2 DEF RecordFits, RecordStays, SuccessStays

(* A worker that the step does not touch, but perhaps ends with its process. *)
WorkStays(a) ==
    /\ att'[a].state # "absent" => att[a].state # "absent" /\ att'[a].key = att[a].key
    /\ att'[a].state = "succeeded" => att[a].state = "succeeded"
    /\ work'[a] = "none" \/ (work'[a] = work[a] /\ owner' = "up")
    /\ prep'[a] = "none" \/ prep'[a] = prep[a]
    /\ work'[a] = "exec" => prep'[a] = prep[a]
    /\ said'[a] = said[a]

LEMMA WorkKept ==
  ASSUME NEW a \in Attempts, WorkFits(a), WorkStays(a),
         att'[a].state = "absent" => att[a].state = "absent"
  PROVE  WorkFits(a)'
<1>1. CASE att'[a].state = "absent"
  BY <1>1 DEF WorkFits, WorkStays
<1>2. CASE att'[a].state # "absent"
  BY <1>2 DEF WorkFits, WorkStays
<1> QED BY <1>1, <1>2

(* Retiring the attempts in some states writes states only. *)
LEMMA RetiredStates ==
  ASSUME TypeOK, NEW from, NEW to, att' = Retire(from, to)
  PROVE  \A b \in Attempts :
            /\ att'[b].key = att[b].key
            /\ att'[b].state = IF att[b].state \in from THEN to ELSE att[b].state
<1> SUFFICES ASSUME NEW b \in Attempts
             PROVE  /\ att'[b].key = att[b].key
                    /\ att'[b].state = IF att[b].state \in from THEN to ELSE att[b].state
  OBVIOUS
<1>1. att[b] \in AttemptRow
  BY DEF TypeOK, AttemptRow
<1>2. att'[b] = IF att[b].state \in from THEN [att[b] EXCEPT !.state = to] ELSE att[b]
  BY DEF Retire
<1> QED BY <1>1, <1>2 DEF AttemptRow

(* A success is written to the row of the attempt that has it leased. *)
LEMMA CommitRecords ==
  ASSUME RecordInv, NEW a \in Attempts, IsCurrent(a), CommitSucceeded(a),
         NEW x \in Keys, NEW y \in Gens
  PROVE  RecordFits(x, y)'
<1> DEFINE k == att[a].key
           g == att[a].gen
           nd == [node EXCEPT ![k][g] = "succeeded"]
<1>0. TypeOK /\ k \in Keys /\ g \in Gens /\ HistoryInv /\ RecordFits(x, y) /\ RecordFits(k, g)
  BY DEF RecordInv, HistoryInv, IInv, TypeOK
<1>1. nd \in NodeRows /\ nd[x][y] = IF x = k /\ y = g THEN "succeeded" ELSE node[x][y]
  <2>1. TypeOK /\ k \in Keys /\ g \in Gens /\ "succeeded" \in NodeStates
    BY <1>0 DEF NodeStates
  <2> HIDE DEF k, g
  <2>2. nd \in NodeRows
    BY <2>1, RowUpdate
  <2> QED BY <2>1, <2>2 DEF TypeOK, NodeRows
<1>2. /\ att' = [att EXCEPT ![a].state = "succeeded"] /\ last' = last
      /\ node' = nd \/ node' = Unlock(nd)
      /\ out' = IF out[k][g] = NoAttempt THEN [out EXCEPT ![k][g] = a] ELSE out
  BY DEF CommitSucceeded, RecordOutput
<1>3. node'[x][y] = nd[x][y] \/ (nd[x][y] # "succeeded" /\ node'[x][y] # "succeeded")
  <2>1. gen \in [Keys -> Gens]
    BY <1>0 DEF TypeOK
  <2> HIDE DEF nd, k, g
  <2> QED BY <1>1, <1>2, <2>1, UnlockRow
<1>4. node[k][g] = "running" /\ last[k][g] = a /\ a # NoAttempt
  <2>1. node[k][g] = "running" /\ cur[k][g] = a
    BY DEF IsCurrent
  <2> QED BY <1>0, <2>1, CurrentIsLast DEF Attempts, NoAttempt
<1>5. \A b \in Attempts : att'[b].state = IF b = a THEN "succeeded" ELSE att[b].state
  <2>1. TypeOK
    BY <1>0
  <2> QED BY <1>2, <2>1 DEF TypeOK
<1> HIDE DEF nd, k, g
<1>6. CASE x = k /\ y = g
  <2>1. k \notin EvidenceKeys => out[k][g] = NoAttempt
    BY <1>0, <1>4 DEF RecordFits
  <2>2. k \notin EvidenceKeys => out'[k][g] = a
    BY <1>0, <1>2, <2>1 DEF TypeOK
  <2> QED BY <1>1, <1>2, <1>3, <1>4, <1>5, <1>6, <2>2 DEF RecordFits
<1>7. CASE ~(x = k /\ y = g)
  <2>1. out'[x][y] = out[x][y]
    BY <1>0, <1>2, <1>7 DEF TypeOK
  <2>2. RecordStays(x, y)
    BY <1>1, <1>2, <1>3, <1>7, <2>1 DEF RecordStays
  <2>3. SuccessStays
    BY <1>5 DEF SuccessStays
  <2> QED BY <1>0, <2>2, <2>3, RecordKept
<1> QED BY <1>6, <1>7

(* A failure, a question and an evidence record no success. *)
LEMMA EndRecords ==
  ASSUME RecordInv, NEW a \in Attempts,
         \/ WorkerSuspends(a) \/ WorkerCommitsEvidence(a) \/ \E r \in BOOLEAN : WorkerFails(a, r),
         NEW x \in Keys, NEW y \in Gens
  PROVE  RecordFits(x, y)'
<1> DEFINE k == att[a].key
           g == att[a].gen
<1>0. /\ TypeOK /\ k \in Keys /\ g \in Gens /\ HistoryInv /\ RecordFits(x, y) /\ WorkFits(a)
      /\ IsCurrent(a) /\ node[k][g] = "running" /\ att[a].state = "running"
  BY DEF RecordInv, HistoryInv, IInv, TypeOK, WorkerSuspends, WorkerCommitsEvidence, WorkerFails,
         IsCurrent
<1>1. SuccessStays
  <2>0. TypeOK
    BY <1>0
  <2>1. CASE att' = att
    BY <2>1 DEF SuccessStays
  <2>2. CASE att' = [att EXCEPT ![a].state = "suspended"]
    <3>1. \A b \in Attempts : att'[b].state = IF b = a THEN "suspended" ELSE att[b].state
      BY <2>0, <2>2 DEF TypeOK
    <3> QED BY <1>0, <3>1 DEF SuccessStays
  <2>3. CASE att' = [att EXCEPT ![a].state = "failed"]
    <3>1. \A b \in Attempts : att'[b].state = IF b = a THEN "failed" ELSE att[b].state
      BY <2>0, <2>3 DEF TypeOK
    <3> QED BY <1>0, <3>1 DEF SuccessStays
  <2> QED BY <2>1, <2>2, <2>3 DEF WorkerSuspends, WorkerCommitsEvidence, WorkerFails
<1>2. last' = last
  BY DEF WorkerSuspends, WorkerCommitsEvidence, WorkerFails
<1>3. CASE WorkerCommitsEvidence(a)
  <2>1. node' = node /\ out' = IF CompleteGroup(a) THEN RecordOutput(a) ELSE out
    BY <1>3 DEF WorkerCommitsEvidence
  <2>2. CompleteGroup(a) => k \in EvidenceKeys
    BY <1>0, <1>3 DEF WorkFits, CompleteGroup, WorkerCommitsEvidence
  <2>3. out'[x][y] = out[x][y] \/ (CompleteGroup(a) /\ x = k)
    BY <1>0, <2>1 DEF RecordOutput, TypeOK
  <2>4. CASE x \in EvidenceKeys
    BY <2>4 DEF RecordFits
  <2>5. CASE x \notin EvidenceKeys
    BY <1>0, <1>1, <1>2, <2>1, <2>2, <2>3, <2>5, RecordKept DEF RecordStays
  <2> QED BY <2>4, <2>5
<1>4. CASE WorkerSuspends(a)
  <2>1. out' = out /\ node' = [node EXCEPT ![k][g] = "waiting"]
    BY <1>4 DEF WorkerSuspends
  <2>2. node'[x][y] = IF x = k /\ y = g THEN "waiting" ELSE node[x][y]
    <3> HIDE DEF k, g
    <3> QED BY <1>0, <2>1 DEF TypeOK
  <2>3. RecordStays(x, y)
    BY <1>0, <1>2, <2>1, <2>2 DEF RecordStays
  <2> QED BY <1>0, <1>1, <2>3, RecordKept
<1>5. ASSUME NEW r \in BOOLEAN, WorkerFails(a, r) PROVE RecordFits(x, y)'
  <2> DEFINE nd == [node EXCEPT ![k][g] = "failed"]
  <2>1. out' = out /\ (node' = nd \/ node' = Unlock(nd) \/ node' = [nd EXCEPT ![k][g] = "ready"])
    BY <1>5 DEF WorkerFails
  <2>2. nd \in NodeRows /\ nd[x][y] = IF x = k /\ y = g THEN "failed" ELSE node[x][y]
    <3>1. TypeOK /\ k \in Keys /\ g \in Gens /\ "failed" \in NodeStates
      BY <1>0 DEF NodeStates
    <3> HIDE DEF k, g
    <3>2. nd \in NodeRows
      BY <3>1, RowUpdate
    <3> QED BY <3>1, <3>2 DEF TypeOK, NodeRows
  <2>3. node'[x][y] = nd[x][y] \/ (nd[x][y] # "succeeded" /\ node'[x][y] # "succeeded")
    <3>1. gen \in [Keys -> Gens]
      BY <1>0 DEF TypeOK
    <3>2. nd[x][y] = "failed" \/ ~(x = k /\ y = g)
      BY <2>2
    <3> HIDE DEF nd, k, g
    <3>3. CASE node' = nd \/ node' = Unlock(nd)
      BY <2>2, <3>1, <3>3, UnlockRow
    <3>4. CASE node' = [nd EXCEPT ![k][g] = "ready"]
      BY <1>0, <2>2, <3>2, <3>4 DEF NodeRows
    <3> QED BY <2>1, <3>3, <3>4
  <2>4. RecordStays(x, y)
    BY <1>0, <1>2, <2>1, <2>2, <2>3 DEF RecordStays
  <2> QED BY <1>0, <1>1, <2>4, RecordKept
<1> QED BY <1>3, <1>4, <1>5

(* No other step touches what is recorded. *)
LEMMA StepRecords ==
  ASSUME RecordInv, [Next]_vars, NEW x \in Keys, NEW y \in Gens
  PROVE  RecordFits(x, y)'
<1>0. TypeOK /\ HistoryInv /\ RecordFits(x, y) /\ RowFits(x, y) /\ y \in Nat
      /\ gen[x] \in Gens /\ gen[x] \in Nat
  <2>1. TypeOK /\ HistoryInv /\ RecordFits(x, y) /\ RowFits(x, y)
    BY DEF RecordInv, HistoryInv, IInv
  <2>2. gen[x] \in Gens
    BY <2>1 DEF TypeOK
  <2> QED BY <2>1, <2>2 DEF Gens
<1>1. ASSUME UNCHANGED rows PROVE RecordFits(x, y)'
  BY <1>1 DEF rows, RecordInv, RecordFits
<1>2. ASSUME NEW k \in Keys, NEW a \in Attempts, Claim(k, a) PROVE RecordFits(x, y)'
  <2>1. /\ gen[k] \in Gens /\ node[k][gen[k]] = "ready" /\ att[a].state = "absent" /\ out' = out
        /\ node' = [node EXCEPT ![k][gen[k]] = "running"]
        /\ last' = [last EXCEPT ![k][gen[k]] = a]
        /\ att' = [att EXCEPT ![a] = [state |-> "running", key |-> k, gen |-> gen[k],
                                      inputs |-> Envelope(k).inputs,
                                      answer |-> Envelope(k).answer]]
    BY <1>0, <1>2 DEF Claim, Claimable, State, TypeOK
  <2>2. /\ node'[x][y] = IF x = k /\ y = gen[k] THEN "running" ELSE node[x][y]
        /\ last'[x][y] = IF x = k /\ y = gen[k] THEN a ELSE last[x][y]
    BY <1>0, <2>1 DEF TypeOK
  <2>3. RecordStays(x, y)
    BY <2>1, <2>2 DEF RecordStays
  <2>4. SuccessStays
    BY <1>0, <2>1 DEF SuccessStays, TypeOK
  <2> QED BY <1>0, <2>3, <2>4, RecordKept
<1>3. ASSUME NEW a \in Attempts, Worker(a) PROVE RecordFits(x, y)'
  <2>1. CASE (\E o \in {"ok", "bad", "ask"} : ExecutorSettles(a, o))
             \/ (\E p \in {"some", "all"} : Seal(a, p)) \/ WorkerLeaves(a)
    BY <1>1, <2>1 DEF ExecutorSettles, Seal, WorkerLeaves
  <2>2. CASE WorkerCommits(a)
    BY <2>2, CommitRecords DEF WorkerCommits
  <2> QED BY <1>3, <2>1, <2>2, EndRecords DEF Worker
<1>4. CASE CancelRun \/ PauseRun
  <2>1. /\ out' = out /\ last' = last
        /\ node'[x][y] = node[x][y] \/ ("succeeded" \notin {node[x][y], node'[x][y]})
    BY <1>4 DEF CancelRun, PauseRun, Release, Claimables
  <2>2. SuccessStays
    <3>1. CASE CancelRun
      <4>1. att' = Retire({"running", "suspended"}, "cancelled")
        BY <3>1 DEF CancelRun
      <4> QED BY <1>0, <4>1, RetiredStates DEF SuccessStays
    <3>2. CASE PauseRun
      <4>1. att' = Retire({"running"}, "suspended")
        BY <3>2 DEF PauseRun
      <4> QED BY <1>0, <4>1, RetiredStates DEF SuccessStays
    <3> QED BY <1>4, <3>1, <3>2
  <2> QED BY <1>0, <2>1, <2>2, RecordKept DEF RecordStays
<1>5. ASSUME InterruptRunning PROVE RecordFits(x, y)'
  <2>1. /\ out' = out /\ last' = last /\ att' = Retire({"running"}, "interrupted")
        /\ node'[x][y] = IF cur[x][y] \in Running THEN "failed" ELSE node[x][y]
    BY <1>5 DEF InterruptRunning, InterruptedNodes
  <2>2. cur[x][y] \in Running => node[x][y] = "running"
    BY <1>0 DEF RowFits, Running, Attempts, NoAttempt
  <2>3. SuccessStays
    BY <1>0, <2>1, RetiredStates DEF SuccessStays
  <2> QED BY <1>0, <2>1, <2>2, <2>3, RecordKept DEF RecordStays
<1>6. ASSUME NEW k \in Keys, RetryFailedNode(k) PROVE RecordFits(x, y)'
  <2>1. /\ out' = out /\ last' = last /\ att' = att /\ node[k][gen[k]] = "failed"
        /\ node'[x][y] = IF x = k /\ y = gen[k] THEN "ready" ELSE node[x][y]
    BY <1>0, <1>6 DEF RetryFailedNode, State, TypeOK
  <2>2. RecordStays(x, y) /\ SuccessStays
    BY <2>1 DEF RecordStays, SuccessStays
  <2> QED BY <1>0, <2>2, RecordKept
<1>7. ASSUME NEW k \in Keys, RerunNode(k) PROVE RecordFits(x, y)'
  <2> DEFINE targets == {k} \cup Lineage(k)
  <2>1. /\ out' = out /\ last' = last
        /\ node'[x][y] = IF x \in targets /\ y = gen[x]
                         THEN IF node[x][y] \in Claimables THEN "cancelled" ELSE node[x][y]
                         ELSE IF x \in targets /\ y = gen[x] + 1
                         THEN IF x = k THEN "ready" ELSE "invalidated"
                         ELSE node[x][y]
    BY <1>7 DEF RerunNode
  <2>2. SuccessStays
    <3> SUFFICES ASSUME NEW b \in Attempts, att[b].state = "succeeded"
                 PROVE  att'[b].state = "succeeded"
      BY DEF SuccessStays
    <3> QED BY <1>7 DEF RerunNode
  <2>3. y = gen[x] + 1 => node[x][y] = "absent"
    BY <1>0 DEF RowFits
  <2> HIDE DEF targets
  <2>4. RecordStays(x, y)
    BY <2>1, <2>3 DEF RecordStays, Claimables
  <2> QED BY <1>0, <2>2, <2>4, RecordKept
<1>8. ASSUME NEW k \in Keys, NEW g \in Gens, AnswerGate(k, g) PROVE RecordFits(x, y)'
  <2>1. /\ out' = out /\ last' = last /\ att' = att /\ g = gen[k]
        /\ node' = [node EXCEPT ![k][g + 1] = "ready"]
    BY <1>8 DEF AnswerGate
  <2>2. node'[x][y] = IF x = k /\ y = g + 1 THEN "ready" ELSE node[x][y]
    BY <1>0, <2>1 DEF TypeOK
  <2>3. x = k /\ y = g + 1 => node[x][y] = "absent"
    BY <1>0, <2>1 DEF RowFits
  <2>4. RecordStays(x, y) /\ SuccessStays
    BY <2>1, <2>2, <2>3 DEF RecordStays, SuccessStays
  <2> QED BY <1>0, <2>4, RecordKept
<1>9. ASSUME NEW a \in Attempts, RecoverGroup(a) PROVE RecordFits(x, y)'
  <2>1. CASE IsCurrent(a) /\ CommitSucceeded(a)
    BY <2>1, CommitRecords
  <2>2. CASE UNCHANGED rows
    BY <1>1, <2>2
  <2> QED BY <1>9, <2>1, <2>2 DEF RecoverGroup
<1>10. CASE ResumeRun \/ Open \/ Crash \/ UNCHANGED vars
  BY <1>1, <1>10 DEF ResumeRun, Open, Crash, vars, rows
<1>11. CASE RecoverInterrupt \/ Close
  BY <1>5, <1>11 DEF RecoverInterrupt, Close
<1> QED BY <1>2, <1>3, <1>4, <1>6, <1>7, <1>8, <1>9, <1>10, <1>11, NextCases

(* Workers: a success was answered as one when its group was complete. *)
LEMMA StepWorks ==
  ASSUME RecordInv, TypeOK', [Next]_vars, NEW b \in Attempts
  PROVE  WorkFits(b)'
<1>0. TypeOK /\ WorkFits(b)
  BY DEF RecordInv, HistoryInv, IInv
<1>1. ASSUME att' = att, UNCHANGED <<work, prep, said>>, owner' = owner \/ work[b] = "none"
      PROVE  WorkFits(b)'
  BY <1>0, <1>1 DEF WorkFits
<1>2. ASSUME NEW from, NEW to \in AttemptStates \ {"absent", "succeeded"},
             att' = Retire(from, to), "absent" \notin from, said' = said,
             (UNCHANGED <<work, prep, owner>>) \/ (work'[b] = "none" /\ prep'[b] \in {"none", prep[b]})
      PROVE  WorkFits(b)'
  <2>1. /\ att'[b].key = att[b].key
        /\ att'[b].state = IF att[b].state \in from THEN to ELSE att[b].state
    BY <1>0, <1>2, RetiredStates
  <2> QED BY <1>0, <1>2, <2>1 DEF WorkFits
<1>3. ASSUME NEW k \in Keys, NEW a \in Attempts, Claim(k, a) PROVE WorkFits(b)'
  <2>1. /\ att[a].state = "absent" /\ owner = "up" /\ UNCHANGED <<prep, said, owner>>
        /\ att' = [att EXCEPT ![a] = [state |-> "running", key |-> k, gen |-> gen[k],
                                      inputs |-> Envelope(k).inputs,
                                      answer |-> Envelope(k).answer]]
        /\ work' = [work EXCEPT ![a] = "exec"]
    BY <1>3 DEF Claim, Claimable
  <2>2. /\ b = a => att'[b].state = "running" /\ work'[b] = "exec" /\ prep[b] = "none"
        /\ b # a => att'[b] = att[b] /\ work'[b] = work[b]
    BY <1>0, <2>1 DEF TypeOK, WorkFits
  <2> QED BY <1>0, <2>1, <2>2 DEF WorkFits
<1>4. ASSUME NEW a \in Attempts, Worker(a) PROVE WorkFits(b)'
  <2>1. ASSUME NEW o \in {"ok", "bad", "ask"}, ExecutorSettles(a, o) PROVE WorkFits(b)'
    <3>1. /\ owner' = owner /\ owner = "up" /\ att' = att /\ prep' = prep /\ work[a] = "exec"
          /\ att[a].state = "running"
          /\ b = a => work'[b] = "settled"
          /\ b # a => work'[b] = work[b] /\ said'[b] = said[b]
      BY <1>0, <2>1 DEF ExecutorSettles, IsCurrent, rows, TypeOK
    <3> QED BY <1>0, <3>1 DEF WorkFits
  <2>2. ASSUME NEW p \in {"some", "all"}, Seal(a, p) PROVE WorkFits(b)'
    <3>1. /\ UNCHANGED <<owner, att, work, said>> /\ work[a] = "settled"
          /\ att[a].state = "running"
          /\ b # a => prep'[b] = prep[b]
          /\ b = a => prep'[b] = p
          /\ p = "all" => said[a] = "ok" \/ att[a].key \in EvidenceKeys
      BY <1>0, <2>2 DEF Seal, IsCurrent, rows, TypeOK
    <3> QED BY <1>0, <3>1 DEF WorkFits
  <2>3. CASE WorkerCommits(a)
    <3>1. /\ att' = [att EXCEPT ![a].state = "succeeded"] /\ prep' = [prep EXCEPT ![a] = "none"]
          /\ work' = [work EXCEPT ![a] = "none"] /\ UNCHANGED <<said, owner>> /\ said[a] = "ok"
      BY <2>3 DEF WorkerCommits, CommitSucceeded
    <3>2. /\ att'[b].key = att[b].key
          /\ b = a => att'[b].state = "succeeded" /\ prep'[b] = "none" /\ work'[b] = "none"
          /\ b # a => att'[b].state = att[b].state /\ prep'[b] = prep[b] /\ work'[b] = work[b]
      BY <1>0, <3>1 DEF TypeOK
    <3> QED BY <1>0, <3>1, <3>2 DEF WorkFits
  <2>4. CASE WorkerCommitsEvidence(a)
    <3>1. /\ UNCHANGED <<att, said, owner>> /\ att[a].state = "running" /\ owner = "up"
          /\ b = a => prep'[b] = "none" /\ work'[b] = "noted"
          /\ b # a => prep'[b] = prep[b] /\ work'[b] = work[b]
      BY <1>0, <2>4 DEF WorkerCommitsEvidence, IsCurrent, TypeOK
    <3> QED BY <1>0, <3>1 DEF WorkFits
  <2>5. CASE WorkerLeaves(a) \/ WorkerSuspends(a) \/ \E r \in BOOLEAN : WorkerFails(a, r)
    <3>1. /\ owner' = owner
          /\ \/ att' = att /\ att[a].state # "succeeded" /\ att[a].state # "absent"
             \/ att' = [att EXCEPT ![a].state = "suspended"]
             \/ att' = [att EXCEPT ![a].state = "failed"]
          /\ prep' = [prep EXCEPT ![a] = "none"] /\ work' = [work EXCEPT ![a] = "none"]
          /\ said' = [said EXCEPT ![a] = "nothing"]
      <4>1. WorkerLeaves(a) => att[a].state # "succeeded" /\ att[a].state # "absent"
        BY DEF WorkerLeaves, RecordInv, WorkFits
      <4> QED BY <2>5, <4>1 DEF WorkerLeaves, WorkerSuspends, WorkerFails, rows
    <3>2. /\ b = a => /\ att'[b].state \notin {"succeeded", "absent"} /\ prep'[b] = "none"
                      /\ work'[b] = "none"
          /\ b # a => att'[b] = att[b] /\ prep'[b] = prep[b] /\ work'[b] = work[b]
                      /\ said'[b] = said[b]
      BY <1>0, <3>1 DEF TypeOK
    <3> QED BY <1>0, <3>1, <3>2 DEF WorkFits
  <2> QED BY <1>4, <2>1, <2>2, <2>3, <2>4, <2>5 DEF Worker
<1>5. CASE CancelRun \/ PauseRun
  <2>1. CASE CancelRun
    BY <1>2, <2>1 DEF CancelRun, AttemptStates
  <2>2. CASE PauseRun
    BY <1>2, <2>2 DEF PauseRun, AttemptStates
  <2> QED BY <1>5, <2>1, <2>2
<1>6. CASE RecoverInterrupt \/ Close
  <2>1. /\ att' = Retire({"running"}, "interrupted") /\ said' = said
        /\ work'[b] = "none" /\ prep'[b] \in {"none", prep[b]}
    <3>1. RecoverInterrupt => owner = "recovering" /\ work' = work /\ prep' = prep
      BY DEF RecoverInterrupt
    <3>2. RecoverInterrupt => work[b] = "none"
      BY <1>0, <3>1 DEF WorkFits
    <3> QED BY <1>6, <3>1, <3>2 DEF RecoverInterrupt, Close, InterruptRunning
  <2> QED BY <1>2, <2>1 DEF AttemptStates
<1>7. ASSUME NEW k \in Keys, RerunNode(k) PROVE WorkFits(b)'
  <2>1. att[b] \in AttemptRow
    BY <1>0 DEF TypeOK, AttemptRow
  <2>2. /\ UNCHANGED <<work, prep, said, owner>>
        /\ att'[b] = att[b] \/ /\ att[b].state = "running"
                               /\ att'[b] = [att[b] EXCEPT !.state = "cancelled"]
    BY <1>7 DEF RerunNode
  <2>3. att'[b].key = att[b].key
        /\ (att'[b].state = att[b].state \/ (att[b].state = "running" /\ att'[b].state = "cancelled"))
    BY <2>1, <2>2 DEF AttemptRow
  <2> QED BY <1>0, <2>2, <2>3 DEF WorkFits
<1>8. ASSUME NEW k \in Keys, RetryFailedNode(k) \/ \E g \in Gens : AnswerGate(k, g)
      PROVE  WorkFits(b)'
  BY <1>1, <1>8 DEF RetryFailedNode, AnswerGate
<1>9. ASSUME NEW a \in Attempts, RecoverGroup(a) PROVE WorkFits(b)'
  <2>0. owner = "recovering" /\ UNCHANGED <<work, said>>
    BY <1>9 DEF RecoverGroup
  <2>1. work[b] = "none"
    BY <1>0, <2>0 DEF WorkFits
  <2>2. CASE IsCurrent(a) /\ CompleteGroup(a) /\ CommitSucceeded(a)
    <3>1. /\ att' = [att EXCEPT ![a].state = "succeeded"] /\ prep' = [prep EXCEPT ![a] = "none"]
          /\ prep[a] = "all"
      BY <2>2 DEF CommitSucceeded, CompleteGroup
    <3>2. /\ att'[b].key = att[b].key
          /\ b = a => att'[b].state = "succeeded" /\ prep'[b] = "none" /\ prep[b] = "all"
          /\ b # a => att'[b].state = att[b].state /\ prep'[b] = prep[b]
      BY <1>0, <3>1 DEF TypeOK
    <3> QED BY <1>0, <2>0, <2>1, <3>2 DEF WorkFits
  <2>3. CASE att' = att /\ prep'[b] \in {"none", prep[b]}
    BY <1>0, <2>0, <2>1, <2>3 DEF WorkFits
  <2>4. CASE UNCHANGED <<rows, prep>> \/ (UNCHANGED rows /\ prep' = [prep EXCEPT ![a] = "none"])
    <3>1. prep'[b] \in {"none", prep[b]}
      BY <1>0, <2>4 DEF TypeOK
    <3> QED BY <2>3, <2>4, <3>1 DEF rows
  <2> QED BY <1>9, <2>2, <2>4 DEF RecoverGroup
<1>10. CASE ResumeRun \/ UNCHANGED vars
  BY <1>1, <1>10 DEF ResumeRun, vars, rows
<1>11. CASE Open
  <2>1. owner = "down" /\ UNCHANGED <<att, work, prep, said>>
    BY <1>11 DEF Open, rows
  <2> QED BY <1>0, <2>1 DEF WorkFits
<1>12. CASE Crash
  <2>1. UNCHANGED <<att, prep, said>> /\ work'[b] = "none"
    BY <1>12 DEF Crash, rows
  <2> QED BY <1>0, <2>1 DEF WorkFits
<1> QED BY <1>3, <1>4, <1>5, <1>6, <1>7, <1>8, <1>9, <1>10, <1>11, <1>12, NextCases

LEMMA RecordInvariant == Spec => []RecordInv
<1>1. ASSUME Init PROVE RecordInv
  <2>1. /\ \A a \in Attempts : att[a].state = "absent" /\ work[a] = "none" /\ prep[a] = "none"
        /\ \A k \in Keys, g \in Gens : out[k][g] = NoAttempt /\ node[k][g] # "succeeded"
    BY <1>1 DEF Init, AbsentAttempt
  <2> QED BY <1>1, <2>1, InitHistory DEF RecordInv, WorkFits, RecordFits
<1>2. ASSUME RecordInv, [Next]_vars PROVE RecordInv'
  <2>1. HistoryInv' /\ TypeOK'
    BY <1>2, NextHistory DEF RecordInv, HistoryInv, IInv
  <2> QED BY <1>2, <2>1, StepRecords, StepWorks DEF RecordInv
<1> QED BY <1>1, <1>2, PTL DEF Spec

LEMMA RecordsAreGenuine == RecordInv => ResultsAreGenuine
  BY DEF RecordInv, WorkFits, RecordFits, ResultsAreGenuine

(* The rows tell one history: whatever runs or has succeeded in a live     *)
(* generation mounted just what the live generations of its upstreams      *)
(* sealed, or, when it continues an answered question, the envelope in     *)
(* which the question was asked; whoever waits has an open question; and,  *)
(* where a failure seals no declared output, what is recorded of a success *)
(* was sealed by the attempt that succeeded and answered so.               *)
THEOREM HistoryConsistent == Spec => []HistoryIsConsistent
<1>1. ASSUME RecordInv PROVE HistoryIsConsistent
  <2>0. HistoryInv
    BY <1>1 DEF RecordInv
  <2>1. ASSUME NEW k \in Keys, State(k) \in {"running", "succeeded"}
        PROVE  IF att[last[k][gen[k]]].answer = NoAttempt
               THEN /\ UpstreamsSucceeded(node, k)
                    /\ att[last[k][gen[k]]].inputs = SealedInputs(k)
               ELSE att[last[k][gen[k]]].inputs = att[att[last[k][gen[k]]].answer].inputs
    <3> DEFINE a == last[k][gen[k]]
    <3>1. gen[k] \in Gens /\ RowFits(k, gen[k]) /\ a \in Attempts \cup {NoAttempt}
      BY <2>0 DEF HistoryInv, IInv, TypeOK
    <3>2. a # NoAttempt /\ att[a].state # "absent" /\ att[a].key = k /\ att[a].gen = gen[k]
      BY <2>1, <3>1 DEF RowFits, State
    <3>3. AttemptFits(a) /\ EnvelopeFits(a)
      BY <2>0, <3>1, <3>2 DEF HistoryInv
    <3> QED BY <3>2, <3>3 DEF AttemptFits, EnvelopeFits
  <2>2. EnvelopeIsCurrent
    BY <2>1 DEF EnvelopeIsCurrent
  <2>3. WaitingHasGate
    BY <2>0 DEF WaitingHasGate, HistoryInv, GatesFit
  <2> QED BY <1>1, <2>2, <2>3, RecordsAreGenuine DEF HistoryIsConsistent
<1> QED BY <1>1, RecordInvariant, PTL

-----------------------------------------------------------------------------
(* What becomes of a run.                                                  *)

Active == {"running", "waiting", "succeeded", "failed"}
Locked == {"blocked", "invalidated"}

-----------------------------------------------------------------------------
(* The inductive invariant.                                                *)

(* A live generation is there; it goes on only when its upstreams have     *)
(* succeeded, and it is not locked when they have.                         *)
LiveFits(k) ==
    /\ State(k) # "absent"
    /\ State(k) = "cancelled" => cancelRequested
    /\ State(k) \in Active => UpstreamsSucceeded(node, k)
    /\ State(k) \in Locked => runState = "published" \/ ~UpstreamsSucceeded(node, k)

PublishFits == State(FinalKey) = "succeeded" <=> runState = "published"

(* Where nobody may ask, no attempt continues an answer. *)
NoQuestions ==
    AskKeys = {} =>
    /\ \A a \in Attempts : said[a] # "ask" /\ att[a].answer = NoAttempt
    /\ \A k \in Keys, g \in Gens : parent[k][g] = NoAttempt
    /\ gates = {}

ProgressInv ==
    /\ HistoryInv /\ CInv /\ NoQuestions
    /\ \A k \in Keys : LiveFits(k)
    /\ PublishFits

-----------------------------------------------------------------------------
(* What a step does to the live generation of a key.                       *)

(* It succeeds no more and no less, and is neither locked nor begun anew. *)
Calm(k) ==
    LET s == State(k)
        t == node'[k][gen'[k]]
    IN  /\ s = "succeeded" <=> t = "succeeded"
        /\ s = "absent" <=> t = "absent"
        /\ t = "cancelled" => s = "cancelled" \/ cancelRequested'
        /\ t \in Active => s \in Active \/ UpstreamsSucceeded(node, k)
        /\ t \in Locked => s \in Locked

LEMMA CalmKeeps ==
  ASSUME \A k \in Keys : LiveFits(k), PublishFits, cancelRequested => cancelRequested',
         \A k \in Keys : Calm(k), runState' = "published" <=> runState = "published"
  PROVE  (\A k \in Keys : LiveFits(k)') /\ PublishFits'
<1>1. ASSUME NEW k \in Keys PROVE UpstreamsSucceeded(node, k)' <=> UpstreamsSucceeded(node, k)
  BY KeysAssumption DEF UpstreamsSucceeded, Calm, State
<1>2. ASSUME NEW k \in Keys PROVE LiveFits(k)'
  BY <1>1 DEF LiveFits, Calm, State
<1>3. PublishFits'
  BY KeysAssumption DEF PublishFits, Calm, State
<1> QED BY <1>2, <1>3

(* What unlocking does to the live generations. *)
LEMMA UnlockLive ==
  ASSUME NEW nd \in NodeRows, gen \in [Keys -> Gens], NEW k \in Keys
  PROVE  /\ Unlock(nd)[k][gen[k]] = IF nd[k][gen[k]] \in Locked /\ UpstreamsSucceeded(nd, k)
                                    THEN "ready" ELSE nd[k][gen[k]]
         /\ UpstreamsSucceeded(Unlock(nd), k) <=> UpstreamsSucceeded(nd, k)
<1>1. ASSUME NEW x \in Keys
      PROVE  Unlock(nd)[x][gen[x]] = IF nd[x][gen[x]] \in Locked /\ UpstreamsSucceeded(nd, x)
                                     THEN "ready" ELSE nd[x][gen[x]]
  <2>1. nd[x] \in [Gens -> NodeStates] /\ gen[x] \in Gens
    BY DEF NodeRows
  <2>2. Unlock(nd)[x] = IF nd[x][gen[x]] \in {"blocked", "invalidated"} /\ UpstreamsSucceeded(nd, x)
                        THEN [nd[x] EXCEPT ![gen[x]] = "ready"]
                        ELSE nd[x]
    BY DEF Unlock
  <2> QED BY <2>1, <2>2 DEF Locked
<1>2. \A x \in Keys : Unlock(nd)[x][gen[x]] = "succeeded" <=> nd[x][gen[x]] = "succeeded"
  BY <1>1 DEF Locked
<1>3. UpstreamsSucceeded(Unlock(nd), k) <=> UpstreamsSucceeded(nd, k)
  BY <1>2, KeysAssumption DEF UpstreamsSucceeded
<1> QED BY <1>1, <1>3

-----------------------------------------------------------------------------
(* After publication. *)

(* A published run is done: the publish node comes last. *)
LEMMA PublishedIsDone ==
  ASSUME ProgressInv, PublishIsLast, runState = "published"
  PROVE  \A k \in Keys : State(k) = "succeeded"
<1> DEFINE S == {k \in Keys : State(k) = "succeeded"}
<1>1. FinalKey \in S
  BY KeysAssumption DEF ProgressInv, PublishFits
<1>2. \A k \in S : Upstream[k] \subseteq S
  BY KeysAssumption DEF ProgressInv, LiveFits, Active, UpstreamsSucceeded, State
<1>3. S \in SUBSET Keys
  OBVIOUS
<1>4. S = Keys
  <2> HIDE DEF S
  <2> QED BY <1>1, <1>2, <1>3 DEF PublishIsLast
<1> QED BY <1>4

(* And nothing opens it again. *)
LEMMA PublishedStays ==
  ASSUME ProgressInv, PublishIsLast, runState = "published", [Next]_vars
  PROVE  /\ runState' = "published" /\ cancelRequested' = cancelRequested
         /\ \A k \in Keys : node'[k][gen'[k]] = "succeeded"
<1> DEFINE Stays == /\ runState' = "published" /\ cancelRequested' = cancelRequested
                    /\ \A k \in Keys : node'[k][gen'[k]] = "succeeded"
<1>0. TypeOK /\ HistoryInv /\ ~cancelRequested
  BY DEF ProgressInv, CInv, IInv
<1>1. \A k \in Keys : State(k) = "succeeded"
  BY PublishedIsDone
<1>2. \A a \in Attempts : ~IsCurrent(a)
  <2> SUFFICES ASSUME NEW a \in Attempts, IsCurrent(a) PROVE FALSE
    OBVIOUS
  <2>1. att[a].key \in Keys /\ att[a].gen \in Gens /\ node[att[a].key][att[a].gen] = "running"
    BY <1>0 DEF IsCurrent, TypeOK
  <2>2. att[a].gen = gen[att[a].key]
    BY <1>0, <2>1, CurrentIsLast
  <2> QED BY <1>1, <2>1, <2>2 DEF State
<1>3. Running = {}
  BY <1>0, <1>1 DEF HistoryInv, IInv, RunningIsLeased, TypeOK, Running
<1>4. UNCHANGED <<runState, cancelRequested, gen, node>> => Stays
  BY <1>1 DEF State
<1>5. \A k \in Keys, a \in Attempts : ~Claim(k, a)
  BY DEF Claim, Claimable, LiveStates
<1>6. ASSUME NEW a \in Attempts, Worker(a) PROVE Stays
  BY <1>2, <1>4, <1>6 DEF Worker, ExecutorSettles, Seal, WorkerCommits,
     WorkerCommitsEvidence, WorkerFails, WorkerSuspends, WorkerLeaves, rows
<1>7. /\ ~CancelRun /\ ~PauseRun /\ ~ResumeRun
      /\ \A k \in Keys : ~RetryFailedNode(k) /\ ~RerunNode(k)
  BY DEF CancelRun, PauseRun, ResumeRun, RetryFailedNode, RerunNode, LiveStates
<1>8. \A k \in Keys, g \in Gens : ~AnswerGate(k, g)
  BY <1>1 DEF AnswerGate, State
<1>9. CASE Open \/ Crash
  BY <1>4, <1>9 DEF Open, Crash, rows
<1>10. CASE RecoverInterrupt \/ Close
  <2>1. InterruptRunning
    BY <1>10 DEF RecoverInterrupt, Close
  <2>2. runState' = "published" /\ cancelRequested' = cancelRequested /\ gen' = gen
    BY <1>3, <2>1 DEF InterruptRunning
  <2>3. ASSUME NEW k \in Keys PROVE node'[k][gen[k]] = "succeeded"
    <3>1. gen[k] \in Gens
      BY <1>0 DEF TypeOK
    <3> QED BY <1>1, <1>3, <2>1, <3>1 DEF InterruptRunning, InterruptedNodes, State
  <2> QED BY <2>2, <2>3
<1>11. ASSUME NEW a \in Attempts, RecoverGroup(a) PROVE Stays
  BY <1>2, <1>4, <1>11 DEF RecoverGroup, rows
<1>12. CASE UNCHANGED vars
  BY <1>4, <1>12 DEF vars
<1>13. CASE Next
  BY <1>5, <1>6, <1>7, <1>8, <1>9, <1>10, <1>11, <1>13, NextCases
<1> QED BY <1>12, <1>13

-----------------------------------------------------------------------------
(* Without questions there is nothing to continue. *)
LEMMA NoQuestionsKept ==
  ASSUME ProgressInv, Next
  PROVE  NoQuestions'
<1> SUFFICES ASSUME AskKeys = {}
             PROVE  /\ \A a \in Attempts : said'[a] # "ask" /\ att'[a].answer = NoAttempt
                    /\ \A k \in Keys, g \in Gens : parent'[k][g] = NoAttempt
                    /\ gates' = {}
  BY DEF NoQuestions
<1>0. /\ TypeOK /\ gates = {}
      /\ \A a \in Attempts : said[a] # "ask" /\ att[a].answer = NoAttempt /\ att[a] \in AttemptRow
      /\ \A k \in Keys, g \in Gens : parent[k][g] = NoAttempt
  BY DEF ProgressInv, NoQuestions, CInv, IInv, TypeOK, AttemptRow
<1> DEFINE Kept == /\ \A a \in Attempts : said'[a] # "ask" /\ att'[a].answer = NoAttempt
                   /\ parent' = parent /\ gates' = gates
<1>1. ASSUME NEW a \in Attempts, NEW s, att' = [att EXCEPT ![a].state = s]
      PROVE  \A b \in Attempts : att'[b].answer = NoAttempt
  BY <1>0, <1>1 DEF TypeOK, AttemptRow
<1>2. ASSUME NEW from, NEW to, att' = Retire(from, to)
      PROVE  \A b \in Attempts : att'[b].answer = NoAttempt
  BY <1>0, <1>2 DEF Retire, AttemptRow
<1>3. ASSUME NEW k \in Keys, NEW a \in Attempts, Claim(k, a) PROVE Kept
  <2>1. gen[k] \in Gens /\ last[k][gen[k]] \in Attempts \cup {NoAttempt}
    BY <1>0 DEF TypeOK
  <2>2. Envelope(k).answer = NoAttempt
    BY <1>0, <2>1 DEF Envelope
  <2> DEFINE e == Envelope(k)
  <2>3. att' = [att EXCEPT ![a] = [state |-> "running", key |-> k, gen |-> gen[k],
                                  inputs |-> e.inputs, answer |-> e.answer]]
    BY <1>3 DEF Claim
  <2>4. e.answer = NoAttempt
    BY <2>2
  <2> HIDE DEF e
  <2>5. \A b \in Attempts : att'[b].answer = NoAttempt
    BY <1>0, <2>3, <2>4 DEF TypeOK
  <2> QED BY <1>0, <1>3, <2>5 DEF Claim
<1>4. ASSUME NEW a \in Attempts, Worker(a) PROVE Kept
  <2>1. ASSUME NEW o \in {"ok", "bad", "ask"}, ExecutorSettles(a, o) PROVE Kept
    BY <1>0, <2>1 DEF ExecutorSettles, rows, TypeOK
  <2>2. CASE (\E p \in {"some", "all"} : Seal(a, p)) \/ WorkerCommitsEvidence(a)
    BY <1>0, <2>2 DEF Seal, WorkerCommitsEvidence, rows
  <2>3. CASE WorkerCommits(a)
    BY <1>0, <1>1, <2>3 DEF WorkerCommits, CommitSucceeded
  <2>4. ASSUME NEW r \in BOOLEAN, WorkerFails(a, r) PROVE Kept
    <3>1. \A b \in Attempts : said'[b] # "ask"
      BY <1>0, <2>4 DEF WorkerFails, TypeOK
    <3>2. \A b \in Attempts : att'[b].answer = NoAttempt
      BY <1>1, <2>4 DEF WorkerFails
    <3> QED BY <2>4, <3>1, <3>2 DEF WorkerFails
  <2>5. CASE WorkerLeaves(a)
    BY <1>0, <2>5 DEF WorkerLeaves, rows, TypeOK
  <2>6. ~WorkerSuspends(a)
    BY <1>0 DEF WorkerSuspends
  <2> QED BY <1>4, <2>1, <2>2, <2>3, <2>4, <2>5, <2>6 DEF Worker
<1>5. CASE CancelRun \/ PauseRun \/ ResumeRun
  BY <1>0, <1>2, <1>5 DEF CancelRun, PauseRun, ResumeRun, rows
<1>6. ASSUME NEW k \in Keys, RetryFailedNode(k) PROVE Kept
  BY <1>0, <1>6 DEF RetryFailedNode
<1>7. ASSUME NEW k \in Keys, RerunNode(k)
      PROVE  /\ \A a \in Attempts : said'[a] # "ask" /\ att'[a].answer = NoAttempt
             /\ \A x \in Keys, g \in Gens : parent'[x][g] = NoAttempt
             /\ gates' = {}
  <2>1. \A b \in Attempts : att'[b] = att[b] \/ att'[b] = [att[b] EXCEPT !.state = "cancelled"]
    BY <1>7 DEF RerunNode
  <2>2. \A b \in Attempts : att'[b].answer = NoAttempt
    BY <1>0, <2>1 DEF AttemptRow
  <2>3. \A x \in Keys, g \in Gens : parent'[x][g] \in {parent[x][g], parent[x][gen[x]]}
    BY <1>7 DEF RerunNode
  <2>4. \A x \in Keys : gen[x] \in Gens
    BY <1>0 DEF TypeOK
  <2> QED BY <1>0, <1>7, <2>2, <2>3, <2>4 DEF RerunNode, Withdraw
<1>8. \A k \in Keys, g \in Gens : ~AnswerGate(k, g)
  BY <1>0 DEF AnswerGate
<1>9. CASE Open \/ RecoverInterrupt \/ Close \/ Crash
  BY <1>0, <1>2, <1>9 DEF Open, RecoverInterrupt, Close, Crash, InterruptRunning, rows
<1>10. ASSUME NEW a \in Attempts, RecoverGroup(a) PROVE Kept
  BY <1>0, <1>1, <1>10 DEF RecoverGroup, CommitSucceeded, rows
<1> QED BY <1>0, <1>3, <1>4, <1>5, <1>6, <1>7, <1>8, <1>9, <1>10, NextCases

-----------------------------------------------------------------------------
(* Steps that neither end in success nor rerun. *)
LEMMA ClaimCalm ==
  ASSUME ProgressInv, NEW k \in Keys, NEW a \in Attempts, Claim(k, a), NEW x \in Keys
  PROVE  Calm(x) /\ runState # "published" /\ runState' # "published"
<1>1. gen[x] \in Gens /\ gen[k] \in Gens
  BY DEF ProgressInv, CInv, IInv, TypeOK
<1>2. node'[x][gen[x]] = IF x = k THEN "running" ELSE node[x][gen[x]]
  BY <1>1 DEF Claim, ProgressInv, CInv, IInv, TypeOK
<1>3. State(k) = "ready" /\ UpstreamsSucceeded(node, k) /\ gen' = gen
  BY DEF Claim, Claimable
<1>4. Calm(x)
  BY <1>2, <1>3 DEF Calm, State, Active, Locked
<1> QED BY <1>4 DEF Claim, Claimable, LiveStates

LEMMA FailCalm ==
  ASSUME ProgressInv, NEW a \in Attempts, NEW r \in BOOLEAN, WorkerFails(a, r), NEW x \in Keys
  PROVE  Calm(x) /\ (runState # "published" => runState' # "published")
<1> DEFINE k == att[a].key
           g == att[a].gen
           nd == [node EXCEPT ![k][g] = "failed"]
<1>0. /\ TypeOK /\ k \in Keys /\ g \in Gens /\ node[k][g] = "running" /\ gen[x] \in Gens
      /\ gen \in [Keys -> Gens]
  BY DEF ProgressInv, CInv, IInv, TypeOK, WorkerFails, IsCurrent
<1>1. g = gen[k]
  BY <1>0, CurrentIsLast DEF ProgressInv
<1>2. /\ nd \in NodeRows
      /\ nd[x][gen[x]] = IF x = k THEN "failed" ELSE node[x][gen[x]]
  <2>1. node \in NodeRows /\ "failed" \in NodeStates
    BY <1>0 DEF TypeOK, NodeRows, NodeStates
  <2> HIDE DEF k, g
  <2> QED BY <1>0, <1>1, <2>1 DEF NodeRows
<1>3. /\ gen' = gen
      /\ node' = nd \/ node' = Unlock(nd) \/ node' = [nd EXCEPT ![k][g] = "ready"]
      /\ runState # "published" => runState' # "published"
  BY DEF WorkerFails
<1>4. \/ node'[x][gen[x]] = nd[x][gen[x]]
      \/ nd[x][gen[x]] \in Locked /\ node'[x][gen[x]] = "ready"
      \/ x = k /\ node'[x][gen[x]] = "ready"
  <2>1. CASE node' = [nd EXCEPT ![k][g] = "ready"]
    <3> HIDE DEF k, g, nd
    <3> QED BY <1>0, <1>1, <1>2, <2>1 DEF NodeRows
  <2>2. CASE node' = nd \/ node' = Unlock(nd)
    <3> HIDE DEF k, g, nd
    <3> QED BY <1>0, <1>2, <2>2, UnlockLive
  <2> QED BY <1>3, <2>1, <2>2
<1>5. Calm(x)
  <2> HIDE DEF k, g, nd
  <2> QED BY <1>0, <1>1, <1>2, <1>3, <1>4 DEF Calm, State, Active, Locked
<1> QED BY <1>3, <1>5

LEMMA SuspendCalm ==
  ASSUME ProgressInv, NEW a \in Attempts, WorkerSuspends(a), NEW x \in Keys
  PROVE  Calm(x) /\ runState' # "published"
<1> DEFINE k == att[a].key
           g == att[a].gen
<1>0. TypeOK /\ k \in Keys /\ g \in Gens /\ node[k][g] = "running" /\ gen[x] \in Gens
  BY DEF ProgressInv, CInv, IInv, TypeOK, WorkerSuspends, IsCurrent
<1>1. g = gen[k]
  BY <1>0, CurrentIsLast DEF ProgressInv
<1>2. node' = [node EXCEPT ![k][g] = "waiting"] /\ gen' = gen /\ runState' = "waiting_for_operator"
  BY DEF WorkerSuspends
<1> HIDE DEF k, g
<1>3. node'[x][gen[x]] = IF x = k THEN "waiting" ELSE node[x][gen[x]]
  BY <1>0, <1>1, <1>2 DEF TypeOK
<1> QED BY <1>0, <1>1, <1>2, <1>3 DEF Calm, State, Active, Locked

LEMMA StopCalm ==
  ASSUME ProgressInv, CancelRun \/ PauseRun \/ ResumeRun \/ InterruptRunning, NEW x \in Keys
  PROVE  Calm(x) /\ (runState # "published" => runState' # "published")
<1>0. gen[x] \in Gens /\ TypeOK
  BY DEF ProgressInv, CInv, IInv, TypeOK
<1>1. CASE CancelRun
  BY <1>0, <1>1 DEF CancelRun, Release, Claimables, Calm, State, Active, Locked
<1>2. CASE PauseRun
  BY <1>0, <1>2 DEF PauseRun, Release, Calm, State, Active, Locked
<1>3. CASE ResumeRun
  BY <1>3 DEF ResumeRun, rows, Calm, State
<1>4. CASE InterruptRunning
  <2>1. RowFits(x, gen[x]) /\ NoAttempt \notin Running
    BY <1>0 DEF ProgressInv, HistoryInv, Running, Attempts, NoAttempt
  <2>2. cur[x][gen[x]] \in Running => node[x][gen[x]] = "running"
    BY <2>1 DEF RowFits
  <2>3. node'[x][gen[x]] = IF cur[x][gen[x]] \in Running THEN "failed" ELSE node[x][gen[x]]
    BY <1>0, <1>4 DEF InterruptRunning, InterruptedNodes
  <2>4. gen' = gen /\ (runState # "published" => runState' # "published")
    BY <1>4 DEF InterruptRunning
  <2> QED BY <2>2, <2>3, <2>4 DEF Calm, State, Active, Locked
<1> QED BY <1>1, <1>2, <1>3, <1>4

LEMMA RequeueCalm ==
  ASSUME ProgressInv, NEW k \in Keys, NEW x \in Keys,
         RetryFailedNode(k) \/ \E g \in Gens : AnswerGate(k, g)
  PROVE  Calm(x) /\ runState' # "published"
<1>0. gen[x] \in Gens /\ gen[k] \in Gens /\ TypeOK
  BY DEF ProgressInv, CInv, IInv, TypeOK
<1>1. CASE RetryFailedNode(k)
  <2>1. node'[x][gen[x]] = IF x = k THEN "ready" ELSE node[x][gen[x]]
    BY <1>0, <1>1 DEF RetryFailedNode, TypeOK
  <2> QED BY <1>1, <2>1 DEF RetryFailedNode, Calm, State, Active, Locked
<1>2. ASSUME NEW g \in Gens, AnswerGate(k, g) PROVE Calm(x) /\ runState' # "published"
  <2>1. g + 1 \in Gens /\ g = gen[k] /\ State(k) = "waiting" /\ runState' = "queued"
    BY <1>2, BoundsAssumption DEF AnswerGate, Gens, State
  <2>2. gen'[x] = IF x = k THEN g + 1 ELSE gen[x]
    BY <1>0, <1>2 DEF AnswerGate, TypeOK
  <2>3. node'[x][gen'[x]] = IF x = k THEN "ready" ELSE node[x][gen[x]]
    BY <1>0, <1>2, <2>1, <2>2 DEF AnswerGate, TypeOK
  <2> QED BY <2>1, <2>3 DEF Calm, State, Active, Locked
<1> QED BY <1>1, <1>2

-----------------------------------------------------------------------------
(* A success unlocks whoever it completes. *)
LEMMA CommitProgress ==
  ASSUME ProgressInv, runState # "published", NEW a \in Attempts, IsCurrent(a), CommitSucceeded(a)
  PROVE  (\A x \in Keys : LiveFits(x)') /\ PublishFits'
<1> DEFINE k == att[a].key
           g == att[a].gen
           nd == [node EXCEPT ![k][g] = "succeeded"]
<1>0. /\ TypeOK /\ k \in Keys /\ g \in Gens /\ node[k][g] = "running" /\ ~cancelRequested
      /\ gen \in [Keys -> Gens]
  BY DEF ProgressInv, CInv, IInv, TypeOK, IsCurrent
<1>1. g = gen[k] /\ State(k) = "running"
  BY <1>0, CurrentIsLast DEF ProgressInv, State
<1>2. /\ nd \in NodeRows
      /\ \A x \in Keys : nd[x][gen[x]] = IF x = k THEN "succeeded" ELSE State(x)
  <2> HIDE DEF k, g
  <2> QED BY <1>0, <1>1, RowUpdate DEF TypeOK, NodeRows, NodeStates, State
<1>3. /\ gen' = gen /\ cancelRequested' = cancelRequested
      /\ \/ k = FinalKey /\ node' = nd /\ runState' = "published"
         \/ k # FinalKey /\ node' = Unlock(nd) /\ runState' = RecomputedRunState(Unlock(nd))
  BY DEF CommitSucceeded
<1>4. /\ FinalKey \in Keys
      /\ \A x \in Keys : LiveFits(x) /\ Upstream[x] \subseteq Keys
      /\ State(FinalKey) # "succeeded"
  BY KeysAssumption DEF ProgressInv, PublishFits
<1> HIDE DEF k, g, nd
<1>5. ASSUME NEW x \in Keys PROVE UpstreamsSucceeded(node, x) => UpstreamsSucceeded(nd, x)
  BY <1>2, <1>4 DEF UpstreamsSucceeded, State
<1>6. ASSUME NEW x \in Keys
      PROVE  /\ Unlock(nd)[x][gen[x]] = IF nd[x][gen[x]] \in Locked /\ UpstreamsSucceeded(nd, x)
                                        THEN "ready" ELSE nd[x][gen[x]]
             /\ UpstreamsSucceeded(Unlock(nd), x) <=> UpstreamsSucceeded(nd, x)
  BY <1>0, <1>2, UnlockLive
<1>7. CASE k = FinalKey
  <2>1. ASSUME NEW x \in Keys PROVE LiveFits(x)'
    <3>1. State(x)' = IF x = k THEN "succeeded" ELSE State(x)
      BY <1>2, <1>3, <1>7 DEF State
    <3>2. UpstreamsSucceeded(node, x) => UpstreamsSucceeded(node, x)'
      BY <1>3, <1>5, <1>7 DEF UpstreamsSucceeded
    <3> QED BY <1>1, <1>3, <1>4, <1>7, <3>1, <3>2 DEF LiveFits, Active, Locked
  <2>2. PublishFits'
    BY <1>2, <1>3, <1>4, <1>7 DEF PublishFits, State
  <2> QED BY <2>1, <2>2
<1>8. CASE k # FinalKey
  <2>1. ASSUME NEW x \in Keys PROVE LiveFits(x)'
    <3>1. State(x)' = Unlock(nd)[x][gen[x]]
      BY <1>3, <1>8 DEF State
    <3>2. UpstreamsSucceeded(node, x)' <=> UpstreamsSucceeded(nd, x)
      BY <1>3, <1>6, <1>8 DEF UpstreamsSucceeded
    <3>3. CASE x = k
      BY <1>1, <1>2, <1>4, <1>5, <1>6, <3>1, <3>2, <3>3 DEF LiveFits, Active, Locked
    <3>4. CASE x # k
      BY <1>2, <1>3, <1>4, <1>5, <1>6, <3>1, <3>2, <3>4 DEF LiveFits, Active, Locked
    <3> QED BY <3>3, <3>4
  <2>2. runState' # "published"
    BY <1>3, <1>8 DEF RecomputedRunState
  <2>3. State(FinalKey)' # "succeeded"
    BY <1>2, <1>3, <1>4, <1>6, <1>8 DEF State
  <2> QED BY <2>1, <2>2, <2>3 DEF PublishFits
<1> QED BY <1>7, <1>8

(* An envelope that holds an output of u is of a node behind u. *)
LEMMA ConsumesUpstream ==
  ASSUME ProgressInv, AskKeys = {}, NEW c \in Keys, NEW u \in Keys, Consumes(c, u)
  PROVE  u \in Upstream[c]
<1>1. PICK a \in Attempts : /\ att[a].state # "absent" /\ att[a].key = c /\ att[a].gen = gen[c]
                            /\ out[u][gen[u]] \in att[a].inputs /\ out[u][gen[u]] # NoAttempt
  BY DEF Consumes
<1>2. EnvelopeFits(a) /\ att[a].answer = NoAttempt /\ TypeOK
  BY DEF ProgressInv, HistoryInv, IInv, NoQuestions
<1>3. out[u][gen[u]] \in SealedInputs(c)
  BY <1>1, <1>2 DEF EnvelopeFits
<1>4. PICK v \in Upstream[c] : out[u][gen[u]] = out[v][gen[v]]
  BY <1>3 DEF SealedInputs
<1>5. gen[u] \in Gens /\ gen[v] \in Gens /\ v \in Keys
  BY <1>2, KeysAssumption DEF TypeOK
<1>6. RowFits(u, gen[u]) /\ RowFits(v, gen[v])
  BY <1>5 DEF ProgressInv, HistoryInv
<1>7. att[out[u][gen[u]]].key = u /\ att[out[u][gen[u]]].key = v
  BY <1>1, <1>4, <1>6 DEF RowFits
<1> QED BY <1>7

(* An active node consumes what each of its upstreams sealed. *)
LEMMA ActiveConsumes ==
  ASSUME ProgressInv, AskKeys = {}, NEW c \in Keys, State(c) \in Active, NEW u \in Upstream[c]
  PROVE  Consumes(c, u)
<1> DEFINE a == last[c][gen[c]]
<1>0. /\ TypeOK /\ gen[c] \in Gens /\ u \in Keys /\ gen[u] \in Gens
      /\ a \in Attempts \cup {NoAttempt}
  BY KeysAssumption DEF ProgressInv, CInv, IInv, TypeOK
<1>1. RowFits(c, gen[c]) /\ RowFits(u, gen[u])
  BY <1>0 DEF ProgressInv, HistoryInv
<1>2. a \in Attempts /\ att[a].state # "absent" /\ att[a].key = c /\ att[a].gen = gen[c]
  BY <1>0, <1>1 DEF RowFits, State, Active
<1>3. EnvelopeFits(a) /\ att[a].answer = NoAttempt
  BY <1>2 DEF ProgressInv, HistoryInv, NoQuestions
<1>4. node[u][gen[u]] = "succeeded" /\ att[a].inputs = SealedInputs(c)
  BY <1>2, <1>3 DEF EnvelopeFits, UpstreamsSucceeded
<1>5. out[u][gen[u]] # NoAttempt
  BY <1>1, <1>4 DEF RowFits
<1>6. out[u][gen[u]] \in att[a].inputs
  BY <1>4, <1>5 DEF SealedInputs, State
<1> QED BY <1>2, <1>5, <1>6 DEF Consumes

(* Whoever is in the lineage consumes something in it. *)
LEMMA LineageConsumes ==
  ASSUME NEW k \in Keys, NEW c \in Lineage(k)
  PROVE  \E u \in {k} \cup Lineage(k) : Consumes(c, u)
<1> DEFINE S == {x \in {k} \cup Lineage(k) :
                    x = k \/ \E u \in {k} \cup Lineage(k) : Consumes(x, u)}
<1>1. S \in SUBSET Keys /\ k \in S /\ c # k
  BY DEF Lineage
<1>2. ASSUME NEW u \in S, NEW d \in Keys, Consumes(d, u) PROVE d \in S
  <2>1. d \in {k} \cup Lineage(k)
    BY <1>2, LineageIsClosed
  <2> QED BY <1>2, <2>1
<1>3. c \in S
  <2> HIDE DEF S
  <2> QED BY <1>1, <1>2 DEF Lineage
<1> QED BY <1>1, <1>3

(* A rerun locks every consumer, and none that is locked is completed. *)
LEMMA RerunProgress ==
  ASSUME ProgressInv, AskKeys = {}, runState # "published", NEW k \in Keys, RerunNode(k)
  PROVE  (\A x \in Keys : LiveFits(x)') /\ PublishFits'
<1> DEFINE targets == {k} \cup Lineage(k)
<1>0. /\ TypeOK /\ gen \in [Keys -> Gens] /\ targets \in SUBSET Keys /\ k \in targets
      /\ \A t \in targets : gen[t] \in Nat /\ gen[t] + 1 \in Gens
  <2>1. TypeOK /\ gen \in [Keys -> Gens] /\ targets \in SUBSET Keys /\ \A t \in targets : gen[t] < MaxGen
    BY DEF ProgressInv, CInv, IInv, TypeOK, RerunNode, Lineage
  <2> HIDE DEF targets
  <2>2. \A t \in targets : gen[t] \in Gens
    BY <2>1
  <2>3. \A t \in targets : gen[t] \in Nat /\ gen[t] + 1 \in Gens
    BY <2>1, <2>2, BoundsAssumption DEF Gens
  <2>4. k \in targets
    BY DEF targets
  <2> QED BY <2>1, <2>3, <2>4
<1>1. /\ runState' = "queued"
      /\ \A x \in Keys : gen'[x] = IF x \in targets THEN gen[x] + 1 ELSE gen[x]
      /\ \A x \in Keys, y \in Gens :
            node'[x][y] = IF x \in targets /\ y = gen[x]
                          THEN IF node[x][y] \in Claimables THEN "cancelled" ELSE node[x][y]
                          ELSE IF x \in targets /\ y = gen[x] + 1
                          THEN IF x = k THEN "ready" ELSE "invalidated"
                          ELSE node[x][y]
      /\ cancelRequested' = cancelRequested
  BY DEF RerunNode
<1>2. /\ \A x \in targets : x = k \/ \E u \in targets : u \in Upstream[x]
      /\ \A c \in Keys : State(c) \in Active /\ c \notin targets
                         => \A u \in Upstream[c] : u \notin targets
  <2>1. ASSUME NEW x \in targets, x # k PROVE \E u \in targets : u \in Upstream[x]
    <3>1. PICK u \in targets : Consumes(x, u)
      BY <2>1, LineageConsumes
    <3> QED BY <1>0, <3>1, ConsumesUpstream
  <2>2. ASSUME NEW c \in Keys, State(c) \in Active, NEW u \in Upstream[c], u \in targets
        PROVE  c \in targets
    BY <2>2, ActiveConsumes, LineageIsClosed
  <2> QED BY <2>1, <2>2
<1> HIDE DEF targets
<1>3. ASSUME NEW x \in Keys
      PROVE  State(x)' = IF x = k THEN "ready" ELSE IF x \in targets THEN "invalidated" ELSE State(x)
  <2>1. gen[x] \in Gens /\ (x \in targets => gen[x] + 1 \in Gens /\ gen[x] + 1 # gen[x])
    BY <1>0
  <2> QED BY <1>0, <1>1, <2>1 DEF State
<1>4. ASSUME NEW x \in Keys PROVE LiveFits(x)'
  <2>0. /\ LiveFits(x) /\ Upstream[x] \subseteq Keys
        /\ UpstreamsSucceeded(node, x)' <=> \A u \in Upstream[x] : State(u)' = "succeeded"
        /\ UpstreamsSucceeded(node, x) <=> \A u \in Upstream[x] : State(u) = "succeeded"
    BY KeysAssumption DEF ProgressInv, UpstreamsSucceeded, State
  <2>1. CASE x = k
    BY <1>3, <2>1 DEF LiveFits, Active, Locked
  <2>2. CASE x \in targets /\ x # k
    <3>1. PICK u \in targets : u \in Upstream[x]
      BY <1>2, <2>2
    <3>2. State(u)' # "succeeded"
      BY <1>0, <1>3, <3>1
    <3>3. State(x)' = "invalidated" /\ ~UpstreamsSucceeded(node, x)'
      BY <1>3, <2>0, <2>2, <3>1, <3>2
    <3> QED BY <3>3 DEF LiveFits, Active, Locked
  <2>3. CASE x \notin targets
    <3>1. State(x)' = State(x)
      BY <1>0, <1>3, <2>3
    <3>2. UpstreamsSucceeded(node, x)' => UpstreamsSucceeded(node, x)
      BY <1>3, <2>0
    <3>3. State(x) \in Active /\ UpstreamsSucceeded(node, x) => UpstreamsSucceeded(node, x)'
      BY <1>0, <1>2, <1>3, <2>0, <2>3
    <3> QED BY <1>1, <2>0, <3>1, <3>2, <3>3 DEF LiveFits, ProgressInv
  <2> QED BY <2>1, <2>2, <2>3
<1>5. PublishFits'
  BY <1>1, <1>3, KeysAssumption DEF PublishFits, ProgressInv
<1> QED BY <1>4, <1>5

-----------------------------------------------------------------------------
LEMMA InitProgress == Init => ProgressInv
<1> SUFFICES ASSUME Init PROVE ProgressInv
  OBVIOUS
<1>1. HistoryInv /\ CInv
  BY InitHistory, InitLease DEF CInv, Init
<1>2. NoQuestions
  BY DEF Init, NoQuestions, AbsentAttempt
<1>3. \A k \in Keys : State(k) = IF Upstream[k] = {} THEN "ready" ELSE "blocked"
  BY ZeroIsGen DEF Init, State
<1>4. ASSUME NEW k \in Keys PROVE LiveFits(k)
  <2>1. Upstream[k] \subseteq Keys
    BY KeysAssumption
  <2>2. Upstream[k] # {} => ~UpstreamsSucceeded(node, k)
    BY <1>3, <2>1 DEF UpstreamsSucceeded, State
  <2> QED BY <1>3, <2>2 DEF LiveFits, Active, Locked
<1>5. PublishFits
  BY <1>3, KeysAssumption DEF PublishFits, Init
<1> QED BY <1>1, <1>2, <1>4, <1>5 DEF ProgressInv

LEMMA NextProgress ==
  ASSUME NoStaleContinuation, PublishIsLast, ProgressInv, [Next]_vars
  PROVE  ProgressInv'
<1>0. HistoryInv' /\ CInv' /\ (cancelRequested => cancelRequested')
  <2>1. HistoryInv' /\ CInv' /\ CancelledStep
    BY NextHistory, CancelStep DEF ProgressInv
  <2> QED BY <2>1 DEF CancelledStep
<1>1. NoQuestions'
  <2>1. CASE Next
    BY <2>1, NoQuestionsKept
  <2>2. CASE UNCHANGED vars
    BY <2>2 DEF vars, ProgressInv, NoQuestions
  <2> QED BY <2>1, <2>2
<1> DEFINE Goal == (\A x \in Keys : LiveFits(x)') /\ PublishFits'
<1>2. ASSUME \A x \in Keys : Calm(x), runState # "published", runState' # "published"
      PROVE  Goal
  BY <1>0, <1>2, CalmKeeps DEF ProgressInv
<1>3. CASE runState = "published"
  <2>1. /\ runState' = "published" /\ \A x \in Keys : State(x)' = "succeeded" /\ State(x) = "succeeded"
    BY <1>3, PublishedStays, PublishedIsDone DEF State
  <2>2. ASSUME NEW x \in Keys PROVE Calm(x)
    BY <2>1 DEF Calm, State, Active, Locked
  <2> QED BY <1>0, <1>1, <1>3, <2>1, <2>2, CalmKeeps DEF ProgressInv
<1>4. CASE runState # "published"
  <2>1. ASSUME UNCHANGED <<runState, gen, node>> PROVE Goal
    <3>1. \A x \in Keys : Calm(x)
      BY <2>1 DEF Calm, State
    <3> HIDE DEF Goal
    <3> QED BY <1>2, <1>4, <2>1, <3>1
  <2>2. ASSUME NEW k \in Keys, NEW a \in Attempts, Claim(k, a) PROVE Goal
    BY <1>2, <1>4, <2>2, ClaimCalm
  <2>3. ASSUME NEW a \in Attempts, Worker(a) PROVE Goal
    <3>1. CASE WorkerCommits(a)
      BY <1>4, <3>1, CommitProgress DEF WorkerCommits
    <3>2. ASSUME NEW r \in BOOLEAN, WorkerFails(a, r) PROVE Goal
      <4> HIDE DEF Goal
      <4>1. (\A x \in Keys : Calm(x)) /\ runState' # "published"
        BY <1>4, <3>2, FailCalm, KeysAssumption
      <4> QED BY <1>2, <1>4, <4>1
    <3>3. CASE WorkerSuspends(a)
      <4> HIDE DEF Goal
      <4>1. (\A x \in Keys : Calm(x)) /\ runState' # "published"
        BY <3>3, SuspendCalm, KeysAssumption
      <4> QED BY <1>2, <1>4, <4>1
    <3> HIDE DEF Goal
    <3> QED BY <2>1, <2>3, <3>1, <3>2, <3>3 DEF Worker, ExecutorSettles, Seal, WorkerCommitsEvidence,
               WorkerLeaves, rows
  <2>4. ASSUME CancelRun \/ PauseRun \/ ResumeRun \/ InterruptRunning PROVE Goal
    <3> HIDE DEF Goal
    <3>1. (\A x \in Keys : Calm(x)) /\ runState' # "published"
      BY <1>4, <2>4, StopCalm, KeysAssumption
    <3> QED BY <1>2, <1>4, <3>1
  <2>5. ASSUME NEW k \in Keys, RetryFailedNode(k) \/ \E g \in Gens : AnswerGate(k, g) PROVE Goal
    BY <1>2, <1>4, <2>5, RequeueCalm
  <2>6. ASSUME NEW k \in Keys, RerunNode(k), "rerun" \in Commands PROVE Goal
    BY <1>4, <2>6, RerunProgress DEF NoStaleContinuation
  <2>7. ASSUME NEW a \in Attempts, RecoverGroup(a) PROVE Goal
    <3>1. CASE IsCurrent(a) /\ CommitSucceeded(a)
      BY <1>4, <3>1, CommitProgress
    <3> HIDE DEF Goal
    <3> QED BY <2>1, <2>7, <3>1 DEF RecoverGroup, rows
  <2>8. ASSUME Open \/ RecoverInterrupt \/ Close \/ Crash PROVE Goal
    <3> HIDE DEF Goal
    <3> QED BY <2>1, <2>4, <2>8 DEF Open, RecoverInterrupt, Close, Crash, rows
  <2>9. Goal
    <3> HIDE DEF Goal
    <3>1. CASE UNCHANGED vars
      BY <2>1, <3>1 DEF vars
    <3>2. CASE Scheduler \/ \E a \in Attempts : Worker(a)
      BY <2>2, <2>3, <3>2 DEF Scheduler
    <3>3. CASE Command
      BY <2>4, <2>5, <2>6, <3>3 DEF Command
    <3>4. CASE Recovery \/ Close \/ Crash
      BY <2>7, <2>8, <3>4 DEF Recovery
    <3> QED BY <3>1, <3>2, <3>3, <3>4 DEF Next
  <2> QED BY <1>0, <1>1, <2>9 DEF ProgressInv
<1> QED BY <1>3, <1>4

LEMMA ProgressInvariant ==
  ASSUME NoStaleContinuation, PublishIsLast
  PROVE  Spec => []ProgressInv
<1>1. ProgressInv /\ [Next]_vars => ProgressInv'
  BY NextProgress
<1> QED BY <1>1, InitProgress, PTL DEF Spec

(* A live run that has nothing to claim and nothing running has a failed   *)
(* node, which the operator can retry or rerun: no order of commits,       *)
(* failures, reruns, pauses, closes and recoveries loses a wake-up in an   *)
(* acyclic graph (unlockReadyNodes, recomputeRunState, applyRerunAt).      *)
THEOREM StallsOnFailure ==
  ASSUME GraphIsAcyclic, PublishIsLast, NoStaleContinuation
  PROVE  Spec => []StallsOnlyOnFailure
<1>1. ASSUME ProgressInv PROVE StallsOnlyOnFailure
  <2> SUFFICES ASSUME runState \in LiveStates, ~HasActiveWork(node),
                      \A k \in Keys : State(k) # "failed"
               PROVE  FALSE
    BY DEF StallsOnlyOnFailure
  <2>1. ~cancelRequested /\ runState # "published" /\ TypeOK
    BY <1>1 DEF LiveStates, ProgressInv, CInv, IInv
  <2>2. ASSUME NEW k \in Keys
        PROVE  State(k) = "succeeded" \/ (State(k) \in Locked /\ ~UpstreamsSucceeded(node, k))
    <3>1. State(k) \in NodeStates
      BY <2>1 DEF State, TypeOK
    <3> QED BY <1>1, <2>1, <3>1 DEF ProgressInv, LiveFits, HasActiveWork, State, NodeStates, Locked
  <2> DEFINE S == {k \in Keys : State(k) # "succeeded"}
  <2>3. S # {}
    BY <1>1, <2>1, KeysAssumption DEF ProgressInv, PublishFits
  <2>4. PICK k \in S : Upstream[k] \cap S = {}
    BY <2>3 DEF GraphIsAcyclic
  <2>5. UpstreamsSucceeded(node, k)
    BY <2>4, KeysAssumption DEF UpstreamsSucceeded, State
  <2> QED BY <2>2, <2>4, <2>5
<1> QED BY <1>1, ProgressInvariant, PTL

(* A rerun reaches whoever consumed: nothing runs or stays done on an      *)
(* upstream that is being done again (lineageInvalidationClosure).         *)
THEOREM RerunReaches ==
  ASSUME PublishIsLast, NoStaleContinuation
  PROVE  Spec => []RerunReachesConsumers
<1>1. ProgressInv => RerunReachesConsumers
  BY DEF ProgressInv, LiveFits, RerunReachesConsumers, Active
<1> QED BY <1>1, ProgressInvariant, PTL

(* A published run stays so: no late attempt, command or recovery opens it *)
(* again (recomputeRunState, markRunFailed, interruptRunningAttempts).     *)
THEOREM PublicationIsFinal ==
  ASSUME PublishIsLast, NoStaleContinuation
  PROVE  Spec => PublishedIsFinal
<1>1. ProgressInv /\ [Next]_vars => [runState = "published" => runState' = "published"]_vars
  BY PublishedStays
<1>2. Spec => [][runState = "published" => runState' = "published"]_vars
  BY <1>1, ProgressInvariant, PTL DEF Spec
<1> QED BY <1>2 DEF PublishedIsFinal
=============================================================================
