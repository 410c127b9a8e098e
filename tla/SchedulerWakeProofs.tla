-------------------------- MODULE SchedulerWakeProofs --------------------------
(***************************************************************************)
(* Proofs about SchedulerWake, for every graph, every number of runs, any  *)
(* limits and any commands: no wake-up is lost, close() and cancel_run     *)
(* outlive the executions they wait for, and the slots of the workspace    *)
(* are kept.                                                               *)
(*                                                                         *)
(* The argument is about the one promise that schedule() leaves alone: as  *)
(* long as no claim has thrown the loop waits for exactly the executions   *)
(* in flight (LoopFits), a run that is cancelled gets no new one           *)
(* (CancelsFit), and between the claim that finds nothing and the end of   *)
(* the promise nothing becomes claimable, because no command is dispatched *)
(* in that turn (Rests).                                                   *)
(***************************************************************************)
EXTENDS SchedulerWake, FiniteSetTheorems, TLAPS

NodeRow == [Nodes -> NodeStates]
NothingClaimable(st, rs) == \A n \in Nodes : ~Claimable(n, st, rs)

LoopFits ==
    /\ pending \subseteq flying /\ (~thrown => flying = pending)
    /\ loop \in {"none", "returned", "rejected"} => pending = {}
    /\ loop = "rejected" => thrown
    /\ loop = "draining" => owner # "open"
    /\ owner = "closed" => loop = "none"

CancelsFit ==
    \A r \in Runs :
        /\ cancels[r].state # "no" => run[r] = "cancelled"
        /\ cancels[r].state = "waits" => \A e \in flying : RunOf[e[1]] = r => e \in cancels[r].for

Rests ==
    ~SameTurn /\ ~thrown /\ owner = "open" /\ loop \in {"none", "returned"}
    => NothingClaimable(node, run)

IInv == TypeOK /\ LoopFits /\ CancelsFit /\ CancelIsQuiet /\ Rests

-----------------------------------------------------------------------------
(* What claiming does.                                                     *)

(* The executions L are launched, of runs that are active in rs. *)
Launches(L, st, rs, waiting) ==
    /\ L \subseteq Executions /\ \A e \in L : RunOf[e[1]] \in Runs /\ rs[RunOf[e[1]]] = "active"
    /\ flying' = flying \cup L
    /\ node' \in NodeRow /\ attempts' \in [Nodes -> 0 .. MaxAttempts]
    /\ \/ /\ pending' = waiting \cup L /\ thrown' = thrown
          /\ loop' = "racing" /\ waiting \cup L # {}
       \/ /\ pending' = waiting \cup L /\ thrown' = thrown
          /\ loop' = "returned" /\ waiting \cup L = {}
          /\ node' = st /\ attempts' = attempts /\ NothingClaimable(st, rs)
       \/ pending' = {} /\ thrown' = TRUE /\ loop' = "rejected"

LEMMA FillLaunches ==
  ASSUME TypeOK, NEW st \in NodeRow, NEW rs, NEW waiting, Fill(st, rs, waiting)
  PROVE  \E L \in SUBSET Executions : Launches(L, st, rs, waiting)
<1> DEFINE with(T) == [n \in Nodes |-> IF n \in T THEN "running" ELSE st[n]]
<1>1. PICK S \in SUBSET {n \in Nodes : st[n] = "ready"} :
         /\ Claims(S, st, rs)
         /\ node' = [n \in Nodes |-> IF n \in S THEN "running" ELSE st[n]]
         /\ attempts' = [n \in Nodes |-> attempts[n] + IF n \in S THEN 1 ELSE 0]
         /\ flying' = flying \cup {<<n, attempts[n] + 1>> : n \in S}
         /\ \/ /\ \A n \in Nodes \ S : ~Claimable(n, node', rs)
               /\ pending' = waiting \cup {<<n, attempts[n] + 1>> : n \in S}
               /\ loop' = IF waiting \cup {<<n, attempts[n] + 1>> : n \in S} = {}
                          THEN "returned" ELSE "racing"
               /\ thrown' = thrown
            \/ pending' = {} /\ loop' = "rejected" /\ thrown' = TRUE
  BY DEF Fill
<1> DEFINE L == {<<n, attempts[n] + 1>> : n \in S}
<1>2. \A n \in S : Claimable(n, with(S \ {n}), rs)
  BY <1>1 DEF Claims
<1>3. \A n \in S : n \in Nodes /\ rs[RunOf[n]] = "active" /\ attempts[n] < MaxAttempts
  BY <1>1, <1>2 DEF Claimable
<1>4. \A n \in Nodes : attempts[n] \in 0 .. MaxAttempts
  BY DEF TypeOK
<1>5. MaxAttempts \in Nat
  BY GraphAssumption
<1>6. \A n \in S : attempts[n] + 1 \in 1 .. MaxAttempts
  BY <1>3, <1>4, <1>5
<1>7. L \in SUBSET Executions
  BY <1>3, <1>6 DEF Executions
<1>8. \A e \in L : RunOf[e[1]] \in Runs /\ rs[RunOf[e[1]]] = "active"
  BY <1>3 DEF Runs
<1>9. attempts' \in [Nodes -> 0 .. MaxAttempts]
  BY <1>1, <1>4, <1>5, <1>6
<1>10. node' \in NodeRow
  BY <1>1 DEF NodeRow, NodeStates
<1>r. CASE loop' = "rejected"
  BY <1>1, <1>7, <1>8, <1>9, <1>10, <1>r DEF Launches
<1>11. CASE loop' # "rejected" /\ waiting \cup L # {}
  BY <1>1, <1>7, <1>8, <1>9, <1>10, <1>11 DEF Launches
<1>12. CASE loop' # "rejected" /\ waiting \cup L = {}
  <2>1. S = {}
    BY <1>12
  <2>2. with(S) = st /\ node' = st
    BY <1>1, <2>1 DEF NodeRow
  <2>3. attempts' = attempts
    BY <1>1, <1>4, <1>5, <2>1 DEF TypeOK
  <2>4. NothingClaimable(st, rs)
    BY <1>1, <1>12, <2>1, <2>2 DEF NothingClaimable
  <2> QED BY <1>1, <1>7, <1>8, <1>9, <1>10, <1>12, <2>2, <2>3, <2>4 DEF Launches
<1> QED BY <1>r, <1>11, <1>12

(* The tests of a claim look at the rows and at the numbers of attempts only. *)
LEMMA ClaimableLater ==
  ASSUME attempts' = attempts, NEW n
  PROVE  Claimable(n, node, run)' <=> Claimable(n, node', run')
  BY DEF Claimable

(* A command that makes rows out of st and rs and calls schedule(). *)
LEMMA ScheduleKeeps ==
  ASSUME IInv, NEW st \in NodeRow, NEW rs, Schedule(st, rs), owner = "open", owner' = owner,
         run' = rs, SameTurn \/ loop \notin {"woken", "returned", "rejected"}
  PROVE  /\ LoopFits' /\ Rests' /\ node' \in NodeRow /\ attempts' \in [Nodes -> 0 .. MaxAttempts]
         /\ flying' \subseteq Executions /\ loop' \in LoopStates /\ thrown' \in BOOLEAN
         /\ \A e \in flying' : e \in flying \/ rs[RunOf[e[1]]] = "active"
<1>0. TypeOK /\ LoopFits
  BY DEF IInv
<1>1. CASE loop = "none"
  <2>1. Fill(st, rs, {})
    BY <1>1 DEF Schedule
  <2>2. PICK L \in SUBSET Executions : Launches(L, st, rs, {})
    BY <1>0, <2>1, FillLaunches
  <2>3. pending = {} /\ (~thrown => flying = {})
    BY <1>0, <1>1 DEF LoopFits
  <2>4. LoopFits'
    BY <2>2, <2>3 DEF Launches, LoopFits
  <2>5. Rests'
    <3> SUFFICES ASSUME loop' \in {"none", "returned"}, ~thrown'
                 PROVE  NothingClaimable(node, run)'
      BY DEF Rests
    <3>1. node' = st /\ attempts' = attempts /\ NothingClaimable(st, rs)
      BY <2>2 DEF Launches
    <3> QED BY <3>1, ClaimableLater DEF NothingClaimable
  <2>6. /\ node' \in NodeRow /\ attempts' \in [Nodes -> 0 .. MaxAttempts]
        /\ flying' \subseteq Executions /\ loop' \in LoopStates /\ thrown' \in BOOLEAN
        /\ \A e \in flying' : e \in flying \/ rs[RunOf[e[1]]] = "active"
    BY <1>0, <2>2, <2>3 DEF Launches, LoopStates, TypeOK
  <2> QED BY <2>4, <2>5, <2>6
<1>2. CASE loop # "none"
  <2>1. node' = st /\ UNCHANGED <<attempts, flying, pending, loop, thrown>>
    BY <1>2 DEF Schedule
  <2>2. LoopFits' /\ Rests'
    BY <1>0, <1>2, <2>1 DEF LoopFits, Rests
  <2> QED BY <1>0, <2>1, <2>2 DEF TypeOK
<1> QED BY <1>1, <1>2

(* What a command of one run leaves of the others' cancellations. *)
CommandKeeps(st) ==
    /\ Turn /\ Schedule(st, run') /\ st \in NodeRow /\ owner' = owner
    /\ run' \in [Runs -> {"active", "paused", "cancelled"}]
    /\ \A r \in Runs : run[r] = "cancelled" => run'[r] = "cancelled"

LEMMA CommandsKeep ==
  ASSUME IInv, NEW st, CommandKeeps(st), cancels' = cancels
  PROVE  IInv'
<1>1. /\ LoopFits' /\ Rests' /\ node' \in NodeRow /\ attempts' \in [Nodes -> 0 .. MaxAttempts]
      /\ flying' \subseteq Executions /\ loop' \in LoopStates /\ thrown' \in BOOLEAN
      /\ \A e \in flying' : e \in flying \/ run'[RunOf[e[1]]] = "active"
  <2>1. /\ st \in NodeRow /\ Schedule(st, run') /\ owner = "open" /\ owner' = owner
        /\ SameTurn \/ loop \notin {"woken", "returned", "rejected"}
    BY DEF CommandKeeps, Turn
  <2> QED BY <2>1, ScheduleKeeps
<1>2. commands' \in 0 .. MaxCommands
  BY GraphAssumption DEF CommandKeeps, Turn, IInv, TypeOK
<1>3. TypeOK'
  BY <1>1, <1>2 DEF CommandKeeps, IInv, TypeOK, LoopFits, NodeRow
<1>4. CancelsFit' /\ CancelIsQuiet'
  BY <1>1 DEF CommandKeeps, IInv, TypeOK, CancelsFit, CancelIsQuiet
<1> QED BY <1>1, <1>3, <1>4 DEF IInv

LEMMA CancelRunKeeps ==
  ASSUME IInv, NEW r \in Runs, CancelRun(r)
  PROVE  IInv'
<1> DEFINE st == [n \in Nodes |-> IF n \in Members(r) /\ node[n] \in {"blocked", "ready", "running"}
                                  THEN "cancelled" ELSE node[n]]
<1>0. TypeOK
  BY DEF IInv
<1>1. st \in NodeRow
  BY <1>0 DEF NodeRow, NodeStates, TypeOK
<1>2. /\ run' = [run EXCEPT ![r] = "cancelled"] /\ Schedule(st, run') /\ owner = "open"
      /\ owner' = owner /\ (SameTurn \/ loop \notin {"woken", "returned", "rejected"})
      /\ commands' = commands + 1 /\ commands < MaxCommands
      /\ cancels' = [cancels EXCEPT ![r] =
                       [state |-> "waits", for |-> {e \in flying : RunOf[e[1]] = r}]]
  BY DEF CancelRun, Turn
<1> HIDE DEF st
<1>3. /\ LoopFits' /\ Rests' /\ node' \in NodeRow /\ attempts' \in [Nodes -> 0 .. MaxAttempts]
      /\ flying' \subseteq Executions /\ loop' \in LoopStates /\ thrown' \in BOOLEAN
      /\ \A e \in flying' : e \in flying \/ run'[RunOf[e[1]]] = "active"
  BY <1>1, <1>2, ScheduleKeeps
<1>4. commands' \in 0 .. MaxCommands /\ run' \in [Runs -> {"active", "paused", "cancelled"}]
  BY <1>0, <1>2, GraphAssumption DEF TypeOK
<1>5. run'[r] = "cancelled" /\ \A s \in Runs : s # r => run'[s] = run[s]
  BY <1>0, <1>2 DEF TypeOK
<1>6. /\ cancels'[r].state = "waits" /\ cancels'[r].for = {e \in flying : RunOf[e[1]] = r}
      /\ \A s \in Runs : s # r => cancels'[s] = cancels[s]
  BY <1>0, <1>2 DEF TypeOK
<1>7. TypeOK'
  BY <1>0, <1>2, <1>3, <1>4, <1>6 DEF TypeOK, LoopFits, NodeRow
<1>8. CancelsFit' /\ CancelIsQuiet'
  BY <1>3, <1>5, <1>6 DEF IInv, CancelsFit, CancelIsQuiet
<1> QED BY <1>3, <1>7, <1>8 DEF IInv

LEMMA OtherCommandsKeep ==
  ASSUME IInv
  PROVE  /\ \A n \in Nodes : MakeReady(n) => IInv'
         /\ \A r \in Runs : PauseRun(r) \/ ResumeRun(r) => IInv'
<1>0. /\ node \in NodeRow /\ run \in [Runs -> {"active", "paused", "cancelled"}]
      /\ {"ready"} \subseteq NodeStates
  BY DEF IInv, TypeOK, NodeRow, NodeStates
<1>1. ASSUME NEW n \in Nodes, MakeReady(n) PROVE IInv'
  <2>1. CommandKeeps([node EXCEPT ![n] = "ready"])
    BY <1>0, <1>1 DEF MakeReady, CommandKeeps, NodeRow
  <2> QED BY <1>1, <2>1, CommandsKeep DEF MakeReady
<1>2. ASSUME NEW r \in Runs, PauseRun(r) PROVE IInv'
  <2> DEFINE st == [n \in Nodes |-> IF n \in Members(r) /\ node[n] = "running"
                                    THEN "ready" ELSE node[n]]
  <2>1. st \in NodeRow
    BY <1>0 DEF NodeRow
  <2>2. /\ run' \in [Runs -> {"active", "paused", "cancelled"}]
        /\ \A s \in Runs : run[s] = "cancelled" => run'[s] = "cancelled"
    BY <1>0, <1>2 DEF PauseRun
  <2>3. CommandKeeps(st)
    BY <1>2, <2>1, <2>2 DEF PauseRun, CommandKeeps
  <2> QED BY <1>2, <2>3, CommandsKeep DEF PauseRun
<1>3. ASSUME NEW r \in Runs, ResumeRun(r) PROVE IInv'
  <2>1. /\ run' \in [Runs -> {"active", "paused", "cancelled"}]
        /\ \A s \in Runs : run[s] = "cancelled" => run'[s] = "cancelled"
    BY <1>0, <1>3 DEF ResumeRun
  <2>2. CommandKeeps(node)
    BY <1>0, <1>3, <2>1 DEF ResumeRun, CommandKeeps
  <2> QED BY <1>3, <2>2, CommandsKeep DEF ResumeRun
<1> QED BY <1>1, <1>2, <1>3

(* cancel_run returns when what it waits for has settled. *)
LEMMA ReturnKeeps ==
  ASSUME IInv, NEW r \in Runs, CancelReturns(r)
  PROVE  IInv'
<1>1. /\ UNCHANGED <<node, run, attempts, flying, pending, loop, thrown, owner, commands>>
      /\ cancels[r].state = "waits" /\ cancels[r].for \cap flying = {}
      /\ cancels' = [cancels EXCEPT ![r].state = "returned"]
  BY DEF CancelReturns
<1>2. /\ cancels' \in [Runs -> [state: {"no", "waits", "returned"}, for: SUBSET Executions]]
      /\ cancels'[r].state = "returned" /\ \A s \in Runs : s # r => cancels'[s] = cancels[s]
  BY <1>1 DEF IInv, TypeOK
<1>3. TypeOK'
  BY <1>1, <1>2 DEF IInv, TypeOK
<1>4. CancelsFit'
  BY <1>1, <1>2 DEF IInv, CancelsFit
<1>5. CancelIsQuiet'
  BY <1>1, <1>2 DEF IInv, CancelsFit, CancelIsQuiet
<1>6. LoopFits' /\ Rests'
  BY <1>1, ClaimableLater DEF IInv, LoopFits, Rests, NothingClaimable
<1> QED BY <1>3, <1>4, <1>5, <1>6 DEF IInv

-----------------------------------------------------------------------------
(* The executions and the loop.                                            *)

LEMMA SettleKeeps ==
  ASSUME IInv, NEW e \in Executions, Settle(e)
  PROVE  IInv'
<1>0. TypeOK /\ LoopFits
  BY DEF IInv
<1>1. /\ e \in flying /\ flying' = flying \ {e} /\ pending' = pending \ {e}
      /\ loop' = IF e \notin pending THEN loop
                 ELSE IF loop = "racing" THEN "woken"
                 ELSE IF loop = "draining" /\ pending' = {} THEN "returned" ELSE loop
      /\ UNCHANGED <<run, attempts, thrown, owner, cancels, commands>>
  BY DEF Settle
<1>2. node' \in NodeRow
  <2> DEFINE done(o) == [node EXCEPT ![e[1]] = o]
  <2>1. \A o \in {"succeeded", "failed"} : done(o) \in NodeRow
    BY <1>0 DEF TypeOK, NodeRow, NodeStates
  <2>2. PICK o \in {"succeeded", "failed"} :
           \/ node' = node
           \/ node' = [m \in Nodes |->
                 IF done(o)[m] = "blocked" /\ <<e[1], m>> \in Upstream
                    /\ o = "succeeded" /\ UpstreamDone(m, done(o))
                 THEN "ready" ELSE done(o)[m]]
    BY DEF Settle
  <2> HIDE DEF done
  <2> QED BY <1>0, <2>1, <2>2 DEF TypeOK, NodeRow, NodeStates
<1>3. thrown \/ e \in pending
  BY <1>0, <1>1 DEF LoopFits
<1>3b. e \in pending => loop \notin {"none", "returned", "rejected"} /\ owner # "closed"
  BY <1>0 DEF LoopFits
<1>4. LoopFits'
  BY <1>0, <1>1, <1>3, <1>3b DEF LoopFits
<1>5. TypeOK'
  BY <1>0, <1>1, <1>2 DEF TypeOK, NodeRow, LoopStates
<1>6. Rests'
  BY <1>0, <1>1, <1>3, <1>3b DEF LoopFits, Rests
<1>7. CancelsFit' /\ CancelIsQuiet'
  BY <1>1 DEF IInv, CancelsFit, CancelIsQuiet
<1> QED BY <1>4, <1>5, <1>6, <1>7 DEF IInv

LEMMA ContinueKeeps ==
  ASSUME IInv, Continue
  PROVE  IInv'
<1>0. TypeOK /\ LoopFits /\ loop = "woken" /\ UNCHANGED <<run, owner, cancels, commands>>
  BY DEF IInv, Continue
<1>1. CASE owner = "open"
  <2>1. node \in NodeRow /\ Fill(node, run, pending)
    BY <1>0, <1>1 DEF TypeOK, NodeRow, Continue
  <2>2. PICK L \in SUBSET Executions : Launches(L, node, run, pending)
    BY <1>0, <2>1, FillLaunches
  <2>3. TypeOK'
    BY <1>0, <2>2 DEF TypeOK, LoopFits, Launches, NodeRow, LoopStates
  <2>4. LoopFits'
    BY <1>0, <1>1, <2>2 DEF LoopFits, Launches
  <2>5. CancelsFit' /\ CancelIsQuiet'
    <3>1. \A x \in flying' : x \in flying \/ run[RunOf[x[1]]] = "active"
      BY <2>2 DEF Launches
    <3> QED BY <1>0, <3>1 DEF IInv, CancelsFit, CancelIsQuiet
  <2>6. Rests'
    <3> SUFFICES ASSUME loop' \in {"none", "returned"}, ~thrown'
                 PROVE  NothingClaimable(node, run)'
      BY DEF Rests
    <3>1. node' = node /\ attempts' = attempts /\ NothingClaimable(node, run)
      BY <2>2 DEF Launches
    <3> QED BY <1>0, <3>1, ClaimableLater DEF NothingClaimable
  <2> QED BY <2>3, <2>4, <2>5, <2>6 DEF IInv
<1>2. CASE owner # "open"
  <2>1. /\ loop' = IF pending = {} THEN "returned" ELSE "draining"
        /\ UNCHANGED <<node, attempts, flying, pending, thrown>>
    BY <1>2 DEF Continue
  <2>2. TypeOK'
    BY <1>0, <2>1 DEF TypeOK, LoopStates
  <2>3. LoopFits' /\ Rests'
    BY <1>0, <1>2, <2>1 DEF LoopFits, Rests
  <2>4. CancelsFit' /\ CancelIsQuiet'
    BY <1>0, <2>1 DEF IInv, CancelsFit, CancelIsQuiet
  <2> QED BY <2>2, <2>3, <2>4 DEF IInv
<1> QED BY <1>1, <1>2

LEMMA LeaveKeeps ==
  ASSUME IInv, Leave
  PROVE  IInv'
<1>1. /\ loop \in {"returned", "rejected"} /\ loop' = "none"
      /\ owner' = IF loop = "rejected" /\ owner = "closing" THEN "unclosed" ELSE owner
      /\ UNCHANGED <<node, run, attempts, flying, pending, thrown, cancels, commands>>
  BY DEF Leave
<1>2. TypeOK'
  BY <1>1 DEF IInv, TypeOK, LoopStates
<1>3. LoopFits' /\ CancelsFit' /\ CancelIsQuiet'
  BY <1>1 DEF IInv, LoopFits, CancelsFit, CancelIsQuiet
<1>4. Rests'
  BY <1>1, ClaimableLater DEF IInv, Rests, LoopFits, NothingClaimable
<1> QED BY <1>2, <1>3, <1>4 DEF IInv

LEMMA CloseKeeps ==
  ASSUME IInv, Close \/ CloseDb
  PROVE  IInv'
<1>1. /\ owner' # "open" /\ owner' \in {"closing", "closed"} /\ (owner' = "closed" => loop = "none")
      /\ owner # "closed"
      /\ UNCHANGED <<run, attempts, flying, pending, loop, thrown, cancels, commands>>
  BY DEF Close, CloseDb
<1>2. node' \in NodeRow
  BY DEF Close, CloseDb, IInv, TypeOK, NodeRow, NodeStates
<1>3. TypeOK'
  BY <1>1, <1>2 DEF IInv, TypeOK, NodeRow
<1>4. LoopFits' /\ CancelsFit' /\ CancelIsQuiet' /\ Rests'
  BY <1>1 DEF IInv, LoopFits, CancelsFit, CancelIsQuiet, Rests
<1> QED BY <1>3, <1>4 DEF IInv

LEMMA InvInit == Init => IInv
<1> SUFFICES ASSUME Init PROVE IInv
  OBVIOUS
<1>a. /\ node \in [Nodes -> NodeStates] /\ run \in [Runs -> {"active", "paused", "cancelled"}]
      /\ attempts \in [Nodes -> 0 .. MaxAttempts] /\ commands \in 0 .. MaxCommands
  BY GraphAssumption DEF Init, NodeStates
<1>b. cancels \in [Runs -> [state: {"no", "waits", "returned"}, for: SUBSET Executions]]
  BY DEF Init, NotCancelled
<1>1. TypeOK
  BY <1>a, <1>b DEF Init, TypeOK, LoopStates
<1>2. LoopFits /\ CancelsFit /\ CancelIsQuiet
  BY DEF Init, LoopFits, CancelsFit, CancelIsQuiet, NotCancelled
<1>3. Rests
  BY DEF Init, Rests, NothingClaimable, Claimable
<1> QED BY <1>1, <1>2, <1>3 DEF IInv

LEMMA InvStep == IInv /\ [Next]_vars => IInv'
<1> SUFFICES ASSUME IInv, [Next]_vars PROVE IInv'
  OBVIOUS
<1>1. CASE UNCHANGED vars
  <2>1. TypeOK' /\ LoopFits' /\ CancelsFit' /\ CancelIsQuiet'
    BY <1>1 DEF vars, IInv, TypeOK, LoopFits, CancelsFit, CancelIsQuiet
  <2>2. Rests'
    BY <1>1, ClaimableLater DEF vars, IInv, Rests, NothingClaimable
  <2> QED BY <2>1, <2>2 DEF IInv
<1>2. CASE Next
  BY <1>2, OtherCommandsKeep, CancelRunKeeps, ReturnKeeps, SettleKeeps, ContinueKeeps,
     LeaveKeeps, CloseKeeps DEF Next
<1> QED BY <1>1, <1>2

-----------------------------------------------------------------------------
(* The slots.                                                              *)

LEMMA Finite ==
  /\ IsFiniteSet(Nodes) /\ IsFiniteSet(Runs)
  /\ MaxConcurrentAttempts \in Nat /\ MaxActiveRuns \in Nat
  /\ MaxConcurrentAttempts >= 1 /\ MaxActiveRuns >= 1
  /\ \A k \in Kinds : KindLimit[k] \in Nat /\ KindLimit[k] >= 1
<1>1. IsFiniteSet(Nodes)
  BY GraphAssumption
<1>2. [n \in Nodes |-> RunOf[n]] \in Surjection(Nodes, Runs)
  BY DEF Surjection, Runs
<1>3. IsFiniteSet(Runs)
  BY <1>1, <1>2, FS_Surjection
<1> QED BY <1>1, <1>3, GraphAssumption

(* A part of a set that fits, or one element more than a set that is smaller. *)
LEMMA Fits ==
  ASSUME NEW S, IsFiniteSet(S), NEW T, NEW x, NEW limit \in Nat, T \subseteq S \cup {x},
         Cardinality(S) < limit
  PROVE  Cardinality(T) <= limit
<1>1. IsFiniteSet(S \cup {x}) /\ Cardinality(S \cup {x}) <= Cardinality(S) + 1
  <2>1. Cardinality(S) \in Nat
    BY FS_CardinalityType
  <2>2. /\ IsFiniteSet(S \cup {x})
        /\ Cardinality(S \cup {x}) = IF x \in S THEN Cardinality(S) ELSE Cardinality(S) + 1
    BY FS_AddElement
  <2> QED BY <2>1, <2>2
<1>2. T \in SUBSET (S \cup {x})
  OBVIOUS
<1>3. IsFiniteSet(T) /\ Cardinality(T) <= Cardinality(S \cup {x})
  BY <1>1, <1>2, FS_Subset
<1>4. /\ Cardinality(T) \in Nat /\ Cardinality(S) \in Nat /\ Cardinality(S \cup {x}) \in Nat
  BY <1>1, <1>3, FS_CardinalityType
<1> QED BY <1>1, <1>3, <1>4

LEMMA FitsStill ==
  ASSUME NEW S, IsFiniteSet(S), NEW T, NEW limit \in Nat, T \subseteq S, Cardinality(S) <= limit
  PROVE  Cardinality(T) <= limit
<1>1. IsFiniteSet(T) /\ Cardinality(T) <= Cardinality(S)
  BY FS_Subset
<1>2. Cardinality(T) \in Nat /\ Cardinality(S) \in Nat
  BY <1>1, FS_CardinalityType
<1> QED BY <1>1, <1>2

LEMMA RunningIsFinite ==
  ASSUME NEW st
  PROVE  /\ \A r : /\ IsFiniteSet(Running(Members(r), st))
                   /\ \A k : IsFiniteSet(OfKind(Running(Members(r), st), k))
         /\ IsFiniteSet(ActiveRuns(st))
<1>1. \A r : Running(Members(r), st) \in SUBSET Nodes
  BY DEF Running, Members
<1>2. \A r, k : OfKind(Running(Members(r), st), k) \in SUBSET Nodes
  BY <1>1 DEF OfKind
<1>3. ActiveRuns(st) \in SUBSET Runs
  BY DEF ActiveRuns, Running, Runs
<1> QED BY <1>1, <1>2, <1>3, Finite, FS_Subset

(* Where fewer nodes run, the slots are kept. *)
LEMMA FewerKeep ==
  ASSUME NEW st, NEW after, Slots(st),
         \A n \in Nodes : after[n] = "running" => st[n] = "running"
  PROVE  Slots(after)
<1>1. \A r : Running(Members(r), after) \subseteq Running(Members(r), st)
  BY DEF Running, Members
<1>2. \A r, k : OfKind(Running(Members(r), after), k)
                  \subseteq OfKind(Running(Members(r), st), k)
  BY <1>1 DEF OfKind
<1>3. ActiveRuns(after) \subseteq ActiveRuns(st)
  BY DEF ActiveRuns, Running
<1>4. ASSUME NEW r \in Runs PROVE Cardinality(Running(Members(r), after)) <= MaxConcurrentAttempts
  BY <1>1, Finite, RunningIsFinite, FitsStill DEF Slots
<1>5. ASSUME NEW r \in Runs, NEW k \in Kinds
      PROVE  Cardinality(OfKind(Running(Members(r), after), k)) <= KindLimit[k]
  BY <1>2, Finite, RunningIsFinite, FitsStill DEF Slots
<1>6. Cardinality(ActiveRuns(after)) <= MaxActiveRuns
  BY <1>3, Finite, RunningIsFinite, FitsStill DEF Slots
<1> QED BY <1>4, <1>5, <1>6 DEF Slots

(* What is claimed together has found its slots. *)
LEMMA ClaimsKeep ==
  ASSUME NEW st, Slots(st), NEW S \in SUBSET Nodes, NEW rs, Claims(S, st, rs)
  PROVE  Slots([n \in Nodes |-> IF n \in S THEN "running" ELSE st[n]])
<1> DEFINE with(T) == [n \in Nodes |-> IF n \in T THEN "running" ELSE st[n]]
<1>1. \A n \in S : /\ Claimable(n, with(S \ {n}), rs)
                   /\ \/ RunOf[n] \in ActiveRuns(st)
                      \/ Cardinality(ActiveRuns(with(S))) <= MaxActiveRuns
  BY DEF Claims
<1>2. \A r : /\ \A n : Running(Members(r), with(S))
                         \subseteq Running(Members(r), with(S \ {n})) \cup {n}
             /\ (\A n \in S : RunOf[n] # r)
                => Running(Members(r), with(S)) \subseteq Running(Members(r), st)
  BY DEF Running, Members
<1>3. ASSUME NEW r \in Runs
      PROVE  Cardinality(Running(Members(r), with(S))) <= MaxConcurrentAttempts
  <2>1. CASE \E n \in S : RunOf[n] = r
    <3>1. PICK n \in S : RunOf[n] = r
      BY <2>1
    <3>2. Cardinality(Running(Members(r), with(S \ {n}))) < MaxConcurrentAttempts
      BY <1>1, <3>1 DEF Claimable
    <3>3. /\ IsFiniteSet(Running(Members(r), with(S \ {n})))
          /\ Running(Members(r), with(S)) \subseteq Running(Members(r), with(S \ {n})) \cup {n}
      BY <1>2, RunningIsFinite
    <3> HIDE DEF with
    <3> QED BY <3>2, <3>3, Finite, Fits
  <2>2. CASE \A n \in S : RunOf[n] # r
    <3>1. /\ IsFiniteSet(Running(Members(r), st))
          /\ Running(Members(r), with(S)) \subseteq Running(Members(r), st)
          /\ Cardinality(Running(Members(r), st)) <= MaxConcurrentAttempts
      BY <1>2, <2>2, RunningIsFinite DEF Slots
    <3> HIDE DEF with
    <3> QED BY <3>1, Finite, FitsStill
  <2> QED BY <2>1, <2>2
<1>4. ASSUME NEW r \in Runs, NEW k \in Kinds
      PROVE  Cardinality(OfKind(Running(Members(r), with(S)), k)) <= KindLimit[k]
  <2>1. CASE \E n \in S : RunOf[n] = r /\ KindOf[n] = k
    <3>1. PICK n \in S : RunOf[n] = r /\ KindOf[n] = k
      BY <2>1
    <3>2. Cardinality(OfKind(Running(Members(r), with(S \ {n})), k)) < KindLimit[k]
      BY <1>1, <3>1 DEF Claimable
    <3>3. IsFiniteSet(OfKind(Running(Members(r), with(S \ {n})), k))
      BY RunningIsFinite
    <3>4. OfKind(Running(Members(r), with(S)), k)
            \subseteq OfKind(Running(Members(r), with(S \ {n})), k) \cup {n}
      BY <1>2 DEF OfKind
    <3> HIDE DEF with
    <3> QED BY <3>2, <3>3, <3>4, Finite, Fits
  <2>2. CASE \A n \in S : ~(RunOf[n] = r /\ KindOf[n] = k)
    <3>1. OfKind(Running(Members(r), with(S)), k)
            \subseteq OfKind(Running(Members(r), st), k)
      BY <2>2 DEF Running, Members, OfKind
    <3>2. /\ IsFiniteSet(OfKind(Running(Members(r), st), k))
          /\ Cardinality(OfKind(Running(Members(r), st), k)) <= KindLimit[k]
      BY RunningIsFinite DEF Slots
    <3> HIDE DEF with
    <3> QED BY <3>1, <3>2, Finite, FitsStill
  <2> QED BY <2>1, <2>2
<1>5. Cardinality(ActiveRuns(with(S))) <= MaxActiveRuns
  <2>1. CASE \A n \in S : RunOf[n] \in ActiveRuns(st)
    <3>1. ActiveRuns(with(S)) \subseteq ActiveRuns(st)
      BY <2>1 DEF ActiveRuns, Running
    <3>2. IsFiniteSet(ActiveRuns(st)) /\ Cardinality(ActiveRuns(st)) <= MaxActiveRuns
      BY RunningIsFinite DEF Slots
    <3> HIDE DEF with
    <3> QED BY <3>1, <3>2, Finite, FitsStill
  <2>2. CASE \E n \in S : RunOf[n] \notin ActiveRuns(st)
    BY <1>1, <2>2
  <2> QED BY <2>1, <2>2
<1> HIDE DEF with
<1>6. Slots(with(S))
  BY <1>3, <1>4, <1>5 DEF Slots
<1> QED BY <1>6 DEF with

SlotsInv == TypeOK /\ SlotsAreKept

LEMMA FillSlots ==
  ASSUME TypeOK, NEW st, Slots(st), NEW rs, NEW waiting, Fill(st, rs, waiting)
  PROVE  SlotsAreKept'
<1>1. PICK S \in SUBSET {n \in Nodes : st[n] = "ready"} :
         /\ Claims(S, st, rs)
         /\ node' = [n \in Nodes |-> IF n \in S THEN "running" ELSE st[n]]
  BY DEF Fill
<1>2. S \in SUBSET Nodes
  OBVIOUS
<1>3. Slots([n \in Nodes |-> IF n \in S THEN "running" ELSE st[n]])
  BY <1>1, <1>2, ClaimsKeep
<1> QED BY <1>1, <1>3 DEF SlotsAreKept

(* A command that starts nothing by itself, and calls schedule(). *)
LEMMA ScheduleSlots ==
  ASSUME SlotsInv, NEW st, NEW rs, Schedule(st, rs),
         \A n \in Nodes : st[n] = "running" => node[n] = "running"
  PROVE  SlotsAreKept'
<1>1. Slots(st)
  BY FewerKeep DEF SlotsInv, SlotsAreKept
<1>2. CASE owner = "open" /\ loop = "none"
  BY <1>1, <1>2, FillSlots DEF SlotsInv, Schedule
<1>3. CASE ~(owner = "open" /\ loop = "none")
  BY <1>1, <1>3 DEF Schedule, SlotsAreKept
<1> QED BY <1>2, <1>3

LEMMA FewerSlots ==
  ASSUME SlotsInv, \A n \in Nodes : node'[n] = "running" => node[n] = "running"
  PROVE  SlotsAreKept'
<1>1. Slots(node')
  BY FewerKeep DEF SlotsInv, SlotsAreKept
<1> QED BY <1>1 DEF SlotsAreKept

LEMMA SlotsStep ==
  ASSUME SlotsInv, [Next]_vars
  PROVE  SlotsAreKept'
<1>0. node \in NodeRow
  BY DEF SlotsInv, TypeOK, NodeRow
<1>1. ASSUME NEW n \in Nodes, MakeReady(n) PROVE SlotsAreKept'
  <2> DEFINE st == [node EXCEPT ![n] = "ready"]
  <2>1. Schedule(st, run)
    BY <1>1 DEF MakeReady
  <2>2. \A m \in Nodes : st[m] = "running" => node[m] = "running"
    BY <1>0 DEF NodeRow
  <2> HIDE DEF st
  <2> QED BY <2>1, <2>2, ScheduleSlots
<1>2. ASSUME NEW r \in Runs, CancelRun(r) PROVE SlotsAreKept'
  <2> DEFINE st == [n \in Nodes |-> IF n \in Members(r) /\ node[n] \in {"blocked", "ready", "running"}
                                    THEN "cancelled" ELSE node[n]]
  <2>1. Schedule(st, run')
    BY <1>2 DEF CancelRun
  <2>2. \A n \in Nodes : st[n] = "running" => node[n] = "running"
    OBVIOUS
  <2> HIDE DEF st
  <2> QED BY <2>1, <2>2, ScheduleSlots
<1>3. ASSUME NEW r \in Runs, PauseRun(r) PROVE SlotsAreKept'
  <2> DEFINE st == [n \in Nodes |-> IF n \in Members(r) /\ node[n] = "running"
                                    THEN "ready" ELSE node[n]]
  <2>1. Schedule(st, run')
    BY <1>3 DEF PauseRun
  <2>2. \A n \in Nodes : st[n] = "running" => node[n] = "running"
    OBVIOUS
  <2> HIDE DEF st
  <2> QED BY <2>1, <2>2, ScheduleSlots
<1>4. ASSUME NEW r \in Runs, ResumeRun(r) PROVE SlotsAreKept'
  BY <1>4, ScheduleSlots DEF ResumeRun
<1>5. ASSUME NEW e \in Executions, Settle(e) PROVE SlotsAreKept'
  <2> DEFINE done(o) == [node EXCEPT ![e[1]] = o]
  <2>1. \A o \in {"succeeded", "failed"} :
           \A n \in Nodes : done(o)[n] = "running" => node[n] = "running"
    BY <1>0 DEF NodeRow
  <2>2. PICK o \in {"succeeded", "failed"} :
           \/ node' = node
           \/ node' = [m \in Nodes |->
                 IF done(o)[m] = "blocked" /\ <<e[1], m>> \in Upstream
                    /\ o = "succeeded" /\ UpstreamDone(m, done(o))
                 THEN "ready" ELSE done(o)[m]]
    BY <1>5 DEF Settle
  <2> HIDE DEF done
  <2>3. \A n \in Nodes : node'[n] = "running" => node[n] = "running"
    BY <2>1, <2>2
  <2> QED BY <2>3, FewerSlots
<1>6. ASSUME Continue PROVE SlotsAreKept'
  <2>1. CASE Fill(node, run, pending)
    BY <2>1, FillSlots DEF SlotsInv, SlotsAreKept
  <2>2. CASE node' = node
    BY <2>2, FewerSlots
  <2> QED BY <1>6, <2>1, <2>2 DEF Continue
<1>7. ASSUME Leave \/ Close \/ CloseDb \/ \E r \in Runs : CancelReturns(r) PROVE SlotsAreKept'
  <2>1. \A n \in Nodes : node'[n] = "running" => node[n] = "running"
    BY <1>7 DEF Leave, Close, CloseDb, CancelReturns
  <2> QED BY <2>1, FewerSlots
<1>8. CASE UNCHANGED vars
  BY <1>8, FewerSlots DEF vars
<1> QED BY <1>1, <1>2, <1>3, <1>4, <1>5, <1>6, <1>7, <1>8 DEF Next

LEMMA SlotsInit == Init => SlotsAreKept
<1> SUFFICES ASSUME Init PROVE SlotsAreKept
  OBVIOUS
<1>1. \A r : Running(Members(r), node) = {}
  BY DEF Init, Running, Members
<1>2. ActiveRuns(node) = {}
  BY DEF Init, ActiveRuns, Running
<1>3. \A k : OfKind({}, k) = {}
  BY DEF OfKind
<1> QED BY <1>1, <1>2, <1>3, Finite, FS_EmptySet DEF SlotsAreKept, Slots

-----------------------------------------------------------------------------
(* The types of the rows, executions, promises and commands (wiki-runs.ts). *)
THEOREM TypeCorrect == Spec => []TypeOK
<1>1. IInv => TypeOK
  BY DEF IInv
<1> QED BY <1>1, InvInit, InvStep, PTL DEF Spec

(* cancel_run returns after the last execution it is about, also of those   *)
(* that a pause retired or a rejected loop left, and whether or not commands *)
(* are dispatched in one turn; and close() closes the database after the     *)
(* last of all, unless a claim has thrown (close, cancel_run, schedule).     *)
THEOREM CallsAreQuiet == Spec => [](CancelIsQuiet /\ (~thrown => CloseIsQuiet))
<1>1. IInv => CancelIsQuiet /\ (~thrown => CloseIsQuiet)
  BY DEF IInv, LoopFits, CloseIsQuiet
<1> QED BY <1>1, InvInit, InvStep, PTL DEF Spec

(* No wake-up is lost: where the event loop runs its microtasks between two *)
(* commands, a node that can be claimed has a scheduler that will look for  *)
(* it, as long as no claim has thrown (schedule, runScheduler).             *)
THEOREM NoWakeupIsLost ==
  ASSUME ~SameTurn
  PROVE  Spec => []NoneIsLeftBehind
<1>1. IInv => NoneIsLeftBehind
  BY DEF IInv, LoopFits, Rests, NothingClaimable, NothingIsForgotten, CloseIsQuiet,
         NoneIsLeftBehind
<1> QED BY <1>1, InvInit, InvStep, PTL DEF Spec

(* The attempts that the rows call running never exceed the limits of the   *)
(* settings: of a run, of a kind in a run, and of runs at a time, although  *)
(* each claim counts them in a transaction of its own (claimReadyNode).     *)
THEOREM SlotsKept == Spec => []SlotsAreKept
<1>1. Init => SlotsInv
  BY InvInit, SlotsInit DEF SlotsInv, IInv
<1>2. IInv /\ SlotsInv /\ [Next]_vars => SlotsInv'
  BY InvStep, SlotsStep DEF SlotsInv, IInv
<1>3. SlotsInv => SlotsAreKept
  BY DEF SlotsInv
<1> QED BY <1>1, <1>2, <1>3, InvInit, InvStep, PTL DEF Spec
=============================================================================
