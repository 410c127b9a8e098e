---------------------------- MODULE SchedulerWake ----------------------------
(***************************************************************************)
(* The scheduler of a workspace's runs as the promises it is made of       *)
(* (wiki-runs.ts, scheduler.ts): schedule() starts runScheduler unless one *)
(* is there, runScheduler claims what it can, waits for one attempt to     *)
(* end, claims again, and returns when nothing is pending; cancel_run and  *)
(* close() wait for executions.  A claim that throws rejects runScheduler,  *)
(* with what it waited for still in flight.                                *)
(*                                                                         *)
(* The rows are reduced to the state of each node and run; what an attempt *)
(* mounts and commits is module RunControl.  An execution is named by its  *)
(* node and a number, for a node whose attempt was retired by a pause may  *)
(* be claimed again while the executor of the old one is still at work.    *)
(***************************************************************************)
EXTENDS Naturals, FiniteSets

CONSTANTS
    Nodes,
    Upstream,     \* pairs <<u, n>>: n waits for u
    RunOf,        \* RunOf[n]: the run a node belongs to
    KindOf,       \* KindOf[n]: its kind
    KindLimit,    \* KindLimit[k]: concurrencyLimitForKind
    MaxActiveRuns, MaxConcurrentAttempts,  \* workspace.orchestration
    Throwing,     \* nodes whose claim may throw: a required input may be missing
    SameTurn,     \* two commands may be dispatched before the microtasks of the first have run
    MaxCommands,  \* bound: commands of the operator
    MaxAttempts   \* bound: attempts of a node

Runs == {RunOf[n] : n \in Nodes}
Kinds == {KindOf[n] : n \in Nodes}

ASSUME GraphAssumption ==
    /\ IsFiniteSet(Nodes) /\ Upstream \subseteq Nodes \X Nodes /\ Throwing \subseteq Nodes
    /\ KindLimit \in [Kinds -> Nat \ {0}]
    /\ MaxActiveRuns \in Nat \ {0} /\ MaxConcurrentAttempts \in Nat \ {0}
    /\ SameTurn \in BOOLEAN /\ MaxCommands \in Nat /\ MaxAttempts \in Nat

VARIABLES
    node,      \* node[n]: nodes.state of the current generation
    run,       \* run[r]: runs.state, as "active", "paused" or "cancelled"
    attempts,  \* attempts[n]: how many attempts n has had; the last one is current
    flying,    \* activeExecutions: executions that have not settled
    pending,   \* those of them the current runScheduler waits for
    loop,      \* where the promise this.scheduler is
    thrown,    \* history: a claim has thrown
    owner,     \* "open", "closing", "closed" (the database), "unclosed": close() was rejected
    cancels,   \* cancels[r]: what the cancel_run of r waits for
    commands   \* commands dispatched so far

vars == <<node, run, attempts, flying, pending, loop, thrown, owner, cancels, commands>>

NodeStates == {"blocked", "ready", "running", "succeeded", "failed", "cancelled"}
LoopStates == {"none", "racing", "woken", "draining", "returned", "rejected"}
Executions == Nodes \X (1 .. MaxAttempts)
NotCancelled == [state |-> "no", for |-> {}]

Last(n, a) == <<n, a[n]>>
Members(r) == {n \in Nodes : RunOf[n] = r}
UpstreamDone(n, st) == \A u \in Nodes : <<u, n>> \in Upstream => st[u] = "succeeded"
OfKind(S, k) == {n \in S : KindOf[n] = k}
Running(S, st) == {n \in S : st[n] = "running"}
ActiveRuns(st) == {RunOf[n] : n \in Running(Nodes, st)}

-----------------------------------------------------------------------------
(* Claiming.  The four tests of claimReadyNode; they count rows, not          *)
(* executions, and the attempts of one run.                                   *)

Claimable(n, st, rs) ==
    LET mine == Running(Members(RunOf[n]), st) IN
    /\ st[n] = "ready" /\ rs[RunOf[n]] = "active"
    /\ attempts[n] < MaxAttempts
    /\ Cardinality(mine) < MaxConcurrentAttempts
    /\ Cardinality(OfKind(mine, KindOf[n])) < KindLimit[KindOf[n]]
    /\ mine # {} \/ Cardinality(ActiveRuns(st)) < MaxActiveRuns
    /\ UpstreamDone(n, st)

\* A set that a sequence of claims leads to: one after the other is allowed, and
\* a run that had no attempt finds a place among the active ones.
Claims(S, st, rs) ==
    LET with(T) == [n \in Nodes |-> IF n \in T THEN "running" ELSE st[n]] IN
    \A n \in S : /\ Claimable(n, with(S \ {n}), rs)
                 /\ \/ RunOf[n] \in ActiveRuns(st)
                    \/ Cardinality(ActiveRuns(with(S))) <= MaxActiveRuns

\* The inner loop of runScheduler launches what it claims.  When no other claim
\* is allowed it waits for the race of what is pending, or returns; a claim that
\* throws is rolled back and ends it, whatever is pending.
Fill(st, rs, waiting) == \E S \in SUBSET {n \in Nodes : st[n] = "ready"} :
    LET launched == {<<n, attempts[n] + 1>> : n \in S} IN
    /\ Claims(S, st, rs)
    /\ node' = [n \in Nodes |-> IF n \in S THEN "running" ELSE st[n]]
    /\ attempts' = [n \in Nodes |-> attempts[n] + IF n \in S THEN 1 ELSE 0]
    /\ flying' = flying \cup launched
    /\ \/ /\ \A n \in Nodes \ S : ~Claimable(n, node', rs)
          /\ pending' = waiting \cup launched
          /\ loop' = IF waiting \cup launched = {} THEN "returned" ELSE "racing"
          /\ UNCHANGED thrown
       \/ /\ \E n \in Throwing \ S : Claimable(n, node', rs)
          /\ pending' = {} /\ loop' = "rejected" /\ thrown' = TRUE

\* schedule(): nothing while a scheduler is there, whatever state it is in.
Schedule(st, rs) ==
    IF owner = "open" /\ loop = "none"
    THEN Fill(st, rs, {})
    ELSE node' = st /\ UNCHANGED <<attempts, flying, pending, loop, thrown>>

-----------------------------------------------------------------------------
(* Commands.  A turn of the event loop ends when its microtasks have run:     *)
(* the next command finds the scheduler racing or gone, unless the caller     *)
(* dispatches two at once.                                                    *)

Turn == owner = "open" /\ commands < MaxCommands /\ commands' = commands + 1
        /\ (SameTurn \/ loop \notin {"woken", "returned", "rejected"})

\* start_run, resolve_gate, retry_failed_node: a node becomes ready.
MakeReady(n) ==
    /\ Turn
    /\ node[n] \in {"blocked", "failed"} /\ run[RunOf[n]] = "active" /\ UpstreamDone(n, node)
    /\ Schedule([node EXCEPT ![n] = "ready"], run)
    /\ run' = run
    /\ UNCHANGED <<owner, cancels>>

\* applyRunCancelTransitions, schedule, and the beginning of the wait for
\* activeExecutions of that run.
CancelRun(r) ==
    /\ Turn
    /\ run[r] # "cancelled"
    /\ run' = [run EXCEPT ![r] = "cancelled"]
    /\ Schedule([n \in Nodes |-> IF n \in Members(r) /\ node[n] \in {"blocked", "ready", "running"}
                                 THEN "cancelled" ELSE node[n]], run')
    /\ cancels' = [cancels EXCEPT ![r] =
                     [state |-> "waits", for |-> {e \in flying : RunOf[e[1]] = r}]]
    /\ UNCHANGED owner

\* pause_run: running nodes are ready again, their executors are aborted.
PauseRun(r) ==
    /\ Turn
    /\ run[r] = "active"
    /\ run' = [run EXCEPT ![r] = "paused"]
    /\ Schedule([n \in Nodes |-> IF n \in Members(r) /\ node[n] = "running"
                                 THEN "ready" ELSE node[n]], run')
    /\ UNCHANGED <<owner, cancels>>

ResumeRun(r) ==
    /\ Turn
    /\ run[r] = "paused"
    /\ run' = [run EXCEPT ![r] = "active"]
    /\ Schedule(node, run')
    /\ UNCHANGED <<owner, cancels>>

\* Promise.all of the executions found: cancel_run returns.
CancelReturns(r) ==
    /\ cancels[r].state = "waits" /\ cancels[r].for \cap flying = {}
    /\ cancels' = [cancels EXCEPT ![r].state = "returned"]
    /\ UNCHANGED <<node, run, attempts, flying, pending, loop, thrown, owner, commands>>

-----------------------------------------------------------------------------
(* Executions and the loop.                                                   *)

\* executeClaimed settles: isCurrent decides whether the rows take the outcome;
\* success makes ready what waited for it.
Settle(e) == \E outcome \in {"succeeded", "failed"} :
    LET n == e[1]
        current == owner = "open" /\ node[n] = "running" /\ e = Last(n, attempts)
        done == [node EXCEPT ![n] = outcome] IN
    /\ e \in flying
    /\ flying' = flying \ {e}
    /\ pending' = pending \ {e}
    /\ node' = IF current
               THEN [m \in Nodes |-> IF done[m] = "blocked" /\ <<n, m>> \in Upstream
                                        /\ outcome = "succeeded" /\ UpstreamDone(m, done)
                                     THEN "ready" ELSE done[m]]
               ELSE node
    /\ loop' = IF e \notin pending THEN loop
               ELSE IF loop = "racing" THEN "woken"
               ELSE IF loop = "draining" /\ pending' = {} THEN "returned" ELSE loop
    /\ UNCHANGED <<run, attempts, thrown, owner, cancels, commands>>

\* Mutant: the loop returns when the attempts it launched first have been raced.
ContinueOnce ==
    /\ loop = "woken"
    /\ loop' = IF pending = {} THEN "returned" ELSE "racing"
    /\ UNCHANGED <<node, attempts, flying, pending, thrown, run, owner, cancels, commands>>

\* Mutant: close() waits for the race, not for all that is pending.
ContinueNoDrain ==
    /\ loop = "woken"
    /\ IF owner = "open"
       THEN Fill(node, run, pending)
       ELSE loop' = "returned" /\ UNCHANGED <<node, attempts, flying, pending, thrown>>
    /\ UNCHANGED <<run, owner, cancels, commands>>

\* The loop goes on after the race: claim again, or drain when closing.
Continue ==
    /\ loop = "woken"
    /\ IF owner = "open"
       THEN Fill(node, run, pending)
       ELSE /\ loop' = IF pending = {} THEN "returned" ELSE "draining"
            /\ UNCHANGED <<node, attempts, flying, pending, thrown>>
    /\ UNCHANGED <<run, owner, cancels, commands>>

\* The .finally of schedule().  The rejection is nobody's but that of a close()
\* that awaits the promise already: it leaves before it closes the database.
Leave ==
    /\ loop \in {"returned", "rejected"}
    /\ loop' = "none"
    /\ owner' = IF loop = "rejected" /\ owner = "closing" THEN "unclosed" ELSE owner
    /\ UNCHANGED <<node, run, attempts, flying, pending, thrown, cancels, commands>>

\* close(): aborts, interruptRunningAttempts, and waits for the scheduler.
Close ==
    /\ owner = "open" /\ (SameTurn \/ loop \notin {"woken", "returned", "rejected"})
    /\ owner' = "closing"
    /\ node' = [n \in Nodes |-> IF node[n] = "running" THEN "failed" ELSE node[n]]
    /\ UNCHANGED <<run, attempts, flying, pending, loop, thrown, cancels, commands>>

CloseDb ==
    /\ owner = "closing" /\ loop = "none"
    /\ owner' = "closed"
    /\ UNCHANGED <<node, run, attempts, flying, pending, loop, thrown, cancels, commands>>

Init ==
    /\ node = [n \in Nodes |-> "blocked"]
    /\ run = [r \in Runs |-> "active"]
    /\ attempts = [n \in Nodes |-> 0]
    /\ flying = {} /\ pending = {} /\ loop = "none" /\ thrown = FALSE
    /\ owner = "open"
    /\ cancels = [r \in Runs |-> NotCancelled]
    /\ commands = 0

Next ==
    \/ \E n \in Nodes : MakeReady(n)
    \/ \E r \in Runs : CancelRun(r) \/ PauseRun(r) \/ ResumeRun(r) \/ CancelReturns(r)
    \/ \E e \in Executions : Settle(e)
    \/ Continue \/ Leave \/ Close \/ CloseDb

\* Executors end (they are aborted or time out) and the event loop runs its jobs.
Fairness ==
    /\ \A e \in Executions : WF_vars(Settle(e))
    /\ WF_vars(Continue) /\ WF_vars(Leave) /\ WF_vars(CloseDb)
    /\ \A r \in Runs : WF_vars(CancelReturns(r))

Spec == Init /\ [][Next]_vars /\ Fairness

-----------------------------------------------------------------------------
(* What the scheduler owes.                                                   *)

TypeOK ==
    /\ node \in [Nodes -> NodeStates]
    /\ run \in [Runs -> {"active", "paused", "cancelled"}]
    /\ attempts \in [Nodes -> 0 .. MaxAttempts]
    /\ flying \subseteq Executions /\ pending \subseteq flying
    /\ loop \in LoopStates /\ thrown \in BOOLEAN
    /\ owner \in {"open", "closing", "closed", "unclosed"}
    /\ cancels \in [Runs -> [state: {"no", "waits", "returned"}, for: SUBSET Executions]]
    /\ commands \in 0 .. MaxCommands

\* No wake-up is lost: when no scheduler is there, nothing could be claimed.
\* Every transaction that makes a node ready, frees a slot or reactivates a run
\* is followed by schedule() or by a turn of the loop.
NothingIsForgotten ==
    owner = "open" /\ loop = "none" => \A n \in Nodes : ~Claimable(n, node, run)

\* Whoever runs holds what started it: an execution in flight is waited for by
\* the loop that is there, so that close() closes the database after the last
\* of them, not under its hands.
CloseIsQuiet == owner = "closed" => flying = {}

\* A cancel_run that has returned has outlived every execution of the run, the
\* ones that a pause retired before it included.
CancelIsQuiet ==
    \A r \in Runs : cancels[r].state = "returned" => \A e \in flying : RunOf[e[1]] # r

\* The three together: neither a closed database nor a cancel_run that has
\* returned leaves an execution behind it, and no wake-up is lost.  Only cancel_run
\* looks for the executions themselves: the other two go with the loop, as long
\* as no claim has thrown.
NoneIsLeftBehind == CancelIsQuiet /\ (~thrown => NothingIsForgotten /\ CloseIsQuiet)

\* The slots of the workspace are kept however commands, pauses and the ends of
\* attempts interleave with the claims: of a run no more attempts run than
\* maxConcurrentAttempts, nor of a kind than its limit, and no more runs are
\* active than maxActiveRuns (claimReadyNode).
Slots(st) ==
    /\ \A r \in Runs :
          /\ Cardinality(Running(Members(r), st)) <= MaxConcurrentAttempts
          /\ \A k \in Kinds : Cardinality(OfKind(Running(Members(r), st), k)) <= KindLimit[k]
    /\ Cardinality(ActiveRuns(st)) <= MaxActiveRuns
SlotsAreKept == Slots(node)

\* A node that can be claimed is claimed, or cannot be claimed any more.
ReadyIsClaimed ==
    \A n \in Nodes :
        Claimable(n, node, run) ~> ~Claimable(n, node, run) \/ owner # "open" \/ thrown

\* cancel_run and close() return.
CallsReturn ==
    /\ \A r \in Runs : cancels[r].state = "waits" ~> cancels[r].state = "returned"
    /\ owner = "closing" ~> owner = "closed"

(* What scheduler.ts:41 says: the scheduler drains ready claims until the      *)
(* owner closes or the queue is empty.  When a claim throws, the nodes behind   *)
(* it wait, and the ends of the attempts in flight wake nobody.                 *)
ClaimsAreDrained ==
    \A n \in Nodes \ Throwing :
        Claimable(n, node, run) ~> ~Claimable(n, node, run) \/ owner # "open"

(* What scheduler.ts:40 says: independent ready nodes run under the            *)
(* concurrency of the workspace.  At rest, no slot is free for a ready node.   *)
FreeSlotIsFilled ==
    owner = "open" /\ loop = "racing" => \A n \in Nodes : ~Claimable(n, node, run)

(* What contract/src/workspace.ts:189 says: maxConcurrentAttempts is a         *)
(* ceiling on the attempts in flight in the workspace.                         *)
WorkspaceCeiling == Cardinality(Running(Nodes, node)) <= MaxConcurrentAttempts
=============================================================================
