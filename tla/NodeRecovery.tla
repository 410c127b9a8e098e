------------------------------ MODULE NodeRecovery ------------------------------
(***************************************************************************)
(* A failed run and the page that gets it going again.  The rows are those *)
(* of RunControl.  The page sees of them only the slim snapshot            *)
(* (snapshot.ts): the current generation of each node, the attempts of     *)
(* that generation and a few of the older failures.  From it the page      *)
(* guesses which of its buttons the server would accept                    *)
(* (node-recovery.ts), which node the banner leads to (RunCanvas.tsx), and *)
(* which attempt it keeps on show while frames arrive (observation-state.ts,*)
(* useRunObservation.ts); the URL holds the selection over a reload        *)
(* (WorkspaceAgentPage.tsx).                                               *)
(*                                                                         *)
(* A command re-reads the run, asks its eligibility again and is posted    *)
(* with the revision it read, so it is one step from the state it judged:  *)
(* what falls between is refused (RunObservation).  Attempts are numbered  *)
(* in the order they started.  The pin of a freeze is FreezeRun's, the     *)
(* gap of a plan PlanTopology's, the cap of Wikis EvaluationRound's.       *)
(***************************************************************************)
EXTENDS RunControl, FiniteSetsExt

CONSTANTS
    RepairKeys,  \* keys repair.N
    HistoryCap,  \* FAILED_HISTORY_CAP
    Watches,     \* does the page follow the run, or only command it?
    MaxClicks    \* bound: what the operator does in the page besides commands

RecoveryAssumption ==
    RepairKeys \subseteq Keys /\ HistoryCap \in Nat \ {0} /\ MaxClicks \in Nat
    /\ Watches \in BOOLEAN

VARIABLES
    view,   \* state.snapshot: the attempts it lists, or that there is none yet
    route,  \* the URL: ?attempt wins over ?node
    sel,    \* selectedNodeKey and selectedAttemptId
    clicks

page == <<view, route, sel, clicks>>
allVars == <<vars, page>>

NoNode == "-"
Nowhere == [node |-> NoNode, attempt |-> NoAttempt]
NoView == [here |-> FALSE, attempts |-> {}]

PageTypeOK ==
    /\ TypeOK
    /\ view \in [here: BOOLEAN, attempts: SUBSET Attempts]
    /\ {route, sel} \subseteq [node: Keys \cup {NoNode}, attempt: Attempts \cup {NoAttempt}]
    /\ clicks \in 0 .. MaxClicks

-----------------------------------------------------------------------------
(* The slim snapshot.                                                      *)

Last(k) == last[k][gen[k]]
OfNode(A, k) == {a \in A : att[a].key = k}
IsFailure(a) == att[a].state \in {"failed", "interrupted"}

(* The newest n of a set of attempts. *)
Newest(A, n) == {a \in A : Cardinality({b \in A : b > a}) < n}

(* Always kept: the current generation, and what runs or waits.            *)
AlwaysKept(a) ==
    \/ att[a].state # "absent" /\ att[a].gen = gen[att[a].key]
    \/ att[a].state \in {"running", "suspended"}

(* buildSnapshot: and per node the newest of the older failures.           *)
SlimAttempts ==
    LET kept == {a \in Attempts : AlwaysKept(a)}
        rest == {a \in Attempts \ kept : IsFailure(a)}
    IN  kept \cup UNION {Newest(OfNode(rest, k), HistoryCap) : k \in Keys}

-----------------------------------------------------------------------------
(* What the page offers, judged on the snapshot.                           *)

HasOutputs(k) == out[k][gen[k]] # NoAttempt
Successors(k) == {c \in Keys : k \in Upstream[c]}

(* Mutant: sorted the other way round.                                     *)
EarliestAttempt(A, k) ==
    IF OfNode(A, k) = {} THEN NoAttempt ELSE Min(OfNode(A, k))

(* latestAttemptForNode: by generation, then by start; 0 for none.         *)
LatestAttempt(A, k) ==
    LET ofK   == OfNode(A, k)
        newer == {a \in ofK : \A b \in ofK : att[a].gen >= att[b].gen}
    IN  IF ofK = {} THEN NoAttempt ELSE Max(newer)

(* lastAttemptForNode: the one the node names, else the newest of its      *)
(* generation.                                                             *)
LastAttempt(k) ==
    IF Last(k) \in SlimAttempts THEN Last(k)
    ELSE LatestAttempt({a \in SlimAttempts : att[a].gen = gen[k]}, k)

RunBlocksRecovery == runState \in {"published", "cancelled"} \/ cancelRequested

(* Mutant: a consumer is one that has finished.                            *)
FinishedConsumers(k) ==
    \E c \in Successors(k) : State(c) \in {"succeeded", "failed"}

(* hasLikelyDownstreamConsumers: the edges stand in for the lineage.       *)
LikelyConsumers(k) ==
    \E c \in Successors(k) :
        \/ Last(c) # NoAttempt
        \/ State(c) \in {"running", "succeeded", "failed", "waiting"}
        \/ HasOutputs(k) /\ State(c) = "ready"

(* hasMaterializedExecutionTopology, here and in commands.ts.              *)
Materialized == Keys \ {"freeze", "plan", "gate.plan"} # {}

(* Mutant: whatever failed is offered, its run over or not.                *)
CanRetryFailed(k) == State(k) = "failed"

(* canRetryFailedNode                                                      *)
CanRetry(k) ==
    /\ ~RunBlocksRecovery
    /\ State(k) = "failed"
    /\ LastAttempt(k) # NoAttempt /\ IsFailure(LastAttempt(k))
    /\ ~(HasOutputs(k) /\ LikelyConsumers(k))

(* canRerunNode; the consumers are a warning.                              *)
CanRerun(k) ==
    /\ ~RunBlocksRecovery
    /\ k \notin RepairKeys
    /\ ~(k = "plan" /\ Materialized)

WarnsOfConsumers(k) == CanRerun(k) /\ LikelyConsumers(k)

(* Mutant: a node that failed under a crash is told by its attempt alone.  *)
TargetsByAttempt ==
    {k \in Keys : LastAttempt(k) # NoAttempt /\ att[LastAttempt(k)].state = "failed"}

(* listRecoveryTargetNodes                                                 *)
RecoveryTargets ==
    {k \in Keys :
        \/ State(k) = "failed"
        \/ LastAttempt(k) # NoAttempt /\ att[LastAttempt(k)].state = "interrupted"}

(* needsRecoveryBanner *)
NeedsBanner == runState = "failed" \/ RecoveryTargets # {}

(* The buttons of the canvas that need no node.                            *)
OffersPause == runState \notin {"paused", "published", "failed", "cancelled"}
OffersResume == runState = "paused"
OffersCancel == runState \notin {"published", "failed", "cancelled"}

-----------------------------------------------------------------------------
(* The commands of the page: the freshly read run, the judgement and the   *)
(* transaction of the server.                                              *)

(* What rerunNode of commands.ts refuses besides what RunControl models.   *)
ServerReruns(k) == k \notin RepairKeys /\ ~(k = "plan" /\ Materialized)

DispatchRetry(k) == CanRetry(k) /\ RetryFailedNode(k) /\ UNCHANGED page
DispatchRerun(k) ==
    CanRerun(k) /\ ServerReruns(k) /\ RerunNode(k) /\ UNCHANGED page
DispatchPause == OffersPause /\ PauseRun /\ UNCHANGED page
DispatchResume == OffersResume /\ ResumeRun /\ UNCHANGED page
DispatchCancel == OffersCancel /\ CancelRun /\ UNCHANGED page
DispatchAnswer(k, g) == AnswerGate(k, g) /\ UNCHANGED page

-----------------------------------------------------------------------------
(* The selection.                                                          *)

(* selectObservationNode: a listed attempt by its id, else the latest.     *)
Select(v, k, a) ==
    [node |-> k,
     attempt |-> IF a # NoAttempt /\ a \in v.attempts THEN a
                 ELSE LatestAttempt(v.attempts, k)]

(* Mutant: a snapshot selects the newest attempt of the selected node.     *)
KeepNewest(s, v) ==
    IF s.attempt = NoAttempt THEN s
    ELSE [s EXCEPT !.attempt = LatestAttempt(v.attempts, s.node)]

(* setObservationSnapshot: the selection stays if it is still listed.      *)
KeepSelection(s, v) ==
    IF s.attempt \in v.attempts THEN [node |-> att[s.attempt].key, attempt |-> s.attempt]
    ELSE [s EXCEPT !.attempt = NoAttempt]

(* Mutant: the URL applies to the first snapshot only.                     *)
NoRoute(r, s, v) == s

(* The effect of useRunObservation on the URL and the snapshot.            *)
ApplyRoute(r, s, v) ==
    IF r.attempt # NoAttempt
    THEN IF s.attempt # r.attempt /\ r.attempt \in v.attempts
         THEN Select(v, att[r.attempt].key, r.attempt) ELSE s
    ELSE IF r.node = NoNode \/ (s.node = r.node /\ s.attempt = NoAttempt) THEN s
    ELSE Select(v, r.node, NoAttempt)

(* The snapshot of a GET or a frame, then the effect.                      *)
Receive ==
    LET v == [here |-> TRUE, attempts |-> SlimAttempts]
    IN  /\ Watches /\ owner = "up" /\ v # view
        /\ view' = v
        /\ sel' = ApplyRoute(route, KeepSelection(sel, v), v)
        /\ UNCHANGED <<vars, route, clicks>>

Click == clicks < MaxClicks /\ clicks' = clicks + 1 /\ UNCHANGED vars

(* selectNode: a node with attempts is routed by its latest one.           *)
SelectNode(k) ==
    LET s == Select(view, k, NoAttempt)
    IN  /\ view.here /\ Click
        /\ sel' = s
        /\ route' = IF s.attempt = NoAttempt THEN [Nowhere EXCEPT !.node = k]
                    ELSE [Nowhere EXCEPT !.attempt = s.attempt]
        /\ UNCHANGED view

SelectAttempt(a) ==
    /\ a \in view.attempts /\ Click
    /\ sel' = Select(view, att[a].key, a)
    /\ route' = [Nowhere EXCEPT !.attempt = a]
    /\ UNCHANGED view

(* Back to the canvas: only the URL is cleared.                            *)
ShowRun ==
    /\ route # Nowhere /\ Click
    /\ route' = Nowhere
    /\ UNCHANGED <<view, sel>>

(* The page is loaded again, with its URL.                                 *)
Reload ==
    /\ view.here /\ Click
    /\ view' = NoView
    /\ sel' = ApplyRoute(route, Nowhere, NoView)
    /\ UNCHANGED route

-----------------------------------------------------------------------------
PageInit == Init /\ view = NoView /\ route = Nowhere /\ sel = Nowhere /\ clicks = 0

Rows == (Scheduler \/ (\E a \in Attempts : Worker(a)) \/ Recovery \/ Close \/ Crash)
        /\ UNCHANGED page
Dispatch ==
    \/ "cancel" \in Commands /\ DispatchCancel
    \/ "pause" \in Commands /\ (DispatchPause \/ DispatchResume)
    \/ "retry" \in Commands /\ \E k \in Keys : DispatchRetry(k)
    \/ "rerun" \in Commands /\ \E k \in Keys : DispatchRerun(k)
    \/ \E k \in Keys, g \in Gens : DispatchAnswer(k, g)
Operate ==
    \/ \E k \in Keys : SelectNode(k)
    \/ \E a \in Attempts : SelectAttempt(a)
    \/ ShowRun
    \/ Reload

PageNext == Rows \/ Dispatch \/ Receive \/ Operate
PageSpec == PageInit /\ [][PageNext]_allVars

-----------------------------------------------------------------------------
(* Properties.                                                             *)

(* The server as one operator meets it: it is up, and the bound on         *)
(* generations leaves room for the rerun.                                  *)
Room(k) == \A t \in {k} \cup Lineage(k) : gen[t] < MaxGen
WouldAccept(k) ==
    \/ CanRetry(k) /\ ENABLED RetryFailedNode(k)
    \/ CanRerun(k) /\ ServerReruns(k) /\ ENABLED RerunNode(k)

(* A button the page offers is one the server accepts at the revision it   *)
(* was judged at, although the page has edges and states where the server  *)
(* has the lineage and the frozen inputs of the attempts ("Client          *)
(* best-effort eligibility", node-recovery.ts; retryFailedNode,            *)
(* rerunNode, pauseRun, resumeRun and cancelRun of commands.ts).           *)
OfferedIsAccepted ==
    owner = "up" =>
    /\ \A k \in Keys : CanRetry(k) => ENABLED RetryFailedNode(k)
    /\ \A k \in Keys : CanRerun(k) /\ Room(k) => ServerReruns(k) /\ ENABLED RerunNode(k)
    /\ OffersPause => ENABLED PauseRun
    /\ OffersResume => ENABLED ResumeRun
    /\ OffersCancel => ENABLED CancelRun

(* A rerun that takes other nodes with it says so beforehand: whenever the *)
(* lineage has a consumer, the page warns (hasLikelyDownstreamConsumers    *)
(* against lineageInvalidationClosure).                                    *)
CascadesAreWarned ==
    \A k \in Keys : CanRerun(k) /\ Lineage(k) # {} => WarnsOfConsumers(k)

(* A run that stands still can be got going from the page: the banner is   *)
(* up, and each node it leads to that has failed offers an action the      *)
(* server accepts, after crashes, reruns and answered questions alike      *)
(* (needsRecoveryBanner, listRecoveryTargetNodes).                         *)
StandstillIsShown ==
    owner = "up" /\ runState \in LiveStates \cup {"failed"} /\ ~HasActiveWork(node)
    => /\ NeedsBanner
       /\ \E k \in RecoveryTargets : State(k) = "failed"
       /\ \A k \in RecoveryTargets : State(k) = "failed" /\ Room(k) => WouldAccept(k)

(* What the observation of a failed node shows first is what Retry would   *)
(* run again: the latest listed attempt is the one the command names       *)
(* (latestAttemptForNode of selectNode, lastAttemptForNode of dispatchRetry,*)
(* the attempts that buildSnapshot keeps).                                 *)
RetriedIsShown ==
    \A k \in Keys : CanRetry(k) =>
        LatestAttempt(SlimAttempts, k) = Last(k) /\ LastAttempt(k) = Last(k)

(* "Snapshot updates deliberately never invoke this transition, so a retry *)
(* or a live sibling cannot pull an operator away" (observation-state.ts): *)
(* only a click or the URL itself puts another attempt on show.            *)
KeepsTheSelection ==
    clicks' = clicks /\ sel'.attempt # sel.attempt => sel'.attempt \in {NoAttempt, route.attempt}
NeverPulled == [][KeepsTheSelection]_allVars

(* The URL is the authority on the selection: an attempt it names is on    *)
(* show as long as the snapshot lists it, over reloads too.                *)
RouteIsShown ==
    view.here /\ route.attempt \in view.attempts => sel.attempt = route.attempt

(* Not so: "that history remains a valid observation target".              *)
HistoryStays ==
    [][view.here /\ sel.attempt # NoAttempt /\ clicks' = clicks
       => sel'.attempt = sel.attempt]_allVars

(* Not so: a node named by the URL shows the attempt it has.               *)
NodeRouteShowsAttempt ==
    view.here /\ route.node # NoNode /\ LatestAttempt(view.attempts, route.node) # NoAttempt
    => sel.attempt # NoAttempt

(* Not so while the run is paused: an open question can be answered.       *)
QuestionIsAnswerable ==
    owner = "up" => \A x \in gates : x[2] < MaxGen => ENABLED AnswerGate(x[1], x[2])
=============================================================================
