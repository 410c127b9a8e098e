------------------------------- MODULE ControlMC -------------------------------
(* The control plane of a workspace in scenes: the first state chooses one, and *)
(* the components that have no part in it stay in their initial states.         *)
(*   "wake"   two runs share the scheduler                (SchedulerWake)       *)
(*   "live"   two nodes whose owner is closed and opened  (RunControl)          *)
(*   "gates"  two runs whose gates share the timer        (GateExpiry)          *)
(*   "reopen" a crash, for CrashIsRecovered, which fails  (RunControl)          *)
EXTENDS SchedulerWake, TLC

CONSTANT Scenes  \* the scenes a run plays

VARIABLES scene,
          runState, cancelRequested, gen, rowState, cur, last, parent, att, out, gates,
          prep, work, said, host, crashes, closes,
          gateRun, gate, number, late, timer, store, idle, upsets

(* One chain a1 -> a2, whose second claim may throw, and two leaves, of which   *)
(* one may run at a time, beside a node of another kind.                        *)
McNodes == {"a1", "a2", "b1", "b2", "b3"}
McUpstream == {<<"a1", "a2">>}
McRunOf == [a1 |-> "A", a2 |-> "A", b1 |-> "B", b2 |-> "B", b3 |-> "B"]
McKindOf == [a1 |-> "plan", a2 |-> "leaf", b1 |-> "leaf", b2 |-> "leaf", b3 |-> "plan"]
McKindLimit == [plan |-> 1, leaf |-> 1]

(* Two steps: every generation of the second mounts the first. *)
Pair == "write" :> {} @@ "publish" :> {"write"}

Live == INSTANCE RunControl WITH
    Keys <- {"write", "publish"}, Upstream <- Pair, FinalKey <- "publish",
    AskKeys <- {"write"}, EvidenceKeys <- {}, PartialKeys <- {"write"},
    AutoRetryKeys <- {}, MaxAutoAttempts <- 2, MaxConcurrent <- 1,
    MaxGen <- 1, MaxAttempts <- 2, MaxCrashes <- 0, MaxCloses <- 1,
    Commands <- {"cancel", "pause"}, node <- rowState, owner <- host

Reopen == INSTANCE RunControl WITH
    Keys <- {"write", "publish"}, Upstream <- Pair, FinalKey <- "publish",
    AskKeys <- {}, EvidenceKeys <- {}, PartialKeys <- {},
    AutoRetryKeys <- {}, MaxAutoAttempts <- 2, MaxConcurrent <- 1,
    MaxGen <- 0, MaxAttempts <- 2, MaxCrashes <- 1, MaxCloses <- 0,
    Commands <- {}, node <- rowState, owner <- host

Gates == INSTANCE GateExpiry WITH
    Runs <- {"r1", "r2"}, MaxGates <- 2, MaxUpsets <- 2, MaxWakes <- 3,
    run <- gateRun, owner <- store

ASSUME Live!BoundsAssumption /\ Gates!BoundsAssumption

controlVars == <<runState, cancelRequested, gen, rowState, cur, last, parent, att, out, gates,
                 prep, work, said, host, crashes, closes>>
gateVars == <<gateRun, gate, number, late, timer, store, idle, upsets>>
allVars == <<scene, vars, controlVars, gateVars>>

McInit ==
    /\ scene \in Scenes /\ Init /\ Gates!Init
    /\ IF scene = "reopen" THEN Reopen!Init ELSE Live!Init

InWake(A) == scene = "wake" /\ A /\ UNCHANGED <<scene, controlVars, gateVars>>
InControl(s, A) == scene = s /\ A /\ UNCHANGED <<scene, vars, gateVars>>
InGates(A) == scene = "gates" /\ A /\ UNCHANGED <<scene, vars, controlVars>>

McNext ==
    \/ InWake(Next)
    \/ InControl("live", Live!Next)
    \/ InControl("reopen", Reopen!Next)
    \/ InGates(Gates!Next)

(* The fairness of each component, in its scene. *)
McFairness ==
    /\ \A e \in Executions : WF_vars(scene = "wake" /\ Settle(e))
    /\ WF_vars(scene = "wake" /\ Continue) /\ WF_vars(scene = "wake" /\ Leave)
    /\ WF_vars(scene = "wake" /\ CloseDb)
    /\ \A r \in Runs : WF_vars(scene = "wake" /\ CancelReturns(r))
    /\ WF_controlVars(scene = "live" /\ Live!Scheduler)
    /\ WF_controlVars(scene = "live" /\ Live!Recovery)
    /\ \A a \in Live!Attempts : WF_controlVars(scene = "live" /\ Live!Worker(a))
    /\ WF_controlVars(scene = "reopen" /\ Reopen!Scheduler)
    /\ WF_controlVars(scene = "reopen" /\ Reopen!Recovery)
    /\ \A a \in Reopen!Attempts : WF_controlVars(scene = "reopen" /\ Reopen!Worker(a))
    /\ WF_gateVars(scene = "gates" /\ Gates!TimerFires)
    /\ WF_gateVars(scene = "gates" /\ Gates!Start)
    /\ \A r \in {"r1", "r2"} : WF_gateVars(scene = "gates" /\ Gates!Age(r))

McSpec == McInit /\ [][McNext]_allVars /\ McFairness

--------------------------------------------------------------------------------
(* The operator, the timeout and a cancel decide a gate once, and no answer is  *)
(* accepted after the deadline (resolveGate, expireGates).                      *)
GateIsDecidedOnce == Gates!NoLateAnswer /\ Gates!DecidedOnce

(* What can run is run and what runs ends: a claimable node is claimed, an      *)
(* attempt does not run for ever, and a closed store opens again (runScheduler, *)
(* interruptRunningAttempts, openWikiRuns).                                     *)
WorkGoesOn ==
    /\ scene = "wake" => ReadyIsClaimed
    /\ scene = "live" => Live!AttemptsEnd /\ Live!StoreReopens

(* Whoever waits is answered: cancel_run and close() return, and the gate of a  *)
(* run that is not paused is decided in the end (refreshGateExpiryTimer).       *)
WaitsEnd ==
    /\ scene = "wake" => CallsReturn
    /\ scene = "gates" => Gates!GatesEnd

(* An opening of the store succeeds after every crash (openWikiRuns).           *)
CrashIsRecovered == scene = "reopen" => Reopen!StoreReopens
================================================================================
