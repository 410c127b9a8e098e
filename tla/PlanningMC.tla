------------------------------ MODULE PlanningMC ------------------------------
(* How a run is planned and how its Wiki is evaluated, in scenes: the first      *)
(* state chooses one, and the component without a part in it stays in its        *)
(* initial state.                                                                *)
(*   "rounds"      two rounds of repair the operator starts (EvaluationRound)    *)
(*   "budgets"     repairs of both kinds start themselves                        *)
(*   "waves"       two waves of scouts, one optional, and a gap (PlanTopology)   *)
(*   "discovery"   the same with two rounds for the gap, to its end              *)
(*   "light"       no scout but the one a gap adds, nobody is asked              *)
(*   "unapproved"  two waves and a rerun, for ApprovedPlanIsWritten, which fails *)
(* The constants of the configuration are those of "budgets".                    *)
EXTENDS EvaluationRound

CONSTANT Scenes  \* the scenes a run plays

VARIABLES scene, planRows, planRun, approved, rescouts, planFailures, planReruns, decisions,
          revisions

ThreeRepairs == <<"repair.1", "repair.2", "repair.3">>

Rounds == INSTANCE EvaluationRound WITH
    MechanicalBudget <- 0, AutoRepair <- FALSE, MaxFailures <- 2, MaxReruns <- 0

Waves == INSTANCE PlanTopology WITH
    WaveA <- {"unit"}, WaveB <- {"flow", "side"}, Gaps <- {"gap"}, Optional <- {"side"},
    Sources <- 2, PlanConfirm <- TRUE, MaxRounds <- 1, AutoAttempts <- 2,
    MaxFailures <- 2, MaxReruns <- 1, MaxDecisions <- 1, MaxRevisions <- 0,
    rows <- planRows, run <- planRun, failures <- planFailures, reruns <- planReruns

Discovery == INSTANCE PlanTopology WITH
    WaveA <- {"unit"}, WaveB <- {"flow", "side"}, Gaps <- {"gap"}, Optional <- {"side"},
    Sources <- 2, PlanConfirm <- TRUE, MaxRounds <- 2, AutoAttempts <- 2,
    MaxFailures <- 2, MaxReruns <- 0, MaxDecisions <- 1, MaxRevisions <- 0,
    rows <- planRows, run <- planRun, failures <- planFailures, reruns <- planReruns

LightRun == INSTANCE PlanTopology WITH
    WaveA <- {}, WaveB <- {}, Gaps <- {"gap"}, Optional <- {},
    Sources <- 1, PlanConfirm <- FALSE, MaxRounds <- 1, AutoAttempts <- 2,
    MaxFailures <- 2, MaxReruns <- 2, MaxDecisions <- 1, MaxRevisions <- 0,
    rows <- planRows, run <- planRun, failures <- planFailures, reruns <- planReruns

Unapproved == INSTANCE PlanTopology WITH
    WaveA <- {"unit"}, WaveB <- {"flow", "side"}, Gaps <- {}, Optional <- {"side"},
    Sources <- 2, PlanConfirm <- TRUE, MaxRounds <- 0, AutoAttempts <- 2,
    MaxFailures <- 1, MaxReruns <- 1, MaxDecisions <- 0, MaxRevisions <- 0,
    rows <- planRows, run <- planRun, failures <- planFailures, reruns <- planReruns

ASSUME /\ Rounds!Policy /\ Waves!PolicyAssumption /\ Discovery!PolicyAssumption
       /\ LightRun!PolicyAssumption

planVars == <<planRows, planRun, approved, rescouts, planFailures, planReruns, decisions,
              revisions>>
allVars == <<scene, vars, planVars>>

McInit ==
    /\ scene \in Scenes /\ Init
    /\ CASE scene = "discovery" -> Discovery!Init
         [] scene = "light" -> LightRun!Init
         [] scene = "unapproved" -> Unapproved!Init
         [] OTHER -> Waves!Init

InEval(s, A) == scene = s /\ A /\ UNCHANGED <<scene, planVars>>
InPlan(s, A) == scene = s /\ A /\ UNCHANGED <<scene, vars>>

McNext ==
    \/ InEval("rounds", Rounds!Next)
    \/ InEval("budgets", Next)
    \/ InPlan("waves", Waves!Next)
    \/ InPlan("discovery", Discovery!Next)
    \/ InPlan("light", LightRun!Next)
    \/ InPlan("unapproved", Unapproved!Next)

(* The fairness of each component, in its scene. *)
McFairness ==
    /\ \A k \in Keys : /\ WF_vars(scene = "rounds" /\ Rounds!Claim(k))
                       /\ WF_vars(scene = "rounds" /\ Rounds!Work(k))
    /\ WF_planVars(scene = "discovery" /\ Discovery!Work)
    /\ WF_planVars(scene = "light" /\ LightRun!Work)

McSpec == McInit /\ [][McNext]_allVars /\ McFairness

--------------------------------------------------------------------------------
(* The plan is made and approved on all that the critical scouts of both waves  *)
(* found last, an approval starts the plan its gate showed, and scouts are sent *)
(* out again for gaps within their budget (materializePlanScouts, resolveGate,  *)
(* scheduleSufficiencyRescouts).                                                *)
PlanIsOfDiscovery ==
    /\ scene = "waves" => Waves!PlanSeesDiscovery /\ Waves!ApprovedWasShown
    /\ scene \in {"waves", "unapproved"} => Waves!RescoutBudgetIsKept
    /\ scene = "discovery" => Discovery!RescoutBudgetIsKept

(* Nothing is under way: an evaluation ended with a Wiki to offer, a question,  *)
(* a failure, or in a failed repair; a discovery with its plan, a question or   *)
(* a failure.                                                                   *)
AtRest ==
    CASE scene = "rounds" -> EvaluationIsOver
      [] scene = "discovery" -> Discovery!PlanningIsOver
      [] scene = "light" -> LightRun!PlanningIsOver
      [] OTHER -> TRUE

(* However attempts fail and whatever the operator does, an evaluation and a    *)
(* discovery end, again and again (finishAttemptFailure, scheduleRepair,        *)
(* materializePlanScouts, unlockReadyNodes).                                    *)
PlanningEnds == []<>AtRest

(* What the comments at plan-review.ts and ADR 0031 say, which fails: the       *)
(* execution graph is of a plan that was approved.                              *)
ApprovedPlanIsWritten == scene = "unapproved" => Unapproved!ApprovedPlanIsWritten
================================================================================
