------------------------------ MODULE RunControlMC ------------------------------
(* The run's rows in scenes: the first state chooses one, the others stay in     *)
(* their initial state.                                                          *)
(*   "branches"  two branches that join; one asks the operator, the other fails  *)
(*               and is retried by the control plane; cancel, pause, crash       *)
(*   "rerun"     a chain of three nodes, retried and rerun, across a crash       *)
EXTENDS RunControl, TLC

CONSTANT Scenes  \* the scenes a run plays

VARIABLES scene,
          runState2, cancelRequested2, gen2, node2, cur2, last2, parent2, att2, out2, gates2,
          prep2, work2, said2, owner2, crashes2, closes2

Join == "draft" :> {} @@ "review" :> {} @@ "publish" :> {"draft", "review"}

(* The first scene is of the runs for which progress is proved. *)
ASSUME ProgressAssumption == GraphIsAcyclic /\ PublishIsLast /\ NoStaleContinuation

(* Three steps, so that an invalidation has to travel. *)
Chain == "draft" :> {} @@ "write" :> {"draft"} @@ "publish" :> {"write"}

Rerun == INSTANCE RunControl WITH
    Keys <- {"draft", "write", "publish"}, Upstream <- Chain, FinalKey <- "publish",
    AskKeys <- {"write"}, EvidenceKeys <- {}, PartialKeys <- {"write"},
    AutoRetryKeys <- {"write"}, MaxAutoAttempts <- 2, MaxConcurrent <- 1,
    MaxGen <- 1, MaxAttempts <- 4, MaxCrashes <- 1, MaxCloses <- 0,
    Commands <- {"retry", "rerun"}, runState <- runState2,
    cancelRequested <- cancelRequested2, gen <- gen2, node <- node2, cur <- cur2,
    last <- last2, parent <- parent2, att <- att2, out <- out2, gates <- gates2,
    prep <- prep2, work <- work2, said <- said2, owner <- owner2, crashes <- crashes2,
    closes <- closes2

rerunVars == <<runState2, cancelRequested2, gen2, node2, cur2, last2, parent2, att2, out2,
               gates2, prep2, work2, said2, owner2, crashes2, closes2>>

McInit == scene \in Scenes /\ Init /\ Rerun!Init

McNext ==
    \/ scene = "branches" /\ Next /\ UNCHANGED <<scene, rerunVars>>
    \/ scene = "rerun" /\ Rerun!Next /\ UNCHANGED <<scene, vars>>

McSpec == McInit /\ [][McNext]_<<scene, vars, rerunVars>>

(* Reruns and retries leave one consistent history too, the output recorded for *)
(* a node is of the attempt that succeeded, and a run stalls only on a failed   *)
(* node (bindAttemptInputs, retrySourceAttempt, applyRerunAt).                  *)
RerunIsConsistent ==
    Rerun!HistoryIsConsistent /\ Rerun!StallsOnlyOnFailure /\ Rerun!AnswersArrive
=================================================================================
