------------------------------- MODULE BrowserMC -------------------------------
(* What the browser sees and sends, in scenes: the first state chooses one, and *)
(* the components without a part in it stay in their initial state.             *)
(*   "steer"   the detail page steers a run                  (RunObservation)   *)
(*   "review"  the review page, whose commands may arrive twice                 *)
(*   "watch"   the workspace page follows a run and loses its stream            *)
(*   "index"   the workspace's activity                                         *)
(*   "trace"   an attempt is written, cancelled, torn off by a crash, and read  *)
(*             by page                                       (AttemptTrace)     *)
(*   "tail"    an attempt is followed, over lost connections                    *)
(*   "stream"  two messages in a session's stream            (SessionTurns)     *)
(*   "shown"   three messages, one stop                                         *)
EXTENDS RunObservation

CONSTANT Scenes  \* the scenes a run plays

VARIABLES scene,
          file, torn, lines, text, jobs, said, lost, phase, how, row, tl, get, more,
          source, srv, frames, breaks, selects,
          turn, queue, busy, rows, status, sends, post, stop, channel, pending, patches,
          page, aborts, cuts, replies, rejected

Review == INSTANCE RunObservation WITH
    Kind <- "review", MaxRevision <- 4, MaxClicks <- 2, MaxDrops <- 1, MaxCrashes <- 1,
    Resends <- TRUE, Reopens <- TRUE, Refuses <- TRUE
Watch == INSTANCE RunObservation WITH
    Kind <- "workspace", MaxRevision <- 3, MaxClicks <- 1, MaxDrops <- 2, MaxCrashes <- 1,
    Resends <- FALSE, Reopens <- FALSE, Refuses <- FALSE
Index == INSTANCE RunObservation WITH
    Kind <- "index", MaxRevision <- 4, MaxClicks <- 0, MaxDrops <- 2, MaxCrashes <- 1,
    Resends <- FALSE, Reopens <- FALSE, Refuses <- FALSE

\* A trace of six units, read by pages of two rows, or by one page.
Trace == INSTANCE AttemptTrace WITH
    Cap <- 6, Reserve <- 1, Page <- 2, MaxEvents <- 3, MaxFrames <- 2, MaxDrops <- 1,
    MaxSelects <- 1, Cancels <- TRUE, Crashes <- TRUE, Torn <- TRUE,
    es <- source, wire <- frames, drops <- breaks
Tracked == INSTANCE AttemptTrace WITH
    Cap <- 6, Reserve <- 1, Page <- 9, MaxEvents <- 2, MaxFrames <- 2, MaxDrops <- 1,
    MaxSelects <- 2, Cancels <- FALSE, Crashes <- FALSE, Torn <- FALSE,
    es <- source, wire <- frames, drops <- breaks

Stream == INSTANCE SessionTurns WITH
    Texts <- {"t1", "t2"}, Rewritten <- {"t2"}, Repeats <- TRUE, None <- "none",
    MaxSends <- 2, MaxAborts <- 1, MaxDrops <- 1, MaxReplies <- 1,
    conn <- channel, wire <- patches, view <- page, drops <- cuts
Told == INSTANCE SessionTurns WITH
    Texts <- {"t1", "t2", "t3"}, Rewritten <- {}, Repeats <- FALSE, None <- "none",
    MaxSends <- 3, MaxAborts <- 1, MaxDrops <- 0, MaxReplies <- 1,
    conn <- channel, wire <- patches, view <- page, drops <- cuts

ASSUME /\ Trace!TraceAssumption /\ Tracked!TraceAssumption
       /\ Stream!TurnsAssumption /\ Told!TurnsAssumption

-----------------------------------------------------------------------------
traceVars == <<file, torn, lines, text, jobs, said, lost, phase, how, row, tl, get, more,
               source, srv, frames, breaks, selects>>
turnVars == <<turn, queue, busy, rows, status, sends, post, stop, channel, pending, patches,
              page, aborts, cuts, replies, rejected>>
allVars == <<scene, vars, traceVars, turnVars>>

McInit ==
    /\ scene \in Scenes
    /\ CASE scene = "review" -> Review!Init [] scene = "index" -> Index!Init [] OTHER -> Init
    /\ Trace!Init /\ Stream!Init

InRun(s, A) == scene = s /\ A /\ UNCHANGED <<scene, traceVars, turnVars>>
InTrace(s, A) == scene = s /\ A /\ UNCHANGED <<scene, vars, turnVars>>
InTurns(s, A) == scene = s /\ A /\ UNCHANGED <<scene, vars, traceVars>>

McNext ==
    \/ InRun("steer", Next)
    \/ InRun("review", Review!Next)
    \/ InRun("watch", Watch!Next)
    \/ InRun("index", Index!Next)
    \/ InTrace("trace", Trace!Next)
    \/ InTrace("tail", Tracked!Next)
    \/ InTurns("stream", Stream!Next)
    \/ InTurns("shown", Told!Next)

(* The fairness of each component, in the scenes with a liveness property.      *)
McFairness ==
    /\ WF_vars(scene = "watch" /\ Watch!LoadRead) /\ WF_vars(scene = "watch" /\ Watch!LoadArrives)
    /\ WF_vars(scene = "watch" /\ Watch!Connect) /\ WF_vars(scene = "watch" /\ Watch!Poll)
    /\ WF_vars(scene = "watch" /\ Watch!Receive) /\ WF_vars(scene = "watch" /\ Watch!Restart)
    /\ WF_vars(scene = "index" /\ Index!LoadRead) /\ WF_vars(scene = "index" /\ Index!LoadArrives)
    /\ WF_vars(scene = "index" /\ Index!Connect) /\ WF_vars(scene = "index" /\ Index!Poll)
    /\ WF_vars(scene = "index" /\ Index!Receive) /\ WF_vars(scene = "index" /\ Index!Restart)
    /\ WF_traceVars(scene = "tail" /\ (Tracked!Start \/ Tracked!Prompt \/ Tracked!FlushText
           \/ Tracked!Work \/ Tracked!Flush \/ Tracked!Finalize \/ Tracked!Outcome \/ Tracked!FailNode))
    /\ WF_traceVars(scene = "tail" /\ \E w \in Tracked!Writers : Tracked!AppendLines(w))
    /\ WF_traceVars(scene = "tail"
           /\ \E result \in {"done", "error", "cancelled"} : Tracked!EndSession(result))
    /\ WF_traceVars(scene = "tail" /\ (Tracked!SrvState \/ Tracked!SrvFile))
    /\ WF_traceVars(scene = "tail" /\ Tracked!Connect)
    /\ WF_traceVars(scene = "tail" /\ Tracked!Receive)
    /\ WF_turnVars(scene = "stream" /\ Stream!Subscribe)
    /\ WF_turnVars(scene = "stream" /\ Stream!Connect)
    /\ WF_turnVars(scene = "stream" /\ Stream!Receive)

McSpec == McInit /\ [][McNext]_allVars /\ McFairness

--------------------------------------------------------------------------------
(* What the pages that merge by revision show never goes back in time, whatever *)
(* GET is late (setObservationSnapshot, useWorkspaceActivity.ts).               *)
ViewGoesForward == [][(scene \in {"watch", "index"}) => view' >= view]_view

(* What a page shows is whole.  Two writers and a cap leave a trace with        *)
(* growing ordinals, a marker for what was clipped and the word of the end, that *)
(* its reader accepts; a browser that pages and follows it has no hole, and the *)
(* whole when it is told done (attempt-transcript-sink.ts, transcript.ts,       *)
(* useRunObservation.ts).  A browser that has received all of a session shows   *)
(* the server's rows and status, the session is not busy without a turn, and    *)
(* what was accepted is visible as a bubble or as its row                       *)
(* (routes/agent-sessions.ts, session-stream-state.ts).                         *)
ShownIsWhole ==
    /\ scene = "trace" => /\ Trace!OrdinalsIncrease /\ Trace!ClippingIsMarked
                          /\ Trace!ReaderAcceptsFile /\ Trace!EndIsTold /\ Trace!NoHole
    /\ scene = "tail" => Tracked!DoneIsComplete
    /\ scene = "stream" => Stream!ViewMatches /\ Stream!NeverWedged
    /\ scene = "shown" => Told!SentIsShown

UpToDate ==
    CASE scene \in {"watch", "index"} -> view = Revision
      [] scene = "tail" -> phase = "start" \/ ~Tracked!Following
      [] scene = "stream" -> \A k \in 1..Len(rows) : Stream!Has(page.rows, rows[k], FALSE)
      [] OTHER -> TRUE

(* A page that stays open ends up showing the run as it is, a trace that is     *)
(* followed ends, and every row of a session is shown in the end, over lost     *)
(* connections and a restart of the server.                                     *)
BrowserCatchesUp == []<>UpToDate
================================================================================
