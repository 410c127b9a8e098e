----------------------------- MODULE RunObservation -----------------------------
(***************************************************************************)
(* One Run as one browser page sees and steers it.  The durable Run is a   *)
(* log of revisions: every emit appends one event that carries the whole   *)
(* snapshot.  A page learns of them from a GET at load, from an EventSource *)
(* that the server feeds by polling, and from the GET that precedes each   *)
(* command; a command is accepted at the revision it names and no other.   *)
(*                                                                         *)
(*   "workspace"  useRunObservation.ts and WorkspaceAgentPage.tsx          *)
(*   "detail"     RunDetailPage.tsx                                        *)
(*   "review"     RunReviewPage.tsx, which has no EventSource              *)
(*   "index"      useWorkspaceActivity.ts, which only watches              *)
(***************************************************************************)
EXTENDS Integers, Sequences, SequencesExt

CONSTANTS
    Kind,         \* which page
    MaxRevision,  \* bound on the revisions of the run
    MaxClicks,    \* bound on the commands the operator starts
    MaxDrops,     \* bound on lost connections and lost answers
    MaxCrashes,   \* bound on restarts of the server
    Resends,      \* may the network deliver a POST twice?
    Reopens,      \* may a publication conflict open a resolved gate again?
    Refuses       \* may a restarted server refuse the run until its old owner is gone?

ASSUME KindAssumption == Kind \in {"workspace", "detail", "review", "index"}
ASSUME BoundAssumption ==
    {MaxRevision, MaxClicks, MaxDrops, MaxCrashes} \subseteq Nat /\ MaxRevision > 0
ASSUME SwitchAssumption == {Resends, Reopens, Refuses} \subseteq BOOLEAN

VARIABLES
    log,      \* log[r]: the question open at revision r, 0 when no gate is open
    gateOf,   \* gateOf[q]: the gate that put question q; its id and payload digest
    receipts, \* the commands table: [id, rev] of every accepted command
    applied,  \* what was accepted: [id, click, what, shown, met], for the properties
    owner,    \* "open", "refusing" or "down"
    view,     \* the revision the page shows, 0 before the first
    load,     \* the page's own GET: asked, read at a revision, or over
    es,       \* the EventSource: "none", "connecting", "open" or "dead"
    last,     \* its last event id, 0 when it has none
    conn,     \* the page's indicator: "connecting", "live" or "reconnecting"
    cursor,   \* the stream's cursor in the server
    wire,     \* frames on their way to the page, each the revision it shows
    act,      \* the command being dispatched
    posts,    \* POST requests on the network
    answered, \* the answers given: [id, ok]
    ids,      \* command ids made so far
    clicks, drops, crashes

run == <<log, gateOf, receipts, applied>>
stream == <<es, last, conn, cursor, wire>>
command == <<act, posts, answered, ids, clicks>>
vars == <<run, owner, view, load, stream, command, drops, crashes>>

Revision == Len(log)
Open == Last(log)
Over == [at |-> "over", rev |-> 0]
Idle == [at |-> "idle", what |-> "none", shown |-> 0, rev |-> 0, id |-> 0, tries |-> 0]

\* Mutant: the older snapshot wins here too.
NewerUnguarded(rev) == rev

Plain == Kind \in {"detail", "review"}

\* setObservationSnapshot and the index page ignore an older revision; the
\* other two take whatever comes last.
Newer(rev) == IF ~Plain /\ rev < view THEN view ELSE rev

----------------------------------------------------------------------------
(***************************************************************************)
(* The run.                                                                *)
(***************************************************************************)
Emit(q) == log' = Append(log, q)

\* emit: the run makes progress, puts a new question, or another operator or
\* the clock settles the one that is open.
RunStep ==
    /\ owner = "open" /\ Revision < MaxRevision
    /\ \/ Emit(Open) /\ UNCHANGED gateOf
       \/ /\ Open = 0
          /\ gateOf' = Append(gateOf, Len(gateOf) + 1)
          /\ Emit(Len(gateOf'))
       \/ Open # 0 /\ Emit(0) /\ UNCHANGED gateOf
    /\ UNCHANGED <<receipts, applied, owner, view, load, stream, command, drops, crashes>>

\* publication-control.ts: a conflict opens the resolved gate again, with its
\* old id and payload digest and with another question.
Reopen ==
    /\ Reopens /\ owner = "open" /\ Revision < MaxRevision
    /\ Open = 0 /\ gateOf # <<>>
    /\ gateOf' = Append(gateOf, Last(gateOf))
    /\ Emit(Len(gateOf'))
    /\ UNCHANGED <<receipts, applied, owner, view, load, stream, command, drops, crashes>>

----------------------------------------------------------------------------
(***************************************************************************)
(* Watching.                                                               *)
(***************************************************************************)
\* The page's GET is read; a refusal or a dead server is an error it keeps.
LoadRead ==
    /\ load.at = "asked"
    /\ load' = IF owner = "open" THEN [at |-> "read", rev |-> Revision] ELSE Over
    /\ UNCHANGED <<run, owner, view, stream, command, drops, crashes>>

\* Its answer arrives, however late.
LoadArrives ==
    /\ load.at = "read"
    /\ view' = Newer(load.rev) /\ load' = Over
    /\ UNCHANGED <<run, owner, stream, command, drops, crashes>>

\* streamRunEvents, streamRunIndex: the preflight read decides between an error
\* status, after which an EventSource never connects again, and a stream that
\* starts with a snapshot or goes on after the last event id.
Connect ==
    /\ es = "connecting" /\ owner # "down"
    /\ IF owner = "refusing"
       THEN /\ es' = "dead" /\ conn' = "reconnecting"
            /\ UNCHANGED <<cursor, wire>>
       ELSE LET reset == Kind = "index" \/ last = 0 \/ last > Revision IN
            /\ es' = "open"
            /\ cursor' = IF reset THEN Revision ELSE last
            /\ wire' = IF reset THEN <<Revision>> ELSE <<>>
            /\ UNCHANGED conn
    /\ UNCHANGED <<run, owner, view, load, last, command, drops, crashes>>

\* One turn of the polling loop: every event after the cursor, in order; the
\* index sends one frame for all of them.
Poll ==
    /\ es = "open" /\ owner = "open" /\ cursor < Revision
    /\ wire' = wire \o (IF Kind = "index" THEN <<Revision>>
                        ELSE [i \in 1..(Revision - cursor) |-> cursor + i])
    /\ cursor' = Revision
    /\ UNCHANGED <<run, owner, view, load, es, last, conn, command, drops, crashes>>

\* A frame arrives: it is shown, and the indicator says live.
Receive ==
    /\ es = "open" /\ wire # <<>>
    /\ view' = Newer(Head(wire))
    /\ last' = Head(wire) /\ wire' = Tail(wire) /\ conn' = "live"
    /\ UNCHANGED <<run, owner, load, es, cursor, command, drops, crashes>>

Disconnected ==
    /\ es' = IF es = "open" THEN "connecting" ELSE es
    /\ conn' = IF es = "open" /\ Kind # "index" THEN "reconnecting" ELSE conn
    /\ wire' = <<>>
    /\ UNCHANGED <<last, cursor>>

\* The connection is lost, and what was on the wire with it.
Drop ==
    /\ drops < MaxDrops /\ es = "open"
    /\ drops' = drops + 1
    /\ Disconnected
    /\ UNCHANGED <<run, owner, view, load, command, crashes>>

\* The server goes, with every stream and every answer it owed.
Crash ==
    /\ owner = "open" /\ crashes < MaxCrashes
    /\ owner' = "down" /\ crashes' = crashes + 1
    /\ load' = IF load.at = "asked" THEN Over ELSE load
    /\ posts' = {}
    /\ act' = IF act.at \in {"get", "post"} THEN Idle ELSE act
    /\ Disconnected
    /\ UNCHANGED <<run, view, answered, ids, clicks, drops>>

\* Another process serves the port; while the old one still holds the control
\* store every request is answered with an error.
Restart ==
    \/ /\ owner = "down"
       /\ owner' \in {"open"} \cup (IF Refuses THEN {"refusing"} ELSE {})
       /\ UNCHANGED <<run, view, load, stream, command, drops, crashes>>
    \/ /\ owner = "refusing"
       /\ owner' = "open"
       /\ UNCHANGED <<run, view, load, stream, command, drops, crashes>>

----------------------------------------------------------------------------
(***************************************************************************)
(* Steering.                                                               *)
(***************************************************************************)
\* The operator decides the gate the page shows, or sends a command that no
\* gate guards: a revision of the run's scope, a review thread, a repair.
Click ==
    /\ Kind # "index" /\ act.at = "idle" /\ view > 0 /\ clicks < MaxClicks
    /\ Kind = "review" => load = Over
    /\ clicks' = clicks + 1
    /\ \/ Kind # "review" /\ log[view] # 0
          /\ act' = [Idle EXCEPT !.at = "get", !.what = "gate", !.shown = log[view]]
       \/ act' = [Idle EXCEPT !.at = "get", !.what = "scope"]
    /\ UNCHANGED <<run, owner, view, load, stream, posts, answered, ids, drops, crashes>>

\* dispatch: the GET that fetches the revision the command will name.
ActRead ==
    /\ act.at = "get"
    /\ act' = IF owner = "open" THEN [act EXCEPT !.at = "got", !.rev = Revision] ELSE Idle
    /\ UNCHANGED <<run, owner, view, load, stream, posts, answered, ids, clicks, drops, crashes>>

\* Its answer: the detail page shows it, and the command goes out under a new
\* id.  PlanGateReviewPanel gives up when the gate is no longer open in it.
Post ==
    /\ act.at = "got"
    /\ view' = IF Plain THEN act.rev ELSE view
    /\ \/ /\ ids' = ids + 1
          /\ act' = [act EXCEPT !.at = "post", !.id = ids']
          /\ posts' = posts \cup {[id |-> ids', click |-> clicks, what |-> act.what,
                                   shown |-> act.shown, exp |-> act.rev]}
       \/ /\ act.what = "gate"
          /\ \/ log[act.rev] = 0
             \/ log[act.rev] # 0 /\ gateOf[log[act.rev]] # gateOf[act.shown]
          /\ act' = Idle /\ UNCHANGED <<ids, posts>>
    /\ UNCHANGED <<run, owner, load, stream, answered, clicks, drops, crashes>>

Known(p) == \E r \in receipts : r.id = p.id

\* resolveGate's checks: the gate is open, with the id and digest that the
\* command names.
GateMatches(p) == Open # 0 /\ gateOf[Open] = gateOf[p.shown]

\* applyCommand: a known id gets its first receipt; another revision or another
\* gate than the one named is stale.
Accepts(p) == Known(p) \/ (p.exp = Revision /\ (p.what = "gate" => GateMatches(p)))

Apply(p) ==
    /\ owner = "open"
    /\ posts' \in {posts \ {p}} \cup (IF Resends THEN {posts} ELSE {})
    /\ answered' = answered \cup {[id |-> p.id, ok |-> Accepts(p)]}
    /\ IF Accepts(p) /\ ~Known(p)
       THEN /\ Emit(IF p.what = "gate" THEN 0 ELSE Open)
            /\ receipts' = receipts \cup {[id |-> p.id, rev |-> Revision + 1]}
            /\ applied' = applied \cup {[id |-> p.id, click |-> p.click, what |-> p.what,
                                         shown |-> p.shown, met |-> Open]}
       ELSE UNCHANGED <<log, receipts, applied>>
    /\ UNCHANGED <<gateOf, owner, view, load, stream, act, ids, clicks, drops, crashes>>

\* Mutant: on any error.
RetriesAlways(stale) == Plain /\ act.tries = 0

\* May dispatch try once more?  RunDetailPage: on stale_revision; the workspace
\* page never does.
Retries(stale) == Plain /\ act.tries = 0 /\ stale

Failed(stale) ==
    act' = IF Retries(stale) THEN [act EXCEPT !.at = "get", !.tries = 1] ELSE Idle

\* The answer to the POST arrives; the review page then reads the run again.
Reply ==
    /\ act.at = "post"
    /\ \E a \in answered :
        /\ a.id = act.id
        /\ IF a.ok THEN act' = Idle ELSE Failed(TRUE)
        /\ load' = IF a.ok /\ Kind = "review" THEN [Over EXCEPT !.at = "asked"] ELSE load
    /\ UNCHANGED <<run, owner, view, stream, posts, answered, ids, clicks, drops, crashes>>

\* It is lost; the command may have been applied, or may still arrive.
LoseReply ==
    /\ act.at = "post" /\ drops < MaxDrops
    /\ drops' = drops + 1
    /\ Failed(FALSE)
    /\ UNCHANGED <<run, owner, view, load, stream, posts, answered, ids, clicks, crashes>>

----------------------------------------------------------------------------
Init ==
    /\ log = <<0>> /\ gateOf = <<>> /\ receipts = {} /\ applied = {}
    /\ owner = "open" /\ view = 0 /\ load = [at |-> "asked", rev |-> 0]
    /\ es = IF Kind = "review" THEN "none" ELSE "connecting"
    /\ last = 0 /\ conn = "connecting" /\ cursor = 0 /\ wire = <<>>
    /\ act = Idle /\ posts = {} /\ answered = {} /\ ids = 0 /\ clicks = 0
    /\ drops = 0 /\ crashes = 0

Next ==
    \/ RunStep \/ Reopen
    \/ LoadRead \/ LoadArrives \/ Connect \/ Poll \/ Receive \/ Drop \/ Crash \/ Restart
    \/ Click \/ ActRead \/ Post \/ (\E p \in posts : Apply(p)) \/ Reply \/ LoseReply

Spec == Init /\ [][Next]_vars

\* The browser's timers, the server's polling loop and a reachable network run
\* on; nobody owes the operator a click or the run a step.
Fairness ==
    /\ WF_vars(LoadRead) /\ WF_vars(LoadArrives)
    /\ WF_vars(Connect) /\ WF_vars(Poll) /\ WF_vars(Receive) /\ WF_vars(Restart)
    /\ WF_vars(ActRead) /\ WF_vars(Post) /\ WF_vars(Reply)

FairSpec == Spec /\ Fairness

RunTypeOK(lg, gates) ==
    /\ lg \in Seq(Nat) /\ Len(lg) > 0 /\ gates \in Seq(Nat)
    /\ \A r \in 1..Len(lg) : lg[r] <= Len(gates)
    /\ \A q \in 1..Len(gates) : gates[q] <= q

PageTypeOK ==
    /\ owner \in {"open", "refusing", "down"}
    /\ load \in [at : {"asked", "read", "over"}, rev : 0..Revision]
    /\ view \in 0..Revision /\ cursor \in 0..Revision /\ last \in 0..Revision
    /\ es \in {"none", "connecting", "open", "dead"}
    /\ conn \in {"connecting", "live", "reconnecting"}
    /\ wire \in Seq(Nat) /\ \A i \in 1..Len(wire) : wire[i] \in 1..Revision

CommandTypeOK ==
    /\ receipts \subseteq [id : 1..ids, rev : 1..Revision]
    /\ applied \subseteq [id : 1..ids, click : 1..clicks, what : {"gate", "scope"},
                          shown : 0..Len(gateOf), met : 0..Len(gateOf)]
    /\ posts \subseteq [id : 1..ids, click : 1..clicks, what : {"gate", "scope"},
                        shown : 0..Len(gateOf), exp : 1..Revision]
    /\ answered \subseteq [id : 1..ids, ok : BOOLEAN]
    /\ act \in [at : {"idle", "get", "got", "post"}, what : {"none", "gate", "scope"},
                shown : 0..Len(gateOf), rev : 0..Revision, id : 0..ids, tries : {0, 1}]

CountersTypeOK ==
    /\ Revision <= MaxRevision + 2 * MaxClicks
    /\ ids \in 0..(2 * MaxClicks) /\ clicks \in 0..MaxClicks
    /\ drops \in 0..MaxDrops /\ crashes \in 0..MaxCrashes

TypeOK == RunTypeOK(log, gateOf) /\ PageTypeOK /\ CommandTypeOK /\ CountersTypeOK

\* One click changes the run once, whatever is lost, repeated or retried: only
\* a refused command is sent again (RunDetailPage.tsx, dispatch).
OncePerClick == \A a, b \in applied : a.click = b.click => a = b

\* "A duplicate command returns its first receipt": the answer to a command id
\* does not depend on how often it arrived.
OneAnswer == \A a, b \in answered : a.id = b.id => a = b

\* A decision settles the question that the operator saw, never one that took
\* its place while the command was on its way.
DecidedWasShown == \A a \in applied : a.what = "gate" => a.met = a.shown

\* All three: what the operator's clicks come to (dispatch in RunDetailPage.tsx and
\* RunReviewPage.tsx, applyCommand), when no publication conflict opens a
\* decided gate again.
ClicksCountOnce == OncePerClick /\ OneAnswer /\ DecidedWasShown

\* What the page shows never goes back in time.
NeverBackwards == [][view' >= view]_view

\* A page that stays open ends up showing the run as it is.
CatchesUp == <>[](view = Revision)

\* An indicator that was live before a lost connection says live again once the
\* stream is open again.
IndicatorRecovers == [](es = "open" /\ conn = "reconnecting" => <>(conn = "live" \/ es # "open"))
=============================================================================
