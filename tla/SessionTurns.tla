---------------------------- MODULE SessionTurns ----------------------------
(***************************************************************************)
(* The conversation of one live Operator Session: commands of the composer *)
(* (prompt, steer, stop), the turn that Pi runs, the patches of the event  *)
(* stream behind a snapshot, and the browser's transcript with the bubbles *)
(* it puts there before the real rows come.  Replies of the assistant are  *)
(* patches that add no row here; compaction, the model picker and          *)
(* follow-ups of other API users are left out.                             *)
(***************************************************************************)
EXTENDS Naturals, Sequences, SequencesExt

CONSTANTS
    Texts,
    Rewritten,  \* texts whose row reads otherwise: a template's expansion, a redacted path
    Repeats,    \* whether the operator sends the same text twice
    None,
    MaxSends, MaxAborts, MaxDrops, MaxReplies   \* bounds

TurnsAssumption ==
    /\ Rewritten \subseteq Texts /\ Repeats \in BOOLEAN
    /\ {MaxSends, MaxAborts, MaxDrops, MaxReplies} \subseteq Nat

VARIABLES
    turn,       \* Pi: "idle", "running" or "aborting"
    queue,      \* Pi: the steered sends it will deliver
    busy,       \* live.busy
    rows,       \* the user rows of live.state: sends, in the order Pi took them
    status,     \* live.state.agentStatus
    sends,      \* the texts that were sent, in order
    post,       \* the POST of the composer: [k, kind, st], or NoPost
    stop,       \* an abort command is on its way
    conn,       \* the event stream: "down", "subscribed" or "open"
    pending,    \* the patches since the subscription
    wire,       \* the frames on their way
    view,       \* the browser: [rows, status], a row being [k, opt]
    aborts, drops, replies,
    rejected    \* history: the sends that were accepted and that Pi then refused

pi == <<turn, queue>>
server == <<busy, rows, status>>
stream == <<conn, pending, wire>>
client == <<sends, post, stop, view>>
counts == <<aborts, drops, replies>>
vars == <<pi, server, stream, client, counts, rejected>>

Sends == 1..Len(sends)
NoPost == [k |-> 0, kind |-> "prompt", st |-> "none"]
Statuses == {"idle", "streaming", "error"}
Frames == [kind : {"snapshot", "patch"}, rows : Seq(Sends), status : Statuses]

TypeOK ==
    /\ turn \in {"idle", "running", "aborting"}
    /\ queue \in Seq(Sends) /\ rows \in Seq(Sends)
    /\ busy \in BOOLEAN /\ stop \in BOOLEAN
    /\ status \in Statuses
    /\ sends \in Seq(Texts) /\ Len(sends) <= MaxSends
    /\ post \in [k : Sends, kind : {"prompt", "steer"}, st : {"going", "ok", "refused"}]
                \cup {NoPost}
    /\ conn \in {"down", "subscribed", "open"}
    /\ pending \in Seq(Frames) /\ wire \in Seq(Frames)
    /\ view \in [rows : Seq([k : Sends, opt : BOOLEAN]), status : Statuses]
    /\ IsInjective(rows) /\ IsInjective(view.rows)
    /\ rejected \subseteq Sends

Init ==
    /\ turn = "idle" /\ queue = <<>>
    /\ busy = FALSE /\ rows = <<>> /\ status = "idle"
    /\ sends = <<>> /\ post = NoPost /\ stop = FALSE
    /\ conn = "down" /\ pending = <<>> /\ wire = <<>>
    /\ view = [rows |-> <<>>, status |-> "idle"]
    /\ aborts = 0 /\ drops = 0 /\ replies = 0 /\ rejected = {}

-----------------------------------------------------------------------------
(* The stream.  Every event of Pi is reduced into the state and its patch   *)
(* given to the subscriber.                                                 *)

Emit(news, st) ==
    LET patch == [kind |-> "patch", rows |-> news, status |-> st]
    IN /\ rows' = rows \o news
       /\ status' = st
       /\ pending' = IF conn = "subscribed" THEN Append(pending, patch) ELSE pending
       /\ wire' = IF conn = "open" THEN Append(wire, patch) ELSE wire
       /\ UNCHANGED conn

\* handleAgentSessionEvents: subscribe, then the snapshot and what has come since.
Subscribe ==
    /\ conn = "down"
    /\ conn' = "subscribed"
    /\ UNCHANGED <<pi, server, pending, wire, client, counts, rejected>>

Connect ==
    /\ conn = "subscribed"
    /\ conn' = "open"
    /\ wire' = <<[kind |-> "snapshot", rows |-> rows, status |-> status]>> \o pending
    /\ pending' = <<>>
    /\ UNCHANGED <<pi, server, client, counts, rejected>>

Drop ==
    /\ conn # "down" /\ drops < MaxDrops
    /\ conn' = "down" /\ pending' = <<>> /\ wire' = <<>>
    /\ drops' = drops + 1
    /\ UNCHANGED <<pi, server, client, aborts, replies, rejected>>

-----------------------------------------------------------------------------
(* The browser. *)

Text(k) == sends[k]
\* What the row of a send reads.
Shown(k) == IF Text(k) \in Rewritten THEN None ELSE Text(k)

Count(s, Test(_)) == Len(SelectSeq(s, Test))

\* dedupeOptimisticUsers: each real row takes away one bubble of its text, the first one.
Dedupe(s) ==
    LET Twin(i) == LET SameBubble(q) == q.opt /\ Text(q.k) = Text(s[i].k)
                       SameReal(q) == ~q.opt /\ Shown(q.k) = Text(s[i].k)
                   IN Count(SubSeq(s, 1, i - 1), SameBubble) < Count(s, SameReal)
        kept == {i \in DOMAIN s : ~(s[i].opt /\ Twin(i))}
        index == SetToSortSeq(kept, LAMBDA a, b : a < b)
    IN [n \in DOMAIN index |-> s[index[n]]]

Real(ks) == [i \in DOMAIN ks |-> [k |-> ks[i], opt |-> FALSE]]
Has(s, k, opt) == \E i \in DOMAIN s : s[i].k = k /\ s[i].opt = opt

\* Mutant: rows that are there already are appended again.
ReceiveAll ==
    LET f == Head(wire)
        all == IF f.kind = "snapshot" THEN Real(f.rows) ELSE view.rows \o Real(f.rows)
    IN /\ wire # <<>>
       /\ wire' = Tail(wire)
       /\ view' = [rows |-> Dedupe(all), status |-> f.status]
       /\ UNCHANGED <<pi, server, conn, pending, sends, post, stop, counts, rejected>>

\* reduceSessionStreamEvent: a snapshot replaces all rows, a patch adds those not yet there.
Receive ==
    LET f == Head(wire)
        New(k) == ~Has(view.rows, k, FALSE)
        all == IF f.kind = "snapshot" THEN Real(f.rows)
               ELSE view.rows \o Real(SelectSeq(f.rows, New))
    IN /\ wire # <<>>
       /\ wire' = Tail(wire)
       /\ view' = [rows |-> Dedupe(all), status |-> f.status]
       /\ UNCHANGED <<pi, server, conn, pending, sends, post, stop, counts, rejected>>

\* planSessionSend: one send at a time; what it is depends on the status that is shown.
Send(t) ==
    /\ post = NoPost /\ Len(sends) < MaxSends
    /\ Repeats \/ \A k \in Sends : Text(k) # t
    /\ sends' = Append(sends, t)
    /\ post' = [k |-> Len(sends) + 1,
                kind |-> IF view.status = "streaming" /\ t \notin Rewritten THEN "steer" ELSE "prompt",
                st |-> "going"]
    /\ UNCHANGED <<pi, server, stream, stop, view, counts, rejected>>

\* The reply: the bubble is appended, or the composer keeps its text.
Reply ==
    /\ post.st \in {"ok", "refused"}
    /\ post' = NoPost
    /\ view' = IF post.st = "ok"
               THEN [view EXCEPT !.rows = Append(@, [k |-> post.k, opt |-> TRUE])]
               ELSE view
    /\ UNCHANGED <<pi, server, stream, sends, stop, counts, rejected>>

ClickStop ==
    /\ ~stop /\ aborts < MaxAborts /\ view.status = "streaming"
    /\ stop' = TRUE /\ aborts' = aborts + 1
    /\ UNCHANGED <<pi, server, stream, sends, post, view, drops, replies, rejected>>

-----------------------------------------------------------------------------
(* dispatchSessionCommand. *)

Answer(a) == post' = [post EXCEPT !.st = a]

\* A prompt is accepted by live.busy alone.  Pi refuses it when it still has a turn, or when the
\* provider does: then the error is reduced into the state, and the end of the call clears busy.
Prompt ==
    /\ post.st = "going" /\ post.kind = "prompt"
    /\ \/ /\ busy
          /\ Answer("refused")
          /\ UNCHANGED <<pi, server, stream, rejected>>
       \/ /\ ~busy /\ turn = "idle"
          /\ Answer("ok")
          /\ turn' = "running" /\ busy' = TRUE
          /\ Emit(<<post.k>>, "streaming")
          /\ UNCHANGED <<queue, rejected>>
       \/ /\ ~busy /\ turn # "idle"
          /\ Answer("ok")
          /\ rejected' = rejected \cup {post.k}
          /\ Emit(<<>>, "error")
          /\ UNCHANGED <<pi, busy>>
    /\ UNCHANGED <<sends, stop, view, counts>>

Steer ==
    /\ post.st = "going" /\ post.kind = "steer"
    /\ \/ busy /\ Answer("ok") /\ queue' = Append(queue, post.k)
       \/ ~busy /\ Answer("refused") /\ UNCHANGED queue
    /\ UNCHANGED <<turn, server, stream, sends, stop, view, counts, rejected>>

\* The abort is not awaited, and busy is cleared at once.
Abort ==
    /\ stop
    /\ stop' = FALSE
    /\ turn' = IF turn = "running" THEN "aborting" ELSE turn
    /\ busy' = FALSE
    /\ UNCHANGED <<queue, rows, status, stream, sends, post, view, counts, rejected>>

-----------------------------------------------------------------------------
(* Pi (external). *)

\* The assistant says something, or a steered message is taken up.
Talk ==
    /\ turn = "running" /\ replies < MaxReplies
    /\ replies' = replies + 1
    /\ Emit(<<>>, "streaming")
    /\ UNCHANGED <<pi, busy, client, aborts, drops, rejected>>

Deliver ==
    /\ turn = "running" /\ queue # <<>>
    /\ queue' = Tail(queue)
    /\ Emit(<<Head(queue)>>, "streaming")
    /\ UNCHANGED <<turn, busy, client, counts, rejected>>

\* agent_settled: nothing is queued any more.  The call of the prompt ends and clears busy.
Settle ==
    /\ turn = "running" /\ queue = <<>>
    /\ turn' = "idle" /\ busy' = FALSE
    /\ Emit(<<>>, "idle")
    /\ UNCHANGED <<queue, client, counts, rejected>>

\* An aborted turn ends too; what is queued stays for the next one.
Aborted ==
    /\ turn = "aborting"
    /\ turn' = "idle" /\ busy' = FALSE
    /\ Emit(<<>>, "idle")
    /\ UNCHANGED <<queue, client, counts, rejected>>

-----------------------------------------------------------------------------
Next ==
    \/ Subscribe \/ Connect \/ Drop \/ Receive
    \/ (\E t \in Texts : Send(t)) \/ Reply \/ ClickStop
    \/ Prompt \/ Steer \/ Abort
    \/ Talk \/ Deliver \/ Settle \/ Aborted

Spec == Init /\ [][Next]_vars

\* EventSource reconnects, frames arrive, posts are answered, and Pi ends what it has begun.
FairSpec ==
    /\ Spec
    /\ WF_vars(Subscribe) /\ WF_vars(Connect) /\ WF_vars(Receive)
    /\ WF_vars(Prompt) /\ WF_vars(Steer) /\ WF_vars(Reply) /\ WF_vars(Abort)
    /\ WF_vars(Deliver) /\ WF_vars(Settle) /\ WF_vars(Aborted)

-----------------------------------------------------------------------------
(* Properties. *)

RealRows == LET IsReal(q) == ~q.opt IN SelectSeq(view.rows, IsReal)

\* A browser that has received everything shows the server's rows in the server's order, once
\* each, and its status: nothing was lost or doubled between the snapshot and the patches that
\* were queued while it was made (routes/agent-sessions.ts handleAgentSessionEvents).
ViewMatches ==
    (conn = "open" /\ wire = <<>>) => RealRows = Real(rows) /\ view.status = status

\* The session never stays busy without a turn, which would refuse every prompt for ever: every
\* way a turn ends clears busy (commands.ts, prompt's finally).
NeverWedged == turn = "idle" => ~busy

\* Every row the server has is shown in the end, over any number of reconnects.
RowsAreShown ==
    \A k \in 1..MaxSends :
        (k \in Range(rows)) ~> (k \in Sends /\ Has(view.rows, k, FALSE))

\* With one connection and no text sent twice, what was accepted is visible whenever all frames
\* have arrived, as a bubble or as its row: a steered message also while it waits in Pi's queue.
Answered(k) == k \in Sends /\ post.k # k
SentIsShown ==
    (conn = "open" /\ wire = <<>>) =>
    \A k \in Range(rows) \cup Range(queue) :
        Answered(k) => Has(view.rows, k, TRUE) \/ Has(view.rows, k, FALSE)

\* An accepted send is taken up by Pi ("The Session already has an active turn" is the answer to
\* one that cannot be).
AcceptedIsTaken == rejected = {}

\* A bubble goes away when its own row comes, not before (session-stream-state.ts: "two identical
\* prompts keep one optimistic until the second real arrives").
BubbleUntilRow ==
    [][wire # <<>> /\ Head(wire).kind = "patch" =>
       \A k \in Sends : Has(view.rows, k, TRUE) =>
          Has(view'.rows, k, TRUE) \/ Has(view'.rows, k, FALSE)]_vars

\* When all has arrived, no send is shown twice (session-stream-state.ts: "Drop client-only
\* optimistic user rows once a real user message with the same content is present").
NoDoubleBubble ==
    (conn = "open" /\ wire = <<>> /\ post = NoPost /\ turn = "idle") =>
        \A k \in Sends : ~(Has(view.rows, k, TRUE) /\ Has(view.rows, k, FALSE))
=============================================================================
