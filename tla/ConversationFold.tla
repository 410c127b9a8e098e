-------------------------- MODULE ConversationFold --------------------------
(***************************************************************************)
(* How the events of Pi become the conversation the operator reads.  The   *)
(* server folds each event into the stream state of the Session            *)
(* (reducePiEvent), projects the state onto the browser's DTO, and sends   *)
(* the difference of two projections; the browser applies the differences  *)
(* to the snapshot it began with.  When the Session is opened again, after *)
(* a restart or an edit of the workspace, the state is built anew from     *)
(* Pi's durable branch instead.  Pi's own loop (replies, parallel tools,   *)
(* retries, compaction) is external.  The operator's bubbles and the order *)
(* of subscription and snapshot are in SessionTurns.                       *)
(***************************************************************************)
EXTENDS Integers, Sequences, SequencesExt, FiniteSets, FiniteSetsExt

CONSTANTS
    Calls,      \* the ids of tool calls; a provider may use one again in a later message
    Produces,   \* the calls of wiki_produce
    Fills,      \* the numbers of tokens a reply may report
    Targets,    \* the context targets of the models of the picker
    Target0,    \* the target of the workspace's model
    MaxText,    \* bound on the length of a reply
    MaxPrompts, MaxReplies, MaxRetries, MaxCompactions, MaxOpens,  \* bounds
    MaxLag      \* bound on the frames on their way

FoldAssumption ==
    /\ Produces \subseteq Calls
    /\ Fills \subseteq Nat /\ Targets \cup {Target0} \subseteq Nat \ {0}
    /\ {MaxText, MaxPrompts, MaxReplies, MaxRetries, MaxCompactions, MaxOpens} \subseteq Nat
    /\ MaxLag \in Nat \ {0}

VARIABLES
    phase,      \* Pi: where its loop stands
    partial,    \* Pi: the reply it is streaming
    exec,       \* Pi: the tool calls of the last reply that have no result row yet
    fate,       \* Pi: what the loop ended with
    retry,      \* Pi: the automatic retries in a row
    healed,     \* Pi: a retried reply came through, auto_retry_end is due
    stopping,   \* Pi: the operator asked to stop
    branch,     \* Pi: the durable rows of the Session
    live,       \* the server: live.state and live.sessionUsage
    wire,       \* the patches on their way
    view,       \* the browser's state
    counts      \* [prompts, replies, compactions, opens]

pi == <<phase, partial, exec, fate, retry, healed, stopping, branch>>
vars == <<pi, live, wire, view, counts>>

Unset == -1
\* The texts that are not a reply's own: a provider's error, a refused prompt.
Failure == MaxText + 1
Refusal == MaxText + 2

Incomplete == {"pending", "running"}
Busy == {"streaming", "between_operations", "retrying", "compacting"}

-----------------------------------------------------------------------------
(* Messages and rows.  A message of Pi is [text, thinking, calls, stop].    *)

Silence == [text |-> 0, thinking |-> FALSE, calls |-> <<>>, stop |-> "none"]
Entry(role, m) == [role |-> role, message |-> m, call |-> "", ok |-> TRUE]

IsError(m) == m.stop = "error"
IsAborted(m) == m.stop = "aborted"

Row(id, role, content, status) ==
    [id |-> id, role |-> role, content |-> content, thinking |-> FALSE,
     tools |-> <<>>, status |-> status]

Has(tools, c) == \E i \in DOMAIN tools : tools[i].call = c
Owns(r, c) == r.role = "assistant" /\ Has(r.tools, c)
StatusOf(tools, c) == tools[CHOOSE i \in DOMAIN tools : tools[i].call = c].status

\* extractToolCallsFromMessage: the calls of the content, then the tools only events told of.
ToolsOfMessage(m, prev) ==
    [i \in DOMAIN m.calls |->
        [call |-> m.calls[i],
         status |-> IF Has(prev, m.calls[i]) THEN StatusOf(prev, m.calls[i]) ELSE "pending"]]
      \o SelectSeq(prev, LAMBDA t : \A i \in DOMAIN m.calls : m.calls[i] # t.call)

\* assistantFromSnapshot: the snapshot decides the text, the row before it the tools' status.
AssistantFromSnapshot(m, id, prev, status) ==
    LET had == prev # <<>>
        before == Head(prev)
    IN [id |-> id, role |-> "assistant",
        content |-> IF m.text > 0 THEN m.text
                    ELSE IF IsError(m) THEN Failure
                    ELSE IF had THEN before.content ELSE 0,
        thinking |-> m.thinking \/ (had /\ before.thinking),
        tools |-> ToolsOfMessage(m, IF had THEN before.tools ELSE <<>>),
        status |-> IF IsError(m) THEN "error" ELSE status]

PatchTool(r, c, status) ==
    [r EXCEPT !.tools =
        IF Has(@, c)
        THEN [i \in DOMAIN @ |-> IF @[i].call = c THEN [@[i] EXCEPT !.status = status] ELSE @[i]]
        ELSE Append(@, [call |-> c, status |-> status])]

EndTools(r) ==
    [r EXCEPT !.tools = [i \in DOMAIN @ |-> IF @[i].status \in Incomplete
                                            THEN [@[i] EXCEPT !.status = "error"] ELSE @[i]]]
EndToolsOfAll(rows) == [i \in DOMAIN rows |-> EndTools(rows[i])]

\* projectAgentMessagesFromPiHistory: a result goes to the newest row that owns its call.
AddHistoryRow(rows, n, e) ==
    LET owners == {i \in DOMAIN rows : Owns(rows[i], e.call)}
    IN CASE e.role = "user" -> Append(rows, Row(n, "user", e.message.text, "done"))
         [] e.role = "assistant" -> Append(rows, AssistantFromSnapshot(e.message, n, <<>>, "done"))
         [] e.role = "compactionSummary" -> Append(rows, Row(n, "system", 0, "done"))
         [] e.role = "toolResult" ->
              IF owners = {} THEN rows
              ELSE [rows EXCEPT ![Max(owners)] = PatchTool(@, e.call, IF e.ok THEN "done" ELSE "error")]

ProjectHistory(entries) ==
    LET upto[n \in 0..Len(entries)] ==
            IF n = 0 THEN <<>> ELSE AddHistoryRow(upto[n - 1], n, entries[n])
    IN EndToolsOfAll(upto[Len(entries)])

-----------------------------------------------------------------------------
(* The stream state and reducePiEvent, one operator for each kind of event. *)

LastAssistant(rows) ==
    LET mine == {i \in DOMAIN rows : rows[i].role = "assistant"}
    IN IF mine = {} THEN 0 ELSE rows[Max(mine)].id

CreatePiStreamState(seed, tokens, target, ids) ==
    [messages |-> seed, streaming |-> <<>>, lastAssistantId |-> LastAssistant(seed),
     turnActive |-> FALSE, agentStatus |-> "idle", errorText |-> 0, contextPhase |-> "unknown",
     tokens |-> tokens, target |-> target, ids |-> ids]

ViewMessages(s) == s.messages \o s.streaming

WithAgentError(s, text) == [s EXCEPT !.agentStatus = "error", !.errorText = text]

Fresh(s) == s.ids + 1
Took(s) == [s EXCEPT !.ids = @ + 1]

\* updateToolInState: the streaming row if it owns the call, the newest finalized row that
\* does, else the streaming row, the last assistant's, or a new shell.
UpdateToolInState(s, c, status) ==
    LET owners == {i \in DOMAIN s.messages : Owns(s.messages[i], c)}
        last == {i \in DOMAIN s.messages : s.messages[i].id = s.lastAssistantId}
        owned == s.streaming # <<>> /\ Owns(Head(s.streaming), c)
        Streamed == [s EXCEPT !.streaming = <<PatchTool(Head(@), c, status)>>]
        Shell == PatchTool(Row(Fresh(s), "assistant", 0, "streaming"), c, status)
    IN CASE owned -> Streamed
         [] ~owned /\ owners # {} -> [s EXCEPT !.messages[Max(owners)] = PatchTool(@, c, status)]
         [] ~owned /\ owners = {} /\ s.streaming # <<>> -> Streamed
         [] ~owned /\ owners = {} /\ s.streaming = <<>> ->
              IF last # {} THEN [s EXCEPT !.messages[Max(last)] = PatchTool(@, c, status)]
              ELSE [Took(s) EXCEPT !.streaming = <<Shell>>, !.lastAssistantId = Shell.id]

\* supersedeOtherWikiProduce: the other produce cards that have not ended are ended.
Supersede(s, c) ==
    LET Mark(r) == [r EXCEPT !.tools = [i \in DOMAIN @ |->
                        IF @[i].call \in Produces \ {c} /\ @[i].status \in Incomplete
                        THEN [@[i] EXCEPT !.status = "error"] ELSE @[i]]]
        MarkAll(rows) == [i \in DOMAIN rows |-> Mark(rows[i])]
    IN [s EXCEPT !.messages = MarkAll(@), !.streaming = MarkAll(@)]

AgentStart(s) ==
    [s EXCEPT !.turnActive = TRUE, !.streaming = <<>>, !.lastAssistantId = 0,
              !.agentStatus = "streaming", !.errorText = 0]

MessageStart(s, m) ==
    LET id == IF s.streaming # <<>> THEN Head(s.streaming).id ELSE Fresh(s)
        row == AssistantFromSnapshot(m, id, s.streaming, "streaming")
    IN [IF s.streaming # <<>> THEN s ELSE Took(s)
          EXCEPT !.streaming = <<row>>, !.lastAssistantId = id]

\* An update without text, thinking or calls begins no row.
MessageUpdate(s, m) ==
    IF m = [Silence EXCEPT !.stop = m.stop] /\ s.streaming = <<>> THEN s ELSE MessageStart(s, m)

UserMessageEnd(s, m) ==
    [Took(s) EXCEPT !.messages = Append(@, Row(Fresh(s), "user", m.text, "done"))]

ToolResultEnd(s, c, ok) == UpdateToolInState(s, c, IF ok THEN "done" ELSE "error")

Stopped(s) == Row(Fresh(s), "system", 0, "aborted")

\* message_end of an aborted reply: what was streamed stays, followed by the mark "Stopped".
AbortedEnd(s) ==
    LET body == SelectSeq(s.streaming, LAMBDA r : r.content > 0 \/ r.thinking \/ r.tools # <<>>)
        done == [i \in DOMAIN body |-> [body[i] EXCEPT !.status = "done"]]
    IN [Took(s) EXCEPT !.messages = @ \o done \o <<Stopped(s)>>, !.streaming = <<>>,
                       !.lastAssistantId = IF body = <<>> THEN @ ELSE Head(body).id]

\* message_end of a reply.  A reply that was never streamed is not a second card of the last one.
AssistantMessageEnd(s, m) ==
    LET had == s.streaming # <<>>
        id == IF had THEN Head(s.streaming).id ELSE Fresh(s)
        row == AssistantFromSnapshot(m, id, s.streaming, IF IsError(m) THEN "error" ELSE "done")
        mine == {i \in DOMAIN s.messages : s.messages[i].role = "assistant"}
        twin == ~had /\ mine # {}
                /\ LET r == s.messages[Max(mine)]
                   IN /\ r.content = row.content /\ r.status = row.status
                      /\ Len(r.tools) = Len(row.tools)
        next == IF twin THEN s
                ELSE [IF had THEN s ELSE Took(s) EXCEPT
                        !.messages = Append(@, row), !.streaming = <<>>, !.lastAssistantId = id]
    IN IF IsAborted(m) THEN AbortedEnd(s)
       ELSE IF IsError(m) THEN WithAgentError(next, Failure) ELSE next

ToolExecutionStart(s, c) ==
    UpdateToolInState(IF c \in Produces THEN Supersede(s, c) ELSE s, c, "running")

\* The event "error": the refused prompt's row, unless the last word is the same already.
ErrorEvent(s, text) ==
    LET rows == ViewMessages(s)
        spoken == {i \in DOMAIN rows : rows[i].role = "assistant"
                                       \/ (rows[i].role = "system" /\ rows[i].status = "error")}
        said == spoken # {} /\ LET r == rows[Max(spoken)]
                               IN r.status = "error" /\ r.content = text
    IN WithAgentError(IF said THEN s
                      ELSE [Took(s) EXCEPT !.messages = Append(@, Row(Fresh(s), "system", text, "error"))],
                      text)

FoldTail(s) ==
    LET done == [i \in DOMAIN s.streaming |->
                    [s.streaming[i] EXCEPT !.status = IF @ = "error" THEN "error" ELSE "done"]]
    IN [s EXCEPT !.messages = @ \o done, !.streaming = <<>>,
                 !.lastAssistantId = IF done = <<>> THEN @ ELSE Head(done).id]

\* Ends with `status`, or with the error that is already there.
EndsWith(s, status) ==
    [s EXCEPT !.agentStatus = IF @ = "error" THEN "error" ELSE status,
              !.errorText = IF s.agentStatus = "error" THEN @ ELSE 0]

AgentEnd(s) == [EndsWith(FoldTail(s), "between_operations") EXCEPT !.turnActive = TRUE]

AgentSettled(s) ==
    LET ended == [s EXCEPT !.messages = EndToolsOfAll(@), !.streaming = EndToolsOfAll(@)]
        folded == FoldTail(ended)
    IN [EndsWith(folded, "idle") EXCEPT
          !.turnActive = FALSE,
          !.messages = [i \in DOMAIN @ |-> IF @[i].status = "streaming"
                                           THEN [@[i] EXCEPT !.status = "done"] ELSE @[i]],
          !.contextPhase = IF @ = "compacting" THEN "unknown" ELSE @]

AutoRetryStart(s) == [s EXCEPT !.turnActive = TRUE, !.agentStatus = "retrying"]

AutoRetryEnd(s, success) ==
    LET t == [s EXCEPT !.turnActive = TRUE,
                       !.agentStatus = IF @ = "error" THEN "error" ELSE "between_operations"]
    IN IF success THEN t ELSE WithAgentError(t, Failure)

CompactionStart(s) ==
    [s EXCEPT !.turnActive = TRUE, !.agentStatus = "compacting", !.contextPhase = "compacting"]

CompactionEnd(s, result, willRetry) ==
    LET t == [s EXCEPT !.turnActive = TRUE, !.contextPhase = "unknown",
                       !.agentStatus = IF willRetry THEN "streaming"
                                       ELSE IF @ = "error" THEN "error" ELSE "between_operations"]
    IN IF result = "failed" THEN WithAgentError(t, Failure) ELSE t

\* deriveContextPhase.
DeriveContextPhase(tokens, target, compacting) ==
    CASE compacting -> "compacting"
      [] ~compacting /\ tokens = Unset -> "unknown"
      [] ~compacting /\ tokens # Unset ->
           IF tokens >= target THEN "at_target"
           ELSE IF 5 * tokens >= 4 * target THEN "approaching_target" ELSE "normal"

-----------------------------------------------------------------------------
(* The browser's DTO, the patches between two of them, the replica.         *)

ProjectOperatorMessage(r) ==
    [id |-> r.id, role |-> r.role, content |-> r.content, tools |-> r.tools, status |-> r.status]

Visible(rows) == SelectSeq(rows, LAMBDA r : r.role \in {"user", "assistant"})
ProjectAll(rows) ==
    LET shown == Visible(rows) IN [i \in DOMAIN shown |-> ProjectOperatorMessage(shown[i])]

ProjectStream(s) ==
    LET rows == ProjectAll(s.messages)
    IN [messages |-> rows, streaming |-> ProjectAll(s.streaming),
        lastAssistantId |-> LastAssistant(rows), turnActive |-> s.turnActive,
        agentStatus |-> s.agentStatus, errorText |-> s.errorText,
        contextPhase |-> s.contextPhase, tokens |-> s.tokens, target |-> s.target]

\* diffSessionStreamState: the rows that are new, the rows that changed, the rest whole.
DiffSessionStream(prev, next) ==
    LET Known(r) == \E i \in DOMAIN prev.messages : prev.messages[i].id = r.id
        Same(r) == \E i \in DOMAIN prev.messages : prev.messages[i] = r
    IN [state |-> [next EXCEPT !.messages = <<>>],
        appended |-> SelectSeq(next.messages, LAMBDA r : ~Known(r)),
        updated |-> SelectSeq(next.messages, LAMBDA r : Known(r) /\ ~Same(r))]

\* applySessionStreamPatch: the rows keep their place, what is not there yet goes to the end.
ApplyPatch(v, patch) ==
    LET news == patch.updated \o patch.appended
        Told(r) == {i \in DOMAIN news : news[i].id = r.id}
        kept == [i \in DOMAIN v.messages |->
                    IF Told(v.messages[i]) = {} THEN v.messages[i]
                    ELSE news[Max(Told(v.messages[i]))]]
        added == SelectSeq(news, LAMBDA r : \A i \in DOMAIN v.messages : v.messages[i].id # r.id)
    IN [patch.state EXCEPT !.messages = kept \o added,
                           !.tokens = IF @ = Unset THEN v.tokens ELSE @]

-----------------------------------------------------------------------------
(* The events.  Emit is the subscriber of attachLive: fold, then send the   *)
(* difference of the two projections.                                       *)

Emit(next) ==
    /\ Len(wire) < MaxLag
    /\ live' = next
    /\ wire' = Append(wire, DiffSessionStream(ProjectStream(live), ProjectStream(next)))
    /\ UNCHANGED view

Goes(s, tokens) == IF tokens = Unset THEN s ELSE [s EXCEPT !.tokens = tokens]

Init ==
    /\ phase = "idle" /\ partial = Silence /\ exec = <<>> /\ fate = "none"
    /\ retry = 0 /\ healed = FALSE /\ stopping = FALSE /\ branch = <<>>
    /\ live = CreatePiStreamState(<<>>, Unset, Target0, 0)
    /\ wire = <<>> /\ view = ProjectStream(live)
    /\ counts = [prompts |-> 0, replies |-> 0, compactions |-> 0, opens |-> 0]

\* dispatchSessionCommand("prompt") while no turn is active: agent_start.
Prompt ==
    /\ phase = "idle" /\ counts.prompts < MaxPrompts
    /\ phase' = "asked" /\ fate' = "none"
    /\ counts' = [counts EXCEPT !.prompts = @ + 1]
    /\ Emit(AgentStart(live))
    /\ UNCHANGED <<partial, exec, retry, healed, stopping, branch>>

\* Pi takes the prompt, or a steered message between two replies, or a follow-up after the last.
Hear ==
    /\ \/ phase = "asked" /\ UNCHANGED counts
       \/ /\ phase \in {"ready", "stopped"} /\ ~stopping /\ ~healed
          /\ (phase = "stopped" => fate = "stop")
          /\ counts.prompts < MaxPrompts
          /\ counts' = [counts EXCEPT !.prompts = @ + 1]
    /\ LET m == [Silence EXCEPT !.text = 1]
       IN /\ branch' = Append(branch, Entry("user", m))
          /\ Emit(UserMessageEnd(live, m))
    /\ phase' = "ready"
    /\ UNCHANGED <<partial, exec, fate, retry, healed, stopping>>

BeginReply ==
    /\ phase = "ready" /\ ~healed /\ counts.replies < MaxReplies
    /\ phase' = "speaking" /\ partial' = Silence
    /\ counts' = [counts EXCEPT !.replies = @ + 1]
    /\ Emit(MessageStart(live, Silence))
    /\ UNCHANGED <<exec, fate, retry, healed, stopping, branch>>

\* The reply grows by text, by thinking or by a tool call: message_update.
Grow ==
    /\ phase = "speaking"
    /\ \/ partial.text < MaxText /\ partial' = [partial EXCEPT !.text = @ + 1]
       \/ ~partial.thinking /\ MaxText > 1 /\ partial' = [partial EXCEPT !.thinking = TRUE]
       \/ \E c \in Calls \ Range(partial.calls) :
            partial' = [partial EXCEPT !.calls = Append(@, c)]
    /\ Emit(MessageUpdate(live, partial'))
    /\ UNCHANGED <<phase, exec, fate, retry, healed, stopping, branch, counts>>

\* The reply ends: with calls to run, with its text, with a provider's error, or stopped.
EndReply ==
    \E stop \in {"toolUse", "stop", "error", "aborted"}, tokens \in Fills :
        /\ phase = "speaking"
        /\ (stop = "toolUse") => partial.calls # <<>>
        /\ (stop = "stop") => partial.calls = <<>>
        /\ (stop = "aborted") => stopping
        /\ LET m == [partial EXCEPT !.stop = stop]
           IN /\ branch' = Append(branch, Entry("assistant", m))
              /\ Emit(Goes(AssistantMessageEnd(live, m), tokens))
        /\ exec' = IF stop = "toolUse" THEN [c \in Range(partial.calls) |-> "called"] ELSE <<>>
        /\ phase' = IF stop = "toolUse" THEN "tools" ELSE "stopped"
        /\ fate' = stop
        /\ healed' = (retry > 0 /\ stop # "error")
        /\ UNCHANGED <<partial, retry, stopping, counts>>

RetrySucceeded ==
    /\ healed
    /\ healed' = FALSE /\ retry' = 0
    /\ Emit(AutoRetryEnd(live, TRUE))
    /\ UNCHANGED <<phase, partial, exec, fate, stopping, branch, counts>>

\* The calls that are not yet over, in the order of the message.
First(calls) == SelectSeq(partial.calls, LAMBDA c : c \in calls)[1]
Waiting(status) == {c \in DOMAIN exec : exec[c] = status}

StartTool ==
    /\ phase = "tools" /\ ~healed /\ Waiting("called") # {}
    /\ LET c == First(Waiting("called"))
       IN /\ exec' = [exec EXCEPT ![c] = "running"]
          /\ Emit(ToolExecutionStart(live, c))
    /\ UNCHANGED <<phase, partial, fate, retry, healed, stopping, branch, counts>>

\* tool_execution_update.
ToolReports(c) ==
    /\ exec[c] = "running"
    /\ Emit(UpdateToolInState(live, c, "running"))
    /\ UNCHANGED <<pi, counts>>

EndTool(c) ==
    \E ok \in BOOLEAN :
        /\ exec[c] = "running" /\ (ok \/ stopping)
        /\ exec' = [exec EXCEPT ![c] = IF ok THEN "done" ELSE "error"]
        /\ Emit(UpdateToolInState(live, c, IF ok THEN "done" ELSE "error"))
        /\ UNCHANGED <<phase, partial, fate, retry, healed, stopping, branch, counts>>

\* The result rows follow when all calls are over: message_end of a toolResult.
TellResult ==
    /\ phase = "tools" /\ DOMAIN exec # {} /\ Waiting("called") \cup Waiting("running") = {}
    /\ LET c == First(DOMAIN exec)
           ok == exec[c] = "done"
       IN /\ branch' = Append(branch, [Entry("toolResult", Silence) EXCEPT !.call = c, !.ok = ok])
          /\ exec' = [d \in DOMAIN exec \ {c} |-> exec[d]]
          /\ phase' = IF DOMAIN exec = {c} THEN "ready" ELSE "tools"
          /\ Emit(ToolResultEnd(live, c, ok))
    /\ UNCHANGED <<partial, fate, retry, healed, stopping, counts>>

EndLoop ==
    /\ phase = "stopped" /\ ~healed
    /\ phase' = "ended"
    /\ Emit(AgentEnd(live))
    /\ UNCHANGED <<partial, exec, fate, retry, healed, stopping, branch, counts>>

Retry ==
    /\ phase = "ended" /\ fate = "error" /\ ~stopping /\ retry < MaxRetries
    /\ phase' = "waiting" /\ retry' = retry + 1
    /\ Emit(AutoRetryStart(live))
    /\ UNCHANGED <<partial, exec, fate, healed, stopping, branch, counts>>

\* After the delay of a retry, or after the compaction of an overflow: the loop goes on.
Continue ==
    /\ phase = "waiting" /\ (stopping => retry = 0)
    /\ phase' = "ready" /\ fate' = "none"
    /\ Emit(AgentStart(live))
    /\ UNCHANGED <<partial, exec, retry, healed, stopping, branch, counts>>

GiveUp ==
    /\ \/ phase = "waiting" /\ stopping /\ retry > 0
       \/ phase = "ended" /\ fate = "error" /\ retry > 0 /\ retry = MaxRetries
    /\ phase' = "ended" /\ fate' = "given up" /\ retry' = 0
    /\ Emit(AutoRetryEnd(live, FALSE))
    /\ UNCHANGED <<partial, exec, healed, stopping, branch, counts>>

\* Automatic compaction after the loop, or the command "compact" while nothing runs.
Compact ==
    /\ counts.compactions < MaxCompactions
    /\ \/ phase = "ended" /\ fate \in {"stop", "error"} /\ ~stopping
          /\ phase' \in {"compacting"} \cup (IF fate = "error" THEN {"overflowing"} ELSE {})
       \/ phase = "idle" /\ phase' = "manual"
    /\ counts' = [counts EXCEPT !.compactions = @ + 1]
    /\ Emit(CompactionStart(live))
    /\ UNCHANGED <<partial, exec, fate, retry, healed, stopping, branch>>

EndCompaction ==
    \E result \in {"ok", "failed", "aborted"} :
        /\ phase \in {"compacting", "overflowing", "manual"}
        /\ LET again == phase = "overflowing" /\ result = "ok"
           IN /\ phase' = CASE phase = "manual" -> "idle"
                            [] phase # "manual" /\ again -> "waiting"
                            [] OTHER -> "ended"
              /\ Emit(CompactionEnd(live, result, again))
        /\ branch' = IF result = "ok" THEN Append(branch, Entry("compactionSummary", Silence))
                     ELSE branch
        /\ fate' = "compacted"
        /\ UNCHANGED <<partial, exec, retry, healed, stopping, counts>>

Settle ==
    /\ phase = "ended"
    /\ phase' = "idle" /\ retry' = 0 /\ stopping' = FALSE
    /\ Emit(AgentSettled(live))
    /\ UNCHANGED <<partial, exec, fate, healed, branch, counts>>

\* dispatchSessionCommand("abort").
Stop ==
    /\ phase \notin {"idle", "manual"} /\ ~stopping
    /\ stopping' = TRUE
    /\ UNCHANGED <<phase, partial, exec, fate, retry, healed, branch, live, wire, view, counts>>

\* A prompt that was accepted after the abort, while Pi still has its turn, is refused by it.
Refuse ==
    /\ stopping /\ phase # "idle" /\ counts.prompts < MaxPrompts
    /\ counts' = [counts EXCEPT !.prompts = @ + 1]
    /\ Emit(ErrorEvent(live, Refusal))
    /\ UNCHANGED pi

\* dispatchSessionCommand("set_model"): not while the Session is busy.
SetModel ==
    \E target \in Targets \ {live.target} :
        /\ phase \in {"idle", "manual"} \/ stopping
        /\ LET compacting == "compacting" \in {live.contextPhase, live.agentStatus}
           IN Emit([live EXCEPT !.target = target,
                      !.contextPhase = DeriveContextPhase(live.tokens, target, compacting)])
        /\ UNCHANGED <<pi, counts>>

\* openLive after the handle was closed, by an edit or with the server: the durable branch
\* seeds the state, and every browser begins again with its snapshot.  Pi's file exists only
\* since its first reply.
Reopen ==
    /\ counts.opens < MaxOpens
    /\ \E i \in DOMAIN branch : branch[i].role = "assistant"
    /\ counts' = [counts EXCEPT !.opens = @ + 1]
    /\ phase' = "idle" /\ partial' = Silence /\ exec' = <<>> /\ fate' = "none"
    /\ retry' = 0 /\ healed' = FALSE /\ stopping' = FALSE
    /\ live' = CreatePiStreamState(ProjectHistory(branch), live.tokens, Target0, Len(branch))
    /\ wire' = <<>> /\ view' = ProjectStream(live')
    /\ UNCHANGED branch

\* The browser's event stream breaks and begins again with a snapshot.
Reload ==
    /\ wire # <<>>
    /\ wire' = <<>> /\ view' = ProjectStream(live)
    /\ UNCHANGED <<pi, live, counts>>

Receive ==
    /\ wire # <<>>
    /\ view' = ApplyPatch(view, Head(wire)) /\ wire' = Tail(wire)
    /\ UNCHANGED <<pi, live, counts>>

Next ==
    \/ Prompt \/ Hear \/ BeginReply \/ Grow \/ EndReply \/ RetrySucceeded
    \/ StartTool \/ (\E c \in DOMAIN exec : ToolReports(c) \/ EndTool(c)) \/ TellResult
    \/ EndLoop \/ Retry \/ Continue \/ GiveUp \/ Compact \/ EndCompaction \/ Settle
    \/ Stop \/ Refuse \/ SetModel \/ Reopen \/ Reload \/ Receive

Spec == Init /\ [][Next]_vars

-----------------------------------------------------------------------------
(* Properties. *)

Statuses == {"pending", "running", "done", "error"}
Rows == [id : Nat, role : {"user", "assistant", "system"}, content : 0..Refusal,
         thinking : BOOLEAN, tools : Seq([call : Calls, status : Statuses]),
         status : {"streaming", "done", "error", "aborted"}]

TypeOK ==
    /\ phase \in {"idle", "asked", "ready", "speaking", "tools", "stopped", "ended", "waiting",
                   "compacting", "overflowing", "manual"}
    /\ live.messages \in Seq(Rows) /\ live.streaming \in Seq(Rows) /\ Len(live.streaming) <= 1
    /\ live.agentStatus \in Busy \cup {"idle", "error"} /\ live.errorText \in 0..Refusal
    /\ \A s \in {ViewMessages(live)} : IsInjective([i \in DOMAIN s |-> s[i].id])
    /\ \A c \in DOMAIN exec : exec[c] \in {"called", "running", "done", "error"}
    /\ Len(wire) <= MaxLag /\ retry \in 0..MaxRetries

\* What the browser shows, once it has taken the frames on their way, is the server's state.
ReplicaFollows == FoldLeft(ApplyPatch, view, wire) = ProjectStream(live)

\* What a reader sees of rows: without those of a reply that was stopped before its first word.
Seen(rows) ==
    LET spoken == SelectSeq(Visible(rows), LAMBDA r : r.role = "user" \/ r.content > 0 \/ r.tools # <<>>)
    IN [i \in DOMAIN spoken |-> [role |-> spoken[i].role, content |-> spoken[i].content,
                                 tools |-> spoken[i].tools, status |-> spoken[i].status]]

\* When no turn runs, the rows folded from the events read as those of the durable branch, so
\* that opening the Session again changes nothing.
LiveIsHistory == phase = "idle" => Seen(live.messages) = Seen(ProjectHistory(branch))

\* While a round of tools runs, the card of each call shows how far that call is; of several
\* calls of wiki_produce in one reply only the last one's is live.
CardsTellTheTruth ==
    \A c \in DOMAIN exec :
        (c \in Produces => Produces \cap Range(partial.calls) = {c}) =>
            LET mine == {i \in DOMAIN live.messages : live.messages[i].role = "assistant"}
                tools == live.messages[Max(mine)].tools
            IN /\ Has(tools, c)
               /\ StatusOf(tools, c) = IF exec[c] = "called" THEN "pending" ELSE exec[c]

\* A conversation that is shown as settled has nothing that still streams or runs.
SettledIsQuiet ==
    ~view.turnActive =>
        /\ view.streaming = <<>> /\ view.agentStatus \in {"idle", "error"}
        /\ \A i \in DOMAIN view.messages :
              /\ view.messages[i].status # "streaming"
              /\ \A t \in Range(view.messages[i].tools) : t.status \notin Incomplete

\* A row that was shown keeps its place until the Session is opened again.
KeepsThePlaces ==
    counts'.opens = counts.opens =>
        IsPrefix([i \in DOMAIN view.messages |-> view.messages[i].id],
                 [i \in DOMAIN view'.messages |-> view'.messages[i].id])
RowsKeepTheirPlace == [][KeepsThePlaces]_vars

-----------------------------------------------------------------------------
(* What comments, tests and documents say, and the code does not keep.      *)

FailedLast ==
    LET said == SelectSeq(branch, LAMBDA e : e.role \in {"user", "assistant"})
    IN said # <<>> /\ IsError(Last(said).message)

\* A turn that failed settles as an error.
ErrorSettles ==
    (phase = "idle" /\ counts.opens = 0 /\ FailedLast) => live.agentStatus = "error"

\* While Pi has its turn the composer shows it as busy.
BusyWhileActive ==
    (wire = <<>> /\ phase \notin {"idle", "manual"}) => view.agentStatus \in Busy

\* The context phase that is shown is the one of the tokens that are shown.
PhaseIsOfTheFill ==
    live.contextPhase \in {"unknown", "compacting",
                           DeriveContextPhase(live.tokens, live.target, FALSE)}

\* Opening a Session again, while it is idle, shows the rows that were there.
ReopenAddsNothing ==
    [][(counts'.opens # counts.opens /\ phase = "idle") =>
         Len(view'.messages) = Len(ProjectStream(live).messages)]_vars

\* When nothing runs, the composer is free.
ComposerIsFreed == (wire = <<>> /\ phase = "idle") => view.agentStatus \notin Busy
=============================================================================
