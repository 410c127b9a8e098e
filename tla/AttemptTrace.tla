----------------------------- MODULE AttemptTrace -----------------------------
(***************************************************************************)
(* The trace of one attempt, from the Pi session to the operator's screen: *)
(* the sink and the finalisers append rows to session.jsonl, the server    *)
(* reads the attempt's row and then the file, answers GETs by page and     *)
(* streams what is new over SSE, and the browser merges pages and frames   *)
(* into a timeline.                                                        *)
(*                                                                         *)
(* A row is its ordinal and its kind; it weighs one unit, a tool row two.  *)
(* The session, the host, the server and the browser interleave freely; a  *)
(* restart of the server, a lost connection, a change of the selection and *)
(* an append that is read half written happen where the constants say so.  *)
(***************************************************************************)
EXTENDS Naturals, FiniteSets, SequencesExt

CONSTANTS
    Cap,          \* ATTEMPT_TRACE_MAX_BYTES, in units
    Reserve,      \* TRACE_CAP_RESERVE_BYTES
    Page,         \* rows of one answer: 200 in the code
    MaxEvents,    \* bound: events of the session
    MaxFrames,    \* bound: frames on the wire
    MaxDrops,     \* bound: connections lost
    MaxSelects,   \* bound: times the attempt is selected
    Cancels,      \* the run is cancelled while the attempt runs
    Crashes,      \* the server restarts while the attempt runs
    Torn          \* a reader may see the first half of an append

TraceAssumption ==
    /\ {Cap, Reserve, Page, MaxEvents, MaxFrames, MaxDrops, MaxSelects} \subseteq Nat
    /\ 1 <= Reserve /\ Reserve < Cap /\ 1 <= Page /\ 2 <= MaxFrames
    /\ {Cancels, Crashes, Torn} \subseteq BOOLEAN

VARIABLES
    file,      \* the rows of session.jsonl
    torn,      \* its last line is incomplete
    lines,     \* rows each writer has computed and not yet appended
    text,      \* the sink holds assistant text it has not written
    jobs,      \* queued on the sink's chain: events, and flushes of a long text
    said,      \* events of the session so far
    lost,      \* a row was not written because of the cap
    phase,     \* where the executor and the host are
    how,       \* how the session ended
    row,       \* attempts.state
    tl,        \* the timeline of the browser
    get,       \* the GET of the latest page
    more,      \* GETs of earlier pages
    es,        \* the browser's EventSource
    srv,       \* the server's side of it
    wire,      \* frames under way
    drops, selects

writerVars == <<file, torn, lines, text, jobs, said, lost, phase, how>>
viewVars == <<tl, get, more, es, srv, wire, drops, selects>>
vars == <<writerVars, row, viewVars>>

Writers == {"sink", "host"}
Kinds == {"input", "text", "tool", "terminal", "truncated"}
Row == [ord : Nat, kind : Kinds]
Size(kind) == IF kind = "tool" THEN 2 ELSE 1
Weight(kinds) == FoldLeft(LAMBDA sum, kind : sum + Size(kind), 0, kinds)
Bytes(rows) == FoldLeft(LAMBDA sum, r : sum + Size(r.kind), 0, rows)
Ords(rows) == {rows[i].ord : i \in DOMAIN rows}
Has(rows, kind) == \E i \in DOMAIN rows : rows[i].kind = kind

(***************************************************************************)
(* The writers.  An append reads the whole file, computes its rows, and    *)
(* appends them: two steps, with an await between them.  A row that does   *)
(* not fit has used its ordinal; the marker takes the next one and ends    *)
(* the trace.                                                              *)
(***************************************************************************)
NextOrdinal(rows) == 1 + Max(Ords(rows) \union {0})

Fitting(bytes, kinds) ==
    Max({k \in 0..Len(kinds) : bytes + Weight(SubSeq(kinds, 1, k)) <= Cap - Reserve}
            \union {0})

TraceRows(kinds) ==
    LET next == NextOrdinal(file)
        bytes == Bytes(file)
        k == Fitting(bytes, kinds)
        marker == [ord |-> next + k + 1, kind |-> "truncated"]
    IN  IF Has(file, "truncated") \/ bytes >= Cap THEN <<>>
        ELSE [i \in 1..k |-> [ord |-> next + i - 1, kind |-> kinds[i]]]
             \o IF k < Len(kinds) /\ bytes + Weight(SubSeq(kinds, 1, k)) + 1 <= Cap
                THEN <<marker>> ELSE <<>>

\* The reader's half: the rows of `kinds` the trace will not hold.
Clipped(kinds) == Len(SelectSeq(TraceRows(kinds), LAMBDA r : r.kind # "truncated")) < Len(kinds)

Busy(w) == lines[w] # <<>>

Begin(w, drafts) ==
    LET kinds == (IF Has(file, "input") THEN <<>> ELSE <<"input">>) \o drafts
    IN  /\ lines' = [lines EXCEPT ![w] = TraceRows(kinds)]
        /\ lost' = (lost \/ Clipped(kinds))

AppendLines(w) ==
    /\ Busy(w)
    /\ IF Torn /\ ~torn
       THEN torn' = TRUE /\ UNCHANGED <<file, lines>>
       ELSE /\ file' = file \o lines[w]
            /\ lines' = [lines EXCEPT ![w] = <<>>]
            /\ torn' = FALSE
    /\ UNCHANGED <<text, jobs, said, lost, phase, how, row, viewVars>>

(***************************************************************************)
(* The session of the attempt and its sink.                                *)
(***************************************************************************)
Start ==
    /\ phase = "start"
    /\ Begin("sink", <<>>)
    /\ phase' = "starting"
    /\ UNCHANGED <<file, torn, text, jobs, said, how, row, viewVars>>

Prompt ==
    /\ phase = "starting" /\ ~Busy("sink")
    /\ phase' = "session"
    /\ UNCHANGED <<file, torn, lines, text, jobs, said, lost, how, row, viewVars>>

\* A delta of the assistant's text; a long text is flushed before the turn ends.
Delta(long) ==
    /\ phase = "session" /\ said < MaxEvents
    /\ text' = TRUE
    /\ jobs' = IF long THEN Append(jobs, "flush") ELSE jobs
    /\ said' = said + 1
    /\ UNCHANGED <<file, torn, lines, lost, phase, how, row, viewVars>>

\* The other events queue a job; only those of a tool have a row.
Event(job) ==
    /\ phase = "session" /\ said < MaxEvents
    /\ jobs' = Append(jobs, job)
    /\ said' = said + 1
    /\ UNCHANGED <<file, torn, lines, text, lost, phase, how, row, viewVars>>

\* flushAssistant, the first append of a job: the text is taken, and what the
\* session says meanwhile waits for another job.
FlushText ==
    /\ jobs # <<>> /\ Head(jobs) # "row" /\ ~Busy("sink")
    /\ IF text THEN Begin("sink", <<"text">>) ELSE UNCHANGED <<lines, lost>>
    /\ text' = FALSE
    /\ jobs' = (IF Head(jobs) = "tool" THEN <<"row">> ELSE <<>>) \o Tail(jobs)
    /\ UNCHANGED <<file, torn, said, phase, how, row, viewVars>>

\* The second append of a tool's job, computed from the file as it is by then.
Work ==
    /\ jobs # <<>> /\ Head(jobs) = "row" /\ ~Busy("sink")
    /\ Begin("sink", <<"tool">>)
    /\ jobs' = Tail(jobs)
    /\ UNCHANGED <<file, torn, text, said, phase, how, row, viewVars>>

\* prompt() returns, fails, or is aborted because the run was cancelled.
EndSession(result) ==
    /\ phase = "session"
    /\ (result = "cancelled") = (row = "cancelled")
    /\ phase' = "ended"
    /\ how' = result
    /\ UNCHANGED <<file, torn, lines, text, jobs, said, lost, row, viewVars>>

\* The finally of runScopedAgent: the flush is a job of the same chain.
Flush ==
    /\ phase = "ended" /\ jobs = <<>> /\ ~Busy("sink")
    /\ IF text THEN Begin("sink", <<"text">>) ELSE UNCHANGED <<lines, lost>>
    /\ text' = FALSE
    /\ phase' = "flushed"
    /\ UNCHANGED <<file, torn, jobs, said, how, row, viewVars>>

\* sealTranscript, failAttempt, or the executor's catch.
Finalize ==
    /\ phase = "flushed" /\ ~Busy("sink")
    /\ Begin("host", <<"terminal">>)
    /\ phase' = "final"
    /\ UNCHANGED <<file, torn, text, jobs, said, how, row, viewVars>>

\* The host has the outcome: a late one is dropped, a success is committed,
\* a failure gets its terminal row if none could be written before.
FailureRows ==
    IF Has(file, "terminal") \/ Bytes(file) + 1 > Cap THEN <<>>
    ELSE <<[ord |-> NextOrdinal(file), kind |-> "terminal"]>>

Outcome ==
    /\ phase = "final" /\ ~Busy("host")
    /\ \/ /\ row # "running"
          /\ phase' = "over"
          /\ UNCHANGED <<row, lines>>
       \/ /\ row = "running" /\ how = "done"
          /\ row' = "succeeded"
          /\ phase' = "over"
          /\ UNCHANGED lines
       \/ /\ row = "running" /\ how = "error"
          /\ lines' = [lines EXCEPT !["host"] = FailureRows]
          /\ phase' = "failing"
          /\ UNCHANGED row
    /\ UNCHANGED <<file, torn, text, jobs, said, lost, how, viewVars>>

FailNode ==
    /\ phase = "failing" /\ ~Busy("host")
    /\ row' = IF row = "running" THEN "failed" ELSE row
    /\ phase' = "over"
    /\ UNCHANGED <<file, torn, lines, text, jobs, said, lost, how, viewVars>>

\* run.cancel ends the row in its transaction and aborts the session.
Cancel ==
    /\ Cancels /\ row = "running" /\ phase # "start"
    /\ row' = "cancelled"
    /\ UNCHANGED <<writerVars, viewVars>>

(***************************************************************************)
(* Reading.  readAttemptTranscript takes the state of the attempt in a     *)
(* transaction and reads the file afterwards; a line that does not parse   *)
(* fails the whole read.                                                   *)
(***************************************************************************)
Live(state) == state \in {"running", "suspended"}

RowsAfter(after) ==
    LET eligible == SelectSeq(file, LAMBDA r : r.ord > after)
    IN  SubSeq(eligible, 1, Min({Page, Len(eligible)}))

RowsBefore(eligible) ==
    SubSeq(eligible, Max({0, Len(eligible) - Page}) + 1, Len(eligible))

\* The page that ends before ordinal `before` (the latest page for 0).
PageBefore(before) ==
    LET eligible == SelectSeq(file, LAMBDA r : before = 0 \/ r.ord < before)
        page == RowsBefore(eligible)
    IN  [ords |-> Ords(page),
         cursor |-> Max(Ords(page) \union {0}),
         hasEarlier |-> Len(eligible) > Len(page),
         nextBefore |-> IF Len(eligible) > Len(page) THEN page[1].ord ELSE 0]

NoPage == [ords |-> {}, cursor |-> 0, hasEarlier |-> FALSE, nextBefore |-> 0]
NoGet == [pc |-> "none", state |-> "running", page |-> NoPage]
NoServer == [pc |-> "none", state |-> "running", after |-> 0]
NoSource == [state |-> "none", after |-> 0, last |-> 0]

(***************************************************************************)
(* The browser: selecting the attempt asks for its latest page; the answer *)
(* hydrates the timeline and, while the attempt is live, opens the stream. *)
(***************************************************************************)
Select ==
    /\ get.pc = "none" /\ es.state = "none" /\ selects < MaxSelects
    /\ get' = [NoGet EXCEPT !.pc = "state"]
    /\ selects' = selects + 1
    /\ UNCHANGED <<writerVars, row, tl, more, es, srv, wire, drops>>

\* Another attempt is selected: the effect's cleanup ignores a late answer
\* and closes the stream; the timeline is kept, and so is a GET of `more`.
Deselect ==
    /\ get.pc # "none" \/ es.state # "none"
    /\ selects < MaxSelects
    /\ get' = NoGet
    /\ es' = NoSource
    /\ srv' = NoServer
    /\ wire' = <<>>
    /\ UNCHANGED <<writerVars, row, tl, more, drops, selects>>

GetState ==
    /\ get.pc = "state"
    /\ get' = [get EXCEPT !.pc = "file", !.state = row]
    /\ UNCHANGED <<writerVars, row, tl, more, es, srv, wire, drops, selects>>

GetFile ==
    /\ get.pc = "file"
    /\ get' = IF torn THEN [get EXCEPT !.pc = "failed"]
              ELSE [get EXCEPT !.pc = "answer", !.page = PageBefore(0)]
    /\ UNCHANGED <<writerVars, row, tl, more, es, srv, wire, drops, selects>>

Merged(page) == tl.shown \union page.ords

Hydrate ==
    /\ get.pc = "answer"
    /\ tl' = [shown |-> Merged(get.page),
              cursor |-> Max({tl.cursor, get.page.cursor}),
              hasEarlier |-> get.page.hasEarlier, nextBefore |-> get.page.nextBefore,
              loading |-> FALSE]
    /\ es' = [state |-> IF Live(get.state) THEN "connecting" ELSE "closed",
              after |-> get.page.cursor, last |-> 0]
    /\ get' = NoGet
    /\ UNCHANGED <<writerVars, row, more, srv, wire, drops, selects>>

LoadEarlier ==
    /\ es.state # "none" /\ tl.hasEarlier /\ tl.nextBefore # 0 /\ ~tl.loading
    /\ tl' = [tl EXCEPT !.loading = TRUE]
    /\ more' = more \union {[pc |-> "file", before |-> tl.nextBefore, page |-> NoPage]}
    /\ UNCHANGED <<writerVars, row, get, es, srv, wire, drops, selects>>

EarlierFile(m) ==
    /\ m \in more /\ m.pc = "file"
    /\ IF torn
       THEN more' = more \ {m} /\ tl' = [tl EXCEPT !.loading = FALSE]
       ELSE /\ more' = (more \ {m})
                \union {[m EXCEPT !.pc = "answer", !.page = PageBefore(m.before)]}
            /\ UNCHANGED tl
    /\ UNCHANGED <<writerVars, row, get, es, srv, wire, drops, selects>>

\* The answer is merged whatever is selected by now.
Earlier(m) ==
    /\ m \in more /\ m.pc = "answer"
    /\ tl' = [tl EXCEPT !.shown = Merged(m.page), !.hasEarlier = m.page.hasEarlier,
                        !.nextBefore = m.page.nextBefore, !.loading = FALSE]
    /\ more' = more \ {m}
    /\ UNCHANGED <<writerVars, row, get, es, srv, wire, drops, selects>>

(***************************************************************************)
(* The stream.  A reconnect of the browser sends Last-Event-ID; the server *)
(* polls until it sees a state that is not live, and then says done.       *)
(***************************************************************************)
Connect ==
    /\ es.state = "connecting"
    /\ es' = [es EXCEPT !.state = "open"]
    /\ srv' = [pc |-> "state", state |-> "running", after |-> Max({es.after, es.last})]
    /\ wire' = <<>>
    /\ UNCHANGED <<writerVars, row, tl, get, more, drops, selects>>

Drop ==
    /\ es.state = "open" /\ drops < MaxDrops
    /\ es' = [es EXCEPT !.state = "connecting"]
    /\ srv' = NoServer
    /\ wire' = <<>>
    /\ drops' = drops + 1
    /\ UNCHANGED <<writerVars, row, tl, get, more, selects>>

SrvState ==
    /\ srv.pc = "state" /\ Len(wire) + 2 <= MaxFrames
    /\ srv' = [srv EXCEPT !.pc = "file", !.state = row]
    /\ UNCHANGED <<writerVars, row, tl, get, more, es, wire, drops, selects>>

Frame(event, rows) == [event |-> event, ords |-> Ords(rows), id |-> Max(Ords(rows) \union {0})]

\* Mutant: the last batch ends the stream, without a done frame.
SrvFileSilent ==
    /\ srv.pc = "file"
    /\ LET rows == RowsAfter(srv.after) IN
          /\ wire' = wire \o IF rows = <<>> THEN <<>> ELSE <<Frame("trace", rows)>>
          /\ srv' = IF Live(srv.state)
                    THEN [srv EXCEPT !.pc = "state", !.after = Max({@} \union Ords(rows))]
                    ELSE NoServer
    /\ UNCHANGED <<writerVars, row, tl, get, more, es, drops, selects>>

SrvFile ==
    /\ srv.pc = "file"
    /\ IF torn
       THEN wire' = Append(wire, Frame("transcript_error", <<>>)) /\ srv' = NoServer
       ELSE LET rows == RowsAfter(srv.after)
                trace == IF rows = <<>> THEN <<>> ELSE <<Frame("trace", rows)>>
            IN  IF Live(srv.state)
                THEN /\ wire' = wire \o trace
                     /\ srv' = [srv EXCEPT !.pc = "state", !.after = Max({@} \union Ords(rows))]
                ELSE /\ wire' = wire \o Append(trace, Frame("done", <<>>))
                     /\ srv' = NoServer
    /\ UNCHANGED <<writerVars, row, tl, get, more, es, drops, selects>>

Receive ==
    /\ es.state = "open" /\ wire # <<>>
    /\ wire' = Tail(wire)
    /\ IF Head(wire).event = "trace"
       THEN /\ tl' = [tl EXCEPT !.shown = @ \union Head(wire).ords,
                                !.cursor = Max({@, Head(wire).id})]
            /\ es' = [es EXCEPT !.last = Head(wire).id]
       ELSE /\ es' = [es EXCEPT !.state = IF Head(wire).event = "done" THEN "closed"
                                          ELSE "failed"]
            /\ UNCHANGED tl
    /\ UNCHANGED <<writerVars, row, get, more, srv, drops, selects>>

\* The process dies and its successor marks the attempt interrupted before
\* it answers anybody.  A line written in part stays so.
Crash ==
    /\ Crashes /\ phase # "over"
    /\ phase' = "over"
    /\ row' = IF row = "running" THEN "interrupted" ELSE row
    /\ text' = FALSE
    /\ jobs' = <<>>
    /\ lines' = [w \in Writers |-> <<>>]
    /\ get' = IF get.pc = "none" THEN NoGet ELSE [get EXCEPT !.pc = "failed"]
    /\ more' = {}
    /\ es' = [es EXCEPT !.state = IF @ = "open" THEN "connecting" ELSE @]
    /\ srv' = NoServer
    /\ wire' = <<>>
    /\ tl' = [tl EXCEPT !.loading = FALSE]
    /\ lost' = Has(file, "truncated")
    /\ UNCHANGED <<file, torn, said, how, drops, selects>>

Init ==
    /\ file = <<>>
    /\ torn = FALSE
    /\ lines = [w \in Writers |-> <<>>]
    /\ text = FALSE
    /\ jobs = <<>>
    /\ said = 0
    /\ lost = FALSE
    /\ phase = "start"
    /\ how = "none"
    /\ row = "running"
    /\ tl = [shown |-> {}, cursor |-> 0, hasEarlier |-> FALSE, nextBefore |-> 0,
             loading |-> FALSE]
    /\ get = NoGet
    /\ more = {}
    /\ es = NoSource
    /\ srv = NoServer
    /\ wire = <<>>
    /\ drops = 0
    /\ selects = 0

Writing ==
    \/ Start \/ Prompt \/ FlushText \/ Work \/ Flush \/ Finalize
    \/ \E long \in BOOLEAN : Delta(long)
    \/ \E job \in {"tool", "flush"} : Event(job)
    \/ \E result \in {"done", "error", "cancelled"} : EndSession(result)
    \/ \E w \in Writers : AppendLines(w)
    \/ Outcome \/ FailNode

Serving == Connect \/ SrvState \/ SrvFile \/ Receive \/ GetState \/ GetFile \/ Hydrate

Next ==
    \/ Writing \/ Serving
    \/ Cancel \/ Crash
    \/ Select \/ Deselect \/ Drop \/ LoadEarlier
    \/ \E m \in more : EarlierFile(m) \/ Earlier(m)

Spec == Init /\ [][Next]_vars

\* Every program step that can be taken is taken; the operator, the network
\* and the model's events owe nothing, except that the session ends.
Fairness ==
    /\ WF_vars(Start \/ Prompt \/ FlushText \/ Work \/ Flush \/ Finalize \/ Outcome \/ FailNode)
    /\ WF_vars(\E w \in Writers : AppendLines(w))
    /\ WF_vars(\E result \in {"done", "error", "cancelled"} : EndSession(result))
    /\ WF_vars(SrvState \/ SrvFile)
    /\ WF_vars(Connect) /\ WF_vars(Receive)

FairSpec == Spec /\ Fairness

TypeOK ==
    /\ file \in Seq(Row)
    /\ {torn, text, lost} \subseteq BOOLEAN
    /\ \A w \in Writers : lines[w] \in Seq(Row)
    /\ jobs \in Seq({"tool", "row", "flush"}) /\ said \in 0..MaxEvents
    /\ phase \in {"start", "starting", "session", "ended", "flushed", "final", "failing", "over"}
    /\ how \in {"none", "done", "error", "cancelled"}
    /\ row \in {"running", "succeeded", "failed", "cancelled", "interrupted"}
    /\ tl \in [shown : SUBSET Nat, cursor : Nat, hasEarlier : BOOLEAN, nextBefore : Nat,
               loading : BOOLEAN]
    /\ get.pc \in {"none", "state", "file", "answer", "failed"}
    /\ \A m \in more : m.pc \in {"file", "answer"}
    /\ es.state \in {"none", "connecting", "open", "closed", "failed"}
    /\ srv.pc \in {"none", "state", "file"}
    /\ Len(wire) <= MaxFrames
    /\ drops <= MaxDrops /\ selects <= MaxSelects

\* Whoever writes, ordinals only grow: an append computed from an older file
\* never lands behind rows it has not seen (attempt-transcript-sink.ts:216).
OrdinalsIncrease == \A i \in 1..(Len(file) - 1) : file[i].ord < file[i + 1].ord

\* A row the cap swallowed is never missing in silence: the trace says that it
\* was truncated, whichever writer met the limit first.
ClippingIsMarked ==
    lost => Has(file, "truncated") \/ \E w \in Writers : Has(lines[w], "truncated")

\* The writers stop early enough, and count what each other wrote, so that the
\* reader never refuses the file as too large (transcript.ts:118).
ReaderAcceptsFile == Bytes(file) <= Cap

\* An attempt that succeeded or failed has told so in its trace before anybody
\* can read that it ended, unless the trace was already full.
EndIsTold ==
    row \in {"succeeded", "failed"} => Has(file, "terminal") \/ Has(file, "truncated")

Reachable(ord) == ord \in tl.shown \/ (tl.hasEarlier /\ ord < tl.nextBefore)

\* Below its cursor the timeline has no hole: a row is shown, or the operator
\* can still page back to it (useRunObservation.ts:199).
NoHole == \A ord \in Ords(file) : ord <= tl.cursor => Reachable(ord)

\* Once the stream has said done the browser has the whole trace.
DoneIsComplete == es.state = "closed" => \A ord \in Ords(file) : Reachable(ord)

\* While the attempt runs the stream reads its file again and again, and
\* never gives up because of what it reads (attempt-transcript.ts:5).
StreamSurvives == es.state # "failed"

\* What an interrupted attempt has written can be read after the restart, as
\* the writer expects: "The reader handles historic/corrupt rows defensively".
HistoryIsReadable == ~(get.pc = "failed" /\ get.state = "interrupted")

\* A stream that is followed ends: lost connections are taken up again where
\* they broke off, and the server notices the end of the attempt.
Following == es.state \in {"connecting", "open"}
StreamEnds == [](Following /\ phase # "start" => <>(~Following))
================================================================================
