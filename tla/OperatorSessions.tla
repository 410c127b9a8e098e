-------------------------- MODULE OperatorSessions --------------------------
(***************************************************************************)
(* The live Operator Sessions of one workspace in one server: handles that *)
(* are opened once for all who ask (openLive), created, deleted with their *)
(* file, invalidated when the workspace is edited and retired when it is   *)
(* deleted, under requests that go on after their awaits with what they    *)
(* read before.  The turn inside a session is SessionTurns; the files of   *)
(* the deletion and the activity leases are WorkspaceLifecycle.            *)
(***************************************************************************)
EXTENDS Naturals, Sequences, FiniteSets

CONSTANTS
    Requests,
    Sessions,
    Kind,       \* "prompt", "watch", "create", "delete", "patch" or "remove"
    Target,     \* Target[r]: the session a request is about
    MaxHandles  \* bound: handles that are ever built

SessionsAssumption ==
    /\ Kind \in [Requests -> {"prompt", "watch", "create", "delete", "patch", "remove"}]
    /\ Target \in [Requests -> Sessions]
    /\ MaxHandles \in Nat

VARIABLES
    rev,        \* the revision of workspace.json
    marked,     \* the workspace has a lifecycle marker: it is being deleted, or is
    retired,    \* its id is in retiredWorkspaceIds
    stored,     \* the sessions whose JSONL file is there
    handles,    \* every handle: [of, rev, st, busy, fresh, subs]
    live,       \* liveSessions: session -> handle, 0 for none
    opening,    \* openingLiveSessions: session -> handle, 0 for none
    pc, reply,
    snap,       \* the revision a request was loaded with
    ref,        \* the handle a request goes on with, 0 for none
    waits,      \* the handles a request waits for
    shut,       \* the watchers whose response was ended
    \* History.
    confirmed,  \* the last revision whose PATCH was answered
    since,      \* since[r]: what was confirmed when r was made
    caught,     \* caught[r]: the handles that a PATCH or DELETE found
    deleted     \* the sessions whose deletion was answered

workspace == <<rev, marked, retired>>
registry == <<handles, live, opening>>
request == <<pc, reply, snap, ref, waits, shut>>
history == <<confirmed, since, caught, deleted>>
vars == <<workspace, stored, registry, request, history>>

Ids == 1..Len(handles)
HandleStates == {"load", "build", "attach", "live", "closing", "over", "failed"}
Ends == {"done", "watching"}

TypeOK ==
    /\ rev \in Nat /\ marked \in BOOLEAN /\ retired \in BOOLEAN
    /\ stored \subseteq Sessions
    /\ Len(handles) <= MaxHandles
    /\ \A h \in Ids : handles[h] \in [of : Sessions, rev : 0..rev, st : HandleStates,
                                      busy : BOOLEAN, fresh : BOOLEAN, subs : SUBSET Requests]
    /\ {live, opening} \subseteq [Sessions -> 0..Len(handles)]
    /\ reply \in [Requests -> {"none", "ok", "busy", "missing", "deleted", "in use"}]
    /\ snap \in [Requests -> 0..rev] /\ ref \in [Requests -> 0..Len(handles)]
    /\ waits \in [Requests -> SUBSET Ids] /\ shut \subseteq Requests
    /\ confirmed \in 0..rev /\ since \in [Requests -> 0..rev]
    /\ caught \in [Requests -> SUBSET Ids] /\ deleted \subseteq Sessions

Init ==
    /\ rev = 0 /\ marked = FALSE /\ retired = FALSE
    /\ stored \in SUBSET Sessions
    /\ handles = <<>>
    /\ live = [s \in Sessions |-> 0] /\ opening = [s \in Sessions |-> 0]
    /\ pc = [r \in Requests |-> "idle"] /\ reply = [r \in Requests |-> "none"]
    /\ snap = [r \in Requests |-> 0] /\ ref = [r \in Requests |-> 0]
    /\ waits = [r \in Requests |-> {}] /\ shut = {}
    /\ confirmed = 0 /\ since = [r \in Requests |-> 0]
    /\ caught = [r \in Requests |-> {}] /\ deleted = {}

Goto(r, l) == pc' = [pc EXCEPT ![r] = l]
Answer(r, a) == Goto(r, "done") /\ reply' = [reply EXCEPT ![r] = a]
Available == ~retired /\ ~marked
Opens == {"prompt", "watch"}
Unsubscribe(r) == handles' = [h \in Ids |-> [handles[h] EXCEPT !.subs = @ \ {r}]]

\* loadWorkspaceOr404: what the request will know of the workspace.
Ask(r) ==
    /\ pc[r] = "idle"
    /\ Goto(r, "start")
    /\ snap' = [snap EXCEPT ![r] = rev]
    /\ since' = [since EXCEPT ![r] = confirmed]
    /\ UNCHANGED <<workspace, stored, registry, reply, ref, waits, shut,
                   confirmed, caught, deleted>>

\* A request that meets the fence is told that the workspace was deleted.
Refuse(r) ==
    /\ pc[r] \in {"start", "rm"} /\ Kind[r] # "remove"
    /\ ~Available
    /\ Answer(r, "deleted")
    /\ Unsubscribe(r)
    /\ UNCHANGED <<workspace, stored, live, opening, snap, ref, waits, shut, history>>

-----------------------------------------------------------------------------
(* Opening and creating. *)

NewHandle(r, s, st) ==
    [of |-> s, rev |-> snap[r], st |-> st, busy |-> FALSE, fresh |-> st = "build", subs |-> {}]

\* openLive: the live handle, the one being opened, or a new one.
Open(r) ==
    LET s == Target[r]
        n == Len(handles) + 1
    IN /\ pc[r] = "start" /\ Kind[r] \in Opens
       /\ Available
       /\ \/ /\ live[s] # 0
             /\ ref' = [ref EXCEPT ![r] = live[s]]
             /\ Goto(r, "check")
             /\ UNCHANGED registry
          \/ /\ live[s] = 0 /\ opening[s] # 0
             /\ ref' = [ref EXCEPT ![r] = opening[s]]
             /\ Goto(r, "wait")
             /\ UNCHANGED registry
          \/ /\ live[s] = 0 /\ opening[s] = 0 /\ n <= MaxHandles
             /\ handles' = Append(handles, NewHandle(r, s, "load"))
             /\ opening' = [opening EXCEPT ![s] = n]
             /\ ref' = [ref EXCEPT ![r] = n]
             /\ Goto(r, "wait")
             /\ UNCHANGED live
       /\ UNCHANGED <<workspace, stored, reply, snap, waits, shut, history>>

\* createLiveSession: not among the openings.
Create(r) ==
    LET n == Len(handles) + 1
    IN /\ pc[r] = "start" /\ Kind[r] = "create"
       /\ Available /\ n <= MaxHandles
       /\ handles' = Append(handles, NewHandle(r, Target[r], "build"))
       /\ ref' = [ref EXCEPT ![r] = n]
       /\ Goto(r, "wait")
       /\ UNCHANGED <<workspace, stored, live, opening, reply, snap, waits, shut, history>>

Step(h, st) == handles' = [handles EXCEPT ![h].st = st]
NoLonger(h) == opening' = [s \in Sessions |-> IF opening[s] = h THEN 0 ELSE opening[s]]

\* The handle is disposed of and its activity lease released.
Fail(h) ==
    /\ Step(h, "failed")
    /\ NoLonger(h)
    /\ UNCHANGED live

\* The history is read, then the activity lease taken.
LoadHistory(h) ==
    /\ handles[h].st = "load"
    /\ IF Available /\ handles[h].of \in stored
       THEN Step(h, "build") /\ UNCHANGED <<live, opening>>
       ELSE Fail(h)
    /\ UNCHANGED <<workspace, stored, request, history>>

\* openOperatorSession and createOperatorSession look for the file once more.
Build(h) ==
    /\ handles[h].st = "build"
    /\ IF Available /\ (handles[h].of \in stored <=> ~handles[h].fresh)
       THEN Step(h, "attach") /\ UNCHANGED <<live, opening>>
       ELSE Fail(h)
    /\ UNCHANGED <<workspace, stored, request, history>>

Attach(h) ==
    LET s == handles[h].of
    IN /\ handles[h].st = "attach"
       /\ IF Available /\ live[s] = 0
          THEN /\ Step(h, "live")
               /\ live' = [live EXCEPT ![s] = h]
               /\ NoLonger(h)
               /\ deleted' = IF handles[h].fresh THEN deleted \ {s} ELSE deleted
          ELSE Fail(h) /\ UNCHANGED deleted
       /\ UNCHANGED <<workspace, stored, request, confirmed, since, caught>>

Settled(h) == handles[h].st \notin {"load", "build", "attach"}

Wait(r) ==
    /\ pc[r] = "wait" /\ Settled(ref[r])
    /\ \/ /\ handles[ref[r]].st = "failed"
          /\ Answer(r, IF Available THEN "missing" ELSE "deleted")
          /\ Unsubscribe(r)
       \/ /\ handles[ref[r]].st # "failed"
          /\ IF Kind[r] = "create" THEN Answer(r, "ok") ELSE Goto(r, "check") /\ UNCHANGED reply
          /\ UNCHANGED handles
    /\ UNCHANGED <<workspace, stored, live, opening, snap, ref, waits, shut, history>>

-----------------------------------------------------------------------------
(* Using a live session: a turn, or the event stream. *)

Usable(h) == handles[h].st = "live"

\* assertLiveAvailable: a closed handle counts as a deleted workspace.
CheckFails(r) ==
    /\ pc[r] = "check"
    /\ ~Available \/ ~Usable(ref[r])
    /\ Answer(r, "deleted")
    /\ Unsubscribe(r)
    /\ UNCHANGED <<workspace, stored, live, opening, snap, ref, waits, shut, history>>

Prompt(r) ==
    /\ pc[r] = "check" /\ Kind[r] = "prompt"
    /\ Available /\ Usable(ref[r])
    /\ Answer(r, IF handles[ref[r]].busy THEN "busy" ELSE "ok")
    /\ handles' = [handles EXCEPT ![ref[r]].busy = TRUE]
    /\ UNCHANGED <<workspace, stored, live, opening, snap, ref, waits, shut, history>>

Subscribed(r) == r \in shut \/ \E h \in Ids : r \in handles[h].subs

\* The subscription comes first; then the session is opened again for the snapshot.
Subscribe(r) ==
    /\ pc[r] = "check" /\ Kind[r] = "watch" /\ ~Subscribed(r)
    /\ Available /\ Usable(ref[r])
    /\ handles' = [handles EXCEPT ![ref[r]].subs = @ \cup {r}]
    /\ Goto(r, "start")
    /\ UNCHANGED <<workspace, stored, live, opening, reply, snap, ref, waits, shut, history>>

Snapshot(r) ==
    /\ pc[r] = "check" /\ Kind[r] = "watch" /\ Subscribed(r)
    /\ Available /\ Usable(ref[r])
    /\ Goto(r, "watching")
    /\ reply' = [reply EXCEPT ![r] = "ok"]
    /\ UNCHANGED <<workspace, stored, registry, snap, ref, waits, shut, history>>

\* EventSource connects again when a stream that was open has ended.
Reconnect(r) ==
    /\ pc[r] = "watching" /\ r \in shut
    /\ Goto(r, "idle")
    /\ shut' = shut \ {r}
    /\ UNCHANGED <<workspace, stored, registry, reply, snap, ref, waits, history>>

\* Pi writes the file of a new session with the first reply.
EndTurn(h) ==
    /\ Usable(h) /\ handles[h].busy
    /\ handles' = [handles EXCEPT ![h].busy = FALSE, ![h].fresh = FALSE]
    /\ stored' = IF handles[h].fresh THEN stored \cup {handles[h].of} ELSE stored
    /\ UNCHANGED <<workspace, live, opening, request, history>>

-----------------------------------------------------------------------------
(* Releasing. *)

Attached(h) == handles[h].st \in {"live", "closing"}

\* Mutant: the handle leaves the map before the abort has ended.
ReleaseEarly(H) ==
    LET now == {h \in H : ~handles[h].busy}
    IN /\ handles' = [h \in Ids |->
             IF h \notin H THEN handles[h]
             ELSE [handles[h] EXCEPT !.st = IF h \in now THEN "over" ELSE "closing",
                                     !.subs = IF h \in now THEN {} ELSE @]]
       /\ live' = [s \in Sessions |-> IF live[s] \in H THEN 0 ELSE live[s]]
       /\ shut' = shut \cup UNION {handles[h].subs : h \in now}

\* releaseLive of all in H: at once, or from the end of the abort of the turn on.
Release(H) ==
    LET now == {h \in H : ~handles[h].busy}
    IN /\ handles' = [h \in Ids |->
             IF h \notin H THEN handles[h]
             ELSE [handles[h] EXCEPT !.st = IF h \in now THEN "over" ELSE "closing",
                                     !.subs = IF h \in now THEN {} ELSE @]]
       /\ live' = [s \in Sessions |-> IF live[s] \in now THEN 0 ELSE live[s]]
       /\ shut' = shut \cup UNION {handles[h].subs : h \in now}

\* The abort has ended; what Pi had of the turn may be in the file.
ReleaseEnd(h) ==
    /\ handles[h].st = "closing"
    /\ handles' = [handles EXCEPT ![h].st = "over", ![h].busy = FALSE, ![h].subs = {}]
    /\ live' = [s \in Sessions |-> IF live[s] = h THEN 0 ELSE live[s]]
    /\ shut' = shut \cup handles[h].subs
    /\ \/ UNCHANGED stored
       \/ handles[h].fresh /\ stored' = stored \cup {handles[h].of}
    /\ UNCHANGED <<workspace, opening, pc, reply, snap, ref, waits, history>>

\* deleteLiveSession: a live handle is released, one that another request is releasing is not
\* waited for.
Look(r) ==
    LET h == live[Target[r]]
        H == IF h # 0 /\ Usable(h) THEN {h} ELSE {}
    IN /\ pc[r] = "start" /\ Kind[r] = "delete"
       /\ Available
       /\ Release(H)
       /\ waits' = [waits EXCEPT ![r] = H]
       /\ ref' = [ref EXCEPT ![r] = h]
       /\ Goto(r, "rm")
       /\ UNCHANGED <<workspace, stored, opening, reply, snap, history>>

AllOver(H) == \A h \in H : handles[h].st = "over"

Remove(r) ==
    LET s == Target[r]
        found == s \in stored \/ ref[r] # 0
    IN /\ pc[r] = "rm" /\ Kind[r] = "delete"
       /\ Available /\ AllOver(waits[r])
       /\ stored' = stored \ {s}
       /\ Answer(r, IF found THEN "ok" ELSE "missing")
       /\ deleted' = IF found THEN deleted \cup {s} ELSE deleted
       /\ UNCHANGED <<workspace, registry, snap, ref, waits, shut, confirmed, since, caught>>

-----------------------------------------------------------------------------
(* Editing and deleting the workspace. *)

Mutate(r) ==
    /\ pc[r] = "start" /\ Kind[r] = "patch"
    /\ Available
    /\ rev' = rev + 1
    /\ snap' = [snap EXCEPT ![r] = rev + 1]
    /\ Goto(r, "drain")
    /\ UNCHANGED <<marked, retired, stored, registry, reply, ref, waits, shut, history>>

\* beginWorkspaceDeletion, under the config lease.
Mark(r) ==
    /\ pc[r] = "start" /\ Kind[r] = "remove"
    /\ IF marked
       THEN Answer(r, "deleted") /\ UNCHANGED marked
       ELSE marked' = TRUE /\ Goto(r, "fence") /\ UNCHANGED reply
    /\ UNCHANGED <<rev, retired, stored, registry, snap, ref, waits, shut, history>>

Retire(r) ==
    /\ pc[r] = "fence"
    /\ retired' = TRUE
    /\ Goto(r, "drain")
    /\ UNCHANGED <<rev, marked, stored, registry, reply, snap, ref, waits, shut, history>>

Openings == {opening[s] : s \in Sessions} \ {0}
Lives == {live[s] : s \in Sessions} \ {0}

\* invalidateOperatorSessions waits for the openings of now.
Drain(r) ==
    /\ pc[r] = "drain"
    /\ waits' = [waits EXCEPT ![r] = Openings]
    /\ caught' = [caught EXCEPT ![r] = Openings \cup Lives]
    /\ Goto(r, "invalidate")
    /\ UNCHANGED <<workspace, stored, registry, reply, snap, ref, shut, confirmed, since, deleted>>

\* Mutant: the openings are waited for until they are closed.
InvalidateAfterClose(r) ==
    LET H == {h \in Lives : Usable(h)}
    IN /\ pc[r] = "invalidate"
       /\ AllOver(waits[r])
       /\ Release(H)
       /\ waits' = [waits EXCEPT ![r] = H]
       /\ Goto(r, "released")
       /\ UNCHANGED <<workspace, stored, opening, reply, snap, ref, history>>

Invalidate(r) ==
    LET H == {h \in Lives : Usable(h)}
    IN /\ pc[r] = "invalidate"
       /\ \A h \in waits[r] : Settled(h)
       /\ Release(H)
       /\ waits' = [waits EXCEPT ![r] = H]
       /\ Goto(r, "released")
       /\ UNCHANGED <<workspace, stored, opening, reply, snap, ref, history>>

Confirm(r) ==
    /\ pc[r] = "released" /\ Kind[r] = "patch" /\ AllOver(waits[r])
    /\ Answer(r, "ok")
    /\ confirmed' = IF snap[r] > confirmed THEN snap[r] ELSE confirmed
    /\ UNCHANGED <<workspace, stored, registry, snap, ref, waits, shut, since, caught, deleted>>

HasLease(h) == handles[h].st \in {"build", "attach", "live", "closing"}
NoLeases == ~(\E h \in Ids : HasLease(h)) /\ ~(\E q \in Requests : pc[q] = "rm")

\* A lease of somebody: the deletion is given up and the fence taken down.
Decide(r) ==
    /\ pc[r] = "released" /\ Kind[r] = "remove" /\ AllOver(waits[r])
    /\ \/ NoLeases /\ Answer(r, "ok") /\ UNCHANGED <<marked, retired>>
       \/ ~NoLeases /\ Answer(r, "in use") /\ marked' = FALSE /\ retired' = FALSE
    /\ UNCHANGED <<rev, stored, registry, snap, ref, waits, shut, history>>

-----------------------------------------------------------------------------
Progress(r) ==
    \/ Refuse(r) \/ Open(r) \/ Create(r) \/ Wait(r)
    \/ CheckFails(r) \/ Prompt(r) \/ Subscribe(r) \/ Snapshot(r)
    \/ Look(r) \/ Remove(r)
    \/ Mutate(r) \/ Mark(r) \/ Retire(r) \/ Drain(r) \/ Invalidate(r) \/ Confirm(r) \/ Decide(r)

Work(h) == LoadHistory(h) \/ Build(h) \/ Attach(h) \/ ReleaseEnd(h)

Next ==
    \/ \E r \in Requests : Ask(r) \/ Progress(r) \/ Reconnect(r)
    \/ \E h \in Ids : Work(h) \/ EndTurn(h)

Spec == Init /\ [][Next]_vars

\* Awaits of files and of Pi's abort come to an end; turns, clicks and reconnects need not.
FairSpec ==
    /\ Spec
    /\ \A r \in Requests : WF_vars(Progress(r))
    /\ \A h \in 1..MaxHandles : WF_vars(h \in Ids /\ Work(h))

-----------------------------------------------------------------------------
(* Properties. *)

\* A session's file is written by one live handle at a time, and that handle is the registered
\* one: attachLive's check, the shared opening and releaseLive's removal from the map together.
OneHandle ==
    \A h \in Ids : Attached(h) => live[handles[h].of] = h

\* Once a deletion of the workspace was answered, no session of it is live or being built and
\* nobody is subscribed (routes/workspaces.ts: "no old request may attach a Session ... after
\* this point"), whichever requests were on their way.
RemovedIsEmpty ==
    \A r \in Requests : (Kind[r] = "remove" /\ reply[r] = "ok")
        => \A h \in Ids : ~HasLease(h) /\ handles[h].subs = {}

\* What a PATCH or DELETE found live or being opened, it has closed when it answers: an opening
\* that it found does not slip through between the wait and the release.
CaughtIsClosed ==
    \A r \in Requests : pc[r] = "done" => \A h \in caught[r] : ~Usable(h) /\ Settled(h)

\* No request waits for ever: not for an opening, an abort, or another request's release.
RequestsEnd == \A r \in Requests : pc[r] = "start" ~> pc[r] \in Ends

\* A request made after a PATCH was answered works with a handle of that revision or a later
\* one (registry.ts: "a following request reopens it with a fresh Workspace configuration
\* snapshot").
FollowingIsFresh ==
    \A r \in Requests : (Kind[r] \in Opens /\ reply[r] = "ok" /\ pc[r] \in Ends)
        => handles[ref[r]].rev >= since[r]

\* Whose deletion was answered has no live session (ADR 0032: "Deleting a Session deletes
\* conversation data").
DeletedStaysDeleted == \A s \in deleted : live[s] = 0 /\ s \notin stored

\* Only a workspace that is being deleted, or was, is reported as deleted (the error's comment:
\* "raced with workspace deletion").
GoneMeansDeleted ==
    (\E r \in Requests : reply[r] = "deleted") => \E r \in Requests : Kind[r] = "remove"

\* A stream that was not refused starts with a snapshot (ADR 0039: "Browser Session SSE begins
\* with a snapshot"): its response is not ended before it.
SnapshotFirst == \A r \in shut : pc[r] \notin {"start", "wait", "check"}
=============================================================================
