----------------------------- MODULE OwnerRegistry -----------------------------
(***************************************************************************)
(* The WikiRuns owner of a workspace root in one server                    *)
(* (wiki-runs-registry.ts, with the requests of routes/wiki-runs.ts, and   *)
(* the edit and the deletion of routes/workspaces.ts): a request loads the *)
(* workspace, is given the owner, which the first one opens, and works on  *)
(* it under an activity lease; a deletion fences the root, waits for the   *)
(* opening and the operations it finds, and closes the owner.              *)
(*                                                                         *)
(* Between two awaits a request runs alone.  What other processes do to    *)
(* the marker and the leases is module WorkspaceLifecycle; here a          *)
(* deletion removes the metadata too.                                      *)
(***************************************************************************)
EXTENDS Naturals, Sequences, FiniteSets

CONSTANTS
    Requests,   \* a create request is also the id of its workspace
    Kind,       \* Kind[r]: "run", "patch", "delete" or "create"
    Old,        \* the id of the workspace that is there at first
    MaxOwners,  \* bound: owners that are ever opened
    MaxFails    \* bound: openings of the store that fail

RegistryAssumption ==
    /\ Kind \in [Requests -> {"run", "patch", "delete", "create"}]
    /\ Old \notin Requests /\ MaxOwners \in Nat /\ MaxFails \in Nat

VARIABLES
    config,    \* workspace.json: [id, rev], or NoConfig
    marker,    \* the lifecycle marker: "none", "deleting" or "deleted"
    cfgLock,   \* the request that holds the config lease, or None
    leases,    \* the requests that have published an activity lease
    ownLeases, \* and the owners
    storeLock, \* who holds the control store's lease, or 0
    handles,   \* every owner: [st, by, cfg], cfg is its workspace for new runs
    owner,     \* owners.get(root), 0 for none
    opening,   \* opening.get(root), 0 for none
    retired,   \* retiredWorkspaceIdsByRoot.get(root), or None
    ops,       \* inFlightOperations.get(root)
    pc, reply,
    snap,      \* the workspace a request has loaded
    own,       \* the owner a request goes on with, 0 for none
    waits,     \* the operations a deletion waits for
    started,   \* history: <<request, workspace its run was frozen with>>
    known,     \* history: known[r]: the workspace that was confirmed when r was made
    fails

disk == <<config, marker, cfgLock, leases, ownLeases, storeLock>>
registry == <<handles, owner, opening, retired, ops>>
request == <<pc, reply, snap, own, waits>>
history == <<started, known, fails>>
vars == <<disk, registry, request, history>>

None == "none"
NoConfig == [id |-> None, rev |-> 0]
Numbers == 1 .. Len(handles)
Settled(h) == h # 0 => handles[h].st \in {"open", "closing", "closed", "failed"}

TypeOK ==
    /\ marker \in {"none", "deleting", "deleted"}
    /\ config.id \in {None, Old} \cup Requests /\ retired \in {None, Old} \cup Requests
    /\ cfgLock \in {None} \cup Requests
    /\ {owner, opening} \subseteq 0 .. Len(handles) /\ Len(handles) <= MaxOwners
    /\ \A h \in Numbers : handles[h].st \in
           {"lease", "store", "load", "register", "failing", "open", "closing", "closed", "failed"}
    /\ ops \subseteq Requests /\ leases \subseteq Requests /\ ownLeases \subseteq Numbers

Init ==
    /\ config = [id |-> Old, rev |-> 0] /\ marker = "none" /\ cfgLock = None
    /\ leases = {} /\ ownLeases = {} /\ storeLock = 0
    /\ handles = <<>> /\ owner = 0 /\ opening = 0 /\ retired = None /\ ops = {}
    /\ pc = [r \in Requests |-> "new"] /\ reply = [r \in Requests |-> None]
    /\ snap = [r \in Requests |-> NoConfig] /\ own = [r \in Requests |-> 0]
    /\ waits = [r \in Requests |-> {}]
    /\ started = {} /\ known = snap /\ fails = 0

Reply(r, answer) == pc' = [pc EXCEPT ![r] = "done"] /\ reply' = [reply EXCEPT ![r] = answer]
Goto(r, p) == pc' = [pc EXCEPT ![r] = p] /\ UNCHANGED reply

-----------------------------------------------------------------------------
(* assertWorkspaceAvailable: the fence is looked at before the await of       *)
(* assertWorkspaceActive, and again after it.                                 *)

Fenced(id) == retired = id
Refused(id) == marker # "none" \/ Fenced(id)

\* A workspace with another id lifts the fence of the deleted one.
Lifted(id) == retired' = IF retired \in {None, id} THEN retired ELSE None

\* r begins the check that it goes on from at p.
Assert(r, p) ==
    IF Fenced(snap[r].id) THEN Reply(r, "gone") /\ UNCHANGED retired
                          ELSE Goto(r, p) /\ Lifted(snap[r].id)

-----------------------------------------------------------------------------
(* A request of routes/wiki-runs.ts.                                          *)

\* loadWorkspaceOr404
Load(r) ==
    /\ pc[r] = "new" /\ Kind[r] # "create"
    /\ snap' = [snap EXCEPT ![r] = config]
    /\ known' = [known EXCEPT ![r] = config]
    /\ IF config = NoConfig THEN Reply(r, "not found") /\ UNCHANGED retired
       ELSE IF Kind[r] = "run"
            THEN IF Fenced(config.id) THEN Reply(r, "gone") /\ UNCHANGED retired
                                      ELSE Goto(r, "choose") /\ Lifted(config.id)
            ELSE Goto(r, "lock") /\ UNCHANGED retired
    /\ UNCHANGED <<disk, handles, owner, opening, ops, own, waits, started, fails>>

\* setWorkspaceForNewRuns
ForNewRuns(h, cfg) == handles' = [handles EXCEPT ![h].cfg = cfg]

\* The registered owner, the one that is being opened, or a new one.
Choose(r) ==
    /\ pc[r] = "choose"
    /\ IF Refused(snap[r].id)
       THEN Reply(r, "gone") /\ UNCHANGED <<registry, own>>
       ELSE \/ /\ owner # 0 /\ ForNewRuns(owner, snap[r])
               /\ own' = [own EXCEPT ![r] = owner]
               /\ Assert(r, "enter") /\ UNCHANGED <<owner, opening, ops>>
            \/ /\ owner = 0 /\ opening # 0
               /\ own' = [own EXCEPT ![r] = opening]
               /\ Goto(r, "pending") /\ UNCHANGED registry
            \/ /\ owner = 0 /\ opening = 0 /\ Len(handles) < MaxOwners
               /\ handles' = Append(handles, [st |-> "lease", by |-> r, cfg |-> NoConfig])
               /\ opening' = Len(handles')
               /\ own' = [own EXCEPT ![r] = opening']
               /\ Goto(r, "building") /\ UNCHANGED <<owner, retired, ops>>
    /\ UNCHANGED <<disk, snap, waits, history>>

\* await pending, await owner
Awaited(r) ==
    /\ pc[r] \in {"pending", "building"} /\ Settled(own[r])
    /\ IF handles[own[r]].st = "failed"
       THEN Reply(r, "error") /\ UNCHANGED retired
       ELSE Assert(r, IF pc[r] = "pending" THEN "joined" ELSE "opened")
    /\ UNCHANGED <<disk, handles, owner, opening, ops, snap, own, waits, history>>

\* Who joined an opening records its workspace after its opener has; a closed owner refuses it.
Joined(r) ==
    /\ pc[r] \in {"joined", "opened"}
    /\ IF Refused(snap[r].id)
       THEN Reply(r, "gone") /\ UNCHANGED <<retired, handles>>
       ELSE IF pc[r] = "joined" /\ handles[own[r]].st # "open"
       THEN Reply(r, "error") /\ UNCHANGED <<retired, handles>>
       ELSE /\ Assert(r, "enter")
            /\ IF pc[r] = "joined" THEN ForNewRuns(own[r], snap[r]) ELSE UNCHANGED handles
    /\ UNCHANGED <<disk, owner, opening, ops, snap, own, waits, history>>

\* withWikiRunsOperation: the check, the activity lease, the check again, the call.
Enter(r) ==
    /\ pc[r] = "enter"
    /\ IF Refused(snap[r].id) THEN Reply(r, "gone") ELSE Goto(r, "lease")
    /\ UNCHANGED <<disk, registry, snap, own, waits, history>>

Lease(r) ==
    /\ pc[r] = "lease"
    /\ IF marker # "none"
       THEN Reply(r, "gone") /\ UNCHANGED <<leases, ops, retired>>
       ELSE /\ leases' = leases \cup {r} /\ ops' = ops \cup {r}
            /\ IF Fenced(snap[r].id)
               THEN /\ pc' = [pc EXCEPT ![r] = "release"]
                    /\ reply' = [reply EXCEPT ![r] = "gone"] /\ UNCHANGED retired
               ELSE Goto(r, "call") /\ Lifted(snap[r].id)
    /\ UNCHANGED <<config, marker, cfgLock, ownLeases, storeLock, handles, owner, opening, snap, own, waits,
                   history>>

\* dispatch: the owner is open, and its workspace is the one of the command.
Operate(r) ==
    /\ pc[r] = "call"
    /\ LET h == handles[own[r]]
           answer == CASE Refused(snap[r].id) -> "gone"
                       [] h.st # "open" -> "error"
                       [] h.cfg.id # snap[r].id -> "mismatch"
                       [] OTHER -> "ok"
       IN  /\ reply' = [reply EXCEPT ![r] = answer]
           /\ pc' = [pc EXCEPT ![r] = IF answer = "ok" THEN "operating" ELSE "release"]
           /\ started' = IF answer = "ok" THEN started \cup {<<r, h.cfg>>} ELSE started
    /\ UNCHANGED <<disk, registry, snap, own, waits, known, fails>>

Returned(r) ==
    /\ pc[r] = "operating"
    /\ Goto(r, "release") /\ UNCHANGED <<disk, registry, snap, own, waits, history>>

Release(r) ==
    /\ pc[r] = "release"
    /\ leases' = leases \ {r} /\ ops' = ops \ {r}
    /\ Reply(r, reply[r])
    /\ UNCHANGED <<config, marker, cfgLock, ownLeases, storeLock, handles, owner, opening, retired, snap,
                   own, waits, history>>

-----------------------------------------------------------------------------
(* The opening, which goes on whatever becomes of the request that began it.  *)

Stage(h, st) == handles' = [handles EXCEPT ![h].st = st]

\* opened.close(), the leases, and finally(() => opening.delete(key))
FailedOpening(h) ==
    /\ handles[h].st = "failing"
    /\ Stage(h, "failed") /\ opening' = 0
    /\ ownLeases' = ownLeases \ {h} /\ storeLock' = IF storeLock = h THEN 0 ELSE storeLock
    /\ UNCHANGED <<config, marker, cfgLock, leases, owner, retired, ops, request, history>>

OpenLeases(h) ==
    /\ \/ /\ handles[h].st = "lease" /\ marker = "none"
          /\ ownLeases' = ownLeases \cup {h} /\ Stage(h, "store") /\ UNCHANGED storeLock
       \/ /\ handles[h].st = "store" /\ marker = "none" /\ storeLock = 0
          /\ storeLock' = h /\ Stage(h, "load") /\ UNCHANGED ownLeases
       \/ /\ \/ handles[h].st = "lease" /\ marker # "none"
             \/ handles[h].st = "store" /\ (marker # "none" \/ storeLock # 0)
          /\ Stage(h, "failing") /\ UNCHANGED <<ownLeases, storeLock>>
    /\ UNCHANGED <<config, marker, cfgLock, leases, owner, opening, retired, ops, request, history>>

\* openWikiRuns, setWorkspaceForNewRuns, and the check before the owner is registered.
OpenStore(h) ==
    /\ handles[h].st = "load"
    /\ LET cfg == snap[handles[h].by]
           fenced == Fenced(cfg.id)
       IN  \/ /\ config # NoConfig
              /\ handles' = [handles EXCEPT ![h].cfg = cfg,
                                            ![h].st = IF fenced THEN "failing" ELSE "register"]
              /\ Lifted(cfg.id) /\ UNCHANGED fails
           \/ /\ fails < MaxFails /\ fails' = fails + 1
              /\ Stage(h, "failing") /\ UNCHANGED retired
    /\ UNCHANGED <<disk, owner, opening, ops, request, started, known>>

Registered(h) ==
    /\ handles[h].st = "register"
    /\ IF Refused(snap[handles[h].by].id)
       THEN Stage(h, "failing") /\ UNCHANGED <<owner, opening>>
       ELSE Stage(h, "open") /\ owner' = h /\ opening' = 0
    /\ UNCHANGED <<disk, retired, ops, request, history>>

-----------------------------------------------------------------------------
(* The workspace's own requests, routes/workspaces.ts.                        *)

\* handlePatchWorkspace: the compare-and-swap of the revision.
Patch(r) ==
    /\ pc[r] = "lock" /\ Kind[r] = "patch" /\ cfgLock = None
    /\ IF config # NoConfig /\ marker = "none" /\ config.rev = snap[r].rev
       THEN config' = [config EXCEPT !.rev = @ + 1] /\ Reply(r, "ok")
       ELSE Reply(r, "conflict") /\ UNCHANGED config
    /\ UNCHANGED <<marker, cfgLock, leases, ownLeases, storeLock, registry, snap, own, waits, history>>

\* handleCreateWorkspace, after the deletion of the one that was there.
Create(r) ==
    /\ pc[r] = "new" /\ Kind[r] = "create" /\ config = NoConfig /\ cfgLock = None
    /\ config' = [id |-> r, rev |-> 0] /\ marker' = "none"
    /\ Reply(r, "ok")
    /\ UNCHANGED <<cfgLock, leases, ownLeases, storeLock, registry, snap, own, waits, history>>

\* handleDeleteWorkspace: under the config lease, the marker comes first.
Mark(r) ==
    /\ pc[r] = "lock" /\ Kind[r] = "delete" /\ cfgLock = None
    /\ IF config # NoConfig /\ marker = "none" /\ config.rev = snap[r].rev
       THEN /\ cfgLock' = r /\ marker' = "deleting"
            /\ snap' = [snap EXCEPT ![r] = config] /\ Goto(r, "fence")
       ELSE Reply(r, "conflict") /\ UNCHANGED <<cfgLock, marker, snap>>
    /\ UNCHANGED <<config, leases, ownLeases, storeLock, registry, own, waits, history>>

\* closeWikiRunsForDeletedWorkspace
Fence(r) ==
    /\ pc[r] = "fence"
    /\ retired' = snap[r].id /\ own' = [own EXCEPT ![r] = opening]
    /\ Goto(r, "await opening")
    /\ UNCHANGED <<disk, handles, owner, opening, ops, snap, waits, history>>

AwaitOpening(r) ==
    /\ pc[r] = "await opening" /\ Settled(own[r])
    /\ waits' = [waits EXCEPT ![r] = ops]
    /\ Goto(r, "await operations")
    /\ UNCHANGED <<disk, registry, snap, own, history>>

\* Mutant: the deletion does not wait for the operations it finds.
AwaitNothing(r) ==
    /\ pc[r] = "await operations"
    /\ own' = [own EXCEPT ![r] = owner] /\ owner' = 0
    /\ IF owner = 0 THEN UNCHANGED handles ELSE Stage(owner, "closing")
    /\ Goto(r, "close")
    /\ UNCHANGED <<disk, opening, retired, ops, snap, waits, history>>

AwaitOperations(r) ==
    /\ pc[r] = "await operations" /\ waits[r] \cap ops = {}
    /\ own' = [own EXCEPT ![r] = owner] /\ owner' = 0
    /\ IF owner = 0 THEN UNCHANGED handles ELSE Stage(owner, "closing")
    /\ Goto(r, "close")
    /\ UNCHANGED <<disk, opening, retired, ops, snap, waits, history>>

\* owner.close(), and the owner's two leases.
CloseOwner(r) ==
    /\ pc[r] = "close"
    /\ IF own[r] = 0 THEN UNCHANGED <<handles, ownLeases, storeLock>>
       ELSE /\ Stage(own[r], "closed") /\ ownLeases' = ownLeases \ {own[r]}
            /\ storeLock' = IF storeLock = own[r] THEN 0 ELSE storeLock
    /\ Goto(r, "check")
    /\ UNCHANGED <<config, marker, cfgLock, leases, owner, opening, retired, ops, snap, own, waits,
                   history>>

\* assertNoWorkspaceActivityLeases and acquireWikiRunsControlStoreLease
Check(r) ==
    /\ pc[r] = "check"
    /\ Goto(r, IF leases = {} /\ ownLeases = {} /\ storeLock = 0 THEN "remove" ELSE "abort")
    /\ UNCHANGED <<disk, registry, snap, own, waits, history>>

Remove(r) ==
    /\ pc[r] = "remove"
    /\ config' = NoConfig /\ marker' = "deleted" /\ cfgLock' = None
    /\ Reply(r, "ok")
    /\ UNCHANGED <<leases, ownLeases, storeLock, registry, snap, own, waits, history>>

\* deletion.abort() and restoreWikiRunsAfterFailedWorkspaceDeletion
Abort(r) ==
    /\ pc[r] = "abort"
    /\ marker' = "none" /\ cfgLock' = None
    /\ retired' = IF Fenced(snap[r].id) THEN None ELSE retired
    /\ Reply(r, "in use")
    /\ UNCHANGED <<config, leases, ownLeases, storeLock, handles, owner, opening, ops, snap, own, waits,
                   history>>

-----------------------------------------------------------------------------
Handle(r) ==
    \/ Choose(r) \/ Awaited(r) \/ Joined(r) \/ Enter(r) \/ Lease(r) \/ Operate(r)
    \/ Returned(r) \/ Release(r) \/ Patch(r) \/ Mark(r) \/ Fence(r) \/ AwaitOpening(r)
    \/ AwaitOperations(r) \/ CloseOwner(r) \/ Check(r) \/ Remove(r) \/ Abort(r)

Open(h) == FailedOpening(h) \/ OpenLeases(h) \/ OpenStore(h) \/ Registered(h)

Next ==
    \/ \E r \in Requests : Load(r) \/ Create(r) \/ Handle(r)
    \/ \E h \in Numbers : Open(h)

\* Awaits of files and of the store come to an end.
Fairness ==
    /\ \A r \in Requests : WF_vars(Handle(r))
    /\ \A h \in 1 .. MaxOwners : WF_vars(h \in Numbers /\ Open(h))
Spec == Init /\ [][Next]_vars /\ Fairness

-----------------------------------------------------------------------------
\* "A request-level activity lease keeps DELETE from closing a WikiRuns owner
\* underneath an already-authorized call."
OperatesOnOpenOwner == \A r \in Requests : pc[r] = "operating" => handles[own[r]].st = "open"

\* At most one owner has the store open, and the registered one is open.
OneOpenOwner ==
    /\ Cardinality({h \in Numbers : handles[h].st \in {"register", "open", "closing"}}) <= 1
    /\ owner # 0 => handles[owner].st = "open"

\* "No SQLite lease or attempt survives the deletion boundary": when the metadata
\* goes nobody has the store or works on it.
RemovedHasNoOwner ==
    \A d \in Requests : pc[d] = "remove" =>
        /\ leases = {} /\ ownLeases = {} /\ owner = 0
        /\ \A h \in Numbers : handles[h].st \in {"lease", "failing", "failed", "closed"}
        /\ \A r \in Requests : pc[r] # "operating"

\* A workspace that is there and not being deleted is not fenced: neither a failed
\* deletion nor an earlier one leaves a fence behind which it can never be used.
FenceIsLifted == cfgLock = None /\ config # NoConfig => retired # config.id

\* Whatever failed or was refused, no lease is left behind.
NoLeaseIsLost ==
    (\A r \in Requests : pc[r] \in {"new", "done"}) /\ opening = 0 =>
        leases = {} /\ ownLeases = {owner} \ {0} /\ storeLock = owner

\* Every request is answered: a deletion and the requests it waits for, or refuses, do
\* not wait for each other.
RequestsEnd == \A r \in Requests : pc[r] \notin {"new", "done"} ~> pc[r] = "done"

(* Not kept.  "Records the latest Workspace config only for newly started Runs": a    *)
(* request that loaded an older revision records it over a newer one, and the run of a *)
(* request that was made after the edit is frozen with the older revision.            *)
NewRunsUseLatest ==
    \A s \in started : s[2].id = known[s[1]].id => s[2].rev >= known[s[1]].rev

(* Nor this: a late request for a deleted workspace records it with the owner of the  *)
(* one created after it, whose own command is then refused.                           *)
NoMismatch == \A r \in Requests : reply[r] # "mismatch"
=============================================================================
