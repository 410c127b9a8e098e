------------------------- MODULE WorkspaceLifecycle -------------------------
(***************************************************************************)
(* The life of the workspace at one root directory: workspace.json with    *)
(* its immutable id and its revision, the marker file outside .okf-wiki    *)
(* ("creating", "deleting", "deleted"), the recent list of the user, the   *)
(* activity leases and the control store's lease, under requests of one or *)
(* more server processes that may die.  What a request does under the      *)
(* config lease (FileLease) in one go is one step; deletion, which holds   *)
(* it through many awaits, is many.                                        *)
(***************************************************************************)
EXTENDS Naturals, FiniteSets

CONSTANTS
    Requests,   \* the requests; a create request is also the id of its workspace
    Procs,      \* the server processes; pids are not reused
    Of,         \* Of[r]: the process that serves a request
    Kind,       \* "create", "delete", "edit", "get", "session" or "owner"
    KeepFiles,  \* the delete requests without deleteFiles
    None,
    Old,        \* the id of the workspace that is there at first
    MaxRev,     \* bound: revisions
    MaxTurns,   \* bound: how often a request is made
    Polls,      \* the requests that a page makes again and again
    Mortal      \* the processes that may die

Ids == {Old} \cup {r \in Requests : Kind[r] = "create"}

LifecycleAssumption ==
    /\ None \notin Requests /\ Old \notin Requests
    /\ Of \in [Requests -> Procs]
    /\ Kind \in [Requests -> {"create", "delete", "edit", "get", "session", "owner"}]
    /\ KeepFiles \subseteq Requests
    /\ Polls \subseteq Requests /\ Mortal \subseteq Procs
    /\ MaxRev \in Nat /\ MaxTurns \in Nat

VARIABLES
    proc,       \* proc[p]: "new", "up" or "dead"
    marker,     \* the lifecycle marker: [st, id, by], or NoMarker
    config,     \* workspace.json: [id, rev], or NoConfig
    indexed,    \* the root is in the recent list
    cfgLock,    \* the request that holds the config lease, or None
    storeLock,  \* the request that holds the control store's lease, or None
    leases,     \* the requests with a published activity lease
    fenced,     \* <<p, kind, id>>: ids that process p has retired
    pc, ret,    \* where a request is, and where it goes on after a nested step
    snap,       \* the document a request was authorised with, or NoConfig
    recovered,  \* the requests whose load has rolled a deletion back
    turns,
    deletedIds  \* history: the ids whose deletion was confirmed

vars == <<proc, marker, config, indexed, cfgLock, storeLock, leases, fenced,
          pc, ret, snap, recovered, turns, deletedIds>>

files == <<marker, config, indexed>>
locks == <<cfgLock, storeLock, leases>>
local == <<ret, snap, recovered, turns>>

NoMarker == [st |-> "none", id |-> None, by |-> None]
NoConfig == [id |-> None, rev |-> 0]

Up(r) == proc[Of[r]] = "up"
Works == {"session", "owner"}

TypeOK ==
    /\ proc \in [Procs -> {"new", "up", "dead"}]
    /\ marker \in [st : {"creating", "deleting", "deleted"}, id : Ids,
                   by : Requests \cup {None}] \cup {NoMarker}
    /\ config \in [id : Ids, rev : 0..MaxRev] \cup {NoConfig}
    /\ indexed \in BOOLEAN
    /\ {cfgLock, storeLock} \subseteq Requests \cup {None}
    /\ leases \subseteq Requests
    /\ fenced \subseteq Procs \X Works \X Ids
    /\ snap \in [Requests -> [id : Ids, rev : 0..MaxRev] \cup {NoConfig}]
    /\ recovered \subseteq Requests
    /\ turns \in [Requests -> 0..MaxTurns]
    /\ deletedIds \subseteq Ids

\* A workspace that was saved and registered, or only its entry in the recent list.
Init ==
    /\ proc = [p \in Procs |-> "new"]
    /\ marker = NoMarker
    /\ config \in {NoConfig, [id |-> Old, rev |-> 0]}
    /\ indexed = TRUE
    /\ cfgLock = None /\ storeLock = None
    /\ leases = {} /\ fenced = {}
    /\ pc = [r \in Requests |-> "idle"]
    /\ ret = [r \in Requests |-> "idle"]
    /\ snap = [r \in Requests |-> NoConfig]
    /\ recovered = {}
    /\ turns = [r \in Requests |-> 0]
    /\ deletedIds = {}

Goto(r, l) == pc' = [pc EXCEPT ![r] = l]

-----------------------------------------------------------------------------
(* Processes. *)

Start(p) ==
    /\ proc[p] = "new"
    /\ proc' = [proc EXCEPT ![p] = "up"]
    /\ UNCHANGED <<files, locks, fenced, pc, local, deletedIds>>

FreeOf(l, p) == IF l # None /\ Of[l] = p THEN None ELSE l

\* Leases of the dead count for nobody: who finds one takes it over or removes it.
Crash(p) ==
    /\ p \in Mortal /\ proc[p] = "up"
    /\ proc' = [proc EXCEPT ![p] = "dead"]
    /\ pc' = [r \in Requests |-> IF Of[r] = p THEN "dead" ELSE pc[r]]
    /\ cfgLock' = FreeOf(cfgLock, p)
    /\ storeLock' = FreeOf(storeLock, p)
    /\ leases' = {r \in leases : Of[r] # p}
    /\ fenced' = {f \in fenced : f[1] # p}
    /\ recovered' = {r \in recovered : Of[r] # p}
    /\ snap' = [r \in Requests |-> IF Of[r] = p THEN NoConfig ELSE snap[r]]
    /\ UNCHANGED <<files, ret, turns, deletedIds>>

Ask(r) ==
    /\ Up(r) /\ pc[r] = "idle"
    /\ \/ r \in Polls /\ UNCHANGED turns
       \/ r \notin Polls /\ turns[r] < MaxTurns /\ turns' = [turns EXCEPT ![r] = @ + 1]
    /\ Goto(r, IF Kind[r] = "create" THEN "begin" ELSE "find")
    /\ UNCHANGED <<proc, files, locks, fenced, ret, snap, recovered, deletedIds>>

-----------------------------------------------------------------------------
(* Whether the workspace is active. *)

ByLive(m) == m.by # None /\ Up(m.by)

IsActive == marker = NoMarker
IsDeletion(m) == m.st = "deleting"
IsCreation(m) == m.st = "creating"

\* Where assertWorkspaceActive is called, and where the call goes on.
After == [load |-> "read", list |-> "register", work |-> "publish", publ |-> "enter",
          open |-> "working"]

Refuse(r) ==
    /\ Goto(r, "idle")
    /\ leases' = leases \ {r}
    /\ storeLock' = IF storeLock = r THEN None ELSE storeLock
    /\ snap' = [snap EXCEPT ![r] = NoConfig]
    /\ recovered' = recovered \ {r}
    /\ UNCHANGED <<proc, files, cfgLock, fenced, ret, turns, deletedIds>>

IsFenced(r) == Kind[r] \in Works /\ <<Of[r], Kind[r], snap[r].id>> \in fenced

\* recoverInterruptedWorkspaceDeletion: a deletion whose process died is rolled back
\* while workspace.json is there, and completed when it is not.
Recover(r) ==
    /\ pc[r] \in DOMAIN After
    /\ IsDeletion(marker) /\ ~ByLive(marker)
    /\ cfgLock = None
    /\ \/ /\ config = NoConfig
          /\ marker' = [marker EXCEPT !.st = "deleted", !.by = None]
          /\ UNCHANGED recovered
       \/ /\ config # NoConfig /\ config.id = marker.id
          /\ marker' = NoMarker
          /\ recovered' = IF pc[r] = "load" THEN recovered \cup {r} ELSE recovered
    /\ UNCHANGED <<proc, config, indexed, locks, fenced, pc, ret, snap, turns, deletedIds>>

\* assertWorkspaceActive, and the fences of the process in front of it.
Assert(r) ==
    /\ pc[r] \in DOMAIN After
    /\ \/ /\ IsActive /\ ~IsFenced(r)
          /\ Goto(r, After[pc[r]])
          /\ UNCHANGED <<proc, files, locks, fenced, local, deletedIds>>
       \/ /\ IsCreation(marker) /\ config.id = marker.id /\ ~IsFenced(r)
          /\ ret' = [ret EXCEPT ![r] = After[pc[r]]]
          /\ Goto(r, "unmark")
          /\ UNCHANGED <<proc, files, locks, fenced, snap, recovered, turns, deletedIds>>
       \/ /\ \/ IsFenced(r)
             \/ IsCreation(marker) /\ config.id # marker.id
             \/ IsDeletion(marker) /\ ByLive(marker)
             \/ IsDeletion(marker) /\ config.id \notin {None, marker.id}
             \/ marker.st = "deleted"
          /\ Refuse(r)

\* The creation has been saved, so its marker is removed: without the config lease.
Unmark(r) ==
    /\ pc[r] = "unmark"
    /\ marker' = NoMarker
    /\ Goto(r, ret[r])
    /\ UNCHANGED <<proc, config, indexed, locks, fenced, local, deletedIds>>

-----------------------------------------------------------------------------
(* loadWorkspaceById: the roots of the recent list, loaded one by one. *)

First == [get |-> "list", edit |-> "edit", delete |-> "mark", session |-> "work",
          owner |-> "work"]

Find(r) ==
    /\ pc[r] = "find"
    /\ IF indexed THEN Goto(r, "load") ELSE Goto(r, "idle")
    /\ UNCHANGED <<proc, files, locks, fenced, local, deletedIds>>

\* loadWorkspaceAtRoot; a load that has recovered the workspace registers it again.
ReadConfig(r) ==
    /\ pc[r] = "read"
    /\ snap' = [snap EXCEPT ![r] = config]
    /\ Goto(r, IF config = NoConfig THEN "idle"
               ELSE IF r \in recovered THEN "relist" ELSE First[Kind[r]])
    /\ recovered' = IF config = NoConfig THEN recovered \ {r} ELSE recovered
    /\ UNCHANGED <<proc, files, locks, fenced, ret, turns, deletedIds>>

\* registerActiveWorkspaceInAppIndex, under the config lease.
Register(r) ==
    /\ pc[r] \in {"register", "relist"}
    /\ cfgLock = None
    /\ recovered' = recovered \ {r}
    /\ \/ /\ IsActive /\ config # NoConfig
          /\ indexed' = TRUE
          /\ Goto(r, IF pc[r] = "relist" THEN First[Kind[r]] ELSE "idle")
       \/ /\ ~IsActive \/ config = NoConfig
          /\ indexed' = indexed
          /\ Goto(r, "idle")
    /\ UNCHANGED <<proc, marker, config, locks, fenced, ret, snap, turns, deletedIds>>

-----------------------------------------------------------------------------
(* POST /workspaces: reserve the root, make directories, save, register. *)

BlocksCreation(m) == m.st # "deleted" /\ ByLive(m)

\* A root with a workspace is refused, and what a dead process left there tidied up.
BeginOverExisting(r) ==
    /\ pc[r] = "begin" /\ cfgLock = None /\ config # NoConfig
    /\ \/ /\ IsDeletion(marker) /\ ~ByLive(marker) /\ marker.id = config.id
          /\ marker' = NoMarker /\ indexed' = TRUE
       \/ /\ IsCreation(marker) /\ marker.id = config.id
          /\ marker' = NoMarker /\ UNCHANGED indexed
       \/ /\ \/ marker = NoMarker
             \/ marker.st = "deleted"
             \/ marker.id # config.id
             \/ IsDeletion(marker) /\ ByLive(marker)
          /\ UNCHANGED <<marker, indexed>>
    /\ Goto(r, "idle")
    /\ UNCHANGED <<proc, config, locks, fenced, local, deletedIds>>

BeginCreation(r) ==
    /\ pc[r] = "begin" /\ cfgLock = None /\ config = NoConfig
    /\ \/ /\ BlocksCreation(marker)
          /\ Goto(r, "idle")
          /\ UNCHANGED marker
       \/ /\ ~BlocksCreation(marker)
          /\ marker' = [st |-> "creating", id |-> r, by |-> r]
          /\ Goto(r, "mkdir")
    /\ UNCHANGED <<proc, config, indexed, locks, fenced, local, deletedIds>>

\* The directories are made, or the creation is taken back.
MakeDirs(r) ==
    /\ pc[r] = "mkdir"
    /\ \/ /\ Goto(r, "save") /\ UNCHANGED marker
       \/ /\ Goto(r, "idle")
          /\ marker' = IF IsCreation(marker) /\ marker.by = r THEN NoMarker ELSE marker
    /\ UNCHANGED <<proc, config, indexed, locks, fenced, local, deletedIds>>

\* No marker, or the reservation of this very request.
Writable(r) == marker = NoMarker \/ (IsCreation(marker) /\ marker.id = r)

\* saveWorkspace of a new document: the marker must be the creation's own, or gone.
Save(r) ==
    /\ pc[r] = "save" /\ cfgLock = None
    /\ \/ /\ Writable(r)
          /\ config = NoConfig
          /\ config' = [id |-> r, rev |-> 0]
          /\ cfgLock' = r
          /\ Goto(r, "complete")
       \/ /\ \/ ~Writable(r)
             \/ config # NoConfig
          /\ Goto(r, "idle")
          /\ UNCHANGED <<config, cfgLock>>
    /\ UNCHANGED <<proc, marker, indexed, storeLock, leases, fenced, local, deletedIds>>

\* completeWorkspaceCreation; a marker of somebody else fails the request.
Complete(r) ==
    /\ pc[r] = "complete"
    /\ cfgLock' = None
    /\ \/ /\ Writable(r)
          /\ marker' = NoMarker
          /\ Goto(r, "register")
       \/ /\ ~Writable(r)
          /\ Goto(r, "idle")
          /\ UNCHANGED marker
    /\ UNCHANGED <<proc, config, indexed, storeLock, leases, fenced, local, deletedIds>>

-----------------------------------------------------------------------------
(* PATCH and the edits of sources: withWorkspaceRevision, then the index. *)

Fresh(r) == config # NoConfig /\ config.rev = snap[r].rev

Edit(r) ==
    /\ pc[r] = "edit" /\ cfgLock = None
    /\ config.rev < MaxRev
    /\ \/ /\ IsActive /\ Fresh(r)
          /\ config' = [config EXCEPT !.rev = @ + 1]
          /\ Goto(r, "register")
       \/ /\ ~IsActive \/ ~Fresh(r)
          /\ Goto(r, "idle")
          /\ UNCHANGED config
    /\ UNCHANGED <<proc, marker, indexed, locks, fenced, local, deletedIds>>

-----------------------------------------------------------------------------
(* A session or a WikiRuns owner: an activity lease between two looks at the marker. *)

\* Mutant: the marker is not read again after the lease has been published.
EnterAtOnce(r) ==
    /\ pc[r] = "publish"
    /\ leases' = leases \cup {r}
    /\ Goto(r, "working")
    /\ UNCHANGED <<proc, files, cfgLock, storeLock, fenced, local, deletedIds>>

Publish(r) ==
    /\ pc[r] = "publish"
    /\ leases' = leases \cup {r}
    /\ Goto(r, "publ")
    /\ UNCHANGED <<proc, files, cfgLock, storeLock, fenced, local, deletedIds>>

Enter(r) ==
    /\ pc[r] = "enter"
    /\ \/ /\ Kind[r] = "session"
          /\ Goto(r, "open")
          /\ UNCHANGED <<proc, files, locks, fenced, local, deletedIds>>
       \/ /\ Kind[r] = "owner" /\ storeLock = None /\ config # NoConfig
          /\ storeLock' = r
          /\ Goto(r, "open")
          /\ UNCHANGED <<proc, files, cfgLock, leases, fenced, local, deletedIds>>
       \/ /\ Kind[r] = "owner" /\ (storeLock # None \/ config = NoConfig)
          /\ Refuse(r)

\* The operator or the shutdown closes the session or the owner.
Leave(r) == pc[r] = "working" /\ Refuse(r)

-----------------------------------------------------------------------------
(* DELETE: marker, fences, own sessions and owner, leases, index, files, tombstone. *)

\* withWorkspaceRevision compares the revision, beginWorkspaceDeletion marks the root.
Mark(r) ==
    /\ pc[r] = "mark" /\ cfgLock = None
    /\ \/ /\ IsActive /\ Fresh(r)
          /\ marker' = [st |-> "deleting", id |-> config.id, by |-> r]
          /\ snap' = [snap EXCEPT ![r] = config]
          /\ cfgLock' = r
          /\ Goto(r, "retire")
       \/ /\ ~IsActive \/ ~Fresh(r)
          /\ Goto(r, "idle")
          /\ UNCHANGED <<marker, snap, cfgLock>>
    /\ UNCHANGED <<proc, config, indexed, storeLock, leases, fenced, ret, recovered, turns, deletedIds>>

Own(r, k) == {q \in Requests : Kind[q] = k /\ Of[q] = Of[r]}
Open(r, k) == {q \in Own(r, k) : pc[q] = "working"}
Opening(r) == {q \in Own(r, "owner") : pc[q] \in {"publ", "enter", "open", "unmark"}}

\* The process retires the id and closes what it has open for the workspace.
Close(r, k, next) ==
    /\ fenced' = fenced \cup {<<Of[r], k, snap[r].id>>}
    /\ pc' = [q \in Requests |-> IF q = r THEN next ELSE IF q \in Open(r, k) THEN "idle" ELSE pc[q]]
    /\ leases' = leases \ Open(r, k)
    /\ storeLock' = IF storeLock \in Open(r, k) THEN None ELSE storeLock
    /\ UNCHANGED <<proc, files, cfgLock, local, deletedIds>>

Retire(r) == pc[r] = "retire" /\ Close(r, "session", "fence")

FenceRuns(r) ==
    /\ pc[r] = "fence"
    /\ fenced' = fenced \cup {<<Of[r], "owner", snap[r].id>>}
    /\ Goto(r, "closeruns")
    /\ UNCHANGED <<proc, files, locks, local, deletedIds>>

\* An owner that is being opened is waited for.
CloseRuns(r) == pc[r] = "closeruns" /\ Opening(r) = {} /\ Close(r, "owner", "look")

\* Nothing has been removed yet: the marker goes, the process serves the id again.
Abort(r) ==
    /\ marker' = IF IsDeletion(marker) /\ marker.by = r THEN NoMarker ELSE marker
    /\ fenced' = fenced \ {<<Of[r], k, snap[r].id>> : k \in Works}
    /\ cfgLock' = None
    /\ storeLock' = IF storeLock = r THEN None ELSE storeLock
    /\ Goto(r, "idle")
    /\ UNCHANGED <<proc, config, indexed, leases, local, deletedIds>>

\* assertNoWorkspaceActivityLeases, before and after the control store's lease.
NoLease == leases = {}

Look(r) ==
    /\ pc[r] = "look"
    /\ \/ /\ NoLease /\ storeLock = None
          /\ storeLock' = r
          /\ Goto(r, "lookagain")
          /\ UNCHANGED <<proc, files, cfgLock, leases, fenced, local, deletedIds>>
       \/ (~NoLease \/ storeLock # None) /\ Abort(r)

LookAgain(r) ==
    /\ pc[r] = "lookagain"
    /\ \/ /\ NoLease
          /\ Goto(r, "unlist")
          /\ UNCHANGED <<proc, files, locks, fenced, local, deletedIds>>
       \/ ~NoLease /\ Abort(r)

Unlist(r) ==
    /\ pc[r] = "unlist"
    /\ \/ /\ indexed' = FALSE
          /\ Goto(r, "remove")
          /\ UNCHANGED <<proc, marker, config, locks, fenced, local, deletedIds>>
       \/ Abort(r)

\* deleteWorkspaceMeta; it may fail with or without having removed workspace.json,
\* and then the marker and the fences stay.
RemoveFiles(r) ==
    /\ pc[r] = "remove"
    /\ \/ r \in KeepFiles /\ Goto(r, "tombstone") /\ UNCHANGED <<config, locks>>
       \/ r \notin KeepFiles /\ config' = NoConfig /\ Goto(r, "tombstone") /\ UNCHANGED locks
       \/ /\ r \notin KeepFiles
          /\ config' \in {config, NoConfig}
          /\ Goto(r, "idle")
          /\ cfgLock' = None /\ storeLock' = None /\ UNCHANGED leases
    /\ UNCHANGED <<proc, marker, indexed, fenced, local, deletedIds>>

\* Mutant: the marker is dropped instead of turned into a tombstone.
Forget(r) ==
    /\ pc[r] = "tombstone"
    /\ cfgLock' = None /\ storeLock' = None
    /\ Goto(r, "idle")
    /\ marker' = NoMarker
    /\ deletedIds' = deletedIds \cup {marker.id}
    /\ UNCHANGED <<proc, config, indexed, leases, fenced, local>>

\* deletion.complete: the tombstone, unless the marker is not this deletion's any more.
Tombstone(r) ==
    /\ pc[r] = "tombstone"
    /\ cfgLock' = None /\ storeLock' = None
    /\ Goto(r, "idle")
    /\ \/ /\ IsDeletion(marker) /\ marker.by = r
          /\ marker' = [st |-> "deleted", id |-> marker.id, by |-> None]
          /\ deletedIds' = deletedIds \cup {marker.id}
       \/ ~(IsDeletion(marker) /\ marker.by = r) /\ UNCHANGED <<marker, deletedIds>>
    /\ UNCHANGED <<proc, config, indexed, leases, fenced, local>>

-----------------------------------------------------------------------------
Step(r) ==
    \/ Recover(r) \/ Assert(r) \/ Unmark(r) \/ Find(r) \/ ReadConfig(r) \/ Register(r)
    \/ BeginOverExisting(r) \/ BeginCreation(r) \/ MakeDirs(r) \/ Save(r) \/ Complete(r)
    \/ Edit(r) \/ Publish(r) \/ Enter(r)
    \/ Mark(r) \/ Retire(r) \/ FenceRuns(r) \/ CloseRuns(r) \/ Look(r) \/ LookAgain(r) \/ Unlist(r)
    \/ RemoveFiles(r) \/ Tombstone(r)

Next ==
    \/ \E p \in Procs : Start(p) \/ Crash(p)
    \/ \E r \in Requests : Ask(r) \/ Step(r) \/ Leave(r)

Spec == Init /\ [][Next]_vars

\* A process runs what it has been asked.
Fairness == \A r \in Requests : WF_vars(Step(r))
FairSpec == Spec /\ Fairness

\* A server is running, and a page goes on listing its workspaces.
Served ==
    /\ \A p \in Procs \ Mortal : WF_vars(Start(p))
    /\ \A r \in Polls : WF_vars(Ask(r))
ServedSpec == FairSpec /\ Served

-----------------------------------------------------------------------------
\* "Refuse metadata deletion while another live process has a Session or owner":
\* from the removal on nobody, old request or new, works in the directory.
Removing(r) == Kind[r] = "delete" /\ pc[r] \in {"remove", "tombstone"}

RemovalIsAlone ==
    \A d, r \in Requests : Removing(d) /\ Kind[r] \in Works => pc[r] # "working"

\* What was confirmed as deleted stays deleted: its document is gone or behind a tombstone.
DeletedStaysDeleted ==
    config # NoConfig /\ config.id \in deletedIds =>
        marker = [st |-> "deleted", id |-> config.id, by |-> None]

\* A request that began before DELETE does not put the entry back: behind a tombstone
\* the root is not in the recent list.
TombstonedIsUnlisted ==
    marker.st = "deleted" /\ config # NoConfig => ~indexed

\* A request changes or deletes only the workspace it was authorised for.
HitsItsWorkspace ==
    [][\A r \in Requests :
         /\ pc[r] = "edit" /\ config' # config => config.id = snap[r].id
         /\ pc[r] = "mark" /\ pc'[r] = "retire" => snap'[r].id = snap[r].id]_vars

\* "A process can die after beginning deletion. If metadata still exists, the only
\* non-destructive recovery is to restore that Workspace to active state": while a server
\* goes on listing the workspaces, an interrupted deletion is settled.
InterruptedIsSettled ==
    (IsDeletion(marker) /\ ~ByLive(marker)) ~> ~(IsDeletion(marker) /\ ~ByLive(marker))

\* While the root is still listed, that always happens.
ListedIsSettled ==
    (IsDeletion(marker) /\ ~ByLive(marker) /\ indexed) ~> ~(IsDeletion(marker) /\ ~ByLive(marker))

\* Every request is answered; none waits for ever for another.
RequestsEnd == \A r \in Requests : pc[r] = "find" ~> pc[r] \in {"idle", "working", "dead"}
=============================================================================
