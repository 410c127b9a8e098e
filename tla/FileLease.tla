------------------------------ MODULE FileLease ------------------------------
(***************************************************************************)
(* acquireAtomicFileLease and releaseAtomicFileLease: a lock file with the *)
(* pid and a token of its holder, made with link(2), and taken over with   *)
(* rename(2) when its holder is not alive.  Every file-system call is a    *)
(* step.  Four kinds of calls use a lease.  The config lease is taken by   *)
(* an edit of workspace.json, a compare-and-swap of its revision, and by a *)
(* visit: the start of a creation, or a load that recovers an interrupted  *)
(* deletion, which leave workspace.json as it is.  The control store's     *)
(* lease is taken by a WikiRuns owner and by the reset command.  Only the  *)
(* edits of a process wait for each other first (withPerKeyMutex); a       *)
(* visit, an owner and a reset go for the lock file at once.  A process    *)
(* that dies leaves its lock file and loses its SQLite connections.        *)
(***************************************************************************)
EXTENDS Naturals, FiniteSets

CONSTANTS
    Calls,      \* the calls that compete for one lock file
    Procs,      \* the processes; a restart is another process, pids are not reused
    None,       \* no lock file, no holder
    Of,         \* Of[c]: the process of a call
    Kind,       \* Kind[c]: "edit", "visit", "owner" or "reset"
    Queued,     \* the calls that wait in withPerKeyMutex first
    Alone,      \* TRUE: a process starts only when all the others are dead
    MaxTurns    \* bound: how often a call is made

FileLeaseAssumption ==
    /\ None \notin Calls
    /\ Of \in [Calls -> Procs]
    /\ Kind \in [Calls -> {"edit", "visit", "owner", "reset"}]
    /\ Queued \subseteq {c \in Calls : Kind[c] = "edit"}
    /\ Alone \in BOOLEAN
    /\ MaxTurns \in Nat

VARIABLES
    proc,       \* proc[p]: "new", "up" or "dead"
    lock,       \* the call whose token is in the lock file, or None
    pc,         \* where a call is
    holder,     \* what a call has read in the lock file: a call, or None
    turns,      \* how often a call has been made
    rev,        \* the revision in workspace.json
    expected,   \* the revision an edit was asked to replace
    saved,      \* how many edits were told that they succeeded
    store,      \* the inode at workflow.sqlite, 0 when there is none
    inodes,     \* the inodes given out so far
    conn,       \* conn[c]: the inode an owner's connection locks, 0 when it has none
    robbed      \* history: a lock file was taken from a process that is alive

vars == <<proc, lock, pc, holder, turns, rev, expected, saved, store, inodes, conn, robbed>>

Alive(c) == proc[Of[c]] = "up"

Acquiring == {"create", "read", "steal"}
Holding == {"held", "loaded", "owning"}
Releasing == {"check", "remove"}

TypeOK ==
    /\ proc \in [Procs -> {"new", "up", "dead"}]
    /\ lock \in Calls \cup {None}
    /\ pc \in [Calls -> Acquiring \cup Holding \cup Releasing \cup {"idle", "queue", "refused", "dead"}]
    /\ holder \in [Calls -> Calls \cup {None}]
    /\ turns \in [Calls -> 0..MaxTurns]
    /\ {rev, saved, inodes} \subseteq Nat
    /\ store \in 0..inodes
    /\ expected \in [Calls -> Nat]
    /\ conn \in [Calls -> 0..inodes]
    /\ robbed \in BOOLEAN

Init ==
    /\ proc = [p \in Procs |-> "new"]
    /\ lock = None
    /\ pc = [c \in Calls |-> "idle"]
    /\ holder = [c \in Calls |-> None]
    /\ turns = [c \in Calls |-> 0]
    /\ rev = 0
    /\ expected = [c \in Calls |-> 0]
    /\ saved = 0
    /\ store = 0
    /\ inodes = 0
    /\ conn = [c \in Calls |-> 0]
    /\ robbed = FALSE

Goto(c, l) == pc' = [pc EXCEPT ![c] = l]

Entered(c) == pc[c] \in Acquiring \cup Holding \cup Releasing

-----------------------------------------------------------------------------
(* Processes. *)

Start(p) ==
    /\ proc[p] = "new"
    /\ Alone => \A q \in Procs : proc[q] # "up"
    /\ proc' = [proc EXCEPT ![p] = "up"]
    /\ UNCHANGED <<lock, pc, holder, turns, rev, expected, saved, store, inodes, conn, robbed>>

Crash(p) ==
    /\ proc[p] = "up"
    /\ proc' = [proc EXCEPT ![p] = "dead"]
    /\ pc' = [c \in Calls |-> IF Of[c] = p THEN "dead" ELSE pc[c]]
    /\ conn' = [c \in Calls |-> IF Of[c] = p THEN 0 ELSE conn[c]]
    /\ UNCHANGED <<lock, holder, turns, rev, expected, saved, store, inodes, robbed>>

-----------------------------------------------------------------------------
(* Acquisition. *)

\* A client asks for an edit of the revision it has read before.
Ask(c) ==
    /\ Alive(c)
    /\ pc[c] \in {"idle", "refused"}
    /\ turns[c] < MaxTurns
    /\ turns' = [turns EXCEPT ![c] = @ + 1]
    /\ expected' = [expected EXCEPT ![c] = rev]
    /\ Goto(c, "queue")
    /\ UNCHANGED <<proc, lock, holder, rev, saved, store, inodes, conn, robbed>>

\* Mutant: the call does not wait for the calls of its process that are ahead of it.
EnterAtOnce(c) ==
    /\ pc[c] = "queue"
    /\ Goto(c, "create")
    /\ UNCHANGED <<proc, lock, holder, turns, rev, expected, saved, store, inodes, conn, robbed>>

\* withPerKeyMutex: one queued call of a process at a time.
Enter(c) ==
    /\ pc[c] = "queue"
    /\ c \in Queued => \A d \in Queued : Of[d] = Of[c] => ~Entered(d)
    /\ Goto(c, "create")
    /\ UNCHANGED <<proc, lock, holder, turns, rev, expected, saved, store, inodes, conn, robbed>>

\* atomicCreateJson: link(2) makes the complete file visible, or EEXIST.
Create(c) ==
    /\ pc[c] = "create"
    /\ IF lock = None THEN lock' = c /\ Goto(c, "held")
                      ELSE lock' = lock /\ Goto(c, "read")
    /\ UNCHANGED <<proc, holder, turns, rev, expected, saved, store, inodes, conn, robbed>>

\* readAtomicFileLease: a lock file that is gone reads as a lock without a holder.
HolderAlive(h) == h # None /\ Alive(h)

Read(c) ==
    /\ pc[c] = "read"
    /\ holder' = [holder EXCEPT ![c] = lock]
    /\ \/ ~HolderAlive(lock) /\ Goto(c, "steal")
       \/ HolderAlive(lock) /\ Kind[c] \in {"edit", "visit"} /\ Goto(c, "create")
       \/ HolderAlive(lock) /\ Goto(c, "refused")
    /\ UNCHANGED <<proc, lock, turns, rev, expected, saved, store, inodes, conn, robbed>>

\* The rename moves away whatever lock file is there now; ENOENT is ignored.
Steal(c) ==
    /\ pc[c] = "steal"
    /\ robbed' = (robbed \/ HolderAlive(lock))
    /\ lock' = None
    /\ Goto(c, "create")
    /\ UNCHANGED <<proc, holder, turns, rev, expected, saved, store, inodes, conn>>

-----------------------------------------------------------------------------
(* The calls' own work. *)

\* withWorkspaceRevision: the revision on disk is compared with the expected one.
Load(c) ==
    /\ pc[c] = "held" /\ Kind[c] = "edit"
    /\ IF rev = expected[c] THEN Goto(c, "loaded") ELSE Goto(c, "check")
    /\ UNCHANGED <<proc, lock, holder, turns, rev, expected, saved, store, inodes, conn, robbed>>

Save(c) ==
    /\ pc[c] = "loaded"
    /\ rev' = expected[c] + 1
    /\ saved' = saved + 1
    /\ Goto(c, "check")
    /\ UNCHANGED <<proc, lock, holder, turns, expected, store, inodes, conn, robbed>>

\* beginWorkspaceCreation and recoverInterruptedWorkspaceDeletion read and write the
\* lifecycle marker (WorkspaceLifecycle) and leave the revision as it is.
Visit(c) ==
    /\ pc[c] = "held" /\ Kind[c] = "visit"
    /\ Goto(c, "check")
    /\ UNCHANGED <<proc, lock, holder, turns, rev, expected, saved, store, inodes, conn, robbed>>

\* The locks of SQLite: locking_mode=EXCLUSIVE keeps a second connection out of an inode.
LockedByOther(c, ino) == \E d \in Calls \ {c} : conn[d] = ino

Open(c) ==
    /\ pc[c] = "held" /\ Kind[c] = "owner"
    /\ \/ /\ store = 0
          /\ inodes' = inodes + 1
          /\ store' = inodes + 1
          /\ conn' = [conn EXCEPT ![c] = inodes + 1]
          /\ Goto(c, "owning")
       \/ /\ store # 0 /\ ~LockedByOther(c, store)
          /\ conn' = [conn EXCEPT ![c] = store]
          /\ Goto(c, "owning")
          /\ UNCHANGED <<store, inodes>>
       \/ /\ store # 0 /\ LockedByOther(c, store)
          /\ Goto(c, "check")
          /\ UNCHANGED <<store, inodes, conn>>
    /\ UNCHANGED <<proc, lock, holder, turns, rev, expected, saved, robbed>>

Close(c) ==
    /\ pc[c] = "owning"
    /\ conn' = [conn EXCEPT ![c] = 0]
    /\ Goto(c, "check")
    /\ UNCHANGED <<proc, lock, holder, turns, rev, expected, saved, store, inodes, robbed>>

\* Mutant: the command goes on when the lease is refused.
ResetUnleased(c) ==
    /\ pc[c] \in {"held", "refused"} /\ Kind[c] = "reset"
    /\ store' = 0
    /\ Goto(c, "check")
    /\ UNCHANGED <<proc, lock, holder, turns, rev, expected, saved, inodes, conn, robbed>>

\* resetWikiRunsControlStore removes the database, its journals and the runs.
Reset(c) ==
    /\ pc[c] = "held" /\ Kind[c] = "reset"
    /\ store' = 0
    /\ Goto(c, "check")
    /\ UNCHANGED <<proc, lock, holder, turns, rev, expected, saved, inodes, conn, robbed>>

-----------------------------------------------------------------------------
(* Release: the token is read, then the file is removed. *)

Check(c) ==
    /\ pc[c] = "check"
    /\ IF lock = c THEN Goto(c, "remove") ELSE Goto(c, "idle")
    /\ UNCHANGED <<proc, lock, holder, turns, rev, expected, saved, store, inodes, conn, robbed>>

Remove(c) ==
    /\ pc[c] = "remove"
    /\ lock' = None
    /\ Goto(c, "idle")
    /\ UNCHANGED <<proc, holder, turns, rev, expected, saved, store, inodes, conn, robbed>>

-----------------------------------------------------------------------------
Act(c) == \/ Enter(c) \/ Create(c) \/ Read(c) \/ Steal(c)
          \/ Load(c) \/ Save(c) \/ Visit(c) \/ Open(c) \/ Close(c) \/ Reset(c)
          \/ Check(c) \/ Remove(c)

Next ==
    \/ \E p \in Procs : Start(p) \/ Crash(p)
    \/ \E c \in Calls : Ask(c) \/ Act(c)

\* A call that has begun goes on; a process need not start, nor a client ask.
\* An owner may live for ever.
Fairness == \A c \in Calls : WF_vars(Act(c) /\ pc[c] # "owning")

Spec == Init /\ [][Next]_vars
FairSpec == Spec /\ Fairness

-----------------------------------------------------------------------------
\* The lease excludes: no two calls do their work, or have it half released, at once.
Exclusion ==
    \A c, d \in Calls : pc[c] \in Holding /\ pc[d] \in Holding => c = d

\* The compare-and-swap of workspace.json: every edit that was told of its success
\* has advanced the revision, so no two of them replaced the same one.
EditsAreCas == rev = saved

\* At most one owner has the control store open, whatever inode it has open.
OneOwner == Cardinality({c \in Calls : conn[c] # 0}) <= 1

\* Nothing but the theft of a live lock breaks the lease: until one is renamed away,
\* no two calls hold it and an edit is a compare-and-swap, queued or not.
LeaseHolds == ~robbed => Exclusion /\ EditsAreCas

\* A reset takes the store from under no connection, until a live lock is taken away.
ResetSparesOwner ==
    [][~robbed /\ store # 0 /\ store' = 0 => \A c \in Calls : conn[c] # store]_vars

\* What workspace-config.ts:667 says without that proviso: "Reset holds the same lease,
\* so it cannot unlink a control store beneath an active SQLite connection."
ResetCannotUnlink ==
    [][store # 0 /\ store' = 0 => \A c \in Calls : conn[c] # store]_vars

\* A lock that a dead process left refuses nobody: while one server runs at a time,
\* none of its calls is told that the workspace or the store is in use.
RestartIsServed == \A c \in Calls : pc[c] # "refused"

\* Who asks for the lease gets it or is refused, unless its process dies: no
\* two calls can keep taking the file from each other for ever.
AcquisitionEnds ==
    \A c \in Calls : pc[c] = "queue" ~> pc[c] \notin {"queue"} \cup Acquiring
=============================================================================
