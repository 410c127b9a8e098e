------------------------------- MODULE StorageMC -------------------------------
(* Workspaces, their leases, owners and sessions, in scenes: the first state     *)
(* chooses one, and the components without a part in it stay in their initial    *)
(* state.                                                                        *)
(*   "edits"     edits by a server and by the next one      (FileLease)          *)
(*   "visit"     the same, beside a visit that does not queue                    *)
(*   "owners"    owners of the store in two servers                              *)
(*   "reset"     owners of two servers and the reset command                     *)
(*   "remove"    a deletion beside a session, an owner and a page                *)
(*               in two servers                             (WorkspaceLifecycle) *)
(*   "keep"      a deletion that leaves the files, and an edit                   *)
(*   "recreate"  a deletion, two creations and an edit                           *)
(*   "listed"    a deletion by a server that dies, and a page that polls         *)
(*   "owner"     requests that share an owner, a deletion,                       *)
(*               a creation                                 (OwnerRegistry)      *)
(*   "edit"      a prompt, a watcher and an edit            (OperatorSessions)   *)
(*   "gone"      a prompt, a new session, both deletions                         *)
(*   "leave"     a watcher, two new sessions, the workspace is deleted           *)
(*   "lock"      calls that take the publication lock       (DirLock)            *)
EXTENDS DirLock, Sequences, FiniteSets, TLC

CONSTANTS
    Scenes,  \* the scenes a run plays
    a1, a2, a3, b1, b2, serverA, serverB

VARIABLES scene,
          proc, lock, leasePc, holder, turns, rev, expected, saved, store, inodes, conn,
          robbed,
          server, marker, config, indexed, cfgLock, storeLock, leases, fenced, step, ret,
          loaded, recovered, made, deletedIds,
          doc, mark, docLock, opLeases, ownLeases, dbLock, owners, owner, opening, retired,
          ops, at, answer, seen, own, waiting, started, known, fails,
          wsRev, marked, retiredWs, stored, handles, live, opens, sesPc, reply, snap, ref,
          waits, shut, confirmed, since, caught, deleted

-----------------------------------------------------------------------------
(* The publication lock: three calls of one server, two calls of each of two. *)

OneServer == a1 :> serverA @@ a2 :> serverA @@ a3 :> serverA
TwoServers == a1 :> serverA @@ a2 :> serverA @@ b1 :> serverB @@ b2 :> serverB

(* Leases: calls are numbered, c3 is of the second process.                   *)

ServerOf == ("c1" :> "p1") @@ ("c2" :> "p1") @@ ("c3" :> "p2")
OwnersOf == ("c1" :> "p1") @@ ("c2" :> "p2") @@ ("c3" :> "p2")

Edits == INSTANCE FileLease WITH
    Calls <- {"c1", "c2", "c3"}, Procs <- {"p1", "p2"}, Of <- ServerOf,
    Kind <- [c \in {"c1", "c2", "c3"} |-> "edit"], Queued <- {"c1", "c2", "c3"},
    Alone <- TRUE, MaxTurns <- 2, pc <- leasePc
Owners == INSTANCE FileLease WITH
    Calls <- {"c1", "c2", "c3"}, Procs <- {"p1", "p2"}, Of <- OwnersOf,
    Kind <- [c \in {"c1", "c2", "c3"} |-> "owner"], Queued <- {},
    Alone <- FALSE, MaxTurns <- 2, pc <- leasePc
InReset == ("c1" :> "p1") @@ ("c2" :> "p2") @@ ("c3" :> "p3")
InVisit == ("c1" :> "p1") @@ ("c2" :> "p1") @@ ("c3" :> "p1") @@ ("c4" :> "p2")
Visits == INSTANCE FileLease WITH
    Calls <- DOMAIN InVisit, Procs <- {"p1", "p2"}, Of <- InVisit,
    Kind <- [c \in DOMAIN InVisit |-> IF c = "c3" THEN "visit" ELSE "edit"],
    Queued <- {"c1", "c2", "c4"}, Alone <- TRUE, MaxTurns <- 1, pc <- leasePc
Resets == INSTANCE FileLease WITH
    Calls <- {"c1", "c2", "c3"}, Procs <- {"p1", "p2", "p3"}, Of <- InReset,
    Kind <- [c \in {"c1", "c2", "c3"} |-> IF c = "c3" THEN "reset" ELSE "owner"],
    Queued <- {}, Alone <- FALSE, MaxTurns <- 1, pc <- leasePc

(* Workspaces: which process serves which request, and what it is.            *)

Served == ("create" :> "p2") @@ ("create2" :> "p1") @@ ("delete" :> "p1") @@ ("edit" :> "p2")
          @@ ("get" :> "p2") @@ ("session" :> "p2") @@ ("owner" :> "p1")
KindOf(R) == [r \in R |-> IF r = "create2" THEN "create" ELSE r]
OfServer(R) == [r \in R |-> Served[r]]

InRemove == {"delete", "session", "owner", "get"}
Remove == INSTANCE WorkspaceLifecycle WITH
    Requests <- InRemove, Procs <- {"p1", "p2"}, Of <- OfServer(InRemove),
    Kind <- KindOf(InRemove), KeepFiles <- {}, Old <- "old", MaxRev <- 1, MaxTurns <- 1,
    Polls <- {}, Mortal <- {"p1", "p2"}, proc <- server, pc <- step, snap <- loaded, turns <- made
InKeep == {"delete", "session", "edit", "get"}
Keep == INSTANCE WorkspaceLifecycle WITH
    Requests <- InKeep, Procs <- {"p1", "p2"}, Of <- OfServer(InKeep),
    Kind <- KindOf(InKeep), KeepFiles <- {"delete"}, Old <- "old", MaxRev <- 1, MaxTurns <- 1,
    Polls <- {}, Mortal <- {"p1", "p2"}, proc <- server, pc <- step, snap <- loaded, turns <- made
InRecreate == {"delete", "create", "create2", "edit"}
Recreate == INSTANCE WorkspaceLifecycle WITH
    Requests <- InRecreate, Procs <- {"p1", "p2"}, Of <- OfServer(InRecreate),
    Kind <- KindOf(InRecreate), KeepFiles <- {}, Old <- "old", MaxRev <- 1, MaxTurns <- 1,
    Polls <- {}, Mortal <- {"p1", "p2"}, proc <- server, pc <- step, snap <- loaded, turns <- made
InListed == {"delete", "get"}
Listed == INSTANCE WorkspaceLifecycle WITH
    Requests <- InListed, Procs <- {"p1", "p2"}, Of <- OfServer(InListed),
    Kind <- KindOf(InListed), KeepFiles <- {}, Old <- "old", MaxRev <- 1, MaxTurns <- 1,
    Polls <- {"get"}, Mortal <- {"p1"}, proc <- server, pc <- step, snap <- loaded, turns <- made

(* Owners of one server, and sessions of one session id.                      *)

InOwner == {"run", "run2", "delete", "create"}
Owner == INSTANCE OwnerRegistry WITH
    Requests <- InOwner, Kind <- [r \in InOwner |-> IF r = "run2" THEN "run" ELSE r],
    Old <- "old", MaxOwners <- 3, MaxFails <- 1,
    config <- doc, marker <- mark, cfgLock <- docLock, leases <- opLeases, storeLock <- dbLock,
    handles <- owners, pc <- at, reply <- answer, snap <- seen, waits <- waiting

KindOfTurn(R) == [r \in R |-> IF r = "create2" THEN "create" ELSE r]
TargetOf(R) == [r \in R |-> "s1"]
InEdit == {"prompt", "watch", "patch"}
Edit == INSTANCE OperatorSessions WITH
    Requests <- InEdit, Sessions <- {"s1"}, Kind <- KindOfTurn(InEdit),
    Target <- TargetOf(InEdit), MaxHandles <- 5, rev <- wsRev, retired <- retiredWs,
    opening <- opens, pc <- sesPc
InGone == {"prompt", "create", "delete", "remove"}
Gone == INSTANCE OperatorSessions WITH
    Requests <- InGone, Sessions <- {"s1"}, Kind <- KindOfTurn(InGone),
    Target <- TargetOf(InGone), MaxHandles <- 5, rev <- wsRev, retired <- retiredWs,
    opening <- opens, pc <- sesPc
InLeave == {"watch", "create", "create2", "remove"}
Away == INSTANCE OperatorSessions WITH
    Requests <- InLeave, Sessions <- {"s1"}, Kind <- KindOfTurn(InLeave),
    Target <- TargetOf(InLeave), MaxHandles <- 5, rev <- wsRev, retired <- retiredWs,
    opening <- opens, pc <- sesPc

ASSUME /\ Edits!FileLeaseAssumption /\ Owners!FileLeaseAssumption /\ Visits!FileLeaseAssumption
       /\ Resets!FileLeaseAssumption
       /\ Remove!LifecycleAssumption /\ Keep!LifecycleAssumption
       /\ Recreate!LifecycleAssumption /\ Listed!LifecycleAssumption
       /\ Owner!RegistryAssumption
       /\ Edit!SessionsAssumption /\ Gone!SessionsAssumption /\ Away!SessionsAssumption

-----------------------------------------------------------------------------
leaseVars == <<proc, lock, leasePc, holder, turns, rev, expected, saved, store, inodes, conn,
               robbed>>
lifeVars == <<server, marker, config, indexed, cfgLock, storeLock, leases, fenced, step, ret,
              loaded, recovered, made, deletedIds>>
ownerVars == <<doc, mark, docLock, opLeases, ownLeases, dbLock, owners, owner, opening,
               retired, ops, at, answer, seen, own, waiting, started, known, fails>>
sessionVars == <<wsRev, marked, retiredWs, stored, handles, live, opens, sesPc, reply, snap,
                 ref, waits, shut, confirmed, since, caught, deleted>>
otherVars == <<leaseVars, lifeVars, ownerVars, sessionVars>>
allVars == <<scene, vars, otherVars>>

\* A lease scene is about its calls only, and so on: of the others any will do, and one
\* initial state of them is enough.
McInit ==
    /\ scene \in Scenes /\ Init
    /\ CASE scene = "owners" -> Owners!Init [] scene = "reset" -> Resets!Init
         [] scene = "visit" -> Visits!Init
         [] OTHER -> Edits!Init
    /\ CASE scene = "keep" -> Keep!Init [] scene = "recreate" -> Recreate!Init
         [] scene = "listed" -> Listed!Init [] OTHER -> Remove!Init
    /\ scene \notin {"remove", "keep", "recreate", "listed"} => indexed
    /\ scene \notin {"edit", "gone", "leave"} => stored = {}
    /\ Owner!Init
    /\ CASE scene = "gone" -> Gone!Init [] scene = "leave" -> Away!Init [] OTHER -> Edit!Init

InLease(s, A) == scene = s /\ A /\ UNCHANGED <<scene, vars, lifeVars, ownerVars, sessionVars>>
InLife(s, A) == scene = s /\ A /\ UNCHANGED <<scene, vars, leaseVars, ownerVars, sessionVars>>
InOwners(A) == scene = "owner" /\ A /\ UNCHANGED <<scene, vars, leaseVars, lifeVars, sessionVars>>
InSession(s, A) == scene = s /\ A /\ UNCHANGED <<scene, vars, leaseVars, lifeVars, ownerVars>>
InLock(A) == scene = "lock" /\ A /\ UNCHANGED <<scene, otherVars>>

McNext ==
    \/ InLock(Next)
    \/ InLease("edits", Edits!Next)
    \/ InLease("owners", Owners!Next)
    \/ InLease("visit", Visits!Next)
    \/ InLease("reset", Resets!Next)
    \/ InLife("remove", Remove!Next)
    \/ InLife("keep", Keep!Next)
    \/ InLife("recreate", Recreate!Next)
    \/ InLife("listed", Listed!Next)
    \/ InOwners(Owner!Next)
    \/ InSession("edit", Edit!Next)
    \/ InSession("gone", Gone!Next)
    \/ InSession("leave", Away!Next)

(* The fairness of each component, in the scenes with a liveness property.      *)
McFairness ==
    /\ \A j \in Jobs : WF_vars(scene = "lock" /\ Step(j))
    /\ \A c \in {"c1", "c2", "c3"} :
          /\ WF_leaseVars(scene = "edits" /\ Edits!Act(c) /\ leasePc[c] # "owning")
          /\ WF_leaseVars(scene = "owners" /\ Owners!Act(c) /\ leasePc[c] # "owning")
    /\ \A c \in DOMAIN InVisit : WF_leaseVars(scene = "visit" /\ Visits!Act(c))
    /\ \A r \in InRemove : WF_lifeVars(scene = "remove" /\ Remove!Step(r))
    /\ \A r \in InListed : WF_lifeVars(scene = "listed" /\ Listed!Step(r))
    /\ WF_lifeVars(scene = "listed" /\ Listed!Start("p2"))
    /\ WF_lifeVars(scene = "listed" /\ Listed!Ask("get"))
    /\ \A r \in InOwner : WF_ownerVars(scene = "owner" /\ Owner!Handle(r))
    /\ \A h \in 1 .. 3 : WF_ownerVars(scene = "owner" /\ h \in 1 .. Len(owners) /\ Owner!Open(h))
    /\ \A r \in InEdit : WF_sessionVars(scene = "edit" /\ Edit!Progress(r))
    /\ \A r \in InGone : WF_sessionVars(scene = "gone" /\ Gone!Progress(r))
    /\ \A h \in 1 .. 5 : /\ WF_sessionVars(scene = "edit" /\ h \in Edit!Ids /\ Edit!Work(h))
                         /\ WF_sessionVars(scene = "gone" /\ h \in Gone!Ids /\ Gone!Work(h))

McSpec == McInit /\ [][McNext]_allVars /\ McFairness

--------------------------------------------------------------------------------
(* The lease file excludes where its protocol can: queued edits of one server   *)
(* after another are compare-and-swaps, and are never refused for a lock that   *)
(* the dead one left; beside a call that does not queue they still are, and the *)
(* lease excludes until a live lock is taken away, as it does beside a reset;   *)
(* and one owner has the store open whatever happens to the lock                *)
(* (workspace-config.ts).                                                       *)
LeaseExcludes ==
    /\ scene = "edits" => Edits!Exclusion /\ Edits!EditsAreCas /\ Edits!RestartIsServed
    /\ scene = "owners" => Owners!OneOwner
    /\ scene = "visit" => Visits!LeaseHolds /\ Visits!EditsAreCas
    /\ scene = "reset" => Resets!LeaseHolds

(* A removal is alone in the workspace and final: nobody works in it, what was  *)
(* confirmed as deleted stays so, and its root is not listed                    *)
(* (handleDeleteWorkspace, beginWorkspaceDeletion).                             *)
RemovalIsFinal ==
    /\ scene = "remove" => Remove!RemovalIsAlone
    /\ scene = "keep" => Keep!RemovalIsAlone /\ Keep!DeletedStaysDeleted /\ Keep!TombstonedIsUnlisted
    /\ scene = "recreate" => Recreate!DeletedStaysDeleted

(* A server has one owner of the store, requests work on an open one only, no   *)
(* owner outlives the workspace, and neither a fence nor a lease is left behind *)
(* (wiki-runs-registry.ts).                                                     *)
OwnerIsGuarded ==
    scene = "owner" => /\ Owner!OneOpenOwner /\ Owner!OperatesOnOpenOwner
                       /\ Owner!RemovedHasNoOwner /\ Owner!FenceIsLifted /\ Owner!NoLeaseIsLost

(* One live handle writes a session, what an edit or a deletion found is closed *)
(* when it answers, and a deleted workspace has no session (operator-session/). *)
SessionsAreExclusive ==
    /\ scene = "edit" => Edit!OneHandle /\ Edit!CaughtIsClosed
    /\ scene = "gone" => Gone!RemovedIsEmpty
    /\ scene = "leave" => Away!OneHandle /\ Away!RemovedIsEmpty

(* A reset takes the store from under no connection: beside two owners and the  *)
(* locks that they leave when they die, as long as no live lock is taken away   *)
(* (resetWikiRunsControlStore).                                                 *)
ResetSparesOwner ==
    [][scene = "reset" /\ ~robbed /\ store # 0 /\ store' = 0
         => \A c \in {"c1", "c2", "c3"} : conn[c] # store]_leaseVars

(* Nobody is waiting: for a lock or a lease, for another request, an opening or an        *)
(* operation; and no deletion that a dead server began is left where it is      *)
(* still listed.                                                                *)
Answered ==
    CASE scene = "lock" -> \A j \in Jobs : pc[j] # "queued"
      [] scene \in {"edits", "owners"} ->
             \A c \in {"c1", "c2", "c3"} : leasePc[c] \notin {"queue"} \cup Edits!Acquiring
      [] scene = "visit" ->
             \A c \in DOMAIN InVisit : leasePc[c] \notin {"queue"} \cup Visits!Acquiring
      [] scene = "remove" -> \A r \in InRemove : step[r] \in {"idle", "working", "dead"}
      [] scene = "listed" -> ~(Listed!IsDeletion(marker) /\ ~Listed!ByLive(marker) /\ indexed)
      [] scene = "owner" -> \A r \in InOwner : at[r] \in {"new", "done"}
      [] scene = "edit" -> \A r \in InEdit : sesPc[r] \in {"idle"} \cup Edit!Ends
      [] scene = "gone" -> \A r \in InGone : sesPc[r] \in {"idle"} \cup Gone!Ends
      [] OTHER -> TRUE

(* No request waits for ever: again and again there is nobody who waits,        *)
(* whoever refuses, waits for, or deletes what another one uses.                *)
StorageAnswers == []<>Answered
================================================================================
