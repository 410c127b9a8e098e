-------------------------------- MODULE DirLock --------------------------------
(***************************************************************************)
(* The publication lock (packages/core/src/atomicity.ts, publication/      *)
(* lock.ts): a chain of promises per path inside a process, and under it a *)
(* lock directory that is shared by all processes.  mkdir, stat and rm are *)
(* one step each; everything else may fall between them, and a process may *)
(* crash and leave its directory behind.                                   *)
(***************************************************************************)
EXTENDS Naturals

CONSTANTS
    Jobs,        \* calls of withPublicationLock for one path
    Processes,
    ProcessOf,   \* ProcessOf[j]: the process that makes the call
    Ages,        \* may a lock directory reach PUBLISH_LOCK_STALE_MS?
    CanOverstay, \* may it do so while its holder is alive?
    MaxCrashes   \* bound: crashes of processes

ASSUME JobsAssumption ==
    /\ ProcessOf \in [Jobs -> Processes]
    /\ Ages \in BOOLEAN /\ CanOverstay \in BOOLEAN /\ MaxCrashes \in Nat

None == "none"
ASSUME NoneAssumption == None \notin Jobs

VARIABLES
    pc,      \* pc[j]: how far call j has come
    after,   \* after[j]: the call whose tail j chained itself to
    tail,    \* tail[p]: queues.get(key) in process p
    dir,     \* the job that made the lock directory, None if there is none
    stale,   \* is the directory older than staleMs?
    seat,    \* seat[j]: the position in which j was called (history)
    calls,   \* calls so far (history)
    crashes  \* crashes so far

vars == <<pc, after, tail, dir, stale, seat, calls, crashes>>

(* new: not called; queued: chained; stat, reclaim, retry: inside          *)
(* acquireLockDir; in: fn runs; leaving: fn is over, finally is to run.    *)
Working == {"stat", "reclaim", "retry", "in", "leaving"}
Settled == {"done", "failed", "dead"}

TypeOK ==
    /\ pc \in [Jobs -> {"new", "queued"} \cup Working \cup Settled]
    /\ after \in [Jobs -> Jobs \cup {None}]
    /\ tail \in [Processes -> Jobs \cup {None}]
    /\ dir \in Jobs \cup {None} /\ stale \in BOOLEAN
    /\ seat \in [Jobs -> Nat] /\ calls \in Nat /\ crashes \in 0 .. MaxCrashes

Init ==
    /\ pc = [j \in Jobs |-> "new"] /\ after = [j \in Jobs |-> None]
    /\ tail = [p \in Processes |-> None]
    /\ dir = None /\ stale = FALSE
    /\ seat = [j \in Jobs |-> 0] /\ calls = 0 /\ crashes = 0

-----------------------------------------------------------------------------
(* withPerKeyMutex: chain to the tail of the process and become the tail.  *)
Call(j) ==
    /\ pc[j] = "new"
    /\ pc' = [pc EXCEPT ![j] = "queued"]
    /\ after' = [after EXCEPT ![j] = tail[ProcessOf[j]]]
    /\ tail' = [tail EXCEPT ![ProcessOf[j]] = j]
    /\ seat' = [seat EXCEPT ![j] = calls] /\ calls' = calls + 1
    /\ UNCHANGED <<dir, stale, crashes>>

(* Mutant: a rejected job leaves its successors waiting. *)
MyTurnAfterSuccess(j) == after[j] \in Jobs => pc[after[j]] = "done"

(* prev.catch(() => undefined).then(fn): also after a rejection. *)
MyTurn(j) == after[j] \in Jobs => pc[after[j]] \in Settled

(* tryCreateLockDir: mkdir succeeds where there is no directory.           *)
Make(j, busy) ==
    IF dir = None
    THEN dir' = j /\ stale' = FALSE /\ pc' = [pc EXCEPT ![j] = "in"]
    ELSE pc' = [pc EXCEPT ![j] = busy] /\ UNCHANGED <<dir, stale>>

(* acquireLockDir, first mkdir. *)
Acquire(j) ==
    /\ pc[j] = "queued" /\ MyTurn(j)
    /\ Make(j, "stat")
    /\ UNCHANGED <<after, tail, seat, calls, crashes>>

(* Mutant: stat reports the lock as busy instead of throwing. *)
StatBusy(j) ==
    /\ pc[j] = "stat"
    /\ pc' = [pc EXCEPT ![j] = IF dir = None THEN "retry"
                               ELSE IF stale THEN "reclaim" ELSE "busy"]
    /\ UNCHANGED <<after, tail, dir, stale, seat, calls, crashes>>

(* Mutant: the lock is acquired inside the try, its finally always runs. *)
StatInsideTry(j) ==
    /\ pc[j] = "stat"
    /\ pc' = [pc EXCEPT ![j] = IF dir = None THEN "retry"
                               ELSE IF stale THEN "reclaim" ELSE "leaving"]
    /\ UNCHANGED <<after, tail, dir, stale, seat, calls, crashes>>

(* stat: gone meanwhile, crash residue, or busy. *)
Stat(j) ==
    /\ pc[j] = "stat"
    /\ pc' = [pc EXCEPT ![j] = IF dir = None THEN "retry"
                               ELSE IF stale THEN "reclaim" ELSE "failed"]
    /\ UNCHANGED <<after, tail, dir, stale, seat, calls, crashes>>

(* rm of a directory that was stale when it was looked at. *)
Reclaim(j) ==
    /\ pc[j] = "reclaim"
    /\ dir' = None /\ stale' = FALSE
    /\ pc' = [pc EXCEPT ![j] = "retry"]
    /\ UNCHANGED <<after, tail, seat, calls, crashes>>

(* second mkdir: once, then fail closed. *)
Retry(j) ==
    /\ pc[j] = "retry"
    /\ Make(j, "failed")
    /\ UNCHANGED <<after, tail, seat, calls, crashes>>

(* fn returns or throws. *)
Finish(j) ==
    /\ pc[j] = "in"
    /\ pc' = [pc EXCEPT ![j] = "leaving"]
    /\ UNCHANGED <<after, tail, dir, stale, seat, calls, crashes>>

(* finally: rm whatever directory is there; fn's promise settles. *)
Leave(j) ==
    /\ pc[j] = "leaving"
    /\ dir' = None /\ stale' = FALSE
    /\ pc' = [pc EXCEPT ![j] = "done"]
    /\ UNCHANGED <<after, tail, seat, calls, crashes>>

(* Mutant: a settled job drops the chain without looking who is last. *)
ForgetAny(p, j) ==
    /\ pc[j] \in Settled /\ ProcessOf[j] = p /\ tail[p] # None
    /\ tail' = [tail EXCEPT ![p] = None]
    /\ UNCHANGED <<pc, after, dir, stale, seat, calls, crashes>>

(* tail.finally: drop the chain when nobody has chained to it since. *)
Forget(p, j) ==
    /\ pc[j] \in Settled /\ tail[p] = j
    /\ tail' = [tail EXCEPT ![p] = None]
    /\ UNCHANGED <<pc, after, dir, stale, seat, calls, crashes>>

-----------------------------------------------------------------------------
(* A process crashes: its calls and its chain are gone, its directory is   *)
(* not.  It is started again at once; the calls still to come are its.     *)
Crash(p) ==
    /\ crashes < MaxCrashes /\ crashes' = crashes + 1
    /\ pc' = [j \in Jobs |-> IF ProcessOf[j] = p /\ pc[j] \in Working \cup {"queued"}
                             THEN "dead" ELSE pc[j]]
    /\ tail' = [tail EXCEPT ![p] = None]
    /\ UNCHANGED <<after, dir, stale, seat, calls>>

(* The directory becomes ten minutes old. *)
Age ==
    /\ Ages /\ dir # None /\ ~stale
    /\ ~CanOverstay => pc[dir] = "dead"
    /\ stale' = TRUE
    /\ UNCHANGED <<pc, after, tail, dir, seat, calls, crashes>>

Step(j) == Acquire(j) \/ Stat(j) \/ Reclaim(j) \/ Retry(j) \/ Finish(j) \/ Leave(j)

Next ==
    \/ \E j \in Jobs : Call(j) \/ Step(j)
    \/ \E p \in Processes : Crash(p) \/ \E j \in Jobs : Forget(p, j)
    \/ Age

Spec == Init /\ [][Next]_vars

(* The event loop runs what is enabled, and fn ends. *)
FairSpec == Spec /\ \A j \in Jobs : WF_vars(Step(j))
-----------------------------------------------------------------------------
(* Properties.                                                             *)

(* "Exclusive publication lock": two calls never run their function at the *)
(* same time, in whichever processes they are (withPublicationLock).       *)
MutualExclusion ==
    \A i, j \in Jobs : pc[i] = "in" /\ pc[j] = "in" => i = j

(* The one that runs owns the directory, so that its finally removes its   *)
(* own lock and not another's (withLockedDir).                             *)
HolderOwnsDir == \A j \in Jobs : pc[j] \in {"in", "leaving"} => dir = j

(* Within a process the calls are served one at a time and in the order of *)
(* calling (withPerKeyMutex), even where the directory would let them both. *)
ServedInOrder ==
    \A i, j \in Jobs :
        /\ ProcessOf[i] = ProcessOf[j]
        /\ pc[i] \in Working /\ pc[j] \in Working \cup {"queued"}
        => seat[i] <= seat[j]

(* A call never waits for ever: it runs or fails closed, and "a rejected   *)
(* job never stalls later work" (withPerKeyMutex).                         *)
CallsSettle == \A j \in Jobs : pc[j] = "queued" ~> pc[j] \in Settled
=============================================================================
