--------------------------- MODULE PublicationApply ---------------------------
(***************************************************************************)
(* The swap of a sealed candidate onto the published Wiki and its          *)
(* reconciliation after a crash (packages/core/src/publication/apply.ts,   *)
(* with mechanical/publish.ts and publication-effect.ts of the workflow    *)
(* package).  Every file-system call is a step of its own, so a crash, a   *)
(* failing call or a foreign publication may fall between two of them.     *)
(* A tree is an abstract value; an effect stands for its candidate's tree. *)
(***************************************************************************)
EXTENDS Naturals, Sequences

CONSTANTS
    Effects,       \* effects that publish to one path
    Versions,      \* trees that others publish, each once
    Old,           \* the tree published before, if any
    Missing,       \* no directory: its digest is EMPTY_PUBLICATION_DIGEST
    Partial,       \* a directory that cp has not finished
    EditsHeedLock, \* do others publish under the lock only?
    PromptRestart, \* may the server restart while its lock is not yet stale?
    MaxCrashes,    \* bound: crashes of the server
    MaxFaults      \* bound: file-system calls that fail

None == "none"
TreesAssumption ==
    /\ Old # Missing /\ Old # Partial /\ Missing # Partial
    /\ {Old, Missing, Partial} \cap (Effects \cup Versions) = {}
    /\ Effects \cap Versions = {} /\ {"free", "residue"} \cap Effects = {}
BoundsAssumption ==
    EditsHeedLock \in BOOLEAN /\ PromptRestart \in BOOLEAN
    /\ MaxCrashes \in Nat /\ MaxFaults \in Nat

VARIABLES
    live,     \* the directory at publicationPath
    next,     \* next[e]: <path>.next.<token>
    prev,     \* prev[e]: <path>.prev.<token>
    marker,   \* marker[e]: the phase the apply marker can be read to have
    queue,    \* publishTails: who waits for the lock in this server, in order
    lock,     \* <path>.publish-lock: its holder, "free" or a crash's "residue"
    effect,   \* effect[e]: effects.state
    expected, \* expected[e]: effects.expected_live_digest
    pc,       \* pc[e]: the next step of whoever applies or reconciles e
    found,    \* found[e]: what reconcilePublicationApply is to return
    owner,    \* the server that owns the store
    seen,     \* trees that have been live (history)
    crashes, faults

disk == <<live, next, prev, marker>>
vars == <<disk, queue, lock, effect, expected, pc, found, owner, seen, crashes, faults>>

Trees == Effects \cup Versions \cup {Old, Missing, Partial}
Phases == {None, "begin", "aside", "swapped"}
EffectStates == {None, "candidate_ready", "applying", "applied", "conflict",
                 "failed", "unknown", "cancelled"}
Applying == {"queued", "check", "begin", "mark", "copy", "copying", "aside", "noteAside",
             "swap", "noteSwap", "drop", "leave"}
Reconciling == {"inspect", "promote", "restore", "clean", "give"}
(* Steps that are taken after the lock was released. *)
Returning == {"report", "thrown", "settle"}

TypeOK ==
    /\ live \in Trees
    /\ next \in [Effects -> Trees] /\ prev \in [Effects -> Trees]
    /\ marker \in [Effects -> Phases]
    /\ queue \in Seq(Effects) /\ lock \in Effects \cup {"free", "residue"}
    /\ effect \in [Effects -> EffectStates]
    /\ expected \in [Effects -> Trees]
    /\ pc \in [Effects -> {"idle"} \cup Applying \cup Reconciling \cup Returning]
    /\ found \in [Effects -> {None, "applied", "conflict", "failed", "unknown"}]
    /\ owner \in {"up", "down", "recovering"}
    /\ seen \subseteq Trees /\ crashes \in 0 .. MaxCrashes /\ faults \in 0 .. MaxFaults

Init ==
    /\ live \in {Old, Missing}
    /\ next = [e \in Effects |-> Missing] /\ prev = next
    /\ marker = [e \in Effects |-> None] /\ queue = <<>> /\ lock = "free"
    /\ effect = [e \in Effects |-> None] /\ expected = next
    /\ pc = [e \in Effects |-> "idle"] /\ found = marker
    /\ owner = "up" /\ seen = {live} \ {Missing} /\ crashes = 0 /\ faults = 0

Goto(e, p) == pc' = [pc EXCEPT ![e] = p]
Fault == faults < MaxFaults /\ faults' = faults + 1
FaultTwice == faults + 1 < MaxFaults /\ faults' = faults + 2
Sound == UNCHANGED faults

(* A worker that left the lock goes on before any other file-system call   *)
(* ends: its transaction follows in the same turn of the event loop.       *)
Turn == \A e \in Effects : pc[e] \notin {"report", "settle"}

-----------------------------------------------------------------------------
(* The candidate is sealed and approved: capturePublicationBaseline reads  *)
(* the live digest under the lock, openPublicationGate stores it.          *)
Prepare(e) ==
    /\ owner = "up" /\ effect[e] = None /\ lock = "free" /\ Turn
    /\ effect' = [effect EXCEPT ![e] = "candidate_ready"]
    /\ expected' = [expected EXCEPT ![e] = live]
    /\ UNCHANGED <<disk, queue, lock, pc, found, owner, seen, crashes, faults>>

(* cancelPreApplyEffects and its like. *)
Cancel(e) ==
    /\ owner = "up" /\ effect[e] = "candidate_ready"
    /\ effect' = [effect EXCEPT ![e] = "cancelled"]
    /\ UNCHANGED <<disk, queue, lock, expected, pc, found, owner, seen, crashes, faults>>

(* mechanicalPublish calls withPublicationLock. *)
Call(e) ==
    /\ owner = "up" /\ effect[e] = "candidate_ready" /\ pc[e] = "idle"
    /\ queue' = Append(queue, e) /\ Goto(e, "queued")
    /\ UNCHANGED <<disk, lock, effect, expected, found, owner, seen, crashes, faults>>

(* The function under the lock is over. *)
Release == lock' = "free" /\ queue' = Tail(queue)

(* It throws: the catch of mechanicalPublish queues up for reconciliation. *)
Throw(e) ==
    /\ lock' = "free"
    /\ queue' = IF effect[e] = "applying" THEN Append(Tail(queue), e) ELSE Tail(queue)
    /\ Goto(e, "thrown")

(* withLockedDir; a residue that is not stale throws. *)
Enter(e) ==
    /\ pc[e] = "queued" /\ Head(queue) = e /\ Turn
    /\ \/ lock = "free" /\ lock' = e /\ Goto(e, "check") /\ UNCHANGED queue
       \/ lock = "residue" /\ queue' = Tail(queue) /\ Goto(e, "thrown") /\ UNCHANGED lock
    /\ UNCHANGED <<disk, effect, expected, found, owner, seen, crashes, faults>>

(* Mutant: the baseline is not looked at. *)
CheckNothing(e) ==
    /\ pc[e] = "check"
    /\ Goto(e, "begin")
    /\ UNCHANGED <<disk, queue, lock, effect, expected, found, owner, seen, crashes, faults>>

(* Verify the live baseline. *)
Check(e) ==
    /\ pc[e] = "check"
    /\ \/ live = expected[e] /\ Goto(e, "begin") /\ Sound /\ UNCHANGED <<queue, lock, found>>
       \/ /\ live # expected[e] /\ Sound
          /\ Release /\ Goto(e, "report") /\ found' = [found EXCEPT ![e] = "conflict"]
       \/ Fault /\ Throw(e) /\ UNCHANGED found
    /\ UNCHANGED <<disk, effect, expected, owner, seen, crashes>>

(* Mutant: the swap begins without the compare-and-set. *)
BeginAnyway(e) ==
    /\ pc[e] = "begin"
    /\ Goto(e, "mark")
    /\ effect' = [effect EXCEPT ![e] = IF @ = "candidate_ready" THEN "applying" ELSE @]
    /\ UNCHANGED <<disk, queue, lock, expected, found, owner, seen, crashes, faults>>

(* Mutant: the abort is stored as a state of the effect. *)
BeginAborted(e) ==
    /\ pc[e] = "begin"
    /\ IF effect[e] = "candidate_ready"
       THEN effect' = [effect EXCEPT ![e] = "applying"] /\ Goto(e, "mark") /\ UNCHANGED <<queue, lock>>
       ELSE Release /\ Goto(e, "idle") /\ effect' = [effect EXCEPT ![e] = "aborted"]
    /\ UNCHANGED <<disk, expected, found, owner, seen, crashes, faults>>

(* beginPublicationApply: candidate_ready -> applying, or abort. *)
Begin(e) ==
    /\ pc[e] = "begin"
    /\ IF effect[e] = "candidate_ready"
       THEN effect' = [effect EXCEPT ![e] = "applying"] /\ Goto(e, "mark") /\ UNCHANGED <<queue, lock>>
       ELSE Release /\ Goto(e, "idle") /\ UNCHANGED effect
    /\ UNCHANGED <<disk, expected, found, owner, seen, crashes, faults>>

(* The apply marker, phase begin. *)
Mark(e) ==
    /\ pc[e] = "mark"
    /\ \/ marker' = [marker EXCEPT ![e] = "begin"] /\ Goto(e, "copy") /\ Sound
          /\ UNCHANGED <<queue, lock>>
       \/ Fault /\ Throw(e) /\ UNCHANGED marker
    /\ UNCHANGED <<live, next, prev, effect, expected, found, owner, seen, crashes>>

(* Drop this effect's next and prev; cp begins. *)
Copy(e) ==
    /\ pc[e] = "copy"
    /\ next' = [next EXCEPT ![e] = Partial] /\ prev' = [prev EXCEPT ![e] = Missing]
    /\ Goto(e, "copying")
    /\ UNCHANGED <<live, marker, queue, lock, effect, expected, found, owner, seen, crashes, faults>>

(* cp ends, or throws and cleans nothing up. *)
CopyEnds(e) ==
    /\ pc[e] = "copying"
    /\ \/ next' = [next EXCEPT ![e] = e] /\ Goto(e, "aside") /\ Sound
          /\ UNCHANGED <<queue, lock>>
       \/ Fault /\ Throw(e) /\ UNCHANGED next
    /\ UNCHANGED <<live, prev, marker, effect, expected, found, owner, seen, crashes>>

(* Both handlers around the first rename: drop next and marker, rethrow. *)
GiveUpAside(e) ==
    /\ Fault /\ Throw(e)
    /\ next' = [next EXCEPT ![e] = Missing] /\ marker' = [marker EXCEPT ![e] = None]

(* rename(live, prev), unless there is nothing to move. *)
MoveAside(e) ==
    /\ pc[e] = "aside"
    /\ \/ live = Missing /\ Goto(e, "swap") /\ Sound /\ UNCHANGED <<disk, queue, lock>>
       \/ /\ live # Missing /\ Sound
          /\ prev' = [prev EXCEPT ![e] = live] /\ live' = Missing
          /\ Goto(e, "noteAside") /\ UNCHANGED <<next, marker, queue, lock>>
       \/ live # Missing /\ GiveUpAside(e) /\ UNCHANGED <<live, prev>>
    /\ UNCHANGED <<effect, expected, found, owner, seen, crashes>>

NoteAside(e) ==
    /\ pc[e] = "noteAside"
    /\ \/ /\ marker' = [marker EXCEPT ![e] = "aside"] /\ Goto(e, "swap")
          /\ Sound /\ UNCHANGED <<next, queue, lock>>
       \/ GiveUpAside(e)
    /\ UNCHANGED <<live, prev, effect, expected, found, owner, seen, crashes>>

(* rename(next, live) failed: move prev back, unless that rename fails as well *)
(* (works = FALSE: prev is left for reconciliation), drop next, rethrow.       *)
RollBack(e, works) ==
    /\ IF works /\ prev[e] # Missing /\ live = Missing
       THEN live' = prev[e] /\ prev' = [prev EXCEPT ![e] = Missing]
       ELSE UNCHANGED <<live, prev>>
    /\ next' = [next EXCEPT ![e] = Missing]
    /\ Throw(e) /\ UNCHANGED <<marker, seen>>

(* rename(next, live) fails where somebody has put another tree. *)
Swap(e) ==
    /\ pc[e] = "swap"
    /\ \/ /\ live = Missing /\ Sound
          /\ live' = e /\ next' = [next EXCEPT ![e] = Missing] /\ seen' = seen \cup {e}
          /\ Goto(e, "noteSwap") /\ UNCHANGED <<prev, marker, queue, lock>>
       \/ live # Missing /\ Sound /\ RollBack(e, TRUE)
       \/ Fault /\ RollBack(e, TRUE)
       \/ live = Missing /\ prev[e] # Missing /\ FaultTwice /\ RollBack(e, FALSE)
    /\ UNCHANGED <<effect, expected, found, owner, crashes>>

NoteSwap(e) ==
    /\ pc[e] = "noteSwap"
    /\ \/ /\ marker' = [marker EXCEPT ![e] = "swapped"] /\ Goto(e, "drop")
          /\ Sound /\ UNCHANGED <<live, next, prev, queue, lock, seen>>
       \/ Fault /\ RollBack(e, TRUE)
    /\ UNCHANGED <<effect, expected, found, owner, crashes>>

(* Drop the aside and the marker. *)
Drop(e) ==
    /\ pc[e] = "drop"
    /\ prev' = [prev EXCEPT ![e] = Missing] /\ marker' = [marker EXCEPT ![e] = None]
    /\ Goto(e, "leave")
    /\ UNCHANGED <<live, next, queue, lock, effect, expected, found, owner, seen, crashes, faults>>

(* The digest of what is live now; it may fail although the swap is done. *)
Leave(e) ==
    /\ pc[e] = "leave"
    /\ \/ Release /\ found' = [found EXCEPT ![e] = "applied"] /\ Goto(e, "report") /\ Sound
       \/ Fault /\ Throw(e) /\ UNCHANGED found
    /\ UNCHANGED <<disk, effect, expected, owner, seen, crashes>>

(* onPublicationApplyResult: transitionToApplied, transitionToConflict. *)
Report(e) ==
    /\ pc[e] = "report"
    /\ effect' = [effect EXCEPT ![e] =
                     IF @ \in {"candidate_ready", "applying"} THEN found[e] ELSE @]
    /\ found' = [found EXCEPT ![e] = None] /\ Goto(e, "idle")
    /\ UNCHANGED <<disk, queue, lock, expected, owner, seen, crashes, faults>>

(* The catch of mechanicalPublish, before the compare-and-set. *)
Reject(e) ==
    /\ pc[e] = "thrown" /\ effect[e] # "applying"
    /\ effect' = [effect EXCEPT ![e] = IF @ = "candidate_ready" THEN "failed" ELSE @]
    /\ Goto(e, "idle")
    /\ UNCHANGED <<disk, queue, lock, expected, found, owner, seen, crashes, faults>>

-----------------------------------------------------------------------------
(* Reconciliation: by the catch of mechanicalPublish, or by recovery for   *)
(* one applying effect after the other, nobody else being at work.         *)
Reconcile(e) ==
    /\ owner = "recovering" /\ effect[e] = "applying" /\ \A f \in Effects : pc[f] = "idle"
    /\ queue' = <<e>> /\ Goto(e, "thrown")
    /\ UNCHANGED <<disk, lock, effect, expected, found, owner, seen, crashes, faults>>

(* withLockedDir once more.  A residue throws: unknown.                    *)
Reenter(e) ==
    /\ pc[e] = "thrown" /\ effect[e] = "applying" /\ Head(queue) = e /\ Turn
    /\ \/ lock = "free" /\ lock' = e /\ Goto(e, "inspect") /\ UNCHANGED <<queue, found>>
       \/ /\ lock = "residue" /\ queue' = Tail(queue) /\ Goto(e, "settle")
          /\ found' = [found EXCEPT ![e] = "unknown"] /\ UNCHANGED lock
    /\ UNCHANGED <<disk, effect, expected, owner, seen, crashes, faults>>

(* Mutant: the marker is believed before the tree. *)
MarkerFirst(e) ==
    IF marker[e] = "swapped" THEN <<"give", "unknown">>
    ELSE IF live = e THEN <<"clean", "applied">>
    ELSE IF live = Missing /\ next[e] = e THEN <<"promote", None>>
    ELSE IF live = Missing /\ prev[e] # Missing THEN <<"restore", None>>
    ELSE IF live = expected[e] THEN <<"clean", "failed">>
    ELSE <<"give", "unknown">>

(* Mutant: a missing tree is cleaned up instead of restored. *)
CleanMissing(e) ==
    IF live = e THEN <<"clean", "applied">>
    ELSE IF marker[e] = "swapped" THEN <<"give", "unknown">>
    ELSE IF live \in {Missing, expected[e]} THEN <<"clean", "failed">>
    ELSE <<"give", "unknown">>

(* reconcilePublicationApply, in the order of its tests: the next step and *)
(* the result so far.                                                      *)
Finding(e) ==
    IF live = e THEN <<"clean", "applied">>
    ELSE IF marker[e] = "swapped" THEN <<"give", "unknown">>
    ELSE IF live = Missing /\ next[e] = e THEN <<"promote", None>>
    ELSE IF live = Missing /\ prev[e] # Missing THEN <<"restore", None>>
    ELSE IF live = expected[e] THEN <<"clean", "failed">>
    ELSE <<"give", "unknown">>

Inspect(e) ==
    /\ pc[e] = "inspect"
    /\ \/ Sound /\ Goto(e, Finding(e)[1]) /\ found' = [found EXCEPT ![e] = Finding(e)[2]]
       \/ Fault /\ Goto(e, "give") /\ found' = [found EXCEPT ![e] = "unknown"]
    /\ UNCHANGED <<disk, queue, lock, effect, expected, owner, seen, crashes>>

(* A rename of the reconciliation throws. *)
CannotTell(e) ==
    /\ (live # Missing /\ Sound) \/ Fault
    /\ Goto(e, "give") /\ found' = [found EXCEPT ![e] = "unknown"]
    /\ UNCHANGED <<live, next, prev, seen>>

(* Live is missing and next holds the candidate: complete the swap. *)
Promote(e) ==
    /\ pc[e] = "promote"
    /\ \/ /\ live = Missing /\ Sound
          /\ live' = e /\ next' = [next EXCEPT ![e] = Missing] /\ seen' = seen \cup {e}
          /\ found' = [found EXCEPT ![e] = "applied"] /\ Goto(e, "clean") /\ UNCHANGED prev
       \/ /\ live = Missing /\ Fault \* the digest after the rename
          /\ live' = e /\ next' = [next EXCEPT ![e] = Missing] /\ seen' = seen \cup {e}
          /\ found' = [found EXCEPT ![e] = "unknown"] /\ Goto(e, "clean") /\ UNCHANGED prev
       \/ CannotTell(e)
    /\ UNCHANGED <<marker, queue, lock, effect, expected, owner, crashes>>

(* Live is missing and prev holds the baseline: restore it. *)
Restore(e) ==
    /\ pc[e] = "restore"
    /\ \/ /\ live = Missing /\ Sound
          /\ live' = prev[e] /\ prev' = [prev EXCEPT ![e] = Missing]
          /\ found' = [found EXCEPT ![e] = "failed"] /\ Goto(e, "clean") /\ UNCHANGED <<next, seen>>
       \/ /\ live = Missing /\ Fault \* the digest after the rename
          /\ live' = prev[e] /\ prev' = [prev EXCEPT ![e] = Missing]
          /\ found' = [found EXCEPT ![e] = "unknown"] /\ Goto(e, "give") /\ UNCHANGED <<next, seen>>
       \/ CannotTell(e)
    /\ UNCHANGED <<marker, queue, lock, effect, expected, owner, crashes>>

(* cleanupResidue *)
Clean(e) ==
    /\ pc[e] = "clean"
    /\ next' = [next EXCEPT ![e] = Missing] /\ prev' = [prev EXCEPT ![e] = Missing]
    /\ marker' = [marker EXCEPT ![e] = None] /\ Goto(e, "give")
    /\ UNCHANGED <<live, queue, lock, effect, expected, found, owner, seen, crashes, faults>>

Give(e) ==
    /\ pc[e] = "give" /\ Release /\ Goto(e, "settle")
    /\ UNCHANGED <<disk, effect, expected, found, owner, seen, crashes, faults>>

(* Mutant: an unknown outcome is left to somebody else. *)
SettleKnown(e) ==
    /\ pc[e] = "settle"
    /\ effect' = [effect EXCEPT ![e] = IF @ = "applying" /\ found[e] # "unknown" THEN found[e] ELSE @]
    /\ found' = [found EXCEPT ![e] = None] /\ Goto(e, "idle")
    /\ UNCHANGED <<disk, queue, lock, expected, owner, seen, crashes, faults>>

(* reconcileApplyingEffect: applying -> applied, failed or unknown. *)
Settle(e) ==
    /\ pc[e] = "settle"
    /\ effect' = [effect EXCEPT ![e] = IF @ = "applying" THEN found[e] ELSE @]
    /\ found' = [found EXCEPT ![e] = None] /\ Goto(e, "idle")
    /\ UNCHANGED <<disk, queue, lock, expected, owner, seen, crashes, faults>>

-----------------------------------------------------------------------------
(* A crash; a marker that is being written can not be read any more.       *)
Crash ==
    /\ owner \in {"up", "recovering"} /\ crashes < MaxCrashes /\ crashes' = crashes + 1
    /\ \E torn \in SUBSET {e \in Effects : pc[e] \in {"mark", "noteAside", "noteSwap"}} :
          marker' = [e \in Effects |-> IF e \in torn THEN None ELSE marker[e]]
    /\ lock' = IF lock \in Effects THEN "residue" ELSE lock
    /\ pc' = [e \in Effects |-> "idle"] /\ found' = [e \in Effects |-> None]
    /\ owner' = "down" /\ queue' = <<>>
    /\ UNCHANGED <<live, next, prev, effect, expected, seen, faults>>

Open ==
    /\ owner = "down" /\ owner' = "recovering"
    /\ PromptRestart \/ lock # "residue"
    /\ UNCHANGED <<disk, queue, lock, effect, expected, pc, found, seen, crashes, faults>>

(* recoverOnOpen is over. *)
Recovered ==
    /\ owner = "recovering" /\ owner' = "up"
    /\ \A e \in Effects : effect[e] # "applying" /\ pc[e] = "idle"
    /\ UNCHANGED <<disk, queue, lock, effect, expected, pc, found, seen, crashes, faults>>

(* After PUBLISH_LOCK_STALE_MS the next one reclaims the residue. *)
AgeLock ==
    /\ lock = "residue" /\ lock' = "free"
    /\ UNCHANGED <<disk, queue, effect, expected, pc, found, owner, seen, crashes, faults>>

(* Another server publishes, or somebody replaces the Wiki by hand. *)
Edit(v) ==
    /\ v \notin seen /\ (EditsHeedLock => lock = "free")
    /\ live' = v /\ seen' = seen \cup {v}
    /\ UNCHANGED <<next, prev, marker, queue, lock, effect, expected, pc, found, owner, crashes, faults>>

Work(e) ==
    \/ Enter(e) \/ Check(e) \/ Begin(e) \/ Mark(e) \/ Copy(e) \/ CopyEnds(e) \/ MoveAside(e) \/ NoteAside(e)
    \/ Swap(e) \/ NoteSwap(e) \/ Drop(e) \/ Leave(e) \/ Report(e) \/ Reject(e)
    \/ Reconcile(e) \/ Reenter(e) \/ Inspect(e) \/ Promote(e) \/ Restore(e) \/ Clean(e)
    \/ Give(e) \/ Settle(e)

Next ==
    \/ \E e \in Effects : Prepare(e) \/ Cancel(e) \/ Call(e) \/ Work(e)
    \/ Crash \/ Open \/ Recovered \/ AgeLock
    \/ \E v \in Versions : Edit(v)

Spec == Init /\ [][Next]_vars

(* Calls to the file system return, time passes, the server comes back.    *)
FairSpec ==
    /\ Spec /\ \A e \in Effects : WF_vars(Work(e))
    /\ WF_vars(Open) /\ WF_vars(Recovered) /\ WF_vars(AgeLock)
-----------------------------------------------------------------------------
(* Properties.                                                             *)

(* The outcome of an effect is true: applied means that its candidate was  *)
(* live, and failed, conflict or cancelled that it never was, whatever     *)
(* crashes and failing calls came between (reconcilePublicationApply).     *)
OutcomeIsTrue ==
    \A e \in Effects :
        /\ effect[e] = "applied" => e \in seen
        /\ effect[e] \in {"failed", "conflict", "cancelled"} => e \notin seen

(* A published Wiki does not disappear: when nobody is at work, it is      *)
(* there, unless an outcome is reported as unknown (the aside is restored  *)
(* or the swap completed).                                                 *)
LiveRecovered ==
    owner = "up" /\ (\A e \in Effects : pc[e] = "idle") /\ seen # {}
    => live # Missing \/ \E e \in Effects : effect[e] = "unknown"

(* What is reported of an effect is true, and the published Wiki is there  *)
(* unless an outcome is reported as unknown (reconcilePublicationApply).   *)
OutcomeIsHonest == OutcomeIsTrue /\ LiveRecovered

(* "effects left in applying after a crash are reconciled": without        *)
(* failing calls and foreign publications a crash alone leaves no effect   *)
(* unknown (reconcileApplyingEffects).                                     *)
CrashesAreReconciled ==
    (\E e \in Effects : effect[e] = "unknown") => faults > 0 \/ seen \cap Versions # {}

(* An effect does not stay in applying, which nothing but reconciliation   *)
(* can leave (reconcileApplyingEffect).                                    *)
ApplyingSettles == \A e \in Effects : effect[e] = "applying" ~> effect[e] # "applying"

(* The steps implement the atomic swap: while live is missing, a reader is *)
(* owed the tree that an applying effect moved aside.                      *)
Aside == {e \in Effects : effect[e] = "applying" /\ prev[e] # Missing}
Shown == IF live = Missing /\ Aside # {} THEN prev[CHOOSE e \in Aside : TRUE] ELSE live
Outcome(s) == CASE s = None -> "none" [] s \in {"candidate_ready", "applying"} -> "pending"
                [] OTHER -> s
Abstract == INSTANCE AtomicPublish WITH
    Versions <- Versions \cup {Old}, shown <- Shown, base <- expected, committed <- Effects \cap seen,
    outcome <- [e \in Effects |-> Outcome(effect[e])]
ImplementsAtomicPublish == Abstract!Spec
=============================================================================
