----------------------------- MODULE AtomicPublish -----------------------------
(***************************************************************************)
(* What a publication promises (ADR 0035): the sealed candidate replaces   *)
(* the approved baseline in one step or not at all, and the outcome that   *)
(* is reported tells which.  Others may replace the published Wiki too;    *)
(* then the effect does not apply any more.                                *)
(***************************************************************************)
CONSTANTS
    Effects,   \* publication effects; an effect stands for its candidate tree
    Versions,  \* trees published by others
    Missing    \* no tree

VARIABLES
    shown,     \* the tree a reader is owed
    base,      \* base[e]: the baseline that was approved with e
    committed, \* the effects whose candidate has been shown
    outcome    \* outcome[e]: what is reported of e

vars == <<shown, base, committed, outcome>>

Init ==
    /\ shown \in Versions \cup {Missing}
    /\ base = [e \in Effects |-> Missing]
    /\ committed = {} /\ outcome = [e \in Effects |-> "none"]

(* A candidate is sealed against what is shown. *)
Prepare(e) ==
    /\ outcome[e] = "none"
    /\ base' = [base EXCEPT ![e] = shown]
    /\ outcome' = [outcome EXCEPT ![e] = "pending"]
    /\ UNCHANGED <<shown, committed>>

(* The candidate replaces the baseline it was approved for. *)
Commit(e) ==
    /\ outcome[e] = "pending" /\ e \notin committed /\ shown = base[e]
    /\ shown' = e /\ committed' = committed \cup {e}
    /\ UNCHANGED <<base, outcome>>

Truthful(e, o) ==
    \/ o = "applied" /\ e \in committed
    \/ o \in {"failed", "conflict", "cancelled"} /\ e \notin committed
    \/ o = "unknown"

(* An unknown outcome promises nothing of the tree either. *)
Report(e, o) ==
    /\ outcome[e] = "pending" /\ Truthful(e, o)
    /\ outcome' = [outcome EXCEPT ![e] = o]
    /\ shown' \in IF o = "unknown" THEN {shown, Missing} ELSE {shown}
    /\ UNCHANGED <<base, committed>>

Replace(v) == shown' = v /\ UNCHANGED <<base, committed, outcome>>

Next ==
    \/ \E e \in Effects :
          \/ Prepare(e) \/ Commit(e)
          \/ \E o \in {"applied", "failed", "conflict", "cancelled", "unknown"} : Report(e, o)
    \/ \E v \in Versions : Replace(v)

Spec == Init /\ [][Next]_vars
=============================================================================
