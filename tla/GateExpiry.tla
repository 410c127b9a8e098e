------------------------------ MODULE GateExpiry ------------------------------
(***************************************************************************)
(* The automatic denial of gates that nobody answers                       *)
(* (gate-resolve.ts: expireStaleOpenGates; wiki-runs.ts: dispatch,         *)
(* schedule, refreshGateExpiryTimer): every command and every wake-up of   *)
(* the scheduler expires what is late before it does anything else, and    *)
(* one timer wakes the scheduler at the earliest deadline.                 *)
(*                                                                         *)
(* A run has at most one gate of kind plan, fix or publication open at a   *)
(* time here; a later one is a later number.  Time is the step from in     *)
(* time to late.  What a denial does to the run is module PublishTail.     *)
(***************************************************************************)
EXTENDS Naturals, FiniteSets

CONSTANTS
    Runs,
    MaxGates,    \* bound: gates of a run
    MaxUpsets,   \* bound: pauses, closes and crashes
    MaxWakes     \* bound: timer wake-ups in a row that settle nothing

BoundsAssumption ==
    IsFiniteSet(Runs) /\ MaxGates \in Nat /\ MaxUpsets \in Nat /\ MaxWakes \in Nat

VARIABLES
    run,      \* run[r]: "active", "paused" or "ended"
    gate,     \* gate[r]: state and decision of the last gate
    number,   \* number[r]: how many gates r has had
    late,     \* runs whose open gate is older than gateTimeoutSeconds
    timer,    \* "off", "armed" (for a deadline to come) or "due" (delay 0)
    owner,    \* whether the workspace's store is open
    idle,     \* wake-ups by the timer in a row that settled nothing
    upsets

vars == <<run, gate, number, late, timer, owner, idle, upsets>>

Open(g) == {r \in Runs : g[r] = "open"}

\* refreshGateExpiryTimer: the run's state does not matter to it.
Refresh(g, l) ==
    timer' = IF Open(g) \cap l # {} THEN "due" ELSE IF Open(g) # {} THEN "armed" ELSE "off"

\* resolveGate refuses a gate of a run that is paused, and the expiry goes on
\* to the next gate.
Overdue(g, l) == {r \in Open(g) \cap l : run[r] # "paused"}

Expired(g, l) == [r \in Runs |-> IF r \in Overdue(g, l) THEN "denied" ELSE g[r]]
Ended(g, l) == [r \in Runs |-> IF r \in Overdue(g, l) THEN "ended" ELSE run[r]]

\* A command (dispatch): expire, apply it to what is left, and schedule, which
\* expires again and sets the timer.  One that is refused throws after the
\* first of these; the events of the first ask for the timer then.

-----------------------------------------------------------------------------
\* Mutant: the timer is not asked for.
OpenGateSilently(r) ==
    /\ owner = "open" /\ run[r] = "active" /\ gate[r] # "open" /\ number[r] < MaxGates
    /\ gate' = [gate EXCEPT ![r] = "open"]
    /\ number' = [number EXCEPT ![r] = @ + 1]
    /\ late' = late \ {r}
    /\ UNCHANGED <<run, timer, owner, idle, upsets>>

\* An attempt ends and opens a gate; the event asks for a new timer.
OpenGate(r) ==
    /\ owner = "open" /\ run[r] = "active" /\ gate[r] # "open" /\ number[r] < MaxGates
    /\ gate' = [gate EXCEPT ![r] = "open"]
    /\ number' = [number EXCEPT ![r] = @ + 1]
    /\ late' = late \ {r}
    /\ Refresh(gate', late')
    /\ UNCHANGED <<run, owner, idle, upsets>>

\* The clock passes the deadline of an open gate.
Age(r) ==
    /\ r \in Open(gate) \ late
    /\ late' = late \cup {r}
    /\ timer' = IF timer = "off" THEN "off" ELSE "due"
    /\ UNCHANGED <<run, gate, number, owner, idle, upsets>>

\* Mutant: the answer is applied before what is late has expired.
AnswerFirst(r) == \E decision \in {"accepted", "denied"} :
    /\ owner = "open" /\ r \in Open(gate) /\ run[r] # "paused"
    /\ gate' = [Expired(gate, late) EXCEPT ![r] = decision]
    /\ run' = [Ended(gate, late) EXCEPT ![r] = IF decision = "denied" THEN "ended" ELSE run[r]]
    /\ Refresh(gate', late)
    /\ idle' = 0
    /\ UNCHANGED <<number, late, owner, upsets>>

\* resolve_gate of the operator.
Answer(r) == \E decision \in {"accepted", "denied"} :
    LET left == Expired(gate, late)
        taken == left[r] = "open" /\ run[r] # "paused" IN
    /\ owner = "open" /\ r \in Open(gate)
    /\ gate' = IF taken THEN [left EXCEPT ![r] = decision] ELSE left
    /\ run' = IF taken /\ decision = "denied" THEN [Ended(gate, late) EXCEPT ![r] = "ended"]
              ELSE Ended(gate, late)
    /\ Refresh(gate', late)
    /\ idle' = 0
    /\ UNCHANGED <<number, late, owner, upsets>>

\* cancel_run withdraws the gate.
CancelRun(r) ==
    LET left == Expired(gate, late) IN
    /\ owner = "open" /\ run[r] # "ended"
    /\ gate' = IF left[r] = "open" THEN [left EXCEPT ![r] = "withdrawn"] ELSE left
    /\ run' = [Ended(gate, late) EXCEPT ![r] = "ended"]
    /\ Refresh(gate', late)
    /\ idle' = 0
    /\ UNCHANGED <<number, late, owner, upsets>>

PauseRun(r) ==
    /\ owner = "open" /\ run[r] = "active" /\ upsets < MaxUpsets
    /\ gate' = Expired(gate, late)
    /\ run' = IF r \in Overdue(gate, late) THEN Ended(gate, late)
              ELSE [Ended(gate, late) EXCEPT ![r] = "paused"]
    /\ Refresh(gate', late)
    /\ upsets' = upsets + 1 /\ idle' = 0
    /\ UNCHANGED <<number, late, owner>>

\* resume_run: the gate that grew late during the pause expires in the very
\* call, by the schedule() that follows the command.
ResumeRun(r) ==
    /\ owner = "open" /\ run[r] = "paused"
    /\ LET gone == Overdue(gate, late) \cup ({r} \cap Open(gate) \cap late) IN
       /\ gate' = [q \in Runs |-> IF q \in gone THEN "denied" ELSE gate[q]]
       /\ run' = [q \in Runs |-> IF q \in gone THEN "ended"
                                 ELSE IF q = r THEN "active" ELSE run[q]]
    /\ Refresh(gate', late)
    /\ idle' = 0
    /\ UNCHANGED <<number, late, owner, upsets>>

\* The timer calls schedule().
TimerFires ==
    /\ timer = "due"
    /\ gate' = Expired(gate, late) /\ run' = Ended(gate, late)
    /\ Refresh(gate', late)
    /\ idle' = IF gate' # gate THEN 0 ELSE IF idle < MaxWakes THEN idle + 1 ELSE idle
    /\ UNCHANGED <<number, late, owner, upsets>>

\* close() or a crash: the timer is gone, the rows stay.
Stop ==
    /\ owner = "open" /\ upsets < MaxUpsets
    /\ owner' = "closed" /\ timer' = "off" /\ upsets' = upsets + 1 /\ idle' = 0
    /\ UNCHANGED <<run, gate, number, late>>

\* openWikiRuns: recover ends with schedule().
Start ==
    /\ owner = "closed"
    /\ owner' = "open"
    /\ gate' = Expired(gate, late) /\ run' = Ended(gate, late)
    /\ Refresh(gate', late)
    /\ UNCHANGED <<number, late, idle, upsets>>

Init ==
    /\ run = [r \in Runs |-> "active"] /\ gate = [r \in Runs |-> "none"]
    /\ number = [r \in Runs |-> 0] /\ late = {} /\ timer = "off"
    /\ owner = "open" /\ idle = 0 /\ upsets = 0

Next ==
    \/ \E r \in Runs : OpenGate(r) \/ Age(r) \/ Answer(r) \/ CancelRun(r) \/ PauseRun(r) \/ ResumeRun(r)
    \/ TimerFires \/ Stop \/ Start

\* Timers fire, time passes, and a stopped server is started again.
Fairness == WF_vars(TimerFires) /\ WF_vars(Start) /\ \A r \in Runs : WF_vars(Age(r))

Spec == Init /\ [][Next]_vars /\ Fairness

-----------------------------------------------------------------------------
TypeOK ==
    /\ run \in [Runs -> {"active", "paused", "ended"}]
    /\ gate \in [Runs -> {"none", "open", "accepted", "denied", "withdrawn"}]
    /\ number \in [Runs -> 0 .. MaxGates] /\ late \subseteq Runs
    /\ timer \in {"off", "armed", "due"} /\ owner \in {"open", "closed"}
    /\ idle \in 0 .. MaxWakes /\ upsets \in 0 .. MaxUpsets

\* An open gate always has somebody to end it: while the store is open the
\* timer is set for its deadline, through every command, restart and other gate.
OpenGateHasTimer ==
    owner = "open" /\ Open(gate) # {} =>
        /\ timer # "off"
        /\ Open(gate) \cap late # {} => timer = "due"

\* An answer that comes after the deadline is not accepted, even if the timer
\* has not fired: dispatch expires first.
NoLateAnswer ==
    [][\A r \in Runs : r \in late /\ gate[r] = "open" => gate'[r] # "accepted"]_vars

\* The timeout, the operator and a cancel decide a gate once: what was decided
\* stays until another gate opens.
DecidedOnce ==
    [][\A r \in Runs : gate[r] \in {"accepted", "denied", "withdrawn"} /\ gate'[r] # gate[r]
                         => number'[r] > number[r]]_vars

\* Every gate of a run that is not paused is decided in the end, also across a
\* restart and with the operator away for good.
GatesEnd ==
    \A r \in Runs : gate[r] = "open" /\ run[r] # "paused"
                      ~> gate[r] # "open" \/ run[r] = "paused"

(* What gate-resolve.ts:674 says: an idle gate expires without a poll.  A       *)
(* wake-up of the timer settles a gate; it is not followed by another one at    *)
(* once because there was nothing it could settle.                              *)
NoPolling == idle < MaxWakes
=============================================================================
