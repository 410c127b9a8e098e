------------------------ MODULE PublicationApplyProofs ------------------------
(***************************************************************************)
(* Proofs about PublicationApply, for any number of effects, foreign       *)
(* versions, crashes and failing calls: its types, that an outcome is the  *)
(* truth about the published Wiki and that the Wiki is not lost, that a    *)
(* crash alone leaves nothing unknown, and that the steps implement the    *)
(* atomic swap while nothing interferes.                                   *)
(***************************************************************************)
EXTENDS PublicationApply, SequenceTheorems, TLAPS

(* The queue in front of the lock. *)
In(q, e) == \E i \in 1 .. Len(q) : q[i] = e
Before(q, f, e) == \E i, j \in 1 .. Len(q) : i < j /\ q[i] = f /\ q[j] = e
Distinct(q) == \A i, j \in 1 .. Len(q) : q[i] = q[j] => i = j

(* Nobody waits, or one effect does. *)
LEMMA EmptyQueue ==
  /\ <<>> \in Seq(Effects) /\ Distinct(<<>>)
  /\ \A e : ~In(<<>>, e)
  BY DEF In, Distinct

(* One effect waits.                                                       *)
LEMMA SingleQueue ==
  ASSUME NEW e \in Effects
  PROVE  /\ <<e>> \in Seq(Effects) /\ Distinct(<<e>>)
         /\ <<e>> # <<>> /\ Head(<<e>>) = e
         /\ \A f : In(<<e>>, f) <=> f = e
         /\ \A f, g : ~Before(<<e>>, f, g)
  BY DEF In, Before, Distinct

(* Whoever queues up is behind all others. *)
LEMMA AppendQueue ==
  ASSUME NEW q \in Seq(Effects), Distinct(q), NEW e \in Effects, ~In(q, e)
  PROVE  /\ Append(q, e) \in Seq(Effects) /\ Distinct(Append(q, e))
         /\ Append(q, e) # <<>>
         /\ q # <<>> => Head(Append(q, e)) = Head(q)
         /\ \A f : In(Append(q, e), f) <=> In(q, f) \/ f = e
         /\ \A f, g : Before(Append(q, e), f, g) <=> Before(q, f, g) \/ (In(q, f) /\ g = e)
<1> DEFINE a == Append(q, e)
<1>1. /\ a \in Seq(Effects) /\ Len(a) = Len(q) + 1 /\ Len(q) \in Nat
      /\ a[Len(q) + 1] = e
      /\ \A i \in 1 .. Len(q) : a[i] = q[i]
  OBVIOUS
<1>2. Distinct(a)
  BY <1>1 DEF Distinct, In
<1>3. a # <<>>
  BY AppendProperties
<1>4. q # <<>> => Head(a) = Head(q)
  BY <1>1, EmptySeq
<1>5. \A f : In(a, f) <=> In(q, f) \/ f = e
  BY <1>1 DEF In
<1>6. ASSUME NEW f, NEW g PROVE Before(a, f, g) <=> Before(q, f, g) \/ (In(q, f) /\ g = e)
  <2>1. ASSUME Before(a, f, g) PROVE Before(q, f, g) \/ (In(q, f) /\ g = e)
    <3>1. PICK i \in 1 .. Len(a), j \in 1 .. Len(a) : i < j /\ a[i] = f /\ a[j] = g
      BY <2>1 DEF Before
    <3>2. i \in 1 .. Len(q) /\ q[i] = f
      BY <1>1, <3>1
    <3> QED BY <1>1, <3>1, <3>2 DEF Before, In
  <2>2. ASSUME Before(q, f, g) PROVE Before(a, f, g)
    BY <1>1, <2>2 DEF Before
  <2>3. ASSUME In(q, f), g = e PROVE Before(a, f, g)
    <3>1. PICK i \in 1 .. Len(q) : q[i] = f
      BY <2>3 DEF In
    <3> QED BY <1>1, <2>3, <3>1 DEF Before
  <2> QED BY <2>1, <2>2, <2>3
<1> QED BY <1>1, <1>2, <1>3, <1>4, <1>5, <1>6

(* The first leaves. *)
LEMMA TailQueue ==
  ASSUME NEW q \in Seq(Effects), Distinct(q), q # <<>>
  PROVE  /\ Tail(q) \in Seq(Effects) /\ Distinct(Tail(q))
         /\ \A f : In(Tail(q), f) <=> In(q, f) /\ f # Head(q)
         /\ \A f, g : Before(Tail(q), f, g) => Before(q, f, g)
<1> DEFINE t == Tail(q)
<1>1. /\ t \in Seq(Effects) /\ Len(t) = Len(q) - 1 /\ Len(q) \in Nat \ {0}
      /\ \A i \in 1 .. Len(t) : t[i] = q[i + 1]
      /\ Head(q) = q[1]
  OBVIOUS
<1>2. Distinct(t)
  BY <1>1 DEF Distinct
<1>3. ASSUME NEW f PROVE In(t, f) <=> In(q, f) /\ f # Head(q)
  <2>1. ASSUME In(t, f) PROVE In(q, f) /\ f # Head(q)
    BY <1>1, <2>1 DEF In, Distinct
  <2>2. ASSUME In(q, f), f # Head(q) PROVE In(t, f)
    <3>1. PICK i \in 1 .. Len(q) : q[i] = f
      BY <2>2 DEF In
    <3>2. i - 1 \in 1 .. Len(t) /\ t[i - 1] = f
      BY <1>1, <2>2, <3>1
    <3> QED BY <3>2 DEF In
  <2> QED BY <2>1, <2>2
<1>4. ASSUME NEW f, NEW g, Before(t, f, g) PROVE Before(q, f, g)
  <2>1. PICK i \in 1 .. Len(t), j \in 1 .. Len(t) : i < j /\ t[i] = f /\ t[j] = g
    BY <1>4 DEF Before
  <2>2. i + 1 \in 1 .. Len(q) /\ j + 1 \in 1 .. Len(q) /\ i + 1 < j + 1 /\ q[i + 1] = f /\ q[j + 1] = g
    BY <1>1, <2>1
  <2> QED BY <2>2 DEF Before
<1> QED BY <1>1, <1>2, <1>3, <1>4

(* Nobody is in front of the first, who is in front of all others. *)
LEMMA HeadQueue ==
  ASSUME NEW q \in Seq(Effects), Distinct(q)
  PROVE  /\ \A e : In(q, e) => q # <<>> /\ e \in Effects
         /\ \A e : In(q, e) /\ e # Head(q) => Before(q, Head(q), e)
         /\ \A e, f : Before(q, e, f) => In(q, e)
         /\ q # <<>> => Head(q) \in Effects /\ In(q, Head(q)) /\ \A f : ~Before(q, f, Head(q))
<1>1. \A e : In(q, e) => q # <<>> /\ e \in Effects
  BY DEF In
<1>2. ASSUME q # <<>> PROVE Head(q) \in Effects /\ In(q, Head(q)) /\ \A f : ~Before(q, f, Head(q))
  <2>1. Len(q) \in Nat \ {0} /\ Head(q) = q[1] /\ q[1] \in Effects
    BY <1>2
  <2> QED BY <2>1 DEF In, Before, Distinct
<1>3. ASSUME NEW e, In(q, e), e # Head(q) PROVE Before(q, Head(q), e)
  <2>1. PICK j \in 1 .. Len(q) : q[j] = e
    BY <1>3 DEF In
  <2>2. 1 \in 1 .. Len(q) /\ Head(q) = q[1] /\ 1 < j
    BY <1>3, <2>1
  <2> QED BY <2>1, <2>2 DEF Before
<1>4. \A e, f : Before(q, e, f) => In(q, e)
  BY DEF In, Before
<1> QED BY <1>1, <1>2, <1>3, <1>4

-----------------------------------------------------------------------------
(* Who is where.                                                           *)

Inside == {"check", "begin", "mark", "copy", "copying", "aside", "noteAside", "swap", "noteSwap",
           "drop", "leave", "inspect", "promote", "restore", "clean", "give"}
Swapping == {"mark", "copy", "copying", "aside", "noteAside", "swap", "noteSwap", "drop", "leave"}
Waits(e) == pc[e] \in Inside \cup {"queued"} \/ (pc[e] = "thrown" /\ effect[e] = "applying")

(* One effect at most is under the lock, the first of the queue; the queue *)
(* holds those who wait, each once; a result is passed on before anybody   *)
(* else enters; and recovery takes one effect after the other.             *)
LockInv ==
    /\ Distinct(queue) /\ \A e \in Effects : Waits(e) <=> In(queue, e)
    /\ \A e \in Effects : pc[e] \in Inside <=> lock = e
    /\ lock \in Effects => queue # <<>> /\ Head(queue) = lock
    /\ \A e \in Effects : pc[e] \in {"report", "settle"} => lock \notin Effects
    /\ \A e, f \in Effects :
         pc[e] \in {"report", "settle"} /\ pc[f] \in {"report", "settle"} => f = e
    /\ owner = "down" => \A e \in Effects : pc[e] = "idle"
    /\ owner = "recovering" =>
         /\ \A e \in Effects : pc[e] \in {"idle", "thrown", "settle"} \cup Reconciling
         /\ \A e \in Effects : pc[e] = "thrown" => effect[e] = "applying"
         /\ \A e, f \in Effects : pc[e] # "idle" /\ pc[f] # "idle" => e = f

(* The state of an effect goes with the step of whoever works on it.       *)
StateOf(e) ==
    /\ pc[e] \in Swapping \cup Reconciling \cup {"settle"} => effect[e] = "applying"
    /\ pc[e] \in {"queued", "check", "begin"} => effect[e] \in {"candidate_ready", "cancelled"}
    /\ pc[e] = "report" => \/ found[e] = "conflict" /\ effect[e] \in {"candidate_ready", "cancelled"}
                           \/ found[e] = "applied" /\ effect[e] = "applying"
    /\ pc[e] = "thrown" => effect[e] \in {"candidate_ready", "cancelled", "applying"}
    /\ pc[e] = "idle" /\ effect[e] = "applying" => owner # "up"
    /\ effect[e] = None => pc[e] = "idle"
    /\ pc[e] \in {"clean", "give", "settle"} => found[e] \in {"applied", "failed", "unknown"}
StateInv == \A e \in Effects : StateOf(e)

OrderInv == TypeOK /\ LockInv /\ StateInv

(* The first of the queue leaves it, for good or to queue up again.        *)
LEMMA Departure ==
  ASSUME OrderInv, NEW e \in Effects, pc[e] \in Inside \/ (In(queue, e) /\ Head(queue) = e)
  PROVE  /\ queue # <<>> /\ Head(queue) = e /\ In(queue, e)
         /\ Tail(queue) \in Seq(Effects) /\ Distinct(Tail(queue))
         /\ \A f : In(Tail(queue), f) <=> In(queue, f) /\ f # e
         /\ \A f, g : Before(Tail(queue), f, g) => Before(queue, f, g)
         /\ Append(Tail(queue), e) \in Seq(Effects) /\ Distinct(Append(Tail(queue), e))
         /\ \A f : In(Append(Tail(queue), e), f) <=> In(queue, f)
         /\ \A f, g : Before(Append(Tail(queue), e), f, g) => Before(queue, f, g) \/ g = e
<1>1. queue \in Seq(Effects) /\ Distinct(queue)
  BY DEF OrderInv, TypeOK, LockInv
<1>2. queue # <<>> /\ Head(queue) = e /\ In(queue, e)
  BY <1>1, HeadQueue DEF OrderInv, LockInv, Waits
<1>3. /\ Tail(queue) \in Seq(Effects) /\ Distinct(Tail(queue))
      /\ \A f : In(Tail(queue), f) <=> In(queue, f) /\ f # e
      /\ \A f, g : Before(Tail(queue), f, g) => Before(queue, f, g)
  BY <1>1, <1>2, TailQueue
<1>4. ~In(Tail(queue), e)
  BY <1>3
<1>5. /\ Append(Tail(queue), e) \in Seq(Effects) /\ Distinct(Append(Tail(queue), e))
      /\ \A f : In(Append(Tail(queue), e), f) <=> In(Tail(queue), f) \/ f = e
      /\ \A f, g : Before(Append(Tail(queue), e), f, g) 
           <=> Before(Tail(queue), f, g) \/ (In(Tail(queue), f) /\ g = e)
  BY <1>3, <1>4, AppendQueue
<1> QED BY <1>2, <1>3, <1>5

(* An effect queues up behind those who wait.                              *)
LEMMA Arrival ==
  ASSUME OrderInv, NEW e \in Effects, ~Waits(e)
  PROVE  /\ Append(queue, e) \in Seq(Effects) /\ Distinct(Append(queue, e)) /\ Append(queue, e) # <<>>
         /\ queue # <<>> => Head(Append(queue, e)) = Head(queue)
         /\ \A f : In(Append(queue, e), f) <=> In(queue, f) \/ f = e
         /\ \A f, g : Before(Append(queue, e), f, g) <=> Before(queue, f, g) \/ (In(queue, f) /\ g = e)
  BY AppendQueue DEF OrderInv, TypeOK, LockInv

(* Every step keeps the types. *)
LEMMA TypeNext == ASSUME TreesAssumption, BoundsAssumption, OrderInv, [Next]_vars PROVE TypeOK'
<1>t. TypeOK
  BY DEF OrderInv
<1>b. MaxCrashes \in Nat /\ MaxFaults \in Nat
  BY DEF BoundsAssumption
<1>f. Fault \/ FaultTwice \/ Sound => faults' \in 0 .. MaxFaults
  BY <1>t, <1>b DEF TypeOK, Fault, FaultTwice, Sound
<1>r. ASSUME NEW e \in Effects, pc[e] \in Inside
      PROVE  Tail(queue) \in Seq(Effects) /\ Append(Tail(queue), e) \in Seq(Effects)
  BY <1>r, Departure
<1>q. ASSUME NEW e \in Effects, pc[e] = "queued" \/ (pc[e] = "thrown" /\ effect[e] = "applying"),
             Head(queue) = e
      PROVE  Tail(queue) \in Seq(Effects)
  BY <1>q, Departure DEF OrderInv, LockInv, Waits
<1>h. ASSUME NEW e \in Effects, pc[e] \in Inside, Throw(e)
      PROVE  /\ queue' \in Seq(Effects) /\ lock' \in Effects \cup {"free", "residue"}
             /\ pc' \in [Effects -> {"idle"} \cup Applying \cup Reconciling \cup Returning]
  BY <1>h, <1>t, <1>r DEF Throw, Goto, TypeOK, Returning
<1>1. ASSUME NEW e \in Effects, Prepare(e) PROVE TypeOK'
  BY <1>1, <1>t, <1>b
     DEF Prepare, TypeOK, Goto, Trees, Phases, EffectStates, Applying, Reconciling, Returning, disk,
         None
<1>2. ASSUME NEW e \in Effects, Cancel(e) PROVE TypeOK'
  BY <1>2, <1>t, <1>b
     DEF Cancel, TypeOK, Goto, Trees, Phases, EffectStates, Applying, Reconciling, Returning, disk,
         None
<1>3. ASSUME NEW e \in Effects, Call(e) PROVE TypeOK'
  BY <1>3, <1>t, <1>b, Arrival
     DEF Call, TypeOK, Goto, Trees, Phases, EffectStates, Applying, Reconciling, Returning, disk,
         None, OrderInv, StateInv, Waits, Inside
<1>4. ASSUME NEW e \in Effects, Enter(e) PROVE TypeOK'
  BY <1>4, <1>t, <1>b, <1>q
     DEF Enter, TypeOK, Goto, Trees, Phases, EffectStates, Applying, Reconciling, Returning, disk,
         None
<1>5. ASSUME NEW e \in Effects, Check(e) PROVE TypeOK'
  BY <1>5, <1>t, <1>b, <1>f, <1>h, <1>r
     DEF Check, TypeOK, Goto, Trees, Phases, EffectStates, Applying, Reconciling, Returning, disk,
         None, Inside, Release
<1>6. ASSUME NEW e \in Effects, Begin(e) PROVE TypeOK'
  BY <1>6, <1>t, <1>b, <1>r
     DEF Begin, TypeOK, Goto, Trees, Phases, EffectStates, Applying, Reconciling, Returning, disk,
         None, Inside, Release
<1>7. ASSUME NEW e \in Effects, Mark(e) PROVE TypeOK'
  BY <1>7, <1>t, <1>b, <1>f, <1>h, <1>r
     DEF Mark, TypeOK, Goto, Trees, Phases, EffectStates, Applying, Reconciling, Returning, disk,
         None, Inside
<1>8. ASSUME NEW e \in Effects, Copy(e) PROVE TypeOK'
  BY <1>8, <1>t, <1>b
     DEF Copy, TypeOK, Goto, Trees, Phases, EffectStates, Applying, Reconciling, Returning, disk,
         None
<1>9. ASSUME NEW e \in Effects, CopyEnds(e) PROVE TypeOK'
  BY <1>9, <1>t, <1>b, <1>f, <1>h, <1>r
     DEF CopyEnds, TypeOK, Goto, Trees, Phases, EffectStates, Applying, Reconciling, Returning,
         disk, None, Inside
<1>10. ASSUME NEW e \in Effects, MoveAside(e) PROVE TypeOK'
  BY <1>10, <1>t, <1>b, <1>f, <1>h, <1>r
     DEF MoveAside, TypeOK, Goto, Trees, Phases, EffectStates, Applying, Reconciling, Returning,
         disk, None, Inside, GiveUpAside
<1>11. ASSUME NEW e \in Effects, NoteAside(e) PROVE TypeOK'
  BY <1>11, <1>t, <1>b, <1>f, <1>h, <1>r
     DEF NoteAside, TypeOK, Goto, Trees, Phases, EffectStates, Applying, Reconciling, Returning,
         disk, None, Inside, GiveUpAside
<1>12. ASSUME NEW e \in Effects, Swap(e) PROVE TypeOK'
  BY <1>12, <1>t, <1>b, <1>f, <1>h, <1>r
     DEF Swap, TypeOK, Goto, Trees, Phases, EffectStates, Applying, Reconciling, Returning, disk,
         None, Inside, RollBack
<1>13. ASSUME NEW e \in Effects, NoteSwap(e) PROVE TypeOK'
  BY <1>13, <1>t, <1>b, <1>f, <1>h, <1>r
     DEF NoteSwap, TypeOK, Goto, Trees, Phases, EffectStates, Applying, Reconciling, Returning,
         disk, None, Inside, RollBack
<1>14. ASSUME NEW e \in Effects, Drop(e) PROVE TypeOK'
  BY <1>14, <1>t, <1>b
     DEF Drop, TypeOK, Goto, Trees, Phases, EffectStates, Applying, Reconciling, Returning, disk,
         None
<1>15. ASSUME NEW e \in Effects, Leave(e) PROVE TypeOK'
  BY <1>15, <1>t, <1>b, <1>f, <1>h, <1>r
     DEF Leave, TypeOK, Goto, Trees, Phases, EffectStates, Applying, Reconciling, Returning, disk,
         None, Inside, Release
<1>16. ASSUME NEW e \in Effects, Report(e) PROVE TypeOK'
  BY <1>16, <1>t, <1>b
     DEF Report, TypeOK, Goto, Trees, Phases, EffectStates, Applying, Reconciling, Returning, disk,
         None
<1>17. ASSUME NEW e \in Effects, Reject(e) PROVE TypeOK'
  BY <1>17, <1>t, <1>b
     DEF Reject, TypeOK, Goto, Trees, Phases, EffectStates, Applying, Reconciling, Returning, disk,
         None
<1>18. ASSUME NEW e \in Effects, Reconcile(e) PROVE TypeOK'
  BY <1>18, <1>t, <1>b, SingleQueue
     DEF Reconcile, TypeOK, Goto, Trees, Phases, EffectStates, Applying, Reconciling, Returning,
         disk, None
<1>19. ASSUME NEW e \in Effects, Reenter(e) PROVE TypeOK'
  <2>1. /\ pc' \in [Effects -> {"idle"} \cup Applying \cup Reconciling \cup Returning]
        /\ found' \in [Effects -> {None, "applied", "conflict", "failed", "unknown"}]
    BY <1>19, <1>t DEF Reenter, Goto, TypeOK, Reconciling, Returning
  <2>2. queue' \in Seq(Effects) /\ lock' \in Effects \cup {"free", "residue"}
    BY <1>19, <1>t, <1>q DEF Reenter, TypeOK
  <2> QED BY <1>19, <1>t, <2>1, <2>2 DEF Reenter, TypeOK, disk
<1>20. ASSUME NEW e \in Effects, Inspect(e) PROVE TypeOK'
  BY <1>20, <1>t, <1>b, <1>f
     DEF Inspect, TypeOK, Goto, Trees, Phases, EffectStates, Applying, Reconciling, Returning, disk,
         None, Finding
<1>21. ASSUME NEW e \in Effects, Promote(e) PROVE TypeOK'
  BY <1>21, <1>t, <1>b, <1>f
     DEF Promote, TypeOK, Goto, Trees, Phases, EffectStates, Applying, Reconciling, Returning, disk,
         None, CannotTell
<1>22. ASSUME NEW e \in Effects, Restore(e) PROVE TypeOK'
  BY <1>22, <1>t, <1>b, <1>f
     DEF Restore, TypeOK, Goto, Trees, Phases, EffectStates, Applying, Reconciling, Returning, disk,
         None, CannotTell
<1>23. ASSUME NEW e \in Effects, Clean(e) PROVE TypeOK'
  BY <1>23, <1>t, <1>b
     DEF Clean, TypeOK, Goto, Trees, Phases, EffectStates, Applying, Reconciling, Returning, disk,
         None
<1>24. ASSUME NEW e \in Effects, Give(e) PROVE TypeOK'
  BY <1>24, <1>t, <1>b, <1>r
     DEF Give, TypeOK, Goto, Trees, Phases, EffectStates, Applying, Reconciling, Returning, disk,
         None, Inside, Release
<1>25. ASSUME NEW e \in Effects, Settle(e) PROVE TypeOK'
  BY <1>25, <1>t, <1>b
     DEF Settle, TypeOK, Goto, Trees, Phases, EffectStates, Applying, Reconciling, Returning, disk,
         None
<1>26. CASE Crash
  BY <1>26, <1>t, <1>b, EmptyQueue
     DEF Crash, TypeOK, Goto, Trees, Phases, EffectStates, Applying, Reconciling, Returning, disk,
         None
<1>27. CASE Open
  BY <1>27, <1>t, <1>b
     DEF Open, TypeOK, Goto, Trees, Phases, EffectStates, Applying, Reconciling, Returning, disk,
         None
<1>28. CASE Recovered
  BY <1>28, <1>t, <1>b
     DEF Recovered, TypeOK, Goto, Trees, Phases, EffectStates, Applying, Reconciling, Returning,
         disk, None
<1>29. CASE AgeLock
  BY <1>29, <1>t, <1>b
     DEF AgeLock, TypeOK, Goto, Trees, Phases, EffectStates, Applying, Reconciling, Returning, disk,
         None
<1>30. ASSUME NEW v \in Versions, Edit(v) PROVE TypeOK'
  BY <1>30, <1>t, <1>b
     DEF Edit, TypeOK, Goto, Trees, Phases, EffectStates, Applying, Reconciling, Returning, disk,
         None
<1>31. CASE UNCHANGED vars
  BY <1>31, <1>t
     DEF vars, disk, TypeOK, Goto, Trees, Phases, EffectStates, Applying, Reconciling, Returning,
         disk, None
<1> QED BY <1>1, <1>2, <1>3, <1>4, <1>5, <1>6, <1>7, <1>8, <1>9, <1>10, <1>11, <1>12, <1>13,
       <1>14, <1>15, <1>16, <1>17, <1>18, <1>19, <1>20, <1>21, <1>22, <1>23, <1>24, <1>25,
       <1>26, <1>27, <1>28, <1>29, <1>30, <1>31 DEF Next, Work


(* The steps that are taken under the lock.                                *)
UnderLock(e) ==
    \/ Check(e) \/ Begin(e) \/ Mark(e) \/ Copy(e) \/ CopyEnds(e)
    \/ MoveAside(e) \/ NoteAside(e) \/ Swap(e) \/ NoteSwap(e) \/ Drop(e) \/ Leave(e)
    \/ Inspect(e) \/ Promote(e) \/ Restore(e) \/ Clean(e) \/ Give(e)

(* A step of whoever is under the lock: further on, or out of it, for good *)
(* or to reconcile.                                                        *)
Others(e) == \A f \in Effects \ {e} : pc'[f] = pc[f] /\ effect'[f] = effect[f] /\ found'[f] = found[f]
StepsInside(e) ==
    /\ pc[e] \in Inside /\ Others(e) /\ owner' = owner
    /\ pc[e] \in Reconciling => pc'[e] \in Reconciling \cup {"settle"}
    /\ \/ pc'[e] \in Inside /\ UNCHANGED <<lock, queue>>
       \/ pc'[e] \in {"idle", "report", "settle"} /\ lock' = "free" /\ queue' = Tail(queue)
       \/ pc'[e] = "thrown" /\ effect'[e] # "applying" /\ lock' = "free" /\ queue' = Tail(queue)
       \/ pc'[e] = "thrown" /\ effect'[e] = "applying" /\ lock' = "free" /\ queue' = Append(Tail(queue), e)

(* Every step under the lock is of that kind.                              *)
LEMMA InsideSteps ==
  ASSUME OrderInv, NEW e \in Effects, UnderLock(e)
  PROVE  StepsInside(e)
<1>t. TypeOK
  BY DEF OrderInv
<1>h. ASSUME pc[e] \in Inside \ Reconciling, Throw(e), UNCHANGED <<effect, found, owner>>
      PROVE  StepsInside(e)
  BY <1>h, <1>t DEF StepsInside, Others, Throw, Goto, TypeOK
<1>1. CASE Check(e) \/ Mark(e) \/ CopyEnds(e) \/ Leave(e)
  BY <1>1, <1>t, <1>h
     DEF UnderLock, Check, Mark, CopyEnds, Leave, StepsInside, Others, Release, Goto, TypeOK, Inside,
         Reconciling
<1>2. CASE MoveAside(e) \/ NoteAside(e) \/ Swap(e) \/ NoteSwap(e)
  BY <1>2, <1>t, <1>h
     DEF MoveAside, NoteAside, Swap, NoteSwap, GiveUpAside, RollBack, StepsInside, Others, Goto,
         TypeOK, Inside, Reconciling
<1>3. CASE Begin(e) \/ Copy(e) \/ Drop(e)
  BY <1>3, <1>t
     DEF Begin, Copy, Drop, StepsInside, Others, Release, Goto, TypeOK, Inside, Reconciling
<1>4. CASE Inspect(e) \/ Clean(e) \/ Give(e)
  BY <1>4, <1>t
     DEF Inspect, Finding, Clean, Give, StepsInside, Others, Release, Goto, TypeOK, Inside,
         Reconciling
<1>5. CASE Promote(e) \/ Restore(e)
  BY <1>5, <1>t
     DEF Promote, Restore, CannotTell, StepsInside, Others, Goto, TypeOK, Inside, Reconciling
<1> QED BY <1>1, <1>2, <1>3, <1>4, <1>5 DEF UnderLock

(* Which steps are taken under the lock.                                   *)
LEMMA Places ==
  /\ "idle" \notin Inside /\ "queued" \notin Inside /\ "report" \notin Inside
  /\ "thrown" \notin Inside /\ "settle" \notin Inside
  /\ "check" \in Inside /\ "inspect" \in Reconciling /\ "check" \notin Reconciling
  /\ Reconciling \subseteq Inside /\ Swapping \subseteq Inside /\ Swapping \cap Reconciling = {}
  BY DEF Inside, Reconciling, Swapping

(* Such a step keeps order in front of the lock.                           *)
LEMMA InsideKeepsLock ==
  ASSUME TreesAssumption, OrderInv, TypeOK', NEW e \in Effects, StepsInside(e) PROVE LockInv'
<1>t. /\ TypeOK /\ LockInv /\ StateInv /\ lock = e /\ "free" \notin Effects
      /\ pc[e] \in Inside /\ Others(e) /\ owner' = owner
  BY DEF OrderInv, TreesAssumption, LockInv, StepsInside
<1>q. /\ queue # <<>> /\ Head(queue) = e /\ In(queue, e)
      /\ Distinct(Tail(queue)) /\ \A f : In(Tail(queue), f) <=> In(queue, f) /\ f # e
      /\ Distinct(Append(Tail(queue), e)) /\ \A f : In(Append(Tail(queue), e), f) <=> In(queue, f)
  BY <1>t, Departure
<1>w. \A f \in Effects \ {e} : /\ pc'[f] = pc[f] /\ pc[f] \notin Inside \cup {"report", "settle"}
                               /\ Waits(f)' <=> Waits(f)
  BY <1>t DEF LockInv, Others, Waits
<1>o. /\ owner' = "recovering" => /\ pc'[e] \in Reconciling \cup {"settle"}
                                  /\ \A f \in Effects \ {e} : pc'[f] = "idle"
      /\ owner' # "down"
  BY <1>t, <1>w, Places DEF LockInv, StepsInside
<1>1. CASE pc'[e] \in Inside /\ UNCHANGED <<lock, queue>>
  <2>1. Distinct(queue') /\ \A f \in Effects : Waits(f)' <=> In(queue', f)
    BY <1>1, <1>t, <1>q, <1>w, Places DEF LockInv, Waits
  <2> QED BY <1>1, <2>1, <1>t, <1>q, <1>w, <1>o, Places DEF LockInv
<1>2. CASE lock' = "free" /\ pc'[e] \in {"idle", "report", "settle", "thrown"}
  <2>1. Distinct(queue') /\ \A f \in Effects : Waits(f)' <=> In(queue', f)
    <3>1. CASE pc'[e] = "thrown" /\ effect'[e] = "applying" /\ queue' = Append(Tail(queue), e)
      BY <3>1, <1>t, <1>q, <1>w, Places DEF LockInv, Waits
    <3>2. CASE /\ pc'[e] \in {"idle", "report", "settle"} \/ (pc'[e] = "thrown" /\ effect'[e] # "applying")
               /\ queue' = Tail(queue)
      BY <3>2, <1>t, <1>q, <1>w, Places DEF LockInv, Waits
    <3> QED BY <1>2, <3>1, <3>2, Places DEF StepsInside
  <2> QED BY <1>2, <2>1, <1>t, <1>w, <1>o, Places DEF LockInv
<1> QED BY <1>1, <1>2 DEF StepsInside

(* Every step keeps order in front of the lock.                            *)
LEMMA LockNext ==
  ASSUME TreesAssumption, OrderInv, TypeOK', [Next]_vars PROVE LockInv'
<1>t. TypeOK /\ LockInv /\ StateInv /\ "free" \notin Effects /\ "residue" \notin Effects
  BY DEF OrderInv, TreesAssumption
<1>1. ASSUME NEW e \in Effects, Prepare(e) \/ Cancel(e) PROVE LockInv'
  <2>1. /\ UNCHANGED <<pc, queue, lock, owner>> /\ "idle" # "thrown"
        /\ \A f \in Effects : effect[f] = "applying" <=> effect'[f] = "applying"
    BY <1>1, <1>t DEF Prepare, Cancel, TypeOK, disk, None
  <2> QED BY <2>1, <1>t DEF LockInv, Waits
<1>2. ASSUME NEW e \in Effects, Call(e) PROVE LockInv'
  <2>1. /\ pc[e] = "idle" /\ pc'[e] = "queued" /\ \A f \in Effects \ {e} : pc'[f] = pc[f]
        /\ queue' = Append(queue, e) /\ owner = "up" /\ UNCHANGED <<lock, owner, effect>>
    BY <1>2, <1>t DEF Call, Goto, TypeOK
  <2>2. /\ Distinct(queue') /\ queue' # <<>> /\ (queue # <<>> => Head(queue') = Head(queue))
        /\ \A f \in Effects : In(queue', f) <=> In(queue, f) \/ f = e
    BY <2>1, Arrival, Places DEF Waits
  <2>3. \A f \in Effects : Waits(f)' <=> Waits(f) \/ f = e
    BY <2>1, Places DEF Waits
  <2> QED BY <2>1, <2>2, <2>3, <1>t, Places DEF LockInv
<1>3. ASSUME NEW e \in Effects, Enter(e) \/ Reenter(e) PROVE LockInv'
  <2>0. /\ pc[e] = "queued" \/ (pc[e] = "thrown" /\ effect[e] = "applying")
        /\ Head(queue) = e /\ Turn
        /\ \A f \in Effects \ {e} : pc'[f] = pc[f]
        /\ UNCHANGED <<effect, owner>>
    BY <1>3, <1>t DEF Enter, Reenter, Goto, TypeOK
  <2>1. /\ Waits(e) /\ Head(queue) = e /\ Turn
        /\ \A f \in Effects \ {e} : pc'[f] = pc[f]
        /\ UNCHANGED <<effect, owner>> /\ owner # "down" /\ pc[e] # "idle"
        /\ owner = "recovering" => pc[e] # "queued"
    BY <2>0, <1>t, Places DEF LockInv, Waits
  <2>2. /\ queue # <<>> /\ In(queue, e)
        /\ Distinct(Tail(queue)) /\ \A f : In(Tail(queue), f) <=> In(queue, f) /\ f # e
    BY <2>1, <1>t, Departure DEF LockInv
  <2>3. CASE lock = "free" /\ lock' = e /\ UNCHANGED queue
             /\ ((pc[e] = "queued" /\ pc'[e] = "check") \/ (pc'[e] = "inspect" /\ effect[e] = "applying"))
    <3>1. \A f \in Effects : Waits(f)' <=> Waits(f)
      BY <2>1, <2>3, Places DEF Waits
    <3>2. \A f \in Effects : pc[f] \notin Inside \cup {"report", "settle"}
      BY <2>1, <2>3, <1>t DEF LockInv, Turn
    <3>3. owner' = "recovering" => /\ pc'[e] \in Reconciling
                                   /\ \A f \in Effects \ {e} : pc'[f] = "idle"
      BY <2>0, <2>1, <2>3, <1>t, Places DEF LockInv
    <3> QED BY <2>1, <2>2, <2>3, <3>1, <3>2, <3>3, <1>t, Places DEF LockInv
  <2>4. CASE lock = "residue" /\ queue' = Tail(queue) /\ UNCHANGED lock
             /\ ((pc'[e] = "thrown" /\ effect[e] # "applying") \/ (pc'[e] = "settle" /\ effect[e] = "applying"))
    BY <2>1, <2>2, <2>4, <1>t, Places DEF LockInv, Waits, Turn
  <2> QED BY <1>3, <2>3, <2>4, <1>t
             DEF Enter, Reenter, Goto, TypeOK, StateInv, StateOf, Swapping, Reconciling
<1>4. ASSUME NEW e \in Effects, UnderLock(e) PROVE LockInv'
  BY <1>4, InsideSteps, InsideKeepsLock
<1>5. ASSUME NEW e \in Effects, Report(e) \/ Settle(e) \/ Reject(e) PROVE LockInv'
  <2>1. /\ pc[e] \in {"report", "settle", "thrown"} /\ (pc[e] = "thrown" => effect[e] # "applying")
        /\ pc'[e] = "idle" /\ \A f \in Effects \ {e} : pc'[f] = pc[f] /\ effect'[f] = effect[f]
        /\ UNCHANGED <<queue, lock, owner>>
    BY <1>5, <1>t DEF Report, Settle, Reject, Goto, TypeOK
  <2> QED BY <2>1, <1>t, Places DEF LockInv, Waits
<1>6. ASSUME NEW e \in Effects, Reconcile(e) PROVE LockInv'
  <2>1. /\ owner = "recovering" /\ effect[e] = "applying" /\ \A f \in Effects : pc[f] = "idle"
        /\ queue' = <<e>> /\ pc'[e] = "thrown" /\ \A f \in Effects \ {e} : pc'[f] = pc[f]
        /\ UNCHANGED <<lock, owner, effect>>
    BY <1>6, <1>t DEF Reconcile, Goto, TypeOK
  <2>2. Distinct(queue') /\ queue' # <<>> /\ Head(queue') = e /\ \A f \in Effects : In(queue', f) <=> f = e
    BY <2>1, SingleQueue
  <2> QED BY <2>1, <2>2, <1>t, Places DEF LockInv, Waits
<1>7. CASE Crash
  <2>1. /\ lock' \notin Effects /\ owner' = "down" /\ queue' = <<>>
        /\ \A f \in Effects : pc'[f] = "idle"
    BY <1>7, <1>t DEF Crash
  <2> QED BY <2>1, EmptyQueue, Places DEF LockInv, Waits
<1>8. CASE Open \/ Recovered \/ AgeLock \/ \E v \in Versions : Edit(v)
  <2>1. /\ UNCHANGED <<pc, queue, effect>>
        /\ lock' = lock \/ (lock = "residue" /\ lock' = "free")
        /\ owner' \in {"up", "recovering"} \/ owner' = owner
        /\ (owner' = "recovering" /\ owner' # owner) => \A f \in Effects : pc[f] = "idle"
        /\ owner' = "down" => owner = "down"
    BY <1>8, <1>t DEF Open, Recovered, AgeLock, Edit, disk, LockInv
  <2> QED BY <2>1, <1>t, Places DEF LockInv, Waits
<1>9. CASE UNCHANGED vars
  BY <1>9, <1>t DEF vars, disk, LockInv, Waits
<1> QED BY <1>1, <1>2, <1>3, <1>4, <1>5, <1>6, <1>7, <1>8, <1>9 DEF Next, Work, UnderLock

(* Every step keeps the state of each effect with what is done about it.   *)
LEMMA StateNext ==
  ASSUME TreesAssumption, OrderInv, TypeOK', LockInv', [Next]_vars PROVE StateInv'
<1>t. TypeOK /\ LockInv /\ StateInv
  BY DEF OrderInv
<1>o. ASSUME NEW e \in Effects, Others(e), owner' = owner, StateOf(e)' PROVE StateInv'
  BY <1>o, <1>t DEF Others, StateInv, StateOf
<1>h. ASSUME NEW e \in Effects, pc[e] \in Inside, Throw(e), UNCHANGED <<effect, found, owner>>
      PROVE  StateInv'
  <2>1. pc'[e] = "thrown" /\ effect'[e] = effect[e] /\ Others(e) /\ owner' = owner
    BY <1>h, <1>t DEF Throw, Goto, TypeOK, Others
  <2>2. effect[e] \in {"candidate_ready", "cancelled", "applying"}
    BY <1>h, <1>t DEF StateInv, StateOf, Inside, Swapping, Reconciling
  <2>3. StateOf(e)'
    BY <2>1, <2>2 DEF StateOf, Swapping, Reconciling, None
  <2> QED BY <1>o, <2>1, <2>3
<1>m. ASSUME NEW e \in Effects, pc[e] \in Swapping, pc'[e] \in Swapping, Others(e), UNCHANGED <<effect, owner>>
      PROVE  StateInv'
  <2>1. StateOf(e)'
    BY <1>m, <1>t DEF StateInv, StateOf, Swapping, Reconciling, None
  <2> QED BY <1>o, <1>m, <2>1
<1>1. ASSUME NEW e \in Effects, Prepare(e) \/ Cancel(e) \/ Call(e) \/ Enter(e)
      PROVE  StateInv'
  <2>1. StateOf(e)' /\ Others(e) /\ owner' = owner
    BY <1>1, <1>t
       DEF Prepare, Cancel, Call, Enter, StateInv, StateOf, Others, Goto, TypeOK, Swapping,
           Reconciling, None
  <2> QED BY <1>o, <2>1
<1>2. ASSUME NEW e \in Effects, Check(e) \/ Begin(e) \/ Leave(e) PROVE StateInv'
  <2>1. CASE Throw(e) /\ UNCHANGED <<effect, found, owner>>
    BY <1>2, <2>1, <1>h, <1>t DEF Check, Begin, Leave, Inside
  <2>2. CASE ~(Throw(e) /\ UNCHANGED <<effect, found, owner>>)
    <3>1. StateOf(e)' /\ Others(e) /\ owner' = owner
      BY <1>2, <2>2, <1>t
         DEF Check, Begin, Leave, StateInv, StateOf, Others, Goto, TypeOK, Swapping, Reconciling,
             None
    <3> QED BY <1>o, <3>1
  <2> QED BY <2>1, <2>2
<1>3. ASSUME NEW e \in Effects,
             \/ Mark(e) \/ Copy(e) \/ CopyEnds(e) \/ MoveAside(e) \/ NoteAside(e) \/ Swap(e)
             \/ NoteSwap(e) \/ Drop(e)
      PROVE  StateInv'
  <2>1. CASE Throw(e)
    BY <1>3, <2>1, <1>h, <1>t
       DEF Mark, Copy, CopyEnds, MoveAside, NoteAside, Swap, NoteSwap, Drop, Inside
  <2>2. CASE ~Throw(e)
    <3>1. /\ pc[e] \in Swapping /\ pc'[e] \in Swapping /\ Others(e) /\ UNCHANGED <<effect, owner>>
      BY <1>3, <2>2, <1>t
         DEF Mark, Copy, CopyEnds, MoveAside, NoteAside, Swap, NoteSwap, Drop, GiveUpAside,
             RollBack, Others, Goto, TypeOK, Swapping
    <3> QED BY <1>m, <3>1
  <2> QED BY <2>1, <2>2
<1>4. ASSUME NEW e \in Effects, Report(e) \/ Reject(e) \/ Settle(e)
      PROVE  StateInv'
  <2>1. StateOf(e)' /\ Others(e) /\ owner' = owner
    BY <1>4, <1>t
       DEF Report, Reject, Settle, StateInv, StateOf, Others, Goto, TypeOK, Swapping, Reconciling,
           None
  <2> QED BY <1>o, <2>1
<1>5. ASSUME NEW e \in Effects, Reconcile(e) \/ Reenter(e) \/ Inspect(e) \/ Clean(e) \/ Give(e)
      PROVE  StateInv'
  <2>1. StateOf(e)' /\ Others(e) /\ owner' = owner
    BY <1>5, <1>t
       DEF Reconcile, Reenter, Inspect, Finding, Clean, Give, StateInv, StateOf, Others, Goto,
           TypeOK, Swapping, Reconciling, None
  <2> QED BY <1>o, <2>1
<1>6. ASSUME NEW e \in Effects, Promote(e) \/ Restore(e)
      PROVE  StateInv'
  <2>1. StateOf(e)' /\ Others(e) /\ owner' = owner
    BY <1>6, <1>t
       DEF Promote, Restore, CannotTell, StateInv, StateOf, Others, Goto, TypeOK, Swapping,
           Reconciling, None
  <2> QED BY <1>o, <2>1
<1>7. CASE Crash
  BY <1>7, <1>t DEF Crash, StateInv, StateOf, Swapping, Reconciling, None
<1>8. CASE Open \/ Recovered \/ AgeLock \/ \E v \in Versions : Edit(v)
  BY <1>8, <1>t DEF Open, Recovered, AgeLock, Edit, StateInv, StateOf, disk
<1>9. CASE UNCHANGED vars
  BY <1>9, <1>t DEF vars, disk, StateInv, StateOf
<1> QED BY <1>1, <1>2, <1>3, <1>4, <1>5, <1>6, <1>7, <1>8, <1>9 DEF Next, Work, UnderLock

(* At first nobody waits and nothing applies.                              *)
LEMMA OrderInit == ASSUME TreesAssumption, BoundsAssumption, Init PROVE OrderInv
<1>1. TypeOK
  BY EmptyQueue
     DEF Init, TypeOK, TreesAssumption, BoundsAssumption, Trees, Phases, EffectStates, None
<1>2. LockInv
  BY EmptyQueue, Places DEF Init, LockInv, Waits, TreesAssumption, None
<1>3. StateInv
  BY DEF Init, StateInv, StateOf, Swapping, Reconciling, None
<1> QED BY <1>1, <1>2, <1>3 DEF OrderInv

(* Types, order and states are inductive together.                         *)
LEMMA OrderNext ==
  ASSUME TreesAssumption, BoundsAssumption, OrderInv, [Next]_vars PROVE OrderInv'
  BY TypeNext, LockNext, StateNext DEF OrderInv

(* The types of PublicationApply, in every reachable state.                *)
THEOREM TypeCorrect == ASSUME TreesAssumption, BoundsAssumption PROVE Spec => []TypeOK
<1>1. Init => OrderInv
  BY OrderInit
<1>2. OrderInv /\ [Next]_vars => OrderInv'
  BY OrderNext
<1>3. OrderInv => TypeOK
  BY DEF OrderInv
<1> QED BY <1>1, <1>2, <1>3, PTL DEF Spec

-----------------------------------------------------------------------------
(* What was live.                                                          *)

Published(e) ==
    \/ pc[e] \in {"noteSwap", "drop", "leave"}
    \/ pc[e] \in {"report", "clean", "give", "settle"} /\ found[e] = "applied"
    \/ effect[e] = "applied"
NotYet(e) ==
    \/ pc[e] \in {"mark", "copy", "copying", "aside", "noteAside", "swap"}
    \/ pc[e] \in {"clean", "give", "settle"} /\ found[e] = "failed"

(* A candidate that was live is known to have been, and while its effect   *)
(* is applying neither its baseline nor nothing takes its place.           *)
TruthOf(e) ==
    /\ expected[e] \in seen \cup {Missing} /\ prev[e] \in seen \cup {Missing}
    /\ e \in seen => effect[e] \in {"applying", "applied", "unknown"}
    /\ Published(e) => e \in seen
    /\ NotYet(e) => e \notin seen
    /\ effect[e] = "applying" /\ e \in seen => live # Missing /\ live # expected[e]
TruthInv ==
    /\ live \in seen \cup {Missing} /\ seen \subseteq Effects \cup Versions \cup {Old}
    /\ \A e \in Effects : TruthOf(e)

(* Nobody swaps while the outcome of a published candidate is open: e is   *)
(* still to be reconciled or has just swapped, and f has another baseline  *)
(* or comes later.                                                         *)
Shields(e, f) ==
    /\ pc[e] = "thrown" /\ effect[e] = "applying" /\ e \in seen /\ f # e =>
         /\ pc[f] \notin {"begin", "mark", "copy", "copying", "aside"}
         /\ pc[f] = "check" => expected[f] # live
         /\ pc[f] = "queued" /\ Before(queue, f, e) => expected[f] # live
    /\ pc[e] \in {"noteSwap", "drop", "leave"} => expected[f] # live
ShieldInv == \A e, f \in Effects : Shields(e, f)

(* A missing Wiki is somebody's aside, who has not finished.               *)
AsideOf(e) ==
    /\ \/ effect[e] \in {None, "candidate_ready", "cancelled"}
       \/ pc[e] \in {"mark", "copy", "copying", "aside"}
       \/ pc[e] \in {"give", "settle"} /\ found[e] = "failed"
       => prev[e] = Missing
    /\ pc[e] = "clean" => live # Missing \/ prev[e] = Missing
AsideInv ==
    /\ live = Missing /\ seen # {} =>
         \E e \in Effects : effect[e] = "unknown" \/ (effect[e] = "applying" /\ prev[e] # Missing)
    /\ \A e \in Effects : AsideOf(e)

HonestInv == OrderInv /\ TruthInv /\ ShieldInv /\ AsideInv

(* While e swaps, no other effect that is applying has been live.          *)
LEMMA Alone ==
  ASSUME HonestInv, NEW e \in Effects, pc[e] \in {"begin", "mark", "copy", "copying", "aside"},
         NEW f \in Effects, f # e, effect[f] = "applying", f \in seen
  PROVE  FALSE
<1>1. TypeOK /\ LockInv /\ StateInv /\ Shields(f, e)
  BY DEF HonestInv, OrderInv, ShieldInv
<1>2. pc[e] \in Inside /\ pc[e] \notin Reconciling \cup {"idle", "thrown", "settle"}
  BY DEF Inside, Reconciling
<1>3. pc[f] \notin Inside \cup {"report", "settle"} /\ lock \in Effects
  BY <1>1, <1>2 DEF LockInv
<1>4. pc[f] # "thrown"
  BY <1>1 DEF Shields
<1>5. pc[f] = "idle" \/ pc[f] = "queued"
  BY <1>1, <1>3, <1>4 DEF TypeOK, Applying, Reconciling, Returning, Inside
<1>6. pc[f] = "idle" /\ owner # "up"
  BY <1>1, <1>5 DEF StateInv, StateOf
<1>7. owner \in {"down", "recovering"}
  BY <1>1, <1>6 DEF TypeOK
<1> QED BY <1>1, <1>2, <1>7, Places DEF LockInv

(* What a step of e does to the published Wiki and its aside.              *)
MovesTree(e) ==
    \/ UNCHANGED <<live, seen, prev>>
    \/ prev' = [prev EXCEPT ![e] = Missing] /\ UNCHANGED <<live, seen>>
    \/ /\ pc[e] = "aside" /\ live # Missing
       /\ live' = Missing /\ prev' = [prev EXCEPT ![e] = live] /\ UNCHANGED seen
    \/ /\ live = Missing
       /\ live' = prev[e] /\ prev' = [prev EXCEPT ![e] = Missing] /\ UNCHANGED seen
    \/ /\ live = Missing
       /\ live' = e /\ seen' = seen \cup {e} /\ UNCHANGED prev

(* A step under the lock touches the aside of nobody else.                 *)
LEMMA TreeMoves ==
  ASSUME OrderInv, NEW e \in Effects, UnderLock(e)
  PROVE  MovesTree(e) /\ UNCHANGED expected
<1>1. CASE Check(e) \/ Begin(e) \/ Mark(e) \/ CopyEnds(e) \/ NoteAside(e) \/ Leave(e) \/ Inspect(e) \/ Give(e)
  BY <1>1 DEF Check, Begin, Mark, CopyEnds, NoteAside, Leave, Inspect, Give, MovesTree, disk
<1>2. CASE Copy(e) \/ Drop(e) \/ Clean(e)
  BY <1>2 DEF Copy, Drop, Clean, MovesTree
<1>3. CASE MoveAside(e)
  BY <1>3 DEF MoveAside, MovesTree, disk
<1>4. CASE Swap(e) \/ NoteSwap(e)
  BY <1>4 DEF Swap, NoteSwap, RollBack, MovesTree
<1>5. CASE Promote(e) \/ Restore(e)
  BY <1>5 DEF Promote, Restore, CannotTell, MovesTree
<1> QED BY <1>1, <1>2, <1>3, <1>4, <1>5 DEF UnderLock

(* ... leaves what is true of the others.                                  *)
LEMMA TruthOfOthers ==
  ASSUME TreesAssumption, HonestInv, NEW e \in Effects, Others(e), MovesTree(e), UNCHANGED expected
  PROVE  /\ seen \subseteq seen' /\ live' \in seen' \cup {Missing}
         /\ seen' \subseteq Effects \cup Versions \cup {Old}
         /\ \A f \in Effects \ {e} : TruthOf(f)'
<1>t. TypeOK /\ TruthInv
  BY DEF HonestInv, OrderInv
<1>1. /\ seen \subseteq seen' /\ live' \in seen' \cup {Missing}
      /\ seen' \subseteq Effects \cup Versions \cup {Old}
      /\ seen' \subseteq seen \cup {e}
  BY <1>t DEF MovesTree, TruthInv, TruthOf
<1>2. ASSUME NEW f \in Effects, f # e PROVE TruthOf(f)'
  <2>1. /\ pc'[f] = pc[f] /\ effect'[f] = effect[f] /\ found'[f] = found[f]
        /\ expected'[f] = expected[f] /\ prev'[f] = prev[f] /\ TruthOf(f)
    BY <1>2, <1>t DEF Others, MovesTree, TypeOK, TruthInv
  <2>2. f \in seen' <=> f \in seen
    BY <1>1, <1>2
  <2>3. effect[f] = "applying" /\ f \in seen => live' = live
    BY <1>2, <1>t, <2>1, Alone DEF MovesTree, TruthOf
  <2> QED BY <1>1, <2>1, <2>2, <2>3 DEF TruthOf, Published, NotYet
<1> QED BY <1>1, <1>2

(* Every step keeps what is known of what was live.                        *)
LEMMA TruthNext ==
  ASSUME TreesAssumption, HonestInv, OrderInv', [Next]_vars PROVE TruthInv'
<1>t. /\ TypeOK /\ StateInv /\ TruthInv /\ AsideInv
      /\ Missing \notin Effects \cup Versions /\ Old # Missing
      /\ \A e \in Effects : TruthOf(e) /\ StateOf(e)
  BY DEF HonestInv, OrderInv, TruthInv, StateInv, TreesAssumption
<1>w. ASSUME NEW e \in Effects, UnderLock(e),
             TruthOf(e)'
      PROVE  TruthInv'
  <2>1. Others(e) /\ MovesTree(e) /\ UNCHANGED expected
    BY <1>w, InsideSteps, TreeMoves DEF HonestInv, StepsInside
  <2> QED BY <2>1, <1>w, TruthOfOthers DEF TruthInv
<1>1. ASSUME NEW e \in Effects, Check(e) \/ Mark(e) \/ CopyEnds(e) \/ NoteAside(e)
      PROVE  TruthInv'
  <2>1. TruthOf(e)'
    BY <1>1, <1>t
       DEF UnderLock, Check, Mark, CopyEnds, NoteAside, GiveUpAside, Throw, Goto, TypeOK, TruthOf, StateOf,
           Published, NotYet, disk
  <2> QED BY <1>1, <1>w, <2>1 DEF UnderLock
<1>2. ASSUME NEW e \in Effects, Begin(e) \/ Copy(e) \/ Drop(e) \/ Clean(e) \/ Give(e)
      PROVE  TruthInv'
  <2>1. TruthOf(e)'
    BY <1>2, <1>t
       DEF Begin, Copy, Drop, Clean, Give, Goto, TypeOK, TruthOf, StateOf, Published, NotYet, disk
  <2> QED BY <1>2, <1>w, <2>1 DEF UnderLock
<1>3. ASSUME NEW e \in Effects, MoveAside(e)
      PROVE  TruthInv'
  <2>1. TruthOf(e)'
    BY <1>3, <1>t
       DEF MoveAside, GiveUpAside, Throw, Goto, TypeOK, TruthInv, TruthOf, StateOf, Published,
           NotYet, disk
  <2> QED BY <1>3, <1>w, <2>1 DEF UnderLock
<1>4. ASSUME NEW e \in Effects, Swap(e)
      PROVE  TruthInv'
  <2>1. TruthOf(e)'
    BY <1>4, <1>t
       DEF Swap, RollBack, Throw, Goto, TypeOK, TruthInv, TruthOf, StateOf, Swapping, Published,
           NotYet
  <2> QED BY <1>4, <1>w, <2>1 DEF UnderLock
<1>5. ASSUME NEW e \in Effects, NoteSwap(e) \/ Leave(e)
      PROVE  TruthInv'
  <2>1. TruthOf(e)'
    BY <1>5, <1>t
       DEF NoteSwap, Leave, RollBack, Throw, Goto, TypeOK, TruthInv, TruthOf, StateOf, Swapping,
           Published, NotYet, disk
  <2> QED BY <1>5, <1>w, <2>1 DEF UnderLock
<1>6. ASSUME NEW e \in Effects, Inspect(e)
      PROVE  TruthInv'
  <2>1. TruthOf(e)'
    BY <1>6, <1>t
       DEF Inspect, Finding, Goto, TypeOK, TruthInv, TruthOf, StateOf, Reconciling, Published,
           NotYet, disk, None
  <2> QED BY <1>6, <1>w, <2>1 DEF UnderLock
<1>7. ASSUME NEW e \in Effects, Promote(e) \/ Restore(e)
      PROVE  TruthInv'
  <2>1. TruthOf(e)'
    BY <1>7, <1>t
       DEF Promote, Restore, CannotTell, Goto, TypeOK, TruthInv, TruthOf, StateOf, Reconciling,
           Published, NotYet
  <2> QED BY <1>7, <1>w, <2>1 DEF UnderLock
<1>8. ASSUME NEW e \in Effects, Prepare(e) \/ Cancel(e)
      PROVE  TruthInv'
  BY <1>8, <1>t
     DEF Prepare, Cancel, TypeOK, TruthInv, TruthOf, StateOf, Published, NotYet, disk, None
<1>9. ASSUME NEW e \in Effects, Call(e) \/ Enter(e) \/ Reject(e) \/ Reconcile(e) \/ Reenter(e)
      PROVE  TruthInv'
  BY <1>9, <1>t
     DEF Call, Enter, Reject, Reconcile, Reenter, Goto, TypeOK, TruthInv, TruthOf, StateOf,
         Published, NotYet, disk, None
<1>10. ASSUME NEW e \in Effects, Report(e) \/ Settle(e)
      PROVE  TruthInv'
  BY <1>10, <1>t
     DEF Report, Settle, Goto, TypeOK, TruthInv, TruthOf, StateOf, Published, NotYet, disk, None
<1>11. CASE Crash
  BY <1>11, <1>t DEF Crash, TruthInv, TruthOf, Published, NotYet
<1>12. ASSUME NEW v \in Versions, Edit(v)
      PROVE  TruthInv'
  BY <1>12, <1>t, TreesAssumption DEF Edit, TruthInv, TruthOf, Published, NotYet, TreesAssumption
<1>13. CASE Open \/ Recovered \/ AgeLock \/ UNCHANGED vars
  BY <1>13, <1>t DEF Open, Recovered, AgeLock, vars, disk, TruthInv, TruthOf, Published, NotYet
<1> QED BY <1>1, <1>2, <1>3, <1>4, <1>5, <1>6, <1>7, <1>8, <1>9, <1>10, <1>11, <1>12, <1>13
           DEF Next, Work, UnderLock

(* The tree stays where it is while the outcome of a published one is open.*)
LEMMA TreeStays ==
  ASSUME TreesAssumption, HonestInv, NEW g \in Effects, MovesTree(g),
         NEW e \in Effects, effect[e] = "applying", e \in seen, pc[e] = "thrown"
  PROVE  live' = live
<1>1. TypeOK /\ TruthOf(e) /\ Shields(e, g)
  BY DEF HonestInv, OrderInv, TruthInv, ShieldInv
<1>2. live # Missing
  BY <1>1 DEF TruthOf
<1>3. pc[g] # "aside"
  BY <1>1 DEF Shields
<1> QED BY <1>2, <1>3 DEF MovesTree

(* Every step keeps published candidates shielded.                         *)
LEMMA ShieldNext ==
  ASSUME TreesAssumption, HonestInv, OrderInv', TruthInv', [Next]_vars PROVE ShieldInv'
<1>t. /\ TypeOK /\ LockInv /\ StateInv /\ TruthInv /\ ShieldInv
      /\ \A e \in Effects : TruthOf(e) /\ StateOf(e)
      /\ \A e, f \in Effects : Shields(e, f)
      /\ queue \in Seq(Effects) /\ Distinct(queue)
  BY DEF HonestInv, OrderInv, TruthInv, StateInv, ShieldInv, LockInv, TypeOK
<1>q. /\ \A e, f \in Effects : In(queue, e) /\ e # Head(queue) => Before(queue, Head(queue), e)
      /\ \A e, f \in Effects : Before(queue, e, f) => In(queue, e)
  BY <1>t, HeadQueue
<1>w. ASSUME NEW g \in Effects, UnderLock(g) PROVE ShieldInv'
  <2>1. StepsInside(g) /\ Others(g) /\ MovesTree(g) /\ UNCHANGED expected
    BY <1>w, InsideSteps, TreeMoves DEF HonestInv, StepsInside
  <2>2. /\ pc[g] \in Inside /\ lock = g /\ \A f \in Effects \ {g} : pc[f] \notin Inside
        /\ \A f \in Effects \ {g} : pc'[f] = pc[f] /\ effect'[f] = effect[f] /\ (f \in seen' <=> f \in seen)
    BY <2>1, <1>t DEF StepsInside, Others, LockInv, MovesTree
  <2>3. \A e, f \in Effects : Before(queue', f, e) => Before(queue, f, e) \/ e = g
    BY <2>1, <2>2, Departure DEF StepsInside, HonestInv
  <2> SUFFICES ASSUME NEW e \in Effects, NEW f \in Effects PROVE Shields(e, f)'
    BY DEF ShieldInv
  <2>4. CASE e # g
    <3>1. pc'[e] = "thrown" /\ effect'[e] = "applying" /\ e \in seen' => live' = live
      BY <2>1, <2>2, <2>4, TreeStays
    <3>2. pc'[e] \notin {"noteSwap", "drop", "leave"}
      BY <2>2, <2>4 DEF Inside
    <3>3. CASE f # g
      BY <2>1, <2>2, <2>3, <2>4, <3>1, <3>2, <3>3, <1>t DEF Shields
    <3>4. CASE f = g
      <4>1. ASSUME pc'[e] = "thrown", effect'[e] = "applying", e \in seen'
            PROVE  pc'[g] \notin {"queued", "check", "begin", "mark", "copy", "copying", "aside"}
        <5>1. Shields(e, g) /\ pc[e] = "thrown" /\ effect[e] = "applying" /\ e \in seen
          BY <2>2, <2>4, <4>1, <1>t
        <5>2. pc[g] \notin {"begin", "mark", "copy", "copying", "aside"} /\ (pc[g] = "check" => expected[g] # live)
          BY <5>1, <2>4 DEF Shields
        <5> QED BY <1>w, <5>2, <1>t
                   DEF UnderLock, Check, Begin, Mark, Copy, CopyEnds, MoveAside, NoteAside, Swap, NoteSwap,
                       Drop, Leave, Inspect, Finding, Promote, Restore, CannotTell, Clean, Give,
                       GiveUpAside, RollBack, Throw, Goto, TypeOK
      <4> QED BY <3>2, <3>4, <4>1 DEF Shields
    <3> QED BY <3>3, <3>4
  <2>5. CASE e = g
    <3>1. ASSUME pc'[g] = "thrown", effect'[g] = "applying", g \in seen', f # g
          PROVE  pc'[f] \notin Inside /\ expected'[f] # live'
      <4>1. pc[g] \in {"noteSwap", "leave"} /\ effect[g] = "applying" /\ g \in seen
        BY <1>w, <3>1, <1>t
           DEF UnderLock, Check, Begin, Mark, Copy, CopyEnds, MoveAside, NoteAside, Swap, NoteSwap, Drop,
               Leave, Inspect, Finding, Promote, Restore, CannotTell, Clean, Give, GiveUpAside,
               RollBack, Throw, Goto, TypeOK, TruthOf, StateOf, NotYet, Published, Swapping,
               Reconciling
      <4>2. expected[f] # live /\ live # Missing
        BY <4>1, <1>t DEF Shields, TruthOf
      <4>3. live' = live
        BY <2>1, <4>1, <4>2 DEF MovesTree
      <4> QED BY <2>1, <2>2, <3>1, <4>2, <4>3
    <3>2. ASSUME pc'[g] \in {"noteSwap", "drop", "leave"} PROVE expected'[f] # live'
      <4>1. CASE Swap(g)
        BY <4>1, <3>2, <1>t, TreesAssumption
           DEF Swap, RollBack, Throw, Goto, TypeOK, TruthOf, NotYet, TreesAssumption
      <4>2. CASE ~Swap(g)
        BY <4>2, <1>w, <3>2, <1>t
           DEF UnderLock, Check, Begin, Mark, Copy, CopyEnds, MoveAside, NoteAside, NoteSwap, Drop, Leave,
               Inspect, Finding, Promote, Restore, CannotTell, Clean, Give, GiveUpAside, RollBack,
               Throw, Goto, TypeOK, Shields, disk
      <4> QED BY <4>1, <4>2
    <3>3. {"check", "begin", "mark", "copy", "copying", "aside"} \subseteq Inside
      BY DEF Inside
    <3> QED BY <2>5, <3>1, <3>2, <3>3 DEF Shields
  <2> QED BY <2>4, <2>5
<1>1. ASSUME NEW g \in Effects, Prepare(g) PROVE ShieldInv'
  <2>1. /\ pc[g] = "idle" /\ effect[g] = None /\ lock = "free"
        /\ UNCHANGED <<live, seen, queue, pc>>
        /\ \A f \in Effects \ {g} : expected'[f] = expected[f] /\ effect'[f] = effect[f]
        /\ effect'[g] = "candidate_ready"
    BY <1>1, <1>t DEF Prepare, TypeOK, StateOf, disk
  <2>2. \A e \in Effects : pc[e] \notin {"noteSwap", "drop", "leave"}
    BY <2>1, <1>t, TreesAssumption DEF LockInv, Inside, TreesAssumption
  <2> QED BY <2>1, <2>2, <1>t DEF ShieldInv, Shields
<1>2. ASSUME NEW g \in Effects, Cancel(g) \/ Report(g) \/ Settle(g) \/ Reject(g) PROVE ShieldInv'
  <2>1. /\ UNCHANGED <<live, seen, queue, expected>>
        /\ \A f \in Effects : pc'[f] = pc[f] \/ pc'[f] = "idle"
        /\ \A f \in Effects : effect'[f] = "applying" => effect[f] = "applying"
    BY <1>2, <1>t DEF Cancel, Report, Settle, Reject, Goto, TypeOK, StateOf, disk
  <2> QED BY <2>1, <1>t DEF ShieldInv, Shields
<1>3. ASSUME NEW g \in Effects, Call(g) PROVE ShieldInv'
  <2>1. /\ UNCHANGED <<live, seen, effect, expected>> /\ ~Waits(g)
        /\ queue' = Append(queue, g) /\ pc'[g] = "queued" /\ \A f \in Effects \ {g} : pc'[f] = pc[f]
    BY <1>3, <1>t, Places DEF Call, Goto, TypeOK, Waits, disk
  <2>2. \A e, f \in Effects : e # g /\ Before(queue', f, e) => Before(queue, f, e)
    BY <2>1, Arrival DEF HonestInv
  <2>3. \A e \in Effects : ~Before(queue, g, e)
    BY <2>1, <1>q, <1>t DEF LockInv
  <2> QED BY <2>1, <2>2, <2>3, <1>t DEF ShieldInv, Shields
<1>4. ASSUME NEW g \in Effects, Enter(g) \/ Reenter(g) PROVE ShieldInv'
  <2>1. /\ UNCHANGED <<live, seen, effect, expected>> /\ Head(queue) = g /\ In(queue, g)
        /\ queue' = queue \/ queue' = Tail(queue)
        /\ \/ pc[g] = "queued" /\ effect[g] # "applying" /\ pc'[g] \in {"check", "thrown"}
           \/ pc'[g] \in {"inspect", "settle"}
        /\ \A f \in Effects \ {g} : pc'[f] = pc[f]
    BY <1>4, <1>t DEF Enter, Reenter, Goto, TypeOK, StateOf, LockInv, Waits, disk
  <2>2. \A e, f \in Effects : Before(queue', f, e) => Before(queue, f, e)
    BY <2>1, Departure DEF HonestInv
  <2>3. \A e \in Effects : pc[e] = "thrown" /\ effect[e] = "applying" /\ e # g => Before(queue, g, e)
    BY <2>1, <1>q, <1>t DEF LockInv, Waits
  <2> QED BY <2>1, <2>2, <2>3, <1>t DEF ShieldInv, Shields
<1>5. ASSUME NEW g \in Effects, Reconcile(g) PROVE ShieldInv'
  <2>1. /\ UNCHANGED <<live, seen, effect, expected>> /\ \A f \in Effects : pc[f] = "idle"
        /\ pc'[g] = "thrown" /\ \A f \in Effects \ {g} : pc'[f] = "idle"
    BY <1>5, <1>t DEF Reconcile, Goto, TypeOK, disk
  <2> QED BY <2>1 DEF ShieldInv, Shields
<1>6. CASE Crash
  BY <1>6 DEF Crash, ShieldInv, Shields
<1>7. ASSUME NEW v \in Versions, Edit(v) PROVE ShieldInv'
  <2>1. \A f \in Effects : expected[f] # v
    BY <1>7, <1>t, TreesAssumption DEF Edit, TruthOf, TreesAssumption
  <2>2. \A f \in Effects : f \in seen' <=> f \in seen
    BY <1>7, TreesAssumption DEF Edit, TreesAssumption
  <2> QED BY <1>7, <2>1, <2>2, <1>t DEF Edit, ShieldInv, Shields
<1>8. CASE Open \/ Recovered \/ AgeLock \/ UNCHANGED vars
  BY <1>8, <1>t DEF Open, Recovered, AgeLock, vars, disk, ShieldInv, Shields
<1> QED BY <1>w, <1>1, <1>2, <1>3, <1>4, <1>5, <1>6, <1>7, <1>8 DEF Next, Work, UnderLock

(* A missing Wiki keeps its witness unless the step is the witness' own.   *)
LEMMA AsideNext ==
  ASSUME TreesAssumption, HonestInv, OrderInv', TruthInv', [Next]_vars PROVE AsideInv'
<1>t. /\ TypeOK /\ LockInv /\ StateInv /\ TruthInv /\ AsideInv
      /\ Missing \notin Effects \cup Versions /\ None \notin {"applying", "candidate_ready", "unknown"}
      /\ \A e \in Effects : TruthOf(e) /\ StateOf(e) /\ AsideOf(e)
  BY DEF HonestInv, OrderInv, TruthInv, StateInv, AsideInv, TreesAssumption, None
<1>w. ASSUME NEW g \in Effects, UnderLock(g) PROVE AsideInv'
  <2>1. StepsInside(g) /\ Others(g) /\ MovesTree(g)
    BY <1>w, InsideSteps, TreeMoves DEF HonestInv, StepsInside
  <2>2. /\ \A f \in Effects \ {g} : /\ pc'[f] = pc[f] /\ effect'[f] = effect[f] /\ found'[f] = found[f]
                                    /\ prev'[f] = prev[f] /\ pc[f] \notin Inside
        /\ effect'[g] = effect[g] \/ effect[g] # "applying"
    BY <2>1, <1>w, <1>t
       DEF UnderLock, Others, MovesTree, TypeOK, StepsInside, LockInv, Check, Begin, Mark, Copy, CopyEnds,
           MoveAside, NoteAside, Swap, NoteSwap, Drop, Leave, Inspect, Promote, Restore, Clean, Give
  <2>3. \A f \in Effects \ {g} : AsideOf(f)'
    BY <2>2, <1>t DEF AsideOf, Inside
  <2>4. AsideOf(g)'
    <3>1. CASE Check(g) \/ Begin(g) \/ Mark(g) \/ Copy(g) \/ CopyEnds(g)
      BY <3>1, <1>t
         DEF UnderLock, Check, Begin, Mark, Copy, CopyEnds, Throw, Goto, TypeOK, AsideOf, StateOf, Swapping,
             disk
    <3>2. CASE MoveAside(g) \/ NoteAside(g) \/ Swap(g) \/ NoteSwap(g) \/ Drop(g) \/ Leave(g)
      BY <3>2, <1>t
         DEF MoveAside, NoteAside, Swap, NoteSwap, Drop, Leave, GiveUpAside, RollBack, Throw, Goto,
             TypeOK, AsideOf, StateOf, Swapping, disk
    <3>3. CASE Inspect(g) \/ Clean(g) \/ Give(g)
      BY <3>3, <1>t
         DEF Inspect, Finding, Clean, Give, Goto, TypeOK, AsideOf, StateOf, Reconciling, disk, None
    <3>4. CASE Promote(g) \/ Restore(g)
      BY <3>4, <1>t
         DEF Promote, Restore, CannotTell, Goto, TypeOK, AsideOf, StateOf, Reconciling, disk
    <3> QED BY <1>w, <3>1, <3>2, <3>3, <3>4 DEF UnderLock
  <2>5. ASSUME live' = Missing, seen' # {}
        PROVE  \E e \in Effects : effect'[e] = "unknown" \/ (effect'[e] = "applying" /\ prev'[e] # Missing)
    <3>1. CASE live = Missing /\ seen # {}
      <4>1. PICK e \in Effects : effect[e] = "unknown" \/ (effect[e] = "applying" /\ prev[e] # Missing)
        BY <3>1, <1>t DEF AsideInv
      <4>2. CASE e # g
        BY <4>1, <4>2, <2>2
      <4>3. CASE e = g /\ effect[g] = "unknown"
        BY <4>3, <1>w, <1>t
           DEF UnderLock, StateOf, Swapping, Reconciling, Check, Begin, Mark, Copy, CopyEnds, MoveAside,
               NoteAside, Swap, NoteSwap, Drop, Leave, Inspect, Promote, Restore, Clean, Give
      <4>4. CASE e = g /\ effect[g] = "applying" /\ prev[g] # Missing
        <5>1. prev'[g] # Missing
          BY <4>4, <2>5, <3>1, <1>w, <1>t
             DEF UnderLock, Check, Begin, Mark, Copy, CopyEnds, MoveAside, NoteAside, Swap, NoteSwap, Drop,
                 Leave, Inspect, Promote, Restore, CannotTell, Clean, Give, GiveUpAside, RollBack,
                 TypeOK, AsideOf, TruthOf, Published, disk
        <5> QED BY <4>4, <5>1, <2>2
      <4> QED BY <4>1, <4>2, <4>3, <4>4
    <3>2. CASE live # Missing
      <4>1. pc[g] = "aside" /\ prev'[g] = live
        BY <3>2, <2>1, <2>5, <1>t DEF MovesTree, TypeOK
      <4>2. effect[g] = "applying"
        BY <4>1, <1>t DEF StateOf, Swapping
      <4> QED BY <3>2, <4>1, <4>2, <2>2
    <3>3. CASE seen = {}
      BY <3>3, <2>1, <2>5, <1>t DEF MovesTree
    <3> QED BY <3>1, <3>2, <3>3
  <2> QED BY <2>3, <2>4, <2>5 DEF AsideInv
<1>1. ASSUME NEW g \in Effects, \/ Prepare(g) \/ Cancel(g) \/ Call(g) \/ Enter(g) \/ Reject(g) \/ Reconcile(g)
      PROVE AsideInv'
  <2>1. /\ UNCHANGED <<live, seen, prev, found>> /\ StateOf(g)'
        /\ \A f \in Effects : effect'[f] = effect[f] \/ (effect[f] \in {None, "candidate_ready", "cancelled"}
                                                       /\ effect'[f] # "applying")
        /\ \A f \in Effects : pc'[f] = pc[f] \/ pc'[f] \in {"idle", "queued", "check", "thrown"}
    BY <1>1, <1>t
       DEF Prepare, Cancel, Call, Enter, Reject, Reconcile, Goto, TypeOK, OrderInv, StateInv, disk,
           None
  <2> QED BY <2>1, <1>t DEF AsideInv, AsideOf
<1>2. ASSUME NEW g \in Effects, Reenter(g) PROVE AsideInv'
  BY <1>2, <1>t DEF Reenter, Goto, TypeOK, AsideInv, AsideOf, disk
<1>3. ASSUME NEW g \in Effects, Report(g) \/ Settle(g) PROVE AsideInv'
  <2>1. /\ UNCHANGED <<live, seen, prev>> /\ pc'[g] = "idle"
        /\ \A f \in Effects \ {g} : effect'[f] = effect[f] /\ pc'[f] = pc[f] /\ found'[f] = found[f]
        /\ effect'[g] \notin {None, "candidate_ready"} /\ (effect'[g] = "cancelled" => effect[g] = "cancelled")
    BY <1>3, <1>t DEF Report, Settle, Goto, TypeOK, StateOf, disk, None
  <2>2. \A f \in Effects : AsideOf(f)'
    BY <2>1, <1>t DEF AsideOf
  <2>3. ASSUME live = Missing, effect[g] = "applying", prev[g] # Missing
        PROVE  effect'[g] = "unknown"
    BY <1>3, <2>3, <1>t DEF Report, Settle, TypeOK, StateOf, TruthOf, Published, AsideOf
  <2>4. effect[g] # "unknown"
    BY <1>3, <1>t DEF Report, Settle, StateOf
  <2> QED BY <2>1, <2>2, <2>3, <2>4, <1>t DEF AsideInv
<1>4. CASE Crash
  BY <1>4, <1>t DEF Crash, AsideInv, AsideOf, None
<1>5. ASSUME NEW v \in Versions, Edit(v) PROVE AsideInv'
  BY <1>5, <1>t DEF Edit, AsideInv, AsideOf
<1>6. CASE Open \/ Recovered \/ AgeLock \/ UNCHANGED vars
  BY <1>6, <1>t DEF Open, Recovered, AgeLock, vars, disk, AsideInv, AsideOf
<1> QED BY <1>w, <1>1, <1>2, <1>3, <1>4, <1>5, <1>6 DEF Next, Work, UnderLock

(* At first nothing but the old Wiki has been live.                        *)
LEMMA HonestInit == ASSUME TreesAssumption, BoundsAssumption, Init PROVE HonestInv
<1>1. OrderInv
  BY OrderInit
<1>2. TruthInv
  BY DEF Init, TruthInv, TruthOf, Published, NotYet, TreesAssumption, None
<1>3. ShieldInv
  BY DEF Init, ShieldInv, Shields
<1>4. AsideInv
  BY DEF Init, AsideInv, AsideOf, None
<1> QED BY <1>1, <1>2, <1>3, <1>4 DEF HonestInv

(* The whole is inductive, whatever fails and whoever interferes.          *)
LEMMA HonestNext ==
  ASSUME TreesAssumption, BoundsAssumption, HonestInv, [Next]_vars PROVE HonestInv'
<1>1. OrderInv'
  BY OrderNext DEF HonestInv
<1>2. TruthInv'
  BY <1>1, TruthNext
<1> QED BY <1>1, <1>2, ShieldNext, AsideNext DEF HonestInv

(* The outcome of every effect is the truth about the published Wiki, and  *)
(* the Wiki is not lost, whatever crashes, failing calls and foreign       *)
(* publications come between (reconcilePublicationApply).                  *)
THEOREM HonestOutcome == ASSUME TreesAssumption, BoundsAssumption PROVE Spec => []OutcomeIsHonest
<1>1. Init => HonestInv
  BY HonestInit
<1>2. HonestInv /\ [Next]_vars => HonestInv'
  BY HonestNext
<1>3. HonestInv => OutcomeIsHonest
  <2> SUFFICES ASSUME HonestInv PROVE OutcomeIsTrue /\ LiveRecovered
    BY DEF OutcomeIsHonest
  <2>1. OutcomeIsTrue
    BY DEF HonestInv, TruthInv, TruthOf, Published, OutcomeIsTrue
  <2>2. LiveRecovered
    BY DEF HonestInv, OrderInv, StateInv, StateOf, AsideInv, LiveRecovered
  <2> QED BY <2>1, <2>2
<1> QED BY <1>1, <1>2, <1>3, PTL DEF Spec

-----------------------------------------------------------------------------
(* While nothing interferes.                                               *)

(* No call fails and nobody else publishes inside the lock, or none of     *)
(* either has happened so far.                                             *)
Steady == (EditsHeedLock /\ MaxFaults = 0) \/ (faults = 0 /\ seen \cap Versions = {})

(* Then a swap finds the tree it was approved for, puts it aside and       *)
(* completes; only a crash leaves an effect that nobody works on.          *)
SteadyOf(e) ==
    /\ owner = "up" /\ effect[e] = "applying" => pc[e] \in Swapping \cup {"report"}
    /\ pc[e] \in {"begin", "mark", "copy", "copying", "aside"} => live = expected[e]
    /\ pc[e] \in {"aside", "noteAside", "swap"} => next[e] = e
    /\ pc[e] \in {"noteAside", "swap"} => live = Missing /\ prev[e] = expected[e]
    /\ effect[e] = "applying" => prev[e] \in {Missing, expected[e]}
    /\ effect[e] = "applying" /\ live = Missing /\ next[e] = e => prev[e] = expected[e]
    /\ pc[e] = "promote" => live = Missing /\ next[e] = e
    /\ pc[e] \in {"noteSwap", "drop", "leave"} => live = e
SteadyInv ==
    Steady => /\ \A e, f \in Effects : effect[e] = "applying" /\ effect[f] = "applying" => e = f
              /\ \A e \in Effects : SteadyOf(e)

(* Faults are counted, and what was live stays in the history.            *)
FaultsGrow ==
    \/ faults' = faults
    \/ Fault /\ faults' = faults + 1
    \/ FaultTwice /\ faults' = faults + 2

LEMMA HistoryGrows ==
  ASSUME TypeOK, [Next]_vars
  PROVE  seen \subseteq seen' /\ FaultsGrow
<1>1. Fault \/ FaultTwice \/ Sound => FaultsGrow
  BY DEF Fault, FaultTwice, Sound, FaultsGrow
<1>2. ASSUME NEW e \in Effects, Work(e) PROVE seen \subseteq seen' /\ (Fault \/ FaultTwice \/ Sound)
  <2>1. CASE Enter(e) \/ Check(e) \/ Begin(e) \/ Mark(e) \/ Copy(e) \/ CopyEnds(e) \/ MoveAside(e) \/ NoteAside(e)
    BY <2>1 DEF Enter, Check, Begin, Mark, Copy, CopyEnds, MoveAside, NoteAside, GiveUpAside, Sound
  <2>2. CASE Swap(e) \/ NoteSwap(e) \/ Drop(e) \/ Leave(e) \/ Report(e) \/ Reject(e)
    BY <2>2 DEF Swap, NoteSwap, Drop, Leave, Report, Reject, RollBack, Sound
  <2>3. CASE Reconcile(e) \/ Reenter(e) \/ Inspect(e) \/ Promote(e) \/ Restore(e) \/ Clean(e) \/ Give(e) \/ Settle(e)
    BY <2>3
       DEF Reconcile, Reenter, Inspect, Promote, Restore, CannotTell, Clean, Give, Settle, Sound
  <2> QED BY <1>2, <2>1, <2>2, <2>3 DEF Work
<1>6. ASSUME NEW e \in Effects, Work(e) PROVE seen \subseteq seen' /\ FaultsGrow
  BY <1>1, <1>2, <1>6
<1>3. ASSUME NEW e \in Effects, Prepare(e) \/ Cancel(e) \/ Call(e)
      PROVE  seen \subseteq seen' /\ FaultsGrow
  BY <1>3 DEF Prepare, Cancel, Call, FaultsGrow
<1>4. ASSUME Crash \/ Open \/ Recovered \/ AgeLock \/ UNCHANGED vars
      PROVE  seen \subseteq seen' /\ FaultsGrow
  BY <1>4 DEF Crash, Open, Recovered, AgeLock, vars, FaultsGrow
<1>5. ASSUME NEW v \in Versions, Edit(v) PROVE seen \subseteq seen' /\ FaultsGrow
  BY <1>5 DEF Edit, FaultsGrow
<1> QED BY <1>3, <1>4, <1>5, <1>6 DEF Next

(* A step that leaves things steady is no failing call, and no publication *)
(* of others inside the lock.                                              *)
LEMMA SteadyStep ==
  ASSUME BoundsAssumption, TypeOK, Steady', [Next]_vars
  PROVE  Steady /\ ~Fault /\ ~FaultTwice /\ UNCHANGED faults /\ \A v \in Versions : Edit(v) => lock = "free"
<1>1. seen \subseteq seen' /\ FaultsGrow
  BY HistoryGrows
<1>2. faults \in Nat
  BY DEF TypeOK, BoundsAssumption
<1>3. Steady
  BY <1>1, <1>2 DEF Steady, FaultsGrow
<1>4. ~Fault /\ ~FaultTwice
  BY <1>2 DEF Fault, FaultTwice, Steady, TypeOK, BoundsAssumption
<1>5. \A v \in Versions : Edit(v) => lock = "free"
  BY DEF Edit, Steady
<1> QED BY <1>1, <1>3, <1>4, <1>5 DEF FaultsGrow

(* Nobody else applies while an effect is under the lock.                  *)
LEMMA NobodyElse ==
  ASSUME HonestInv, Steady, SteadyInv, NEW g \in Effects, pc[g] \in Inside, NEW f \in Effects, f # g
  PROVE  pc[f] \notin Inside \cup {"report", "settle"} /\ effect[f] # "applying"
<1>t. /\ TypeOK /\ LockInv /\ StateOf(g) /\ SteadyOf(f)
      /\ effect[f] = "applying" /\ effect[g] = "applying" => f = g
  BY DEF HonestInv, OrderInv, StateInv, SteadyInv
<1>1. pc[f] \notin Inside \cup {"report", "settle"}
  BY <1>t, Places DEF LockInv
<1>2. ASSUME effect[f] = "applying" PROVE FALSE
  <2>1. owner # "up"
    BY <1>2, <1>1, <1>t, Places DEF SteadyOf
  <2>2. owner = "recovering"
    BY <2>1, <1>t, Places DEF LockInv, TypeOK
  <2>3. pc[g] \in Reconciling
    BY <2>2, <1>t, Places DEF LockInv
  <2>4. effect[g] = "applying"
    BY <2>3, <1>t DEF StateOf
  <2> QED BY <2>4, <1>2, <1>t
<1> QED BY <1>1, <1>2

(* A step under the lock leaves its own effect steady, and nobody else     *)
(* applies.                                                                *)
LEMMA SteadyInside ==
  ASSUME TreesAssumption, BoundsAssumption, HonestInv, Steady, SteadyInv, ~Fault, ~FaultTwice, NEW g \in Effects, UnderLock(g)
  PROVE  /\ Others(g) /\ owner' = owner /\ UNCHANGED expected
         /\ \A f \in Effects \ {g} : effect'[f] # "applying" /\ pc'[f] \notin Inside \cup {"settle"}
         /\ \A f \in Effects : SteadyOf(f)'
<1>t. /\ TypeOK /\ LockInv /\ StateOf(g) /\ AsideOf(g) /\ SteadyOf(g) /\ TruthOf(g)
      /\ Missing \notin Effects /\ Partial \notin Effects
  BY DEF HonestInv, OrderInv, StateInv, AsideInv, TruthInv, SteadyInv, TreesAssumption
<1>1. StepsInside(g) /\ Others(g) /\ owner' = owner /\ UNCHANGED expected /\ pc[g] \in Inside
  BY InsideSteps, TreeMoves DEF HonestInv, StepsInside
<1>2. \A f \in Effects \ {g} : /\ effect'[f] = effect[f] /\ effect[f] # "applying"
                               /\ pc'[f] = pc[f] /\ pc[f] \notin Inside \cup {"settle"}
  BY <1>1, NobodyElse DEF Others
<1>3. \A f \in Effects \ {g} : SteadyOf(f)'
  BY <1>2 DEF SteadyOf, Inside
<1>4. SteadyOf(g)'
  <2>1. CASE Check(g) \/ Mark(g) \/ CopyEnds(g)
    BY <2>1, <1>t
       DEF UnderLock, Check, Mark, CopyEnds, Goto, TypeOK, SteadyOf, AsideOf, StateOf, Swapping, disk
  <2>2. CASE Begin(g)
    <3>1. owner = "up"
      BY <2>2, <1>1, <1>t, Places DEF Begin, LockInv, TypeOK, Reconciling
    <3>2. prev[g] = Missing
      BY <2>2, <1>t DEF Begin, AsideOf, StateOf
    <3> QED BY <2>2, <3>1, <3>2, <1>1, <1>t DEF Begin, Goto, TypeOK, SteadyOf, Swapping, disk
  <2>3. CASE Copy(g) \/ Drop(g) \/ NoteAside(g) \/ NoteSwap(g) \/ Leave(g)
    BY <2>3, <1>t
       DEF Copy, Drop, NoteAside, NoteSwap, Leave, GiveUpAside, Goto, TypeOK, SteadyOf, Swapping,
           disk
  <2>4. CASE MoveAside(g)
    BY <2>4, <1>t DEF MoveAside, GiveUpAside, Goto, TypeOK, SteadyOf, AsideOf, Swapping, disk
  <2>5. CASE Swap(g)
    BY <2>5, <1>t DEF Swap, Goto, TypeOK, SteadyOf, Swapping
  <2>6. CASE Inspect(g) \/ Clean(g) \/ Give(g)
    <3>1. owner # "up"
      BY <2>6, <1>t DEF Inspect, Clean, Give, SteadyOf, StateOf, Swapping, Reconciling
    <3> QED BY <2>6, <3>1, <1>1, <1>t
               DEF Inspect, Finding, Clean, Give, Goto, TypeOK, SteadyOf, StateOf, disk
  <2>7. CASE Promote(g) \/ Restore(g)
    <3>1. owner # "up"
      BY <2>7, <1>t DEF Promote, Restore, SteadyOf, StateOf, Swapping, Reconciling
    <3> QED BY <2>7, <3>1, <1>1, <1>t
               DEF Promote, Restore, CannotTell, Goto, TypeOK, SteadyOf, StateOf, Reconciling
  <2> QED BY <2>1, <2>2, <2>3, <2>4, <2>5, <2>6, <2>7 DEF UnderLock
<1> QED BY <1>1, <1>2, <1>3, <1>4

(* Every step keeps the swap steady.                                       *)
LEMMA SteadyNext ==
  ASSUME TreesAssumption, BoundsAssumption, HonestInv, SteadyInv, [Next]_vars PROVE SteadyInv'
<1> SUFFICES ASSUME Steady'
             PROVE  /\ \A e, f \in Effects : effect'[e] = "applying" /\ effect'[f] = "applying" => e = f
                    /\ \A e \in Effects : SteadyOf(e)'
  BY DEF SteadyInv
<1> DEFINE Goal == /\ \A e, f \in Effects : effect'[e] = "applying" /\ effect'[f] = "applying" => e = f
                   /\ \A e \in Effects : SteadyOf(e)'
<1>s. Steady /\ ~Fault /\ ~FaultTwice /\ \A v \in Versions : Edit(v) => lock = "free"
  BY SteadyStep DEF HonestInv, OrderInv
<1>t. /\ TypeOK /\ LockInv
      /\ \A e \in Effects : StateOf(e) /\ SteadyOf(e)
      /\ \A e, f \in Effects : effect[e] = "applying" /\ effect[f] = "applying" => e = f
  BY <1>s DEF HonestInv, OrderInv, StateInv, SteadyInv
<1>1. ASSUME NEW g \in Effects, UnderLock(g) PROVE Goal
  BY <1>1, <1>s, SteadyInside
<1>2. ASSUME NEW g \in Effects, Prepare(g) PROVE Goal
  BY <1>2, <1>t DEF Prepare, TypeOK, StateOf, SteadyOf, disk
<1>3. ASSUME NEW g \in Effects, Cancel(g) \/ Report(g) \/ Reject(g) \/ Settle(g) PROVE Goal
  <2>1. /\ UNCHANGED <<live, next, prev, expected, owner>>
        /\ \A f \in Effects : pc'[f] = pc[f] \/ pc'[f] = "idle"
        /\ \A f \in Effects : effect'[f] = "applying" => effect[f] = "applying" /\ pc'[f] = pc[f]
    BY <1>3, <1>t DEF Cancel, Report, Reject, Settle, Goto, TypeOK, StateOf, disk
  <2> QED BY <2>1, <1>t DEF SteadyOf
<1>4. ASSUME NEW g \in Effects, Call(g) \/ Enter(g) PROVE Goal
  <2>1. /\ UNCHANGED <<live, next, prev, expected, owner, effect>> /\ effect[g] # "applying"
        /\ \A f \in Effects \ {g} : pc'[f] = pc[f]
        /\ pc'[g] \in {"queued", "check", "thrown"}
    BY <1>4, <1>t DEF Call, Enter, Goto, TypeOK, StateOf, disk
  <2> QED BY <2>1, <1>t DEF SteadyOf
<1>5. ASSUME NEW g \in Effects, Reconcile(g) \/ Reenter(g) PROVE Goal
  <2>1. /\ UNCHANGED <<live, next, prev, expected, owner, effect>> /\ owner # "up"
        /\ \A f \in Effects \ {g} : pc'[f] = pc[f]
        /\ pc'[g] \in {"thrown", "inspect", "settle"}
    BY <1>5, <1>t DEF Reconcile, Reenter, Goto, TypeOK, SteadyOf, Swapping, disk
  <2> QED BY <2>1, <1>t DEF SteadyOf
<1>6. CASE Crash
  BY <1>6, <1>t DEF Crash, SteadyOf
<1>7. CASE Open \/ Recovered \/ AgeLock \/ UNCHANGED vars
  BY <1>7, <1>t DEF Open, Recovered, AgeLock, vars, disk, SteadyOf
<1>8. ASSUME NEW v \in Versions, Edit(v) PROVE Goal
  <2>1. lock = "free" /\ live' = v /\ v # Missing
    BY <1>8, <1>s, TreesAssumption DEF Edit, TreesAssumption
  <2>2. \A e \in Effects : pc[e] \notin Inside
    BY <2>1, <1>t, TreesAssumption DEF LockInv, TreesAssumption
  <2> QED BY <1>8, <2>1, <2>2, <1>t DEF Edit, SteadyOf, Inside
<1> QED BY <1>1, <1>2, <1>3, <1>4, <1>5, <1>6, <1>7, <1>8 DEF Next, Work, UnderLock

-----------------------------------------------------------------------------
(* While there are crashes only.                                           *)

(* No call has failed, nobody else has published, and a server that comes  *)
(* back waits until the lock of the crashed one is stale.                  *)
Calm == faults = 0 /\ seen \cap Versions = {} /\ ~PromptRestart

(* Then what a crash leaves behind is one of the states reconciliation     *)
(* knows: the candidate is live, the baseline is, or next still holds the  *)
(* candidate.                                                              *)
CalmOf(e) ==
    /\ effect[e] # "unknown" /\ found[e] # "unknown"
    /\ effect[e] = "applying" => live \in {e, expected[e]} \/ (live = Missing /\ next[e] = e)
    /\ effect[e] = "applying" /\ marker[e] = "swapped" => live = e
    /\ effect[e] \in {None, "candidate_ready", "cancelled"} => marker[e] = None
    /\ pc[e] \in {"clean", "give", "settle"} => live \in {e, expected[e]}
    /\ pc[e] # "restore"
CalmInv ==
    Calm => /\ owner # "down" => lock # "residue"
            /\ \A e \in Effects : CalmOf(e)

(* A step under the lock leaves what reconciliation knows.                 *)
LEMMA CalmInside ==
  ASSUME TreesAssumption, BoundsAssumption, HonestInv, Steady, SteadyInv, ~Fault, ~FaultTwice, NEW g \in Effects,
         \A f \in Effects : CalmOf(f), UnderLock(g)
  PROVE  \A f \in Effects : CalmOf(f)'
<1>t. /\ TypeOK /\ StateOf(g) /\ AsideOf(g) /\ SteadyOf(g) /\ CalmOf(g)
      /\ Missing \notin Effects /\ Partial \notin Effects
      /\ SteadyOf(g)' /\ Others(g) /\ UNCHANGED expected
      /\ \A f \in Effects \ {g} : effect'[f] # "applying" /\ pc'[f] \notin Inside \cup {"settle"}
  BY SteadyInside DEF HonestInv, OrderInv, StateInv, AsideInv, SteadyInv, TreesAssumption
<1>1. \A f \in Effects \ {g} : marker'[f] = marker[f]
  BY <1>t
     DEF TypeOK, disk, UnderLock, Check, Begin, Mark, Copy, CopyEnds, MoveAside, NoteAside, Swap, NoteSwap,
         Drop, Leave, Inspect, Promote, Restore, Clean, Give, GiveUpAside, RollBack
<1>2. \A f \in Effects \ {g} : CalmOf(f)'
  BY <1>t, <1>1 DEF CalmOf, Others, Inside
<1>3. CalmOf(g)'
  <2>1. CASE Check(g) \/ Mark(g) \/ CopyEnds(g)
    BY <2>1, <1>t
       DEF UnderLock, Check, Mark, CopyEnds, Goto, TypeOK, SteadyOf, CalmOf, StateOf, Swapping, disk, None
  <2>2. CASE Begin(g) \/ Copy(g)
    BY <2>2, <1>t DEF Begin, Copy, Goto, TypeOK, SteadyOf, CalmOf, StateOf, Swapping, disk, None
  <2>3. CASE MoveAside(g) \/ NoteAside(g)
    <3>1. live # g
      BY <2>3, <1>t DEF MoveAside, NoteAside, NotYet, HonestInv, TruthInv, TruthOf
    <3> QED BY <2>3, <3>1, <1>t
               DEF MoveAside, NoteAside, GiveUpAside, Goto, TypeOK, SteadyOf, CalmOf, StateOf,
                   Swapping, disk, None
  <2>4. CASE Swap(g) \/ NoteSwap(g)
    <3>1. CASE Swap(g)
      <4>1. live = Missing
        BY <3>1, <1>t DEF Swap, SteadyOf, StateOf, Swapping
      <4>2. marker' = marker /\ live' = g /\ pc' = [pc EXCEPT ![g] = "noteSwap"] /\ effect' = effect
        BY <3>1, <4>1 DEF Swap, Goto
      <4> QED BY <3>1, <4>2, <1>t DEF Swap, TypeOK, SteadyOf, CalmOf, StateOf, Swapping, None
    <3>2. CASE NoteSwap(g)
      BY <3>2, <1>t DEF NoteSwap, Goto, TypeOK, SteadyOf, CalmOf, StateOf, Swapping, None
    <3> QED BY <2>4, <3>1, <3>2
  <2>5. CASE Drop(g) \/ Leave(g)
    BY <2>5, <1>t DEF Drop, Leave, Goto, TypeOK, SteadyOf, CalmOf, StateOf, Swapping, disk, None
  <2>6. CASE Inspect(g)
    <3>1. /\ effect[g] = "applying"
          /\ Finding(g) \in {<<"clean", "applied">>, <<"promote", None>>, <<"clean", "failed">>}
          /\ (Finding(g)[1] = "clean" => live \in {g, expected[g]})
      BY <2>6, <1>t DEF Inspect, Finding, SteadyOf, CalmOf, StateOf, Reconciling
    <3> QED BY <2>6, <3>1, <1>t DEF Inspect, Goto, TypeOK, CalmOf, disk, None
  <2>7. CASE Promote(g) \/ Restore(g)
    BY <2>7, <1>t
       DEF Promote, Restore, CannotTell, Goto, TypeOK, SteadyOf, CalmOf, StateOf, Reconciling, None
  <2>8. CASE Clean(g) \/ Give(g)
    BY <2>8, <1>t DEF Clean, Give, Goto, TypeOK, CalmOf, StateOf, Reconciling, disk, None
  <2> QED BY <2>1, <2>2, <2>3, <2>4, <2>5, <2>6, <2>7, <2>8 DEF UnderLock
<1> QED BY <1>2, <1>3

(* Every step does, a crash above all.                                     *)
LEMMA CalmNext ==
  ASSUME TreesAssumption, BoundsAssumption, HonestInv, SteadyInv, CalmInv, [Next]_vars
  PROVE  CalmInv'
<1> DEFINE Goal == /\ owner' # "down" => lock' # "residue"
                   /\ \A e \in Effects : CalmOf(e)'
<1> SUFFICES ASSUME Calm' PROVE Goal
  BY DEF CalmInv
<1>s. Steady /\ ~Fault /\ ~FaultTwice /\ Calm /\ \A v \in Versions : ~Edit(v)
  <2>1. TypeOK /\ Steady'
    BY DEF Calm, Steady, HonestInv, OrderInv
  <2>2. Steady /\ ~Fault /\ ~FaultTwice /\ UNCHANGED faults /\ seen \subseteq seen'
    BY <2>1, SteadyStep, HistoryGrows
  <2>3. \A v \in Versions : ~Edit(v)
    BY DEF Edit, Calm
  <2> QED BY <2>2, <2>3 DEF Calm
<1>t. /\ TypeOK /\ LockInv
      /\ \A e \in Effects : StateOf(e) /\ SteadyOf(e) /\ CalmOf(e)
      /\ owner # "down" => lock # "residue"
      /\ "residue" \notin Effects
  BY <1>s DEF HonestInv, OrderInv, StateInv, SteadyInv, CalmInv, TreesAssumption
<1>1. ASSUME NEW g \in Effects, UnderLock(g) PROVE Goal
  <2>1. \A e \in Effects : CalmOf(e)'
    BY <1>1, <1>s, <1>t, CalmInside
  <2>2. lock' # "residue" \/ owner' = "down"
    <3>1. StepsInside(g)
      BY <1>1, InsideSteps DEF HonestInv
    <3>2. lock = g
      BY <3>1, <1>t DEF StepsInside, LockInv
    <3> QED BY <3>1, <3>2, <1>t DEF StepsInside
  <2> QED BY <2>1, <2>2
<1>2. ASSUME NEW g \in Effects, Prepare(g) \/ Cancel(g) PROVE Goal
  BY <1>2, <1>t DEF Prepare, Cancel, TypeOK, StateOf, CalmOf, disk, None
<1>3. ASSUME NEW g \in Effects, Report(g) \/ Reject(g) PROVE Goal
  BY <1>3, <1>t DEF Report, Reject, Goto, TypeOK, StateOf, CalmOf, disk, None
<1>4. ASSUME NEW g \in Effects, Settle(g) PROVE Goal
  BY <1>4, <1>t DEF Settle, Goto, TypeOK, StateOf, CalmOf, disk, None
<1>5. ASSUME NEW g \in Effects, Call(g) \/ Enter(g) \/ Reconcile(g) PROVE Goal
  BY <1>5, <1>t DEF Call, Enter, Reconcile, Goto, TypeOK, CalmOf, disk
<1>6. ASSUME NEW g \in Effects, Reenter(g) PROVE Goal
  <2>1. owner # "down"
    BY <1>6, <1>t DEF Reenter, LockInv
  <2> QED BY <1>6, <2>1, <1>t DEF Reenter, Goto, TypeOK, CalmOf, disk
<1>7. CASE Crash
  BY <1>7, <1>t DEF Crash, CalmOf, None
<1>8. CASE Open \/ Recovered \/ AgeLock \/ UNCHANGED vars
  BY <1>8, <1>s, <1>t DEF Open, Recovered, AgeLock, vars, disk, Calm, CalmOf
<1> QED BY <1>s, <1>1, <1>2, <1>3, <1>4, <1>5, <1>6, <1>7, <1>8 DEF Next, Work, UnderLock

(* A server that waits until the lock of the crashed one is stale leaves   *)
(* no effect unknown, unless a call fails or somebody else publishes.      *)
THEOREM CrashesReconciled ==
  ASSUME TreesAssumption, BoundsAssumption, ~PromptRestart PROVE Spec => []CrashesAreReconciled
<1> DEFINE IInv == HonestInv /\ SteadyInv /\ CalmInv
<1>1. Init => IInv
  <2> SUFFICES ASSUME Init PROVE SteadyInv /\ CalmInv
    BY HonestInit
  <2> QED BY DEF Init, SteadyInv, SteadyOf, CalmInv, CalmOf, None
<1>2. IInv /\ [Next]_vars => IInv'
  BY HonestNext, SteadyNext, CalmNext
<1>3. IInv => CrashesAreReconciled
  BY DEF HonestInv, OrderInv, TypeOK, CalmInv, Calm, CalmOf, BoundsAssumption, CrashesAreReconciled
<1> QED BY <1>1, <1>2, <1>3, PTL DEF Spec

-----------------------------------------------------------------------------
(* The steps implement the atomic swap.                                    *)

(* The aside that a reader is owed, where one effect applies at most.      *)
LEMMA ShownBy ==
  ASSUME NEW g \in Effects, \A f \in Effects \ {g} : effect[f] # "applying"
  PROVE  Shown = IF live = Missing /\ effect[g] = "applying" /\ prev[g] # Missing THEN prev[g] ELSE live
<1>1. CASE effect[g] = "applying" /\ prev[g] # Missing
  <2>1. Aside = {g}
    BY <1>1 DEF Aside
  <2>2. (CHOOSE e \in {g} : TRUE) = g
    OBVIOUS
  <2> QED BY <1>1, <2>1, <2>2 DEF Shown
<1>2. CASE ~(effect[g] = "applying" /\ prev[g] # Missing)
  <2>1. Aside = {}
    BY <1>2 DEF Aside
  <2> QED BY <1>2, <2>1 DEF Shown
<1> QED BY <1>1, <1>2

(* The same of the next state.                                             *)
LEMMA ShownByNext ==
  ASSUME NEW g \in Effects, \A f \in Effects \ {g} : effect'[f] # "applying"
  PROVE  Shown' = IF live' = Missing /\ effect'[g] = "applying" /\ prev'[g] # Missing THEN prev'[g] ELSE live'
<1>1. CASE effect'[g] = "applying" /\ prev'[g] # Missing
  <2>1. Aside' = {g}
    BY <1>1 DEF Aside
  <2>2. (CHOOSE e \in {g} : TRUE) = g
    OBVIOUS
  <2> QED BY <1>1, <2>1, <2>2 DEF Shown
<1>2. CASE ~(effect'[g] = "applying" /\ prev'[g] # Missing)
  <2>1. Aside' = {}
    BY <1>2 DEF Aside
  <2> QED BY <1>2, <2>1 DEF Shown
<1> QED BY <1>1, <1>2

(* What the abstract specification does not see, and what it does.         *)
Quiet ==
    /\ Shown' = Shown /\ expected' = expected /\ Effects \cap seen' = Effects \cap seen
    /\ \A f \in Effects : Outcome(effect'[f]) = Outcome(effect[f])
Commits(g) ==
    /\ Shown = expected[g] /\ Shown' = g /\ effect[g] = "applying" /\ effect' = effect
    /\ expected' = expected /\ g \notin seen /\ seen' = seen \cup {g}
Reports(g, o) ==
    /\ effect[g] \in {"candidate_ready", "applying"} /\ effect' = [effect EXCEPT ![g] = o]
    /\ o \in {"applied", "failed", "conflict", "cancelled", "unknown"} /\ Abstract!Truthful(g, o)
    /\ Shown' = Shown \/ (o = "unknown" /\ Shown' = Missing)
    /\ expected' = expected /\ seen' = seen

(* A step that nobody sees is a stutter of the abstract specification.     *)
LEMMA QuietStutters == ASSUME Quiet PROVE UNCHANGED Abstract!vars
<1>1. [e \in Effects |-> Outcome(effect[e])]' = [e \in Effects |-> Outcome(effect[e])]
  BY DEF Quiet
<1> QED BY <1>1 DEF Quiet, Abstract!vars

(* A candidate that becomes visible is a commit.                           *)
LEMMA CommitsCommit == ASSUME NEW g \in Effects, Commits(g) PROVE Abstract!Commit(g)
<1>1. Outcome(effect[g]) = "pending"
  BY DEF Commits, Outcome, None
<1>2. Effects \cap seen' = (Effects \cap seen) \cup {g} /\ g \notin Effects \cap seen
  BY DEF Commits
<1> QED BY <1>1, <1>2 DEF Commits, Abstract!Commit

(* An outcome that is stored is a report.                                  *)
LEMMA ReportsReport ==
  ASSUME TypeOK, NEW g \in Effects, NEW o, Reports(g, o) PROVE Abstract!Next
<1>1. Outcome(effect[g]) = "pending" /\ Outcome(o) = o
  BY DEF Reports, Outcome, None
<1>2. [e \in Effects |-> Outcome(effect[e])]'
          = [[e \in Effects |-> Outcome(effect[e])] EXCEPT ![g] = o]
  BY <1>1 DEF Reports, TypeOK
<1>3. Abstract!Report(g, o)
  BY <1>1, <1>2 DEF Reports, Abstract!Report
<1> QED BY <1>3 DEF Abstract!Next, Reports

(* Under the lock: a commit, or nothing a reader sees.                     *)
LEMMA InsideRefines ==
  ASSUME TreesAssumption, BoundsAssumption, HonestInv, Steady, SteadyInv, ~Fault, ~FaultTwice, NEW g \in Effects, UnderLock(g)
  PROVE  Quiet \/ Commits(g)
<1>t. /\ TypeOK /\ StateOf(g) /\ AsideOf(g) /\ SteadyOf(g) /\ TruthOf(g)
      /\ Missing \notin Effects /\ Others(g) /\ UNCHANGED expected
  BY SteadyInside DEF HonestInv, OrderInv, StateInv, AsideInv, TruthInv, SteadyInv, TreesAssumption
<1>1. pc[g] \in Inside /\ \A f \in Effects \ {g} : effect'[f] # "applying" /\ effect'[f] = effect[f]
  BY SteadyInside, InsideSteps DEF HonestInv, StepsInside, Others
<1>2. /\ Shown = IF live = Missing /\ effect[g] = "applying" /\ prev[g] # Missing THEN prev[g] ELSE live
      /\ Shown' = IF live' = Missing /\ effect'[g] = "applying" /\ prev'[g] # Missing THEN prev'[g] ELSE live'
  BY <1>1, ShownBy, ShownByNext
<1>3. CASE Swap(g) \/ Promote(g)
  <2>1. effect' = effect /\ effect[g] = "applying"
    BY <1>3, <1>t DEF Swap, Promote, StateOf, Swapping, Reconciling
  <2>2. live = Missing /\ g \notin seen /\ live' = g /\ seen' = seen \cup {g}
    BY <1>3, <1>t, <2>1 DEF Swap, Promote, CannotTell, SteadyOf, TruthOf, Sound
  <2>3. Shown = expected[g]
    BY <1>3, <1>t, <1>2, <2>1, <2>2 DEF Swap, Promote, SteadyOf
  <2> QED BY <1>2, <1>t, <2>1, <2>2, <2>3 DEF Commits
<1>4. CASE ~(Swap(g) \/ Promote(g))
  <2>1. seen' = seen
    BY <1>4
       DEF UnderLock, Check, Begin, Mark, Copy, CopyEnds, MoveAside, NoteAside, NoteSwap, RollBack, Drop,
           Leave, Inspect, Restore, CannotTell, Clean, Give
  <2>2. effect'[g] = effect[g] \/ (effect[g] = "candidate_ready" /\ effect'[g] = "applying" /\ pc[g] = "begin")
    BY <1>4, <1>t
       DEF UnderLock, Check, Begin, Mark, Copy, CopyEnds, MoveAside, NoteAside, NoteSwap, RollBack, Drop,
           Leave, Inspect, Restore, CannotTell, Clean, Give, TypeOK
  <2>3. \A f \in Effects : Outcome(effect'[f]) = Outcome(effect[f])
    BY <1>1, <2>2 DEF Outcome, None
  <2>4. Shown' = Shown
    <3>1. CASE Check(g) \/ Mark(g) \/ CopyEnds(g) \/ NoteAside(g) \/ NoteSwap(g) \/ Leave(g) \/ Inspect(g) \/ Give(g)
      BY <3>1, <1>2
         DEF UnderLock, Check, Mark, CopyEnds, NoteAside, GiveUpAside, NoteSwap, Leave, Inspect, Give, disk
    <3>2. CASE Begin(g)
      BY <3>2, <1>t, <1>2 DEF Begin, AsideOf, StateOf, disk
    <3>3. CASE Copy(g) \/ Drop(g) \/ Clean(g)
      BY <3>3, <1>t, <1>2 DEF Copy, Drop, Clean, AsideOf, SteadyOf, TypeOK
    <3>4. CASE MoveAside(g)
      BY <3>4, <1>t, <1>2 DEF MoveAside, GiveUpAside, StateOf, Swapping, TypeOK, disk
    <3>5. CASE Restore(g)
      BY <3>5, <1>t, <1>2 DEF Restore, CannotTell, StateOf, Reconciling, TypeOK
    <3> QED BY <1>4, <3>1, <3>2, <3>3, <3>4, <3>5 DEF UnderLock
  <2> QED BY <1>t, <2>1, <2>3, <2>4 DEF Quiet
<1> QED BY <1>3, <1>4

(* Every step is one of the abstract specification, or a stutter.          *)
LEMMA NextRefines ==
  ASSUME TreesAssumption, BoundsAssumption, HonestInv, Steady, Steady', SteadyInv, [Next]_vars
  PROVE  [Abstract!Next]_(Abstract!vars)
<1>s. ~Fault /\ ~FaultTwice /\ \A v \in Versions : Edit(v) => lock = "free"
  BY SteadyStep DEF HonestInv, OrderInv
<1>t. /\ TypeOK /\ LockInv /\ "free" \notin Effects
      /\ Missing \notin Effects \cup Versions /\ Effects \cap Versions = {}
      /\ \A e \in Effects : StateOf(e) /\ SteadyOf(e) /\ TruthOf(e) /\ AsideOf(e)
      /\ \A e, f \in Effects : effect[e] = "applying" /\ effect[f] = "applying" => e = f
  BY DEF HonestInv, OrderInv, StateInv, TruthInv, AsideInv, SteadyInv, TreesAssumption
<1>q. Quiet => UNCHANGED Abstract!vars
  BY QuietStutters
<1>r. \A g \in Effects : \A o : Reports(g, o) => Abstract!Next
  BY <1>t, ReportsReport
<1>k. ASSUME UNCHANGED <<live, prev>>,
             \A f \in Effects : effect'[f] = "applying" <=> effect[f] = "applying"
      PROVE  Shown' = Shown
  <2>1. Aside' = Aside
    BY <1>k DEF Aside
  <2> QED BY <1>k, <2>1 DEF Shown
<1>1. ASSUME NEW g \in Effects, UnderLock(g) PROVE [Abstract!Next]_(Abstract!vars)
  BY <1>1, <1>q, <1>s, InsideRefines, CommitsCommit DEF Abstract!Next
<1>2. ASSUME NEW g \in Effects, Prepare(g) PROVE Abstract!Next
  <2>1. \A f \in Effects : effect[f] # "applying" /\ effect'[f] # "applying"
    BY <1>2, <1>t, Places DEF Prepare, Turn, SteadyOf, LockInv, TypeOK
  <2>2. Shown = live /\ Shown' = live
    BY <2>1, <1>2, ShownBy, ShownByNext DEF Prepare, disk
  <2>3. [e \in Effects |-> Outcome(effect[e])]'
          = [[e \in Effects |-> Outcome(effect[e])] EXCEPT ![g] = "pending"]
    <3>1. Outcome("candidate_ready") = "pending"
      BY DEF Outcome, None
    <3>2. effect' = [effect EXCEPT ![g] = "candidate_ready"]
      BY <1>2 DEF Prepare
    <3> QED BY <3>1, <3>2, <1>t DEF TypeOK
  <2>4. Outcome(effect[g]) = "none"
    BY <1>2 DEF Prepare, Outcome, None
  <2>5. Abstract!Prepare(g)
    BY <1>2, <2>2, <2>3, <2>4 DEF Prepare, Abstract!Prepare
  <2> QED BY <2>5 DEF Abstract!Next
<1>3. ASSUME NEW g \in Effects, Cancel(g) PROVE Abstract!Next
  <2>1. Reports(g, "cancelled")
    BY <1>3, <1>t, <1>k DEF Cancel, Reports, TypeOK, TruthOf, Abstract!Truthful, disk
  <2> QED BY <2>1, <1>r
<1>4. ASSUME NEW g \in Effects, Reject(g) PROVE [Abstract!Next]_(Abstract!vars)
  <2>1. CASE effect[g] = "candidate_ready"
    <3>1. Reports(g, "failed")
      BY <1>4, <2>1, <1>t, <1>k DEF Reject, Reports, TypeOK, TruthOf, Abstract!Truthful, disk
    <3> QED BY <3>1, <1>r
  <2>2. CASE effect[g] # "candidate_ready"
    BY <1>4, <2>2, <1>t, <1>k, <1>q DEF Reject, Quiet, TypeOK, disk
  <2> QED BY <2>1, <2>2
<1>5. ASSUME NEW g \in Effects, Report(g) PROVE [Abstract!Next]_(Abstract!vars)
  <2>1. CASE effect[g] = "candidate_ready"
    <3>1. Reports(g, "conflict")
      BY <1>5, <2>1, <1>t, <1>k
         DEF Report, Reports, TypeOK, StateOf, TruthOf, Abstract!Truthful, disk
    <3> QED BY <3>1, <1>r
  <2>2. CASE effect[g] = "applying"
    <3>1. /\ found[g] = "applied" /\ effect' = [effect EXCEPT ![g] = "applied"] /\ g \in seen
          /\ UNCHANGED <<live, prev, seen, expected>>
      BY <1>5, <2>2, <1>t DEF Report, StateOf, TruthOf, Published, disk
    <3>2. live # Missing
      BY <3>1, <2>2, <1>t DEF TruthOf
    <3>3. Shown' = Shown
      BY <3>1, <3>2 DEF Shown
    <3>4. Reports(g, "applied")
      BY <2>2, <3>1, <3>3 DEF Reports, Abstract!Truthful
    <3> QED BY <3>4, <1>r
  <2>3. CASE effect[g] \notin {"candidate_ready", "applying"}
    BY <1>5, <2>3, <1>t, <1>k, <1>q DEF Report, Quiet, TypeOK, disk
  <2> QED BY <2>1, <2>2, <2>3
<1>6. ASSUME NEW g \in Effects, Settle(g) PROVE Abstract!Next
  <2>1. /\ effect[g] = "applying" /\ effect' = [effect EXCEPT ![g] = found[g]]
        /\ found[g] \in {"applied", "failed", "unknown"} /\ UNCHANGED <<live, prev, seen, expected>>
    BY <1>6, <1>t DEF Settle, StateOf, disk
  <2>2. \A f \in Effects : effect'[f] # "applying"
    BY <2>1, <1>t DEF TypeOK
  <2>3. Shown' = live
    BY <2>1, <2>2, ShownByNext
  <2>4. /\ Shown = IF live = Missing /\ prev[g] # Missing THEN prev[g] ELSE live
    BY <2>1, <1>t, ShownBy
  <2>5. found[g] \in {"applied", "failed"} => Shown = live
    BY <1>6, <2>1, <2>4, <1>t DEF Settle, TruthOf, Published, AsideOf
  <2>6. Abstract!Truthful(g, found[g])
    BY <1>6, <2>1, <1>t DEF Settle, TruthOf, Published, NotYet, Abstract!Truthful
  <2>7. Reports(g, found[g])
    BY <2>1, <2>3, <2>4, <2>5, <2>6 DEF Reports
  <2> QED BY <2>7, <1>r
<1>7. ASSUME NEW g \in Effects, Call(g) \/ Enter(g) \/ Reconcile(g) \/ Reenter(g)
      PROVE  UNCHANGED Abstract!vars
  BY <1>7, <1>k, <1>q DEF Call, Enter, Reconcile, Reenter, Quiet, disk
<1>8. CASE Crash \/ Open \/ Recovered \/ AgeLock \/ UNCHANGED vars
  BY <1>8, <1>k, <1>q DEF Crash, Open, Recovered, AgeLock, vars, Quiet, disk
<1>9. ASSUME NEW v \in Versions, Edit(v) PROVE Abstract!Next
  <2>1. /\ live' = v /\ v # Missing /\ v \notin Effects
        /\ UNCHANGED <<expected, effect>> /\ seen' = seen \cup {v}
    BY <1>9, <1>t DEF Edit
  <2>2. Shown' = v
    BY <2>1 DEF Shown
  <2>3. Effects \cap seen' = Effects \cap seen
    BY <2>1
  <2>4. Abstract!Replace(v)
    BY <2>1, <2>2, <2>3 DEF Abstract!Replace
  <2> QED BY <2>4 DEF Abstract!Next
<1> QED BY <1>1, <1>2, <1>3, <1>4, <1>5, <1>6, <1>7, <1>8, <1>9 DEF Next, Work, UnderLock

(* While no call fails and others keep to the lock, every behaviour is one *)
(* of the atomic swap, whatever crashes come between (applyPublication     *)
(* with its reconciliation).                                               *)
THEOREM SwapIsAtomic ==
  ASSUME TreesAssumption, BoundsAssumption, EditsHeedLock, MaxFaults = 0
  PROVE  Spec => ImplementsAtomicPublish
<1> DEFINE IInv == HonestInv /\ SteadyInv
<1>1. Init => IInv
  <2> SUFFICES ASSUME Init PROVE SteadyInv
    BY HonestInit
  <2> QED BY DEF Init, SteadyInv, SteadyOf, None
<1>2. IInv /\ [Next]_vars => IInv'
  BY HonestNext, SteadyNext
<1>3. Init => Abstract!Init
  <2> SUFFICES ASSUME Init PROVE Abstract!Init
    OBVIOUS
  <2>1. Shown = live
    BY DEF Init, Shown, Aside, None
  <2>2. Effects \cap seen = {}
    BY DEF Init, TreesAssumption
  <2>3. [e \in Effects |-> Outcome(effect[e])] = [e \in Effects |-> "none"]
    BY DEF Init, Outcome, None
  <2> QED BY <2>1, <2>2, <2>3 DEF Init, Abstract!Init
<1>4. IInv /\ [Next]_vars => [Abstract!Next]_(Abstract!vars)
  BY NextRefines DEF Steady
<1> QED BY <1>1, <1>2, <1>3, <1>4, PTL DEF Spec, ImplementsAtomicPublish, Abstract!Spec
===============================================================================
