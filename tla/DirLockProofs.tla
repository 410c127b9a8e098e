---------------------------- MODULE DirLockProofs ----------------------------
(***************************************************************************)
(* Proofs about DirLock, for any number of calls and processes: the chain  *)
(* of a process serves its calls in order; the lock excludes when no lock  *)
(* grows old, and it excludes inside one server whatever grows old.        *)
(***************************************************************************)
EXTENDS DirLock, TLAPS

Unsettled(j) == pc[j] \in Working \cup {"queued"}

(* Every call has a seat of its own. *)
Seats ==
    /\ \A j \in Jobs : pc[j] # "new" => seat[j] < calls
    /\ \A i, j \in Jobs : pc[i] # "new" /\ pc[j] # "new" /\ seat[i] = seat[j] => i = j

(* While a call of a process is pending, its tail is the last such call. *)
TailIsLast ==
    \A j \in Jobs : Unsettled(j) =>
        \E t \in Jobs : /\ t = tail[ProcessOf[j]] /\ ProcessOf[t] = ProcessOf[j]
                       /\ Unsettled(t) /\ seat[j] <= seat[t]

(* A pending call is chained to the last pending one before it. *)
Chained ==
    \A i, j \in Jobs :
        /\ Unsettled(i) /\ Unsettled(j)
        /\ ProcessOf[i] = ProcessOf[j] /\ seat[i] < seat[j]
        => \E b \in Jobs : /\ b = after[j] /\ ProcessOf[b] = ProcessOf[j]
                          /\ Unsettled(b) /\ seat[i] <= seat[b]

QInv == TypeOK /\ Seats /\ TailIsLast /\ Chained /\ ServedInOrder

LEMMA InitQ == Init => QInv
<1> SUFFICES ASSUME Init PROVE QInv
  OBVIOUS
<1>1. TypeOK
  <2>1. crashes \in 0 .. MaxCrashes
    BY JobsAssumption DEF Init
  <2>2. pc \in [Jobs -> {"new", "queued"} \cup Working \cup Settled]
    BY DEF Init
  <2>3. after \in [Jobs -> Jobs \cup {None}] /\ tail \in [Processes -> Jobs \cup {None}]
    BY DEF Init
  <2>4. seat \in [Jobs -> Nat]
    BY DEF Init
  <2> QED BY <2>1, <2>2, <2>3, <2>4 DEF Init, TypeOK
<1>2. \A j \in Jobs : pc[j] = "new" /\ ~Unsettled(j)
  BY DEF Init, Unsettled, Working
<1>3. Seats /\ TailIsLast /\ Chained /\ ServedInOrder
  BY <1>2 DEF Seats, TailIsLast, Chained, ServedInOrder, Unsettled, Working
<1> QED BY <1>1, <1>3 DEF QInv

LEMMA NextType == TypeOK /\ [Next]_vars => TypeOK'
<1> SUFFICES ASSUME TypeOK, [Next]_vars PROVE TypeOK'
  OBVIOUS
<1>1. ASSUME NEW j \in Jobs, Call(j) PROVE TypeOK'
  <2>1. ProcessOf[j] \in Processes
    BY JobsAssumption
  <2>2. tail[ProcessOf[j]] \in Jobs \cup {None}
    BY <2>1 DEF TypeOK
  <2>3. pc' \in [Jobs -> {"new", "queued"} \cup Working \cup Settled]
    BY <1>1 DEF TypeOK, Call
  <2>4. after' \in [Jobs -> Jobs \cup {None}] /\ tail' \in [Processes -> Jobs \cup {None}]
    BY <1>1, <2>1, <2>2 DEF TypeOK, Call
  <2>5. seat' \in [Jobs -> Nat] /\ calls' \in Nat
    BY <1>1 DEF TypeOK, Call
  <2> QED BY <1>1, <2>3, <2>4, <2>5 DEF TypeOK, Call
<1>2. ASSUME NEW j \in Jobs, Step(j) PROVE TypeOK'
  BY <1>2 DEF TypeOK, Step, Acquire, Stat, Reclaim, Retry, Finish, Leave, Make, Working, Settled
<1>3. ASSUME NEW p \in Processes, Crash(p) PROVE TypeOK'
  BY <1>3, JobsAssumption DEF TypeOK, Crash, Working, Settled
<1>4. ASSUME NEW p \in Processes, NEW j \in Jobs, Forget(p, j) PROVE TypeOK'
  BY <1>4 DEF TypeOK, Forget
<1>5. CASE Age
  BY <1>5 DEF TypeOK, Age
<1>6. CASE UNCHANGED vars
  BY <1>6 DEF TypeOK, vars
<1> QED BY <1>1, <1>2, <1>3, <1>4, <1>5, <1>6 DEF Next

(* A step of a call changes its own place only: it becomes working when it *)
(* is its turn, keeps working, or settles.                                 *)
LEMMA StepMoves ==
  ASSUME QInv, NEW j \in Jobs, Step(j)
  PROVE  /\ \A i \in Jobs \ {j} : pc'[i] = pc[i]
         /\ pc'[j] \in Working \cup Settled
         /\ pc[j] \in Working \/ (pc[j] = "queued" /\ MyTurn(j))
         /\ UNCHANGED <<after, tail, seat, calls>>
  BY DEF QInv, TypeOK, Step, Acquire, Stat, Reclaim, Retry, Finish, Leave, Make, Working, Settled

(* Whoever steps is the first pending call of its process. *)
LEMMA StepperIsFirst ==
  ASSUME QInv, NEW j \in Jobs, Step(j), NEW i \in Jobs, Unsettled(i), ProcessOf[i] = ProcessOf[j]
  PROVE  Unsettled(j) /\ seat[j] <= seat[i]
<1>1. Unsettled(j)
  BY StepMoves DEF Unsettled
<1>2. CASE pc[j] \in Working
  BY <1>1, <1>2 DEF QInv, ServedInOrder, Unsettled
<1>3. CASE pc[j] = "queued" /\ MyTurn(j)
  <2> SUFFICES ASSUME seat[i] < seat[j] PROVE FALSE
    BY <1>1 DEF QInv, TypeOK
  <2>1. after[j] \in Jobs /\ Unsettled(after[j])
    BY <1>1 DEF QInv, Chained
  <2> QED BY <1>3, <2>1 DEF MyTurn, Unsettled, Working, Settled
<1> QED BY <1>1, <1>2, <1>3, StepMoves

LEMMA StepQ ==
  ASSUME QInv, TypeOK', NEW j \in Jobs, Step(j)
  PROVE  QInv'
<1>0. /\ \A i \in Jobs \ {j} : pc'[i] = pc[i]
      /\ pc'[j] \in Working \cup Settled
      /\ UNCHANGED <<after, tail, seat, calls>>
      /\ Unsettled(j)
  BY StepMoves DEF Unsettled
<1>1. \A i \in Jobs : Unsettled(i)' => Unsettled(i)
  BY <1>0 DEF Unsettled
<1>2. \A i \in Jobs : Unsettled(i) /\ ProcessOf[i] = ProcessOf[j]
                      => seat[j] <= seat[i] /\ (i # j => seat[j] < seat[i])
  <2> SUFFICES ASSUME NEW i \in Jobs, Unsettled(i), ProcessOf[i] = ProcessOf[j]
               PROVE  seat[j] <= seat[i] /\ (i # j => seat[j] < seat[i])
    OBVIOUS
  <2>1. seat[j] <= seat[i]
    BY StepperIsFirst
  <2>2. pc[i] # "new" /\ pc[j] # "new"
    BY <1>0 DEF Unsettled, Working
  <2>3. i # j => seat[i] # seat[j]
    BY <2>2 DEF QInv, Seats
  <2> QED BY <2>1, <2>3 DEF QInv, TypeOK
<1>3. \A i \in Jobs : Unsettled(i) /\ i # j => Unsettled(i)'
  BY <1>0 DEF Unsettled
<1>4. Seats'
  <2>1. \A i \in Jobs : pc'[i] # "new" => pc[i] # "new"
    BY <1>0 DEF Unsettled, Working
  <2> QED BY <1>0, <2>1 DEF QInv, Seats
<1>5. TailIsLast'
  <2> SUFFICES ASSUME NEW i \in Jobs, Unsettled(i)'
               PROVE  \E t \in Jobs : /\ t = tail[ProcessOf[i]] /\ ProcessOf[t] = ProcessOf[i]
                                     /\ Unsettled(t)' /\ seat[i] <= seat[t]
    BY <1>0 DEF TailIsLast
  <2>1. PICK t \in Jobs : /\ t = tail[ProcessOf[i]] /\ ProcessOf[t] = ProcessOf[i]
                         /\ Unsettled(t) /\ seat[i] <= seat[t]
    BY <1>1 DEF QInv, TailIsLast
  <2>2. Unsettled(t)'
    <3>1. CASE t # j
      BY <1>3, <2>1, <3>1
    <3>2. CASE t = j
      <4>1. Unsettled(i) /\ ProcessOf[i] = ProcessOf[j] /\ seat[i] <= seat[j]
        BY <1>1, <2>1, <3>2
      <4>2. seat[i] \in Nat /\ seat[j] \in Nat
        BY DEF QInv, TypeOK
      <4>3. i = j
        BY <1>2, <4>1, <4>2
      <4> QED BY <3>2, <4>3
    <3> QED BY <3>1, <3>2
  <2> QED BY <2>1, <2>2
<1>6. Chained'
  <2> SUFFICES ASSUME NEW i \in Jobs, NEW k \in Jobs, Unsettled(i)', Unsettled(k)',
                      ProcessOf[i] = ProcessOf[k], seat[i] < seat[k]
               PROVE  \E b \in Jobs : /\ b = after[k] /\ ProcessOf[b] = ProcessOf[k]
                                     /\ Unsettled(b)' /\ seat[i] <= seat[b]
    BY <1>0 DEF Chained
  <2>1. PICK b \in Jobs : /\ b = after[k] /\ ProcessOf[b] = ProcessOf[k]
                         /\ Unsettled(b) /\ seat[i] <= seat[b]
    BY <1>1 DEF QInv, Chained
  <2>2. Unsettled(b)'
    <3>1. CASE b # j
      BY <1>3, <2>1, <3>1
    <3>2. CASE b = j
      <4>1. Unsettled(i) /\ ProcessOf[i] = ProcessOf[j] /\ seat[i] <= seat[j]
        BY <1>1, <2>1, <3>2
      <4>2. seat[i] \in Nat /\ seat[j] \in Nat
        BY DEF QInv, TypeOK
      <4>3. i = j
        BY <1>2, <4>1, <4>2
      <4> QED BY <3>2, <4>3
    <3> QED BY <3>1, <3>2
  <2> QED BY <2>1, <2>2
<1>7. ServedInOrder'
  <2> SUFFICES ASSUME NEW i \in Jobs, NEW k \in Jobs, ProcessOf[i] = ProcessOf[k],
                      pc'[i] \in Working, Unsettled(k)'
               PROVE  seat[i] <= seat[k]
    BY <1>0 DEF ServedInOrder, Unsettled
  <2>1. Unsettled(k)
    BY <1>1
  <2>2. CASE i = j
    BY <1>2, <2>1, <2>2
  <2>3. CASE i # j
    BY <1>0, <2>1, <2>3 DEF QInv, ServedInOrder, Unsettled
  <2> QED BY <2>2, <2>3
<1> QED BY <1>4, <1>5, <1>6, <1>7 DEF QInv

(* A call takes the last seat and becomes the tail. *)
LEMMA CallQ ==
  ASSUME QInv, TypeOK', NEW j \in Jobs, Call(j)
  PROVE  QInv'
<1>1. /\ pc[j] = "new" /\ pc'[j] = "queued" /\ seat'[j] = calls /\ after'[j] = tail[ProcessOf[j]]
      /\ \A i \in Jobs \ {j} : pc'[i] = pc[i] /\ seat'[i] = seat[i] /\ after'[i] = after[i]
      /\ calls' = calls + 1
  BY DEF QInv, TypeOK, Call
<1>2. \A i \in Jobs : /\ ProcessOf[i] # ProcessOf[j] => tail'[ProcessOf[i]] = tail[ProcessOf[i]]
                      /\ ProcessOf[i] = ProcessOf[j] => tail'[ProcessOf[i]] = j
  BY JobsAssumption DEF QInv, TypeOK, Call
<1>3. /\ \A i \in Jobs \ {j} : Unsettled(i)' <=> Unsettled(i)
      /\ ~Unsettled(j) /\ Unsettled(j)'
  BY <1>1 DEF Unsettled, Working
<1>4. \A i \in Jobs : Unsettled(i) => seat[i] < calls /\ i # j
  BY <1>3 DEF QInv, Seats, Unsettled, Working
<1>5. calls \in Nat /\ \A i \in Jobs : seat[i] \in Nat
  BY DEF QInv, TypeOK
<1>6. Seats'
  <2>1. \A i \in Jobs \ {j} : pc'[i] # "new" => seat'[i] < calls
    BY <1>1 DEF QInv, Seats
  <2>2. \A i \in Jobs : pc'[i] # "new" => seat'[i] < calls'
    BY <1>1, <1>5, <2>1
  <2>3. ASSUME NEW i \in Jobs, NEW k \in Jobs, pc'[i] # "new", pc'[k] # "new", seat'[i] = seat'[k]
        PROVE  i = k
    <3>1. CASE i # j /\ k # j
      BY <1>1, <2>3, <3>1 DEF QInv, Seats
    <3>2. CASE i = j /\ k # j
      BY <1>1, <1>5, <2>1, <2>3, <3>2
    <3>3. CASE i # j /\ k = j
      BY <1>1, <1>5, <2>1, <2>3, <3>3
    <3> QED BY <3>1, <3>2, <3>3
  <2> QED BY <2>2, <2>3 DEF Seats
<1>7. TailIsLast'
  <2> SUFFICES ASSUME NEW i \in Jobs, Unsettled(i)'
               PROVE  \E t \in Jobs : /\ t = tail'[ProcessOf[i]] /\ ProcessOf[t] = ProcessOf[i]
                                     /\ Unsettled(t)' /\ seat'[i] <= seat'[t]
    BY DEF TailIsLast
  <2>1. CASE ProcessOf[i] = ProcessOf[j]
    <3>1. tail'[ProcessOf[i]] = j
      BY <1>2, <2>1
    <3>2. seat'[i] <= seat'[j]
      BY <1>1, <1>3, <1>4, <1>5
    <3> QED BY <1>3, <2>1, <3>1, <3>2
  <2>2. CASE ProcessOf[i] # ProcessOf[j]
    <3>1. PICK t \in Jobs : /\ t = tail[ProcessOf[i]] /\ ProcessOf[t] = ProcessOf[i]
                           /\ Unsettled(t) /\ seat[i] <= seat[t]
      BY <1>3, <2>2 DEF QInv, TailIsLast
    <3>2. tail'[ProcessOf[i]] = t /\ t # j /\ i # j
      BY <1>2, <2>2, <3>1
    <3> QED BY <1>1, <1>3, <3>1, <3>2
  <2> QED BY <2>1, <2>2
<1>8. Chained'
  <2> SUFFICES ASSUME NEW i \in Jobs, NEW k \in Jobs, Unsettled(i)', Unsettled(k)',
                      ProcessOf[i] = ProcessOf[k], seat'[i] < seat'[k]
               PROVE  \E b \in Jobs : /\ b = after'[k] /\ ProcessOf[b] = ProcessOf[k]
                                     /\ Unsettled(b)' /\ seat'[i] <= seat'[b]
    BY DEF Chained
  <2>1. i # j
    <3> SUFFICES ASSUME i = j PROVE FALSE
      OBVIOUS
    <3>1. k # j
      BY <1>1, <1>5
    <3> QED BY <1>1, <1>3, <1>4, <1>5, <3>1
  <2>2. Unsettled(i) /\ seat'[i] = seat[i]
    BY <1>1, <1>3, <2>1
  <2>3. \E b \in Jobs : /\ b = after'[k] /\ ProcessOf[b] = ProcessOf[k]
                        /\ Unsettled(b) /\ seat[i] <= seat[b]
    <3>1. CASE k = j
      <4>1. after'[k] = tail[ProcessOf[i]]
        BY <1>1, <3>1
      <4> QED BY <2>2, <3>1, <4>1 DEF QInv, TailIsLast
    <3>2. CASE k # j
      <4>1. after'[k] = after[k] /\ Unsettled(k) /\ seat[i] < seat[k]
        BY <1>1, <1>3, <2>2, <3>2
      <4> QED BY <2>2, <4>1 DEF QInv, Chained
    <3> QED BY <3>1, <3>2
  <2> PICK b \in Jobs : /\ b = after'[k] /\ ProcessOf[b] = ProcessOf[k]
                       /\ Unsettled(b) /\ seat[i] <= seat[b]
    BY <2>3
  <2>4. b # j
    BY <1>3
  <2>5. Unsettled(b)' /\ seat'[b] = seat[b]
    BY <1>1, <1>3, <2>4
  <2> QED BY <2>2, <2>5
<1>9. ServedInOrder'
  <2> SUFFICES ASSUME NEW i \in Jobs, NEW k \in Jobs, ProcessOf[i] = ProcessOf[k],
                      pc'[i] \in Working, Unsettled(k)'
               PROVE  seat'[i] <= seat'[k]
    BY DEF ServedInOrder, Unsettled
  <2>1. i # j /\ pc[i] \in Working /\ seat'[i] = seat[i] /\ Unsettled(i)
    BY <1>1 DEF Working, Unsettled
  <2>2. CASE k = j
    BY <1>1, <1>4, <1>5, <2>1, <2>2
  <2>3. CASE k # j
    BY <1>1, <1>3, <2>1, <2>3 DEF QInv, ServedInOrder, Unsettled
  <2> QED BY <2>2, <2>3
<1> QED BY <1>6, <1>7, <1>8, <1>9 DEF QInv

(* A crash settles every call of the process. *)
LEMMA CrashQ ==
  ASSUME QInv, TypeOK', NEW p \in Processes, Crash(p)
  PROVE  QInv'
<1>1. \A i \in Jobs : /\ Unsettled(i)' => Unsettled(i) /\ ProcessOf[i] # p
                      /\ Unsettled(i) /\ ProcessOf[i] # p => Unsettled(i)' /\ pc'[i] = pc[i]
                      /\ pc'[i] # "new" <=> pc[i] # "new"
  BY DEF QInv, TypeOK, Crash, Unsettled, Working
<1>2. /\ UNCHANGED <<after, seat, calls>>
      /\ \A i \in Jobs : ProcessOf[i] # p => tail'[ProcessOf[i]] = tail[ProcessOf[i]]
  BY JobsAssumption DEF QInv, TypeOK, Crash
<1>3. Seats'
  BY <1>1, <1>2 DEF QInv, Seats
<1>4. TailIsLast'
  BY <1>1, <1>2 DEF QInv, TailIsLast
<1>5. Chained'
  BY <1>1, <1>2 DEF QInv, Chained
<1>6. ServedInOrder'
  BY <1>1, <1>2 DEF QInv, ServedInOrder, Unsettled
<1> QED BY <1>3, <1>4, <1>5, <1>6 DEF QInv

(* The chain is dropped only when its last call has settled. *)
LEMMA ForgetQ ==
  ASSUME QInv, TypeOK', NEW p \in Processes, NEW j \in Jobs, Forget(p, j)
  PROVE  QInv'
<1>1. UNCHANGED <<pc, after, seat, calls>> /\ ~Unsettled(j) /\ tail[p] = j
  BY DEF Forget, Unsettled, Working, Settled
<1>2. \A i \in Jobs : Unsettled(i)' <=> Unsettled(i)
  BY <1>1 DEF Unsettled
<1>3. \A i \in Jobs : Unsettled(i) => tail'[ProcessOf[i]] = tail[ProcessOf[i]]
  <2> SUFFICES ASSUME NEW i \in Jobs, Unsettled(i) PROVE tail'[ProcessOf[i]] = tail[ProcessOf[i]]
    OBVIOUS
  <2>1. ProcessOf[i] # p
    BY <1>1 DEF QInv, TailIsLast
  <2> QED BY <2>1, JobsAssumption DEF QInv, TypeOK, Forget
<1>4. TailIsLast'
  BY <1>1, <1>2, <1>3 DEF QInv, TailIsLast
<1>5. Seats' /\ Chained' /\ ServedInOrder'
  BY <1>1, <1>2 DEF QInv, Seats, Chained, ServedInOrder, Unsettled
<1> QED BY <1>4, <1>5 DEF QInv

LEMMA IdleQ ==
  ASSUME QInv, TypeOK', UNCHANGED <<pc, after, tail, seat, calls>>
  PROVE  QInv'
  BY DEF QInv, Seats, TailIsLast, Chained, ServedInOrder, Unsettled

LEMMA NextQ == QInv /\ [Next]_vars => QInv'
<1> SUFFICES ASSUME QInv, [Next]_vars PROVE QInv'
  OBVIOUS
<1>1. TypeOK'
  BY NextType DEF QInv
<1>2. CASE Age \/ UNCHANGED vars
  BY <1>1, <1>2, IdleQ DEF Age, vars
<1> QED BY <1>1, <1>2, CallQ, StepQ, CrashQ, ForgetQ DEF Next

LEMMA QueueCorrect == Spec => []QInv
  BY InitQ, NextQ, PTL DEF Spec

(* The variables keep their types. *)
THEOREM TypeCorrect == Spec => []TypeOK
<1>1. QInv => TypeOK
  BY DEF QInv
<1> QED BY <1>1, QueueCorrect, PTL

(* withPerKeyMutex serves the calls of a process one at a time and in the  *)
(* order of calling, through rejections, crashes and dropped chains.       *)
THEOREM ServedOneByOne == Spec => []ServedInOrder
<1>1. QInv => ServedInOrder
  BY DEF QInv
<1> QED BY <1>1, QueueCorrect, PTL

(* Inside one server the lock excludes even where a live lock grows old:   *)
(* there the chain alone is enough.                                        *)
THEOREM ExclusiveInOneServer ==
  ASSUME \A i, j \in Jobs : ProcessOf[i] = ProcessOf[j]
  PROVE  Spec => []MutualExclusion
<1>1. QInv => MutualExclusion
  <2> SUFFICES ASSUME QInv, NEW i \in Jobs, NEW j \in Jobs, pc[i] = "in", pc[j] = "in"
               PROVE  i = j
    BY DEF MutualExclusion
  <2>1. seat[i] <= seat[j] /\ seat[j] <= seat[i]
    BY DEF QInv, ServedInOrder, Working
  <2>2. seat[i] = seat[j]
    BY <2>1 DEF QInv, TypeOK
  <2> QED BY <2>2 DEF QInv, Seats
<1> QED BY <1>1, QueueCorrect, PTL

-----------------------------------------------------------------------------
(* Without reclaim the directory alone excludes, in any number of servers. *)
Fresh == ~stale /\ \A j \in Jobs : pc[j] # "reclaim"
DirInv == TypeOK /\ Fresh /\ HolderOwnsDir

LEMMA DirNext == ASSUME ~Ages PROVE DirInv /\ [Next]_vars => DirInv'
<1> SUFFICES ASSUME DirInv, [Next]_vars PROVE DirInv'
  OBVIOUS
<1>1. TypeOK'
  BY NextType DEF DirInv
<1>2. ASSUME NEW j \in Jobs, Call(j) PROVE Fresh' /\ HolderOwnsDir'
  BY <1>2 DEF DirInv, TypeOK, Fresh, HolderOwnsDir, Call
<1>3. ASSUME NEW j \in Jobs, Acquire(j) PROVE Fresh' /\ HolderOwnsDir'
  <2>1. CASE dir = None
    <3>1. \A i \in Jobs : pc[i] \notin {"in", "leaving"}
      BY <2>1, NoneAssumption DEF DirInv, HolderOwnsDir
    <3> QED BY <1>3, <2>1, <3>1 DEF DirInv, TypeOK, Fresh, HolderOwnsDir, Acquire, Make
  <2>2. CASE dir # None
    BY <1>3, <2>2 DEF DirInv, TypeOK, Fresh, HolderOwnsDir, Acquire, Make
  <2> QED BY <2>1, <2>2
<1>4. ASSUME NEW j \in Jobs, Retry(j) PROVE Fresh' /\ HolderOwnsDir'
  <2>1. CASE dir = None
    <3>1. \A i \in Jobs : pc[i] \notin {"in", "leaving"}
      BY <2>1, NoneAssumption DEF DirInv, HolderOwnsDir
    <3> QED BY <1>4, <2>1, <3>1 DEF DirInv, TypeOK, Fresh, HolderOwnsDir, Retry, Make
  <2>2. CASE dir # None
    BY <1>4, <2>2 DEF DirInv, TypeOK, Fresh, HolderOwnsDir, Retry, Make
  <2> QED BY <2>1, <2>2
<1>5. ASSUME NEW j \in Jobs, Stat(j) \/ Finish(j) PROVE Fresh' /\ HolderOwnsDir'
  BY <1>5 DEF DirInv, TypeOK, Fresh, HolderOwnsDir, Stat, Finish
<1>6. ASSUME NEW j \in Jobs, Reclaim(j) PROVE FALSE
  BY <1>6 DEF DirInv, Fresh, Reclaim
<1>7. ASSUME NEW j \in Jobs, Leave(j) PROVE Fresh' /\ HolderOwnsDir'
  <2>1. \A i \in Jobs \ {j} : pc[i] \notin {"in", "leaving"}
    BY <1>7 DEF DirInv, HolderOwnsDir, Leave
  <2> QED BY <1>7, <2>1 DEF DirInv, TypeOK, Fresh, HolderOwnsDir, Leave
<1>8. ASSUME NEW p \in Processes, Crash(p) PROVE Fresh' /\ HolderOwnsDir'
  <2>1. \A i \in Jobs : pc'[i] = "dead" \/ pc'[i] = pc[i]
    BY <1>8 DEF Crash
  <2>2. dir' = dir /\ stale' = stale
    BY <1>8 DEF Crash
  <2>3. Fresh'
    BY <2>1, <2>2 DEF DirInv, Fresh
  <2>4. \A i \in Jobs : pc'[i] \in {"in", "leaving"} => pc[i] \in {"in", "leaving"}
    BY <2>1
  <2>5. \A i \in Jobs : pc'[i] \in {"in", "leaving"} => dir = i
    BY <2>4 DEF DirInv, HolderOwnsDir
  <2>6. HolderOwnsDir'
    BY <2>2, <2>5 DEF HolderOwnsDir
  <2> QED BY <2>3, <2>6
<1>9. ASSUME NEW p \in Processes, NEW j \in Jobs, Forget(p, j) PROVE Fresh' /\ HolderOwnsDir'
  BY <1>9 DEF DirInv, Fresh, HolderOwnsDir, Forget
<1>10. ~Age
  BY DEF Age
<1>11. CASE UNCHANGED vars
  <2>1. pc' = pc /\ dir' = dir /\ stale' = stale
    BY <1>11 DEF vars
  <2> QED BY <1>1, <2>1 DEF DirInv, Fresh, HolderOwnsDir
<1> QED BY <1>1, <1>2, <1>3, <1>4, <1>5, <1>6, <1>7, <1>8, <1>9, <1>10, <1>11 DEF DirInv, Next, Step

(* "Exclusive publication lock": as long as no lock is taken for stale,    *)
(* the functions of two calls never overlap, in whichever servers, and     *)
(* whatever crashes.                                                       *)
THEOREM ExclusiveWithoutReclaim == ASSUME ~Ages PROVE Spec => []MutualExclusion
<1>1. Init => DirInv
  BY InitQ DEF QInv, DirInv, Fresh, HolderOwnsDir, Init
<1>2. DirInv /\ [Next]_vars => DirInv'
  BY DirNext
<1>3. DirInv => MutualExclusion
  BY DEF DirInv, HolderOwnsDir, MutualExclusion
<1> QED BY <1>1, <1>2, <1>3, PTL DEF Spec
=============================================================================
