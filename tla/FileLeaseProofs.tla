---------------------------- MODULE FileLeaseProofs ----------------------------
(***************************************************************************)
(* Proofs about FileLease, for any number of calls and processes.  The     *)
(* lease file excludes, an edit is a compare-and-swap and a reset finds no *)
(* owner until a live lock is taken away, whoever calls, queued or not.    *)
(* After that the edits of one server are still compare-and-swaps, because *)
(* they are queued, beside visits that are not; and the locks of SQLite    *)
(* leave one owner, as long as nobody resets the store.                    *)
(***************************************************************************)
EXTENDS FileLease, FiniteSetTheorems, TLAPS

(* One server after another, whose edits are queued, as                    *)
(* withWorkspaceConfigLock queues them; visits, owners and resets are not. *)
EditsOfOneServer ==
    /\ FileLeaseAssumption
    /\ Alone
    /\ \A c \in Calls : Kind[c] = "edit" => c \in Queued

(* Any servers, and nobody resets the store.                               *)
NoReset == FileLeaseAssumption /\ \A c \in Calls : Kind[c] # "reset"

-----------------------------------------------------------------------------
(* Types.                                                                  *)

LEMMA InitType == FileLeaseAssumption /\ Init => TypeOK
<1> SUFFICES ASSUME FileLeaseAssumption, Init PROVE TypeOK
  OBVIOUS
<1>1. robbed \in BOOLEAN
  BY DEF Init
<1>2. {rev, saved, inodes} \subseteq Nat /\ store \in 0..inodes
  BY DEF Init
<1> QED BY <1>1, <1>2 DEF FileLeaseAssumption, Init, TypeOK

LEMMA NextType == FileLeaseAssumption /\ TypeOK /\ [Next]_vars => TypeOK'
<1> SUFFICES ASSUME FileLeaseAssumption, TypeOK, [Next]_vars PROVE TypeOK'
  OBVIOUS
<1> USE DEF TypeOK, Goto
<1>1. ASSUME NEW p \in Procs, Start(p) PROVE TypeOK'
  BY <1>1 DEF Start
<1>2. ASSUME NEW p \in Procs, Crash(p) PROVE TypeOK'
  BY <1>2 DEF Crash
<1>3. ASSUME NEW c \in Calls, Ask(c) PROVE TypeOK'
  BY <1>3 DEF Ask, FileLeaseAssumption
<1>4. ASSUME NEW c \in Calls, Enter(c) \/ Create(c) PROVE TypeOK'
  BY <1>4 DEF Enter, Create, Acquiring, Holding
<1>5. ASSUME NEW c \in Calls, Read(c) \/ Steal(c) PROVE TypeOK'
  BY <1>5 DEF Read, Steal, Acquiring, HolderAlive, Alive
<1>6. ASSUME NEW c \in Calls, Load(c) \/ Save(c) \/ Visit(c) PROVE TypeOK'
  BY <1>6 DEF Load, Save, Visit, Holding, Releasing
<1>7. ASSUME NEW c \in Calls, Open(c) PROVE TypeOK'
  <2>1. pc' \in [Calls -> Acquiring \cup Holding \cup Releasing \cup {"idle", "queue", "refused", "dead"}]
    BY <1>7 DEF Open, Holding, Releasing
  <2>2. inodes' \in Nat /\ store' \in 0..inodes'
    BY <1>7 DEF Open
  <2>3. conn' \in [Calls -> 0..inodes']
    <3>1. CASE store = 0
      <4>1. inodes' = inodes + 1 /\ conn' = [conn EXCEPT ![c] = inodes + 1]
        BY <1>7, <3>1 DEF Open
      <4>2. \A n \in 0..inodes : n \in 0..(inodes + 1)
        OBVIOUS
      <4>3. inodes + 1 \in 0..(inodes + 1)
        OBVIOUS
      <4> QED BY <4>1, <4>2, <4>3
    <3>2. CASE store # 0
      BY <1>7, <3>2 DEF Open
    <3> QED BY <3>1, <3>2
  <2> QED BY <1>7, <2>1, <2>2, <2>3 DEF Open
<1>8. ASSUME NEW c \in Calls, Close(c) \/ Reset(c) PROVE TypeOK'
  BY <1>8 DEF Close, Reset, Releasing
<1>9. ASSUME NEW c \in Calls, Check(c) \/ Remove(c) PROVE TypeOK'
  BY <1>9 DEF Check, Remove, Releasing
<1>10. CASE UNCHANGED vars
  BY <1>10 DEF vars
<1> QED BY <1>1, <1>2, <1>3, <1>4, <1>5, <1>6, <1>7, <1>8, <1>9, <1>10 DEF Next, Act

-----------------------------------------------------------------------------
(* Where a call can be.                                                    *)

(* A call is dead with its process, and only a live one is on its way.     *)
PlacesFit ==
    \A c \in Calls :
        /\ pc[c] = "dead" <=> proc[Of[c]] = "dead"
        /\ pc[c] \notin {"idle", "dead"} => Alive(c)

(* The lock file is of a call that has it, or of a dead one.               *)
LockFits ==
    lock # None => pc[lock] \in Holding \cup Releasing \cup {"dead"}

PlaceInv == TypeOK /\ PlacesFit /\ LockFits

(* A step of a call leaves the others where they are and takes none from   *)
(* or to the dead.                                                         *)
Moves(c) ==
    /\ proc' = proc
    /\ \A d \in Calls \ {c} : pc'[d] = pc[d]
    /\ pc[c] # "dead" /\ pc'[c] # "dead"
    /\ pc[c] = "idle" => Alive(c)

LEMMA CallsMove ==
  ASSUME TypeOK, NEW c \in Calls, Ask(c) \/ Act(c)
  PROVE  Moves(c)
<1> USE DEF TypeOK, Goto, Moves
<1>1. CASE Ask(c)
  BY <1>1 DEF Ask
<1>2. CASE Enter(c) \/ Create(c) \/ Read(c) \/ Steal(c)
  BY <1>2 DEF Enter, Create, Read, Steal
<1>3. CASE Load(c) \/ Save(c) \/ Visit(c) \/ Open(c) \/ Close(c) \/ Reset(c)
  BY <1>3 DEF Load, Save, Visit, Open, Close, Reset
<1>4. CASE Check(c) \/ Remove(c)
  BY <1>4 DEF Check, Remove
<1> QED BY <1>1, <1>2, <1>3, <1>4 DEF Act

(* What a step does to the lock file.                                      *)
LEMMA LockMoves ==
  ASSUME TypeOK, LockFits, NEW c \in Calls, Ask(c) \/ Act(c)
  PROVE  LockFits'
<1> USE DEF TypeOK, Goto, LockFits, Holding, Releasing
<1>1. CASE Ask(c) \/ Enter(c)
  BY <1>1 DEF Ask, Enter
<1>2. CASE Create(c)
  BY <1>2 DEF Create
<1>3. CASE Read(c) \/ Steal(c)
  BY <1>3 DEF Read, Steal
<1>4. CASE Load(c) \/ Save(c) \/ Visit(c)
  BY <1>4 DEF Load, Save, Visit
<1>5. CASE Open(c) \/ Close(c) \/ Reset(c)
  BY <1>5 DEF Open, Close, Reset
<1>6. CASE Check(c) \/ Remove(c)
  BY <1>6 DEF Check, Remove
<1> QED BY <1>1, <1>2, <1>3, <1>4, <1>5, <1>6 DEF Act

LEMMA InitPlaces == FileLeaseAssumption /\ Init => PlaceInv
<1> SUFFICES ASSUME FileLeaseAssumption, Init PROVE PlaceInv
  OBVIOUS
<1>1. TypeOK
  BY InitType
<1>2. PlacesFit /\ LockFits
  BY DEF Init, PlacesFit, LockFits, FileLeaseAssumption
<1> QED BY <1>1, <1>2 DEF PlaceInv

LEMMA NextPlaces == FileLeaseAssumption /\ PlaceInv /\ [Next]_vars => PlaceInv'
<1> SUFFICES ASSUME FileLeaseAssumption, PlaceInv, [Next]_vars PROVE PlaceInv'
  OBVIOUS
<1>0. TypeOK' /\ TypeOK /\ PlacesFit /\ LockFits
  BY NextType DEF PlaceInv
<1>1. ASSUME NEW p \in Procs, Start(p) PROVE PlacesFit' /\ LockFits'
  <2>1. PlacesFit'
    BY <1>0, <1>1 DEF Start, PlacesFit, Alive, FileLeaseAssumption, TypeOK
  <2>2. LockFits'
    BY <1>0, <1>1 DEF Start, LockFits
  <2> QED BY <2>1, <2>2
<1>2. ASSUME NEW p \in Procs, Crash(p) PROVE PlacesFit' /\ LockFits'
  <2>1. \A c \in Calls :
            /\ Of[c] = p => pc'[c] = "dead" /\ proc'[Of[c]] = "dead"
            /\ Of[c] # p => pc'[c] = pc[c] /\ proc'[Of[c]] = proc[Of[c]]
    BY <1>0, <1>2 DEF Crash, TypeOK, FileLeaseAssumption
  <2>2. PlacesFit'
    <3> SUFFICES ASSUME NEW c \in Calls
                 PROVE  /\ pc'[c] = "dead" <=> proc'[Of[c]] = "dead"
                        /\ pc'[c] \notin {"idle", "dead"} => proc'[Of[c]] = "up"
      BY DEF PlacesFit, Alive
    <3>1. CASE Of[c] = p
      BY <2>1, <3>1
    <3>2. CASE Of[c] # p
      BY <1>0, <2>1, <3>2 DEF PlacesFit, Alive
    <3> QED BY <3>1, <3>2
  <2>3. lock \in Calls \cup {None} /\ lock' = lock
    BY <1>0, <1>2 DEF Crash, TypeOK
  <2>4. LockFits'
    <3>1. lock # None => pc'[lock] = "dead" \/ pc'[lock] = pc[lock]
      BY <2>1, <2>3
    <3> QED BY <1>0, <2>3, <3>1 DEF LockFits
  <2> QED BY <2>2, <2>4
<1>3. ASSUME NEW c \in Calls, Ask(c) \/ Act(c) PROVE PlacesFit' /\ LockFits'
  <2>1. Moves(c)
    BY <1>0, <1>3, CallsMove
  <2>2. PlacesFit'
    BY <1>0, <2>1 DEF Moves, PlacesFit, Alive
  <2>3. LockFits'
    BY <1>0, <1>3, LockMoves
  <2> QED BY <2>2, <2>3
<1>4. ASSUME UNCHANGED vars PROVE PlacesFit' /\ LockFits'
  BY <1>0, <1>4 DEF vars, PlacesFit, LockFits, Alive
<1> QED BY <1>0, <1>1, <1>2, <1>3, <1>4 DEF Next, PlaceInv

-----------------------------------------------------------------------------
(* Until a live lock is taken away.                                        *)

(* Who does its work, or releases, has the lock file.                      *)
HoldsFile == \A c \in Calls : pc[c] \in Holding \cup Releasing => lock = c

(* The revision counts the edits, and an edit replaces the one it compared. *)
EditsFit ==
    /\ rev = saved
    /\ \A c \in Calls : pc[c] = "loaded" => expected[c] = rev

(* Only an owner at work has a connection.                                 *)
ConnFits == \A c \in Calls : conn[c] # 0 => pc[c] = "owning"

LeaseInv == PlaceInv /\ ConnFits /\ (~robbed => HoldsFile /\ EditsFit)

LEMMA InitLease == FileLeaseAssumption /\ Init => LeaseInv
<1> SUFFICES ASSUME FileLeaseAssumption, Init PROVE LeaseInv
  OBVIOUS
<1>1. PlaceInv
  BY InitPlaces
<1>2. ConnFits /\ HoldsFile /\ EditsFit
  BY DEF Init, ConnFits, HoldsFile, EditsFit, Holding, Releasing
<1> QED BY <1>1, <1>2 DEF LeaseInv

(* Connections come with an opening and go with a closing.                 *)
LEMMA CallConn ==
  ASSUME TypeOK, ConnFits, NEW c \in Calls, Ask(c) \/ Act(c)
  PROVE  ConnFits'
<1>1. Moves(c)
  BY CallsMove
<1>2. \A d \in Calls \ {c} : conn'[d] = conn[d]
  BY DEF Ask, Act, Enter, Create, Read, Steal, Load, Save, Visit, Open, Close, Reset, Check,
         Remove, TypeOK
<1>3. conn'[c] # 0 => pc'[c] = "owning"
  <2> USE DEF TypeOK, Goto
  <2>1. CASE Open(c)
    BY <2>1 DEF Open, ConnFits
  <2>2. CASE Close(c)
    BY <2>2 DEF Close
  <2>3. CASE Ask(c) \/ Enter(c) \/ Create(c) \/ Read(c) \/ Steal(c)
    BY <2>3 DEF Ask, Enter, Create, Read, Steal, ConnFits
  <2>4. CASE Load(c) \/ Save(c) \/ Visit(c) \/ Reset(c) \/ Check(c) \/ Remove(c)
    BY <2>4 DEF Load, Save, Visit, Reset, Check, Remove, ConnFits
  <2> QED BY <2>1, <2>2, <2>3, <2>4 DEF Act
<1> QED BY <1>1, <1>2, <1>3 DEF ConnFits, Moves

(* A lock file that is not of a dead call is taken away by a theft only.   *)
LEMMA StealSpares ==
  ASSUME FileLeaseAssumption, PlaceInv, NEW c \in Calls, Steal(c), ~robbed'
  PROVE  \A d \in Calls : pc[d] \in Holding \cup Releasing => lock # d
<1> SUFFICES ASSUME NEW d \in Calls, pc[d] \in Holding \cup Releasing, lock = d PROVE FALSE
  OBVIOUS
<1>1. pc[d] \notin {"idle", "dead"}
  BY DEF Holding, Releasing
<1>2. Alive(d)
  BY <1>1 DEF PlaceInv, PlacesFit
<1>3. HolderAlive(lock)
  BY <1>2 DEF HolderAlive, FileLeaseAssumption
<1> QED BY <1>3 DEF Steal

LEMMA CallHolds ==
  ASSUME FileLeaseAssumption, PlaceInv, HoldsFile, NEW c \in Calls, Ask(c) \/ Act(c), ~robbed'
  PROVE  HoldsFile'
<1>0. TypeOK
  BY DEF PlaceInv
<1>1. Moves(c)
  BY <1>0, CallsMove
<1>2. \A d \in Calls \ {c} : pc'[d] \in Holding \cup Releasing => lock' = d
  <2> SUFFICES ASSUME NEW d \in Calls \ {c}, pc'[d] \in Holding \cup Releasing PROVE lock' = d
    OBVIOUS
  <2>1. pc[d] \in Holding \cup Releasing /\ lock = d
    BY <1>1 DEF Moves, HoldsFile
  <2>2. d # None
    BY DEF FileLeaseAssumption
  <2>3. ~Steal(c)
    BY <2>1, StealSpares
  <2>4. ~Remove(c)
    BY <2>1 DEF Remove, HoldsFile, Releasing
  <2>5. lock' = lock
    BY <2>1, <2>2, <2>3, <2>4 DEF Ask, Act, Enter, Create, Read, Load, Save, Visit, Open, Close,
                                  Reset, Check
  <2> QED BY <2>1, <2>5
<1>3. pc'[c] \in Holding \cup Releasing => lock' = c
  <2> USE <1>0 DEF TypeOK, Goto, Holding, Releasing
  <2>1. CASE Ask(c) \/ Enter(c) \/ Create(c) \/ Read(c) \/ Steal(c)
    BY <2>1 DEF Ask, Enter, Create, Read, Steal
  <2>2. CASE Load(c) \/ Save(c) \/ Visit(c) \/ Close(c) \/ Reset(c)
    BY <2>2 DEF Load, Save, Visit, Close, Reset, HoldsFile
  <2>3. CASE Open(c)
    BY <2>3 DEF Open, HoldsFile
  <2>4. CASE Check(c) \/ Remove(c)
    BY <2>4 DEF Check, Remove
  <2> QED BY <2>1, <2>2, <2>3, <2>4 DEF Act
<1> QED BY <1>2, <1>3 DEF HoldsFile

(* An edit that saves is alone with the revision it has compared.          *)
LEMMA CallEdits ==
  ASSUME TypeOK, EditsFit, NEW c \in Calls, Ask(c) \/ Act(c),
         pc[c] = "loaded" => \A d \in Calls \ {c} : pc[d] # "loaded"
  PROVE  EditsFit'
<1>1. Moves(c)
  BY CallsMove
<1>2. CASE Save(c)
  <2>1. /\ pc[c] = "loaded" /\ rev' = expected[c] + 1 /\ saved' = saved + 1
        /\ pc'[c] = "check"
    BY <1>2 DEF Save, Goto, TypeOK
  <2>2. expected[c] = rev /\ rev = saved
    BY <2>1 DEF EditsFit
  <2>3. \A d \in Calls : pc'[d] # "loaded"
    BY <1>1, <2>1 DEF Moves
  <2> QED BY <2>1, <2>2, <2>3 DEF EditsFit
<1>3. CASE ~Save(c)
  <2>1. UNCHANGED <<rev, saved>>
    BY <1>3 DEF Ask, Act, Enter, Create, Read, Steal, Load, Visit, Open, Close, Reset, Check,
                Remove
  <2>2. \A d \in Calls \ {c} : expected'[d] = expected[d]
    BY <1>3 DEF Ask, Act, Enter, Create, Read, Steal, Load, Visit, Open, Close, Reset, Check,
                Remove, TypeOK
  <2>3. pc'[c] = "loaded" => expected'[c] = rev
    BY <1>3 DEF Ask, Act, Enter, Create, Read, Steal, Load, Visit, Open, Close, Reset, Check,
                Remove, TypeOK, Goto
  <2> QED BY <1>1, <2>1, <2>2, <2>3 DEF EditsFit, Moves
<1> QED BY <1>2, <1>3

(* Once a live lock was taken, that is remembered.                         *)
LEMMA RobbedStays == [Next]_vars /\ ~robbed' => ~robbed \/ robbed \notin BOOLEAN
<1> SUFFICES ASSUME [Next]_vars, ~robbed' PROVE ~robbed \/ robbed \notin BOOLEAN
  OBVIOUS
<1>1. ASSUME NEW p \in Procs, Start(p) \/ Crash(p) PROVE ~robbed
  BY <1>1 DEF Start, Crash
<1>2. ASSUME NEW c \in Calls, Steal(c) PROVE ~robbed
  BY <1>2 DEF Steal
<1>3. ASSUME NEW c \in Calls, Ask(c) \/ (Act(c) /\ ~Steal(c)) PROVE ~robbed
  BY <1>3 DEF Ask, Act, Enter, Create, Read, Load, Save, Visit, Open, Close, Reset, Check, Remove
<1>4. ASSUME UNCHANGED vars PROVE ~robbed
  BY <1>4 DEF vars
<1> QED BY <1>1, <1>2, <1>3, <1>4 DEF Next

LEMMA CallLease ==
  ASSUME FileLeaseAssumption, LeaseInv, PlaceInv', [Next]_vars, NEW c \in Calls, Ask(c) \/ Act(c)
  PROVE  LeaseInv'
<1>0. TypeOK /\ PlaceInv
  BY DEF LeaseInv, PlaceInv
<1>1. ConnFits'
  BY <1>0, CallConn DEF LeaseInv
<1>2. ASSUME ~robbed' PROVE HoldsFile' /\ EditsFit'
  <2>1. HoldsFile /\ EditsFit
    BY <1>0, <1>2, RobbedStays DEF LeaseInv, TypeOK
  <2>2. HoldsFile'
    BY <1>0, <1>2, <2>1, CallHolds
  <2>3. pc[c] = "loaded" => \A d \in Calls \ {c} : pc[d] # "loaded"
    BY <2>1 DEF HoldsFile, Holding
  <2>4. EditsFit'
    BY <1>0, <2>1, <2>3, CallEdits
  <2> QED BY <2>2, <2>4
<1> QED BY <1>1, <1>2 DEF LeaseInv

LEMMA NextLease == FileLeaseAssumption /\ LeaseInv /\ [Next]_vars => LeaseInv'
<1> SUFFICES ASSUME FileLeaseAssumption, LeaseInv, [Next]_vars PROVE LeaseInv'
  OBVIOUS
<1>0. PlaceInv'
  BY NextPlaces DEF LeaseInv
<1>1. ASSUME NEW p \in Procs, Start(p) PROVE LeaseInv'
  <2>1. UNCHANGED <<lock, pc, rev, saved, expected, conn, robbed>>
    BY <1>1 DEF Start
  <2> QED BY <1>0, <2>1 DEF LeaseInv, HoldsFile, EditsFit, ConnFits
<1>2. ASSUME NEW p \in Procs, Crash(p) PROVE LeaseInv'
  <2>1. \A c \in Calls :
            /\ pc'[c] = "dead" \/ pc'[c] = pc[c]
            /\ conn'[c] = 0 \/ (conn'[c] = conn[c] /\ pc'[c] = pc[c])
    BY <1>2 DEF Crash
  <2>2. UNCHANGED <<lock, rev, saved, expected, robbed>>
    BY <1>2 DEF Crash
  <2>3. HoldsFile => HoldsFile'
    BY <2>1, <2>2 DEF HoldsFile, Holding, Releasing
  <2>4. ConnFits' /\ (EditsFit => EditsFit')
    BY <2>1, <2>2 DEF LeaseInv, EditsFit, ConnFits
  <2> QED BY <1>0, <2>2, <2>3, <2>4 DEF LeaseInv
<1>3. ASSUME NEW c \in Calls, Ask(c) \/ Act(c) PROVE LeaseInv'
  BY <1>0, <1>3, CallLease
<1>4. ASSUME UNCHANGED vars PROVE LeaseInv'
  BY <1>0, <1>4 DEF vars, LeaseInv, HoldsFile, EditsFit, ConnFits
<1> QED BY <1>1, <1>2, <1>3, <1>4 DEF Next

LEMMA LeaseGuarantees == LeaseInv => LeaseHolds
<1> SUFFICES ASSUME LeaseInv, ~robbed PROVE Exclusion /\ EditsAreCas
  BY DEF LeaseHolds
<1> QED BY DEF LeaseInv, HoldsFile, EditsFit, Exclusion, EditsAreCas

(* Only a reset takes the store away.                                      *)
LEMMA OnlyResetRemoves ==
  ASSUME TypeOK, [Next]_vars, store # 0, store' = 0
  PROVE  \E c \in Calls : Reset(c)
<1>1. ASSUME NEW p \in Procs, Start(p) \/ Crash(p) PROVE FALSE
  BY <1>1 DEF Start, Crash
<1>2. ASSUME NEW c \in Calls, Ask(c) \/ (Act(c) /\ ~Reset(c)) PROVE FALSE
  BY <1>2 DEF Ask, Act, Enter, Create, Read, Steal, Load, Save, Visit, Open, Close, Check, Remove
<1>3. ~UNCHANGED vars
  BY DEF vars
<1> QED BY <1>1, <1>2, <1>3 DEF Next

LEMMA ResetStep ==
  ASSUME LeaseInv, [Next]_vars, ~robbed, store # 0, store' = 0, NEW d \in Calls
  PROVE  conn[d] # store
<1>1. PICK c \in Calls : Reset(c)
  BY OnlyResetRemoves DEF LeaseInv, PlaceInv
<1> SUFFICES ASSUME conn[d] = store PROVE FALSE
  OBVIOUS
<1>2. pc[d] = "owning" /\ pc[c] = "held"
  BY <1>1 DEF LeaseInv, ConnFits, Reset
<1>3. lock = c /\ lock = d
  BY <1>2 DEF LeaseInv, HoldsFile, Holding
<1> QED BY <1>2, <1>3

(* acquireAtomicFileLease and withWorkspaceRevision, between any calls of  *)
(* any processes, queued or not, and across crashes: nothing but the       *)
(* rename of a live lock lets two calls hold the lease, or two edits       *)
(* replace one revision.  A link, a dead lock taken over and the two steps *)
(* of a release never do.                                                  *)
THEOREM LeaseHoldsUntilRobbed ==
  ASSUME FileLeaseAssumption
  PROVE  Spec => []LeaseHolds
<1>1. Init => LeaseInv
  BY InitLease
<1>2. LeaseInv /\ [Next]_vars => LeaseInv'
  BY NextLease
<1>3. LeaseInv => LeaseHolds
  BY LeaseGuarantees
<1> QED BY <1>1, <1>2, <1>3, PTL DEF Spec

(* resetWikiRunsControlStore beside any number of servers: until a live    *)
(* lock is taken away, it never takes the store from under an owner.       *)
THEOREM ResetIsSafeUntilRobbed ==
  ASSUME FileLeaseAssumption
  PROVE  Spec => ResetSparesOwner
<1>1. Init => LeaseInv
  BY InitLease
<1>2. LeaseInv /\ [Next]_vars => LeaseInv'
  BY NextLease
<1>3. LeaseInv /\ [Next]_vars
      => [~robbed /\ store # 0 /\ store' = 0 => \A c \in Calls : conn[c] # store]_vars
  BY ResetStep
<1>4. Spec => [][~robbed /\ store # 0 /\ store' = 0 => \A c \in Calls : conn[c] # store]_vars
  BY <1>1, <1>2, <1>3, PTL DEF Spec
<1> QED BY <1>4 DEF ResetSparesOwner

-----------------------------------------------------------------------------
(* Edits of one server at a time, whatever happens to the lock file.       *)

OneIsUp == \A p, q \in Procs : proc[p] = "up" /\ proc[q] = "up" => p = q

(* The queue lets one edit at a time go for the lock.                      *)
OneEdits ==
    \A c, d \in Calls : Kind[c] = "edit" /\ Kind[d] = "edit" /\ Entered(c) /\ Entered(d) => c = d

OnlyEditsLoad == \A c \in Calls : pc[c] = "loaded" => Kind[c] = "edit"

QueueInv == PlaceInv /\ OneIsUp /\ OneEdits /\ OnlyEditsLoad /\ EditsFit

LEMMA InitQueue == EditsOfOneServer /\ Init => QueueInv
<1> SUFFICES ASSUME EditsOfOneServer, Init PROVE QueueInv
  OBVIOUS
<1>1. PlaceInv
  BY InitPlaces DEF EditsOfOneServer
<1>2. OneIsUp /\ OneEdits /\ OnlyEditsLoad /\ EditsFit
  BY DEF Init, OneIsUp, OneEdits, OnlyEditsLoad, EditsFit, Entered, Acquiring, Holding, Releasing
<1> QED BY <1>1, <1>2 DEF QueueInv

(* Nobody else edits while an edit is on its way.                          *)
LEMMA SoleEdit ==
  ASSUME EditsOfOneServer, QueueInv, NEW c \in Calls, Ask(c) \/ Act(c), Kind[c] = "edit",
         Entered(c)', NEW d \in Calls \ {c}, Kind[d] = "edit"
  PROVE  ~Entered(d)
<1>1. CASE Entered(c)
  BY <1>1 DEF QueueInv, OneEdits
<1>2. CASE ~Entered(c)
  <2>1. Enter(c)
    <3>1. TypeOK
      BY DEF QueueInv, PlaceInv
    <3>2. ~Ask(c)
      BY <1>2, <3>1 DEF Ask, Goto, TypeOK, Entered, Acquiring, Holding, Releasing
    <3>3. ~(Create(c) \/ Read(c) \/ Steal(c))
      BY <1>2 DEF Create, Read, Steal, Entered, Acquiring
    <3>4. ~(Load(c) \/ Save(c) \/ Visit(c) \/ Open(c) \/ Close(c) \/ Reset(c) \/ Check(c)
              \/ Remove(c))
      BY <1>2 DEF Load, Save, Visit, Open, Close, Reset, Check, Remove, Entered, Holding, Releasing
    <3> QED BY <3>2, <3>3, <3>4 DEF Act
  <2> SUFFICES ASSUME Entered(d) PROVE FALSE
    OBVIOUS
  <2>2. Alive(c) /\ Alive(d)
    BY <2>1 DEF Enter, QueueInv, PlaceInv, PlacesFit, Entered, Acquiring, Holding, Releasing
  <2>3. Of[c] = Of[d]
    BY <2>2 DEF QueueInv, OneIsUp, Alive, EditsOfOneServer, FileLeaseAssumption
  <2>4. c \in Queued /\ d \in Queued
    BY DEF EditsOfOneServer
  <2> QED BY <2>1, <2>3, <2>4 DEF Enter
<1> QED BY <1>1, <1>2

LEMMA CallQueue ==
  ASSUME EditsOfOneServer, QueueInv, PlaceInv', NEW c \in Calls, Ask(c) \/ Act(c)
  PROVE  QueueInv'
<1>0. TypeOK
  BY DEF QueueInv, PlaceInv
<1>1. Moves(c)
  BY <1>0, CallsMove
<1>2. \A d \in Calls \ {c} : Entered(d)' <=> Entered(d)
  BY <1>1 DEF Moves, Entered
<1>3. OneIsUp'
  BY <1>1 DEF QueueInv, OneIsUp, Moves
<1>4. OneEdits'
  BY <1>2, SoleEdit DEF QueueInv, OneEdits
<1>5. OnlyEditsLoad'
  <2>1. pc'[c] = "loaded" => Kind[c] = "edit"
    BY <1>0 DEF Ask, Act, Enter, Create, Read, Steal, Load, Save, Visit, Open, Close, Reset, Check,
                Remove, TypeOK, Goto
  <2> QED BY <1>1, <2>1 DEF QueueInv, OnlyEditsLoad, Moves
<1>6. EditsFit'
  <2>1. pc[c] = "loaded" => \A d \in Calls \ {c} : pc[d] # "loaded"
    BY DEF QueueInv, OnlyEditsLoad, OneEdits, Entered, Holding
  <2> QED BY <1>0, <2>1, CallEdits DEF QueueInv
<1> QED BY <1>3, <1>4, <1>5, <1>6 DEF QueueInv

LEMMA NextQueue == EditsOfOneServer /\ QueueInv /\ [Next]_vars => QueueInv'
<1> SUFFICES ASSUME EditsOfOneServer, QueueInv, [Next]_vars PROVE QueueInv'
  OBVIOUS
<1>0. PlaceInv'
  BY NextPlaces DEF EditsOfOneServer, QueueInv
<1>1. ASSUME NEW p \in Procs, Start(p) PROVE QueueInv'
  <2>1. OneIsUp'
    BY <1>1 DEF Start, EditsOfOneServer, QueueInv, PlaceInv, TypeOK, OneIsUp
  <2>2. UNCHANGED <<pc, rev, saved, expected>>
    BY <1>1 DEF Start
  <2>3. OneEdits' /\ OnlyEditsLoad' /\ EditsFit'
    BY <2>2 DEF QueueInv, OneEdits, Entered, OnlyEditsLoad, EditsFit
  <2> QED BY <1>0, <2>1, <2>3 DEF QueueInv
<1>2. ASSUME NEW p \in Procs, Crash(p) PROVE QueueInv'
  <2>1. OneIsUp'
    BY <1>2 DEF Crash, QueueInv, PlaceInv, TypeOK, OneIsUp
  <2>2. \A c \in Calls : pc'[c] = "dead" \/ pc'[c] = pc[c]
    BY <1>2 DEF Crash
  <2>3. UNCHANGED <<rev, saved, expected>>
    BY <1>2 DEF Crash
  <2>4. OneEdits' /\ OnlyEditsLoad' /\ EditsFit'
    BY <2>2, <2>3 DEF QueueInv, OneEdits, Entered, OnlyEditsLoad, EditsFit, Acquiring, Holding,
                      Releasing
  <2> QED BY <1>0, <2>1, <2>4 DEF QueueInv
<1>3. ASSUME NEW c \in Calls, Ask(c) \/ Act(c) PROVE QueueInv'
  BY <1>0, <1>3, CallQueue
<1>4. ASSUME UNCHANGED vars PROVE QueueInv'
  BY <1>0, <1>4 DEF vars, QueueInv, OneIsUp, OneEdits, Entered, OnlyEditsLoad, EditsFit
<1> QED BY <1>1, <1>2, <1>3, <1>4 DEF Next

(* withWorkspaceConfigLock and withWorkspaceRevision, in one server and    *)
(* across its restarts: every edit that was confirmed replaced the         *)
(* revision that its client had seen, even when a creation or a recovery,  *)
(* which take the lease without the queue, has taken its lock file away.   *)
THEOREM EditsAreCasInOneServer ==
  ASSUME EditsOfOneServer
  PROVE  Spec => []EditsAreCas
<1>1. Init => QueueInv
  BY InitQueue
<1>2. QueueInv /\ [Next]_vars => QueueInv'
  BY NextQueue
<1>3. QueueInv => EditsAreCas
  BY DEF QueueInv, EditsFit, EditsAreCas
<1> QED BY <1>1, <1>2, <1>3, PTL DEF Spec

-----------------------------------------------------------------------------
(* Any servers.                                                            *)

(* Whoever is connected locks the store, and nobody else is.               *)
SoleConnection ==
    /\ \A c \in Calls : conn[c] # 0 => conn[c] = store
    /\ \A c, d \in Calls : conn[c] # 0 /\ conn[d] # 0 => c = d

StoreInv == TypeOK /\ SoleConnection

LEMMA InitStore == NoReset /\ Init => StoreInv
<1> SUFFICES ASSUME NoReset, Init PROVE StoreInv
  OBVIOUS
<1>1. TypeOK
  BY InitType DEF NoReset
<1>2. SoleConnection
  BY DEF Init, SoleConnection
<1> QED BY <1>1, <1>2 DEF StoreInv

LEMMA NextStore == NoReset /\ StoreInv /\ [Next]_vars => StoreInv'
<1> SUFFICES ASSUME NoReset, StoreInv, [Next]_vars PROVE StoreInv'
  OBVIOUS
<1>0. TypeOK /\ TypeOK' /\ SoleConnection
  BY NextType DEF NoReset, StoreInv
<1>1. ASSUME NEW c \in Calls, Open(c) PROVE SoleConnection'
  <2>1. CASE store = 0
    <3>1. conn' = [conn EXCEPT ![c] = inodes + 1] /\ store' = inodes + 1
      BY <1>1, <2>1 DEF Open
    <3>2. \A d \in Calls : conn[d] = 0
      BY <1>0, <2>1 DEF SoleConnection
    <3>3. conn'[c] = store' /\ \A d \in Calls \ {c} : conn'[d] = 0
      BY <1>0, <3>1, <3>2 DEF TypeOK
    <3> QED BY <3>3 DEF SoleConnection
  <2>2. CASE store # 0 /\ ~LockedByOther(c, store)
    <3>1. conn' = [conn EXCEPT ![c] = store] /\ store' = store
      BY <1>1, <2>2 DEF Open
    <3>2. \A d \in Calls \ {c} : conn[d] = 0
      BY <1>0, <2>2 DEF SoleConnection, LockedByOther
    <3>3. conn'[c] = store' /\ \A d \in Calls \ {c} : conn'[d] = 0
      BY <1>0, <3>1, <3>2 DEF TypeOK
    <3> QED BY <3>3 DEF SoleConnection
  <2>3. CASE store # 0 /\ LockedByOther(c, store)
    <3>1. UNCHANGED <<conn, store>>
      BY <1>1, <2>3 DEF Open
    <3> QED BY <1>0, <3>1 DEF SoleConnection
  <2> QED BY <2>1, <2>2, <2>3
<1>2. ASSUME store' = store, \A d \in Calls : conn'[d] = 0 \/ conn'[d] = conn[d]
      PROVE  SoleConnection'
  BY <1>0, <1>2 DEF SoleConnection
<1>3. ASSUME NEW p \in Procs, Start(p) \/ Crash(p) PROVE SoleConnection'
  BY <1>2, <1>3 DEF Start, Crash
<1>4. ASSUME NEW c \in Calls, Close(c) PROVE SoleConnection'
  BY <1>0, <1>2, <1>4 DEF Close, TypeOK
<1>5. ASSUME NEW c \in Calls, Ask(c) \/ (Act(c) /\ ~Open(c) /\ ~Close(c)) PROVE SoleConnection'
  <2>1. ~Reset(c)
    BY DEF NoReset, Reset
  <2>2. UNCHANGED <<store, conn>>
    BY <1>5, <2>1 DEF Ask, Act, Enter, Create, Read, Steal, Load, Save, Visit, Check, Remove
  <2> QED BY <1>2, <2>2
<1>6. ASSUME UNCHANGED vars PROVE SoleConnection'
  BY <1>2, <1>6 DEF vars
<1> QED BY <1>0, <1>1, <1>3, <1>4, <1>5, <1>6 DEF Next, StoreInv

LEMMA OneConnection == SoleConnection => OneOwner
<1> SUFFICES ASSUME SoleConnection PROVE OneOwner
  OBVIOUS
<1> DEFINE O == {c \in Calls : conn[c] # 0}
<1>1. CASE O = {}
  BY <1>1, FS_EmptySet DEF OneOwner
<1>2. CASE O # {}
  <2>1. PICK c \in O : TRUE
    BY <1>2
  <2>2. O = {c}
    BY <2>1 DEF SoleConnection
  <2>3. Cardinality(O) = 1
    BY <2>2, FS_Singleton
  <2> QED BY <2>3 DEF OneOwner
<1> QED BY <1>1, <1>2

(* The lease and locking_mode=EXCLUSIVE between any number of servers: as  *)
(* long as nobody resets the store, at most one owner has it open, however *)
(* often the lock file is taken away from a live holder.                   *)
THEOREM OneOwnerOfTheStore ==
  ASSUME NoReset
  PROVE  Spec => []OneOwner
<1>1. Init => StoreInv
  BY InitStore
<1>2. StoreInv /\ [Next]_vars => StoreInv'
  BY NextStore
<1>3. StoreInv => OneOwner
  BY OneConnection DEF StoreInv
<1> QED BY <1>1, <1>2, <1>3, PTL DEF Spec

(* Every variable of the lease keeps its type.                             *)
THEOREM TypeCorrect ==
  ASSUME FileLeaseAssumption
  PROVE  Spec => []TypeOK
<1>1. Init => TypeOK
  BY InitType
<1>2. TypeOK /\ [Next]_vars => TypeOK'
  BY NextType
<1> QED BY <1>1, <1>2, PTL DEF Spec
=============================================================================
