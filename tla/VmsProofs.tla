------------------------------ MODULE VmsProofs ------------------------------
(***************************************************************************)
(* Proofs about os_vms.c: its locks, for any set of connections, and its   *)
(* input and output, for blocks of any size, files of any length and any   *)
(* extension.                                                              *)
(***************************************************************************)
EXTENDS Vms, SequenceTheorems, TLAPS

(* Every two granted modes are compatible.                                 *)
Exclusion == \A c, d \in Conn : c # d => Compatible(held[c], held[d])

(* A request asks for mode m from mode h and goes up.                      *)
UpgradeOf(h, m) ==
  \/ h = "NL" /\ m = "PR"
  \/ h = "PR" /\ m \in {"PW", "EX"}
  \/ h = "PW" /\ m = "EX"

(* A process waits in sys$enqw for one request at a time, made from a mode *)
(* it still holds: an unlock never waits.                                  *)
Queued ==
  /\ \A i, j \in 1..Len(queue) : queue[i].who = queue[j].who => i = j
  /\ \A i \in 1..Len(queue) : UpgradeOf(held[queue[i].who], queue[i].mode)

(* The inductive invariant.  WritersExcludeAll follows from Exclusion.     *)
(* Queued needs Exclusion: because nobody else holds a lock beside a       *)
(* writer, a conversion down is always granted and never queued.           *)
IInv == TypeOK /\ Exclusion /\ Queued

-----------------------------------------------------------------------------
(* The mode table.                                                         *)

(* The mode table is symmetric.                                            *)
LEMMA CompatibleSymmetric ==
  \A m, n : Compatible(m, n) <=> Compatible(n, m)
BY DEF Compatible

(* What lock_modes holds.                                                  *)
LEMMA LockModes ==
  /\ lock_modes[NO_LOCK] = "NL" /\ lock_modes[SHARED_LOCK] = "PR"
  /\ lock_modes[RESERVED_LOCK] = "PW" /\ lock_modes[EXCLUSIVE_LOCK] = "EX"
BY DEF lock_modes, NO_LOCK, SHARED_LOCK, RESERVED_LOCK, EXCLUSIVE_LOCK

(* The lock levels behind the modes.                                       *)
LEMMA Levels ==
  /\ LevelOf("NL") = NO_LOCK /\ LevelOf("PR") = SHARED_LOCK
  /\ LevelOf("PW") = RESERVED_LOCK /\ LevelOf("EX") = EXCLUSIVE_LOCK
  /\ LevelOf(Closed) = NO_LOCK
BY DEF LevelOf, Closed

(* The modes that vmsLock() asks for from the mode it holds.               *)
LEMMA UpgradeModes ==
  /\ Upgrade[LevelOf("NL")] = {SHARED_LOCK}
  /\ Upgrade[LevelOf("PR")] = {RESERVED_LOCK, EXCLUSIVE_LOCK}
  /\ Upgrade[LevelOf("PW")] = {EXCLUSIVE_LOCK}
BY Levels DEF Upgrade, NO_LOCK, SHARED_LOCK, RESERVED_LOCK

(* An upgrade in terms of modes.                                           *)
LEMMA UpgradeOfModes ==
  ASSUME NEW h \in {"NL", "PR", "PW"}, NEW m
  PROVE  m \in {lock_modes[l] : l \in Upgrade[LevelOf(h)]} <=> UpgradeOf(h, m)
<1>1. CASE h = "NL"
  BY <1>1, UpgradeModes, LockModes DEF UpgradeOf
<1>2. CASE h = "PR"
  BY <1>2, UpgradeModes, LockModes DEF UpgradeOf
<1>3. CASE h = "PW"
  BY <1>3, UpgradeModes, LockModes DEF UpgradeOf
<1> QED
  BY <1>1, <1>2, <1>3

-----------------------------------------------------------------------------
(* A queue without its i-th request.                                       *)
LEMMA WithoutProperties ==
  ASSUME NEW q \in Seq(Request), NEW i \in 1..Len(q)
  PROVE  /\ Without(q, i) \in Seq(Request)
         /\ Len(Without(q, i)) = Len(q) - 1
         /\ \A j \in 1..(Len(q) - 1) :
               Without(q, i)[j] = IF j < i THEN q[j] ELSE q[j + 1]
<1>1. Len(q) \in Nat /\ Len(q) - 1 \in Nat
  OBVIOUS
<1>2. \A j \in 1..(Len(q) - 1) : q[j] \in Request /\ q[j + 1] \in Request
  BY <1>1
<1>3. Without(q, i) \in [1..(Len(q) - 1) -> Request]
  BY <1>2 DEF Without
<1>4. Without(q, i) \in Seq(Request) /\ Len(Without(q, i)) = Len(q) - 1
  BY <1>1, <1>3
<1> QED
  BY <1>4 DEF Without

(* The head of the queue leaves it.                                        *)
LEMMA TailIsWithout ==
  ASSUME NEW q \in Seq(Request), q # <<>>
  PROVE  Tail(q) = Without(q, 1)
<1>1. 1 \in 1..Len(q) /\ Len(q) \in Nat
  OBVIOUS
<1>2. /\ Tail(q) \in Seq(Request)
      /\ Len(Tail(q)) = Len(q) - 1
      /\ \A j \in 1..Len(Tail(q)) : Tail(q)[j] = q[j + 1]
  BY HeadTailProperties
<1>3. \A j \in 1..Len(Tail(q)) : Tail(q)[j] = Without(q, 1)[j]
  BY <1>1, <1>2, WithoutProperties
<1> QED
  BY <1>1, <1>2, <1>3, WithoutProperties, SeqEqual

-----------------------------------------------------------------------------
(* The three shapes of a step, and why each keeps the invariant.           *)

(* A connection that is not waiting gets a mode the others admit.          *)
LEMMA SetKeeps ==
  ASSUME IInv, NEW c \in Conn, NEW m \in Mode \cup {Closed},
         ~Waiting(c), CanGrant(c, m),
         held' = [held EXCEPT ![c] = m], UNCHANGED queue
  PROVE  IInv'
<1>1. TypeOK'
  BY DEF IInv, TypeOK
<1>2. Exclusion'
  BY DEF IInv, TypeOK, Exclusion, CanGrant, Others, Compatible
<1>3. Queued'
  BY DEF IInv, TypeOK, Queued, Waiting, Request
<1> QED
  BY <1>1, <1>2, <1>3 DEF IInv

(* A connection that is not waiting asks for an upgrade and is queued.     *)
LEMMA EnqueueKeeps ==
  ASSUME IInv, NEW c \in Conn, NEW m \in Mode,
         ~Waiting(c), UpgradeOf(held[c], m),
         queue' = Append(queue, [who |-> c, mode |-> m]), UNCHANGED held
  PROVE  IInv'
<1> DEFINE r == [who |-> c, mode |-> m]
<1>0. queue \in Seq(Request) /\ r \in Request
  BY DEF IInv, TypeOK, Request
<1>1. /\ queue' \in Seq(Request)
      /\ Len(queue') = Len(queue) + 1 /\ Len(queue) \in Nat
      /\ \A i \in 1..Len(queue) : queue'[i] = queue[i]
      /\ queue'[Len(queue) + 1] = r
  BY <1>0
<1>2. TypeOK'
  BY <1>1 DEF IInv, TypeOK
<1>3. Exclusion'
  BY DEF IInv, Exclusion
<1>4. \A i \in 1..Len(queue') : i \in 1..Len(queue) \/ i = Len(queue) + 1
  BY <1>1
<1>5. Queued'
  <2> r.who = c /\ r.mode = m
    OBVIOUS
  <2> QED
    BY <1>1, <1>4 DEF IInv, Queued, Waiting
<1> QED
  BY <1>2, <1>3, <1>5 DEF IInv

(* A waiting connection leaves the queue with a mode the others admit.     *)
LEMMA DequeueKeeps ==
  ASSUME IInv, NEW i \in 1..Len(queue), NEW m \in Mode \cup {Closed},
         CanGrant(queue[i].who, m),
         held' = [held EXCEPT ![queue[i].who] = m], queue' = Without(queue, i)
  PROVE  IInv'
<1> DEFINE c == queue[i].who
<1>0. queue \in Seq(Request) /\ Len(queue) \in Nat /\ c \in Conn
      /\ \A j \in 1..Len(queue) : queue[j] \in Request
  <2>1. queue \in Seq(Request)
    BY DEF IInv, TypeOK
  <2>2. Len(queue) \in Nat /\ \A j \in 1..Len(queue) : queue[j] \in Request
    BY <2>1
  <2>3. c \in Conn
    BY <2>2 DEF Request
  <2> QED
    BY <2>1, <2>2, <2>3
<1>1. /\ queue' \in Seq(Request)
      /\ Len(queue') = Len(queue) - 1
      /\ \A j \in 1..Len(queue') :
            queue'[j] = IF j < i THEN queue[j] ELSE queue[j + 1]
  BY <1>0, WithoutProperties
<1>2. TypeOK'
  BY <1>0, <1>1 DEF IInv, TypeOK
<1>3. Exclusion'
  BY <1>0 DEF IInv, TypeOK, Exclusion, CanGrant, Others, Compatible
<1>4. Queued'
  <2> DEFINE old(j) == IF j < i THEN j ELSE j + 1
  <2>1. \A j \in 1..Len(queue') :
          /\ old(j) \in 1..Len(queue) /\ old(j) # i
          /\ queue'[j] = queue[old(j)]
    BY <1>0, <1>1
  <2>2. \A j, k \in 1..Len(queue') : old(j) = old(k) => j = k
    BY <1>0, <1>1
  <2>3. \A j \in 1..Len(queue') : held'[queue[old(j)].who] = held[queue[old(j)].who]
    BY <1>0, <2>1 DEF IInv, TypeOK, Queued, Request
  <2> HIDE DEF old
  <2>4. ASSUME NEW j \in 1..Len(queue'), NEW k \in 1..Len(queue'),
               queue'[j].who = queue'[k].who
        PROVE  j = k
    <3>1. queue[old(j)].who = queue[old(k)].who
      BY <2>1, <2>4
    <3>2. old(j) = old(k)
      BY <2>1, <3>1 DEF IInv, Queued
    <3> QED
      BY <2>2, <3>2
  <2>5. ASSUME NEW j \in 1..Len(queue')
        PROVE  UpgradeOf(held'[queue'[j].who], queue'[j].mode)
    BY <2>1, <2>3, <2>5 DEF IInv, Queued
  <2>6. Queued' <=>
          /\ \A j, k \in 1..Len(queue') : queue'[j].who = queue'[k].who => j = k
          /\ \A j \in 1..Len(queue') : UpgradeOf(held'[queue'[j].who], queue'[j].mode)
    BY DEF Queued, UpgradeOf
  <2> QED
    BY <2>4, <2>5, <2>6
<1> QED
  BY <1>2, <1>3, <1>4 DEF IInv

-----------------------------------------------------------------------------
(* Every action is one of the three.                                       *)

(* The invariant holds when the file is opened.                            *)
LEMMA InitInvariant ==
  Init => IInv
<1> SUFFICES ASSUME Init PROVE IInv
  OBVIOUS
<1>1. TypeOK
  BY DEF Init, TypeOK
<1>2. Exclusion
  BY DEF Init, Exclusion, Compatible
<1>3. Queued
  BY DEF Init, Queued
<1> QED
  BY <1>1, <1>2, <1>3 DEF IInv

(* vmsUnLock() never waits: the mode it asks for is always admitted.       *)
LEMMA UnlockGranted ==
  ASSUME IInv, NEW c \in Conn, NEW l \in {NO_LOCK, SHARED_LOCK},
         held[c] # Closed, l < LevelOf(held[c])
  PROVE  CanGrant(c, lock_modes[l])
<1>1. CASE l = NO_LOCK
  BY <1>1, LockModes DEF CanGrant, Compatible
<1>2. CASE l = SHARED_LOCK
  <2>1. held[c] \in {"PW", "EX"}
    BY <1>2, Levels DEF IInv, TypeOK, Mode, NO_LOCK, SHARED_LOCK
  <2>2. \A d \in Others(c) : held[d] \in {"NL", Closed}
    BY <2>1 DEF IInv, Exclusion, Others, Compatible, Closed
  <2> QED
    BY <2>2 DEF CanGrant, Compatible
<1> QED
  BY <1>1, <1>2

(* Every step keeps the invariant.                                         *)
LEMMA NextInvariant ==
  IInv /\ [Next]_vars => IInv'
<1> SUFFICES ASSUME IInv, [Next]_vars PROVE IInv'
  OBVIOUS
<1>0. TypeOK /\ \A l \in {NO_LOCK, SHARED_LOCK, RESERVED_LOCK, EXCLUSIVE_LOCK} :
                   lock_modes[l] \in Mode
  BY LockModes DEF IInv, Mode
<1>1. ASSUME NEW c \in Conn, vmsOpen(c) PROVE IInv'
  <2>1. CanGrant(c, "NL")
    BY DEF CanGrant, Compatible
  <2> QED
    BY <1>1, <2>1, SetKeeps DEF vmsOpen, Calls, Mode
<1>2. ASSUME NEW c \in Conn, vmsClose(c) PROVE IInv'
  <2>1. CanGrant(c, Closed)
    BY DEF CanGrant, Compatible
  <2> QED
    BY <1>2, <2>1, SetKeeps DEF vmsClose, Calls
<1>3. ASSUME NEW c \in Conn, NEW l \in {SHARED_LOCK, RESERVED_LOCK, EXCLUSIVE_LOCK},
             vmsLock(c, l)
      PROVE  IInv'
  <2>1. UpgradeOf(held[c], lock_modes[l])
    BY <1>3, UpgradeOfModes DEF vmsLock
  <2>2. CASE CanGrant(c, lock_modes[l])
    BY <1>0, <1>3, <2>2, SetKeeps DEF vmsLock, Calls, Convert
  <2>3. CASE ~CanGrant(c, lock_modes[l])
    BY <1>0, <1>3, <2>1, <2>3, EnqueueKeeps DEF vmsLock, Calls, Convert
  <2> QED
    BY <2>2, <2>3
<1>4. ASSUME NEW c \in Conn, NEW l \in {NO_LOCK, SHARED_LOCK}, vmsUnLock(c, l)
      PROVE  IInv'
  <2>1. CanGrant(c, lock_modes[l])
    BY <1>4, UnlockGranted DEF vmsUnLock
  <2> QED
    BY <1>0, <1>4, <2>1, SetKeeps DEF vmsUnLock, Calls, Convert
<1>5. ASSUME Grant PROVE IInv'
  <2>1. queue \in Seq(Request) /\ queue # <<>>
    BY <1>0, <1>5 DEF TypeOK, Grant, HeadGrantable
  <2>2. 1 \in 1..Len(queue) /\ Head(queue) = queue[1] /\ queue[1] \in Request
    BY <2>1
  <2>3. Tail(queue) = Without(queue, 1)
    BY <2>1, TailIsWithout
  <2>4. queue[1].mode \in Mode
    BY <2>2 DEF Request
  <2> QED
    BY <1>5, <2>2, <2>3, <2>4, DequeueKeeps DEF Grant, HeadGrantable
<1>6. ASSUME NEW c \in Conn, DeadlockVictim(c) PROVE IInv'
  <2>1. PICK i \in 1..Len(queue) : queue[i].who = c /\ queue' = Without(queue, i)
    BY <1>6 DEF DeadlockVictim, Deadlocked, Withdraw
  <2>2. CanGrant(c, held[c])
    BY DEF IInv, Exclusion, CanGrant, Others
  <2>3. held[c] \in Mode \cup {Closed} /\ held' = [held EXCEPT ![c] = held[c]]
    BY <1>0, <1>6 DEF TypeOK, DeadlockVictim
  <2> QED
    BY <2>1, <2>2, <2>3, DequeueKeeps
<1>7. ASSUME NEW c \in Conn, Crash(c) PROVE IInv'
  <2>1. CanGrant(c, Closed)
    BY DEF CanGrant, Compatible
  <2>2. CASE Waiting(c)
    <3>1. PICK i \in 1..Len(queue) : queue[i].who = c /\ queue' = Without(queue, i)
      BY <1>7, <2>2 DEF Crash, Withdraw
    <3> QED
      BY <1>7, <2>1, <3>1, DequeueKeeps DEF Crash
  <2>3. CASE ~Waiting(c)
    BY <1>7, <2>1, <2>3, SetKeeps DEF Crash, Withdraw
  <2> QED
    BY <2>2, <2>3
<1>8. CASE UNCHANGED vars
  BY <1>8 DEF vars, IInv, TypeOK, Exclusion, Queued
<1> QED
  BY <1>1, <1>2, <1>3, <1>4, <1>5, <1>6, <1>7, <1>8 DEF Next

-----------------------------------------------------------------------------
(* The inductive invariant holds in every reachable state.                 *)
THEOREM Invariance == Spec => []IInv
BY InitInvariant, NextInvariant, PTL DEF Spec

(* The granted modes and the queued requests of os_vms.c always have their *)
(* types.                                                                  *)
THEOREM TypeCorrect == Spec => []TypeOK
<1>1. IInv => TypeOK
  BY DEF IInv
<1> QED
  BY <1>1, Invariance, PTL

(* vmsLock() never lets two connections in, one of them a writer, however  *)
(* many there are, whoever dies and whoever the deadlock search chooses.   *)
THEOREM ExclusionHolds == Spec => []WritersExcludeAll
<1>1. IInv => WritersExcludeAll
  <2> SUFFICES ASSUME IInv, NEW c \in Conn, NEW d \in Conn,
                      c # d, LevelOf(held[c]) >= RESERVED_LOCK
               PROVE  LevelOf(held[d]) = NO_LOCK
    BY DEF WritersExcludeAll
  <2>1. held[c] \in {"PW", "EX"}
    BY Levels DEF IInv, TypeOK, Mode, NO_LOCK, SHARED_LOCK, RESERVED_LOCK
  <2>2. held[d] \in {"NL", Closed}
    BY <2>1 DEF IInv, Exclusion, Compatible, Closed
  <2> QED
    BY <2>2, Levels
<1> QED
  BY <1>1, Invariance, PTL

-----------------------------------------------------------------------------
(* Refinement: the levels of os.h, seen through the granted modes.         *)

Lock == [c \in Conn |-> LevelOf(held[c])]

(* The lock levels of FileLock are those of VmsLock.                       *)
LEMMA SameLevels ==
  /\ FL!NO_LOCK = NO_LOCK /\ FL!SHARED_LOCK = SHARED_LOCK
  /\ FL!RESERVED_LOCK = RESERVED_LOCK /\ FL!EXCLUSIVE_LOCK = EXCLUSIVE_LOCK
  /\ NO_LOCK = 0 /\ SHARED_LOCK = 1 /\ RESERVED_LOCK = 2 /\ EXCLUSIVE_LOCK = 4
  /\ FL!PENDING_LOCK = 3
BY DEF FL!NO_LOCK, FL!SHARED_LOCK, FL!RESERVED_LOCK, FL!EXCLUSIVE_LOCK, FL!PENDING_LOCK,
       NO_LOCK, SHARED_LOCK, RESERVED_LOCK, EXCLUSIVE_LOCK

(* What FileLock asks of the other connections, by level.                  *)
LEMMA MayHoldLevels ==
  ASSUME NEW c \in Conn
  PROVE  /\ FL!MayHold(c, 1) <=> \A d \in Others(c) : Lock[d] < 3
         /\ FL!MayHold(c, 2) <=> \A d \in Others(c) : Lock[d] < 2
         /\ FL!MayHold(c, 4) <=> \A d \in Others(c) : Lock[d] = 0
BY DEF FL!MayHold, FL!Others, Others, Lock, FL!NO_LOCK, FL!SHARED_LOCK,
       FL!RESERVED_LOCK, FL!PENDING_LOCK, FL!EXCLUSIVE_LOCK

(* One lock changes to a mode the others admit.                            *)
LEMMA SetImplements ==
  ASSUME TypeOK, NEW c \in Conn, NEW m \in Mode \cup {Closed}, CanGrant(c, m),
         LevelOf(m) < LevelOf(held[c]) => m \in {"NL", "PR", Closed},
         held' = [held EXCEPT ![c] = m]
  PROVE  FL!Next \/ UNCHANGED Lock
<1> USE SameLevels
<1>1. \A d \in Conn : LevelOf(held[d]) \in {0, 1, 2, 4}
  BY Levels DEF TypeOK, Mode
<1>2. LevelOf(m) \in {0, 1, 2, 4}
  BY Levels DEF Mode
<1>3. Lock' = [Lock EXCEPT ![c] = LevelOf(m)] /\ Lock[c] = LevelOf(held[c])
  BY DEF Lock, TypeOK
<1>4. \A d \in Others(c) : d \in Conn /\ Lock[d] = LevelOf(held[d])
  BY DEF Others, Lock
<1>5. LevelOf(m) \in FL!Level
  BY <1>2 DEF FL!Level
<1>6. CASE LevelOf(m) = LevelOf(held[c])
  BY <1>3, <1>6 DEF Lock
<1>7. CASE LevelOf(m) < LevelOf(held[c])
  <2>1. LevelOf(m) \in {0, 1}
    BY <1>7, Levels
  <2>2. FL!Release(c, LevelOf(m))
    BY <1>3, <1>7, <2>1 DEF FL!Release, Lock
  <2> QED
    BY <1>5, <2>2 DEF FL!Next
<1>8. CASE LevelOf(m) > LevelOf(held[c])
  <2>1. FL!MayHold(c, LevelOf(m))
    <3>1. m \in {"PR", "PW", "EX"}
      BY <1>1, <1>8, Levels DEF Mode
    <3>2. CASE m = "PR"
      <4>1. \A d \in Others(c) : held[d] \in {"NL", "PR", Closed}
        BY <1>4, <3>2 DEF CanGrant, Compatible, Closed
      <4> QED
        BY <1>4, <3>2, <4>1, Levels, MayHoldLevels
    <3>3. CASE m \in {"PW", "EX"}
      <4>1. \A d \in Others(c) : held[d] \in {"NL", Closed}
        BY <1>4, <3>3 DEF CanGrant, Compatible, Closed
      <4> QED
        BY <1>4, <3>3, <4>1, Levels, MayHoldLevels
    <3> QED
      BY <3>1, <3>2, <3>3
  <2>2. FL!Acquire(c, LevelOf(m))
    BY <1>3, <1>8, <2>1 DEF FL!Acquire, Lock
  <2> QED
    BY <1>5, <2>2 DEF FL!Next
<1> QED
  BY <1>1, <1>2, <1>6, <1>7, <1>8

(* A request goes up.                                                      *)
LEMMA UpgradeRaises ==
  ASSUME NEW h, NEW m, UpgradeOf(h, m)
  PROVE  ~(LevelOf(m) < LevelOf(h))
BY Levels, SameLevels DEF UpgradeOf

(* Every step is one of FileLock, or none.                                 *)
LEMMA NextImplements ==
  IInv /\ [Next]_vars => [FL!Next]_Lock
<1> SUFFICES ASSUME IInv, [Next]_vars PROVE FL!Next \/ UNCHANGED Lock
  OBVIOUS
<1>0. TypeOK /\ \A l \in {NO_LOCK, SHARED_LOCK, RESERVED_LOCK, EXCLUSIVE_LOCK} :
                   lock_modes[l] \in Mode
  BY LockModes DEF IInv, Mode
<1>a. \A c : CanGrant(c, "NL") /\ CanGrant(c, Closed)
  BY DEF CanGrant, Compatible
<1>b. ASSUME UNCHANGED held PROVE UNCHANGED Lock
  BY <1>b DEF Lock
<1>1. ASSUME NEW c \in Conn, vmsOpen(c) PROVE FL!Next \/ UNCHANGED Lock
  BY <1>0, <1>1, <1>a, SetImplements DEF vmsOpen, Mode
<1>2. ASSUME NEW c \in Conn, vmsClose(c) \/ Crash(c) PROVE FL!Next \/ UNCHANGED Lock
  BY <1>0, <1>2, <1>a, SetImplements DEF vmsClose, Crash
<1>3. ASSUME NEW c \in Conn, NEW l \in {SHARED_LOCK, RESERVED_LOCK, EXCLUSIVE_LOCK},
             vmsLock(c, l)
      PROVE  FL!Next \/ UNCHANGED Lock
  <2>1. ~(LevelOf(lock_modes[l]) < LevelOf(held[c]))
    BY <1>3, UpgradeOfModes, UpgradeRaises DEF vmsLock
  <2>2. CASE CanGrant(c, lock_modes[l])
    BY <1>0, <1>3, <2>1, <2>2, SetImplements DEF vmsLock, Convert
  <2>3. CASE ~CanGrant(c, lock_modes[l])
    BY <1>3, <1>b, <2>3 DEF vmsLock, Convert
  <2> QED
    BY <2>2, <2>3
<1>4. ASSUME NEW c \in Conn, NEW l \in {NO_LOCK, SHARED_LOCK}, vmsUnLock(c, l)
      PROVE  FL!Next \/ UNCHANGED Lock
  <2>1. CanGrant(c, lock_modes[l])
    BY <1>4, UnlockGranted DEF vmsUnLock
  <2>2. lock_modes[l] \in {"NL", "PR"}
    BY LockModes
  <2> QED
    BY <1>0, <1>4, <2>1, <2>2, SetImplements DEF vmsUnLock, Convert
<1>5. ASSUME Grant PROVE FL!Next \/ UNCHANGED Lock
  <2> DEFINE r == Head(queue)
  <2>1. queue \in Seq(Request) /\ queue # <<>>
    BY <1>0, <1>5 DEF TypeOK, Grant, HeadGrantable
  <2>2. 1 \in 1..Len(queue) /\ r = queue[1] /\ r \in Request
    BY <2>1
  <2>3. r.who \in Conn /\ r.mode \in Mode
    BY <2>2 DEF Request
  <2>4. ~(LevelOf(r.mode) < LevelOf(held[r.who]))
    BY <2>2, UpgradeRaises DEF IInv, Queued
  <2> QED
    BY <1>0, <1>5, <2>3, <2>4, SetImplements DEF Grant, HeadGrantable
<1>6. ASSUME NEW c \in Conn, DeadlockVictim(c) PROVE FL!Next \/ UNCHANGED Lock
  BY <1>6, <1>b DEF DeadlockVictim
<1>7. CASE UNCHANGED vars
  BY <1>7, <1>b DEF vars
<1> QED
  BY <1>1, <1>2, <1>3, <1>4, <1>5, <1>6, <1>7 DEF Next

(* os_vms.c implements the file locks of os.h: the levels the connections  *)
(* hold change only as FileLock allows, for any number of connections.     *)
THEOREM Refinement == Spec => ImplementsFileLock
<1>1. Init => FL!Init
  BY Levels, SameLevels DEF Init, FL!Init
<1>2. IInv /\ [Next]_vars => [FL!Next]_Lock
  BY NextImplements
<1> QED
  BY <1>1, <1>2, Invariance, PTL DEF Spec, FL!Spec, ImplementsFileLock, Lock

-----------------------------------------------------------------------------
(* Input and output: blocks and bytes.                                     *)

(* A file is whole blocks.                                                 *)
Whole(f) == f \in Seq(Int) /\ \E k \in Nat : Len(f) = k * Block

(* The inductive invariant of the file: its type, and what was written.    *)
FileInv ==
  /\ Whole(file) /\ szChunk \in Nat /\ szHint \in Nat /\ want \in [VF!Offset -> Int]
  /\ VF!FileHolds

LEMMA ConstantsAre ==
  /\ Block \in Nat /\ Block >= 2 /\ MaxByte \in Nat
  /\ DefExt \in Nat /\ RmsExtend \in Nat /\ VolExtend \in Nat
BY VmsFileAssumption DEF VF!ConstantsOK

(* Division and multiplication, the only facts about them that are used.   *)
LEMMA DivFacts ==
  ASSUME NEW a \in Nat, NEW b \in Nat, b > 0
  PROVE  /\ a \div b \in Nat /\ a % b \in Nat /\ a % b < b
         /\ a = ((a \div b) * b) + (a % b)
OBVIOUS

LEMMA MulFacts ==
  ASSUME NEW a \in Nat, NEW b \in Nat, NEW c \in Nat
  PROVE  /\ a * c \in Nat /\ (a + b) * c = (a * c) + (b * c)
         /\ a <= b => a * c <= b * c
         /\ a < b => (a * c) + c <= b * c
         /\ (a + 1) * c = (a * c) + c
OBVIOUS

LEMMA DivMul ==
  ASSUME NEW a \in Nat, NEW b \in Nat, b > 0
  PROVE  (a * b) \div b = a /\ (a * b) % b = 0
OBVIOUS

(* A function on 1..n is a sequence.                                       *)
LEMMA FunctionIsSeq ==
  ASSUME NEW n \in Nat, NEW s, s = [i \in 1..n |-> s[i]], \A i \in 1..n : s[i] \in Int
  PROVE  s \in Seq(Int) /\ Len(s) = n
<1>1. s \in [1..n -> Int]
  OBVIOUS
<1>2. s \in Seq(Int)
  BY <1>1, SeqDef
<1> QED
  BY <1>1, <1>2, LenProperties

(* Bytes of a buffer are moved to a file.                                  *)
LEMMA MoveFacts ==
  ASSUME NEW f \in Seq(Int), NEW b \in Seq(Int), NEW at \in Nat, NEW n \in Nat, n <= Len(b)
  PROVE  /\ VF!Move(f, at, b, 0, n) \in Seq(Int)
         /\ Len(VF!Move(f, at, b, 0, n)) = Len(f)
         /\ \A i \in 1..Len(f) :
               VF!Move(f, at, b, 0, n)[i] = IF i \in (at + 1)..(at + n) THEN b[i - at] ELSE f[i]
<1> DEFINE m == VF!Move(f, at, b, 0, n)
<1>1. Len(f) \in Nat /\ Len(b) \in Nat
  OBVIOUS
<1>2. \A i \in 1..Len(f) : m[i] = IF i \in (at + 1)..(at + n) THEN b[0 + i - at] ELSE f[i]
  BY <1>1 DEF VF!Move
<1>3. \A i \in (at + 1)..(at + n) : 0 + i - at = i - at /\ i - at \in 1..Len(b)
  BY <1>1
<1>4. \A i \in 1..Len(f) : m[i] = IF i \in (at + 1)..(at + n) THEN b[i - at] ELSE f[i]
  BY <1>2, <1>3
<1>5. \A i \in 1..Len(f) : m[i] \in Int
  BY <1>3, <1>4, ElementOfSeq
<1>6. m = [i \in 1..Len(f) |-> m[i]]
  BY DEF VF!Move
<1>7. m \in Seq(Int) /\ Len(m) = Len(f)
  <2> HIDE DEF m
  <2> QED BY <1>1, <1>5, <1>6, FunctionIsSeq
<1> QED
  BY <1>4, <1>7

(* A file is extended by whole blocks, and by enough of them.  The need is *)
(* not looked at only where the extension is the RMS default.              *)
ExtendsByNeed == szChunk > 0 \/ DefExt > 0 \/ RmsExtend = 0

LEMMA RoundedUpFacts ==
  ASSUME NEW n \in Nat, NEW e \in Nat, e > 0
  PROVE  VF!RoundedUp(n, e) \in Nat /\ VF!RoundedUp(n, e) >= n
<1> DEFINE q == (n + e - 1) \div e
<1>1. n + e - 1 \in Nat /\ VF!RoundedUp(n, e) = q * e
  BY DEF VF!RoundedUp
<1>2. q \in Nat /\ n + e - 1 = (q * e) + ((n + e - 1) % e) /\ (n + e - 1) % e < e
      /\ (n + e - 1) % e \in Nat
  BY <1>1, DivFacts
<1>3. q * e \in Nat
  BY <1>2, MulFacts
<1> HIDE DEF q
<1> QED
  BY <1>1, <1>2, <1>3

LEMMA ExszFacts ==
  ASSUME NEW n \in Nat, szChunk \in Nat
  PROVE  /\ VF!exsz(n) \in Nat
         /\ ExtendsByNeed => VF!exsz(n) >= n
<1>1. CASE szChunk > 0
  BY <1>1, RoundedUpFacts DEF VF!exsz
<1>2. CASE ~(szChunk > 0) /\ DefExt > 0
  BY <1>2, ConstantsAre, RoundedUpFacts DEF VF!exsz
<1>3. CASE ~(szChunk > 0) /\ ~(DefExt > 0)
  BY <1>3, ConstantsAre DEF VF!exsz, VF!Highest, ExtendsByNeed
<1> QED
  BY <1>1, <1>2, <1>3

LEMMA NeededFacts ==
  ASSUME NEW off \in Nat, NEW amt \in Nat
  PROVE  /\ VF!needed(off, amt) \in Nat
         /\ VF!needed(off, amt) * Block >= off + amt
         /\ VF!needed(off, amt) * Block >= ((off \div Block) * Block) + Block
<1> DEFINE q == off \div Block
           r == amt \div Block
<1>1. /\ q \in Nat /\ off = (q * Block) + (off % Block) /\ off % Block < Block
      /\ off % Block \in Nat
  BY ConstantsAre, DivFacts
<1>2. /\ r \in Nat /\ amt = (r * Block) + (amt % Block) /\ amt % Block < Block
      /\ amt % Block \in Nat
  BY ConstantsAre, DivFacts
<1>3. VF!needed(off, amt) = (q + 1) + (r + 1)
  BY <1>1, <1>2 DEF VF!needed
<1> HIDE DEF q, r
<1>4. ((q + 1) + (r + 1)) * Block = ((q + 1) * Block) + ((r + 1) * Block)
  BY <1>1, <1>2, ConstantsAre, MulFacts
<1>5. (q + 1) * Block = (q * Block) + Block /\ (r + 1) * Block = (r * Block) + Block
      /\ q * Block \in Nat /\ r * Block \in Nat
  BY <1>1, <1>2, ConstantsAre, MulFacts
<1>6. VF!needed(off, amt) \in Nat
  BY <1>1, <1>2, <1>3
<1>7. VF!needed(off, amt) * Block = (q * Block) + Block + (r * Block) + Block
  BY <1>3, <1>4, <1>5, ConstantsAre
<1>8. VF!needed(off, amt) * Block >= off + amt
  BY <1>1, <1>2, <1>5, <1>7, ConstantsAre
<1>9. VF!needed(off, amt) * Block >= (q * Block) + Block
  BY <1>5, <1>7, ConstantsAre
<1> QED
  BY <1>6, <1>8, <1>9 DEF q

LEMMA ExtendedFacts ==
  ASSUME NEW f, Whole(f), szChunk \in Nat, szHint \in Nat, NEW off \in Nat, NEW amt \in Nat
  PROVE  /\ Whole(VF!Extended(f, off, amt))
         /\ Len(f) \in Nat /\ Len(VF!Extended(f, off, amt)) \in Nat
         /\ Len(VF!Extended(f, off, amt)) >= Len(f)
         /\ \A i \in 1..Len(f) : VF!Extended(f, off, amt)[i] = f[i]
         /\ ExtendsByNeed =>
              Len(VF!Extended(f, off, amt)) >= VF!needed(off, amt) * Block
<1> DEFINE nd == VF!needed(off, amt)
           n == IF szHint > 0 THEN VF!Highest(szHint, nd) ELSE nd
           g == VF!Extended(f, off, amt)
<1>1. f \in Seq(Int) /\ Len(f) \in Nat
  BY DEF Whole
<1>2. PICK k \in Nat : Len(f) = k * Block
  BY DEF Whole
<1>3. nd \in Nat /\ n \in Nat /\ n >= nd
  <2>1. nd \in Nat
    BY NeededFacts
  <2> HIDE DEF nd
  <2> QED
    BY <2>1 DEF VF!Highest
<1>4. VF!Blocks(f) = k
  BY <1>2, ConstantsAre, DivMul DEF VF!Blocks
<1>5. CASE VF!Blocks(f) >= n
  <2>1. g = f
    BY <1>5 DEF VF!Extended
  <2>2. nd * Block <= k * Block
    <3>1. nd <= k
      BY <1>3, <1>4, <1>5
    <3> HIDE DEF nd
    <3> QED
      BY <3>1, <1>3, ConstantsAre, MulFacts
  <2> QED
    BY <1>1, <1>2, <2>1, <2>2
<1>6. CASE ~(VF!Blocks(f) >= n)
  <2> DEFINE x == VF!exsz(n)
             z == [i \in 1..(x * Block) |-> 0]
  <2>1. g = f \o z
    BY <1>6 DEF VF!Extended
  <2> HIDE DEF n
  <2>2. x \in Nat /\ (ExtendsByNeed => x >= n)
    BY <1>3, ExszFacts
  <2> HIDE DEF x
  <2>3. x * Block \in Nat /\ (k + x) * Block = (k * Block) + (x * Block) /\ k + x \in Nat
        /\ k * Block \in Nat
    BY <2>2, ConstantsAre, MulFacts
  <2>4. z \in Seq(Int) /\ Len(z) = x * Block
    <3>1. z = [i \in 1..(x * Block) |-> z[i]] /\ \A i \in 1..(x * Block) : z[i] \in Int
      OBVIOUS
    <3> HIDE DEF z
    <3> QED
      BY <2>3, <3>1, FunctionIsSeq
  <2> HIDE DEF z
  <2>5. /\ f \o z \in Seq(Int) /\ Len(f \o z) = Len(f) + Len(z)
        /\ \A i \in 1..Len(f) + Len(z) : (f \o z)[i] = IF i <= Len(f) THEN f[i] ELSE z[i - Len(f)]
    BY <1>1, <2>4, ConcatProperties
  <2>6. Len(g) = (k + x) * Block /\ Len(g) >= Len(f) /\ Len(g) \in Nat
    BY <1>2, <2>1, <2>3, <2>4, <2>5
  <2>7. \A i \in 1..Len(f) : g[i] = f[i]
    <3>1. \A i \in 1..Len(f) : i \in 1..Len(f) + Len(z) /\ i <= Len(f)
      BY <1>1, <2>3, <2>4
    <3> QED
      BY <2>1, <2>5, <3>1
  <2>8. ExtendsByNeed => Len(g) >= nd * Block
    <3> HIDE DEF nd, g
    <3>1. SUFFICES ASSUME ExtendsByNeed PROVE Len(g) >= nd * Block
      OBVIOUS
    <3>2. nd <= k + x
      BY <1>3, <2>2, <3>1
    <3>3. nd * Block <= (k + x) * Block
      BY <1>3, <2>3, <3>2, ConstantsAre, MulFacts
    <3>4. nd * Block \in Nat
      BY <1>3, ConstantsAre, MulFacts
    <3> QED
      BY <2>3, <2>6, <3>3, <3>4
  <2>9. Whole(g)
    BY <2>1, <2>3, <2>5, <2>6 DEF Whole
  <2> QED
    BY <1>1, <2>6, <2>7, <2>8, <2>9
<1> QED
  BY <1>5, <1>6

-----------------------------------------------------------------------------
(* vmsWrite() of a range of whole blocks, or within one block.             *)

(* A write changes nothing but its range, and all of it if it succeeds;    *)
(* it succeeds if the file has the blocks.                                 *)
WritesRange(g, off, amt, buf, h, m, t) ==
  LET M == VF!Move(g, off, buf, 0, amt)
  IN  /\ {h.f, m.f, t.f} \subseteq {g, M}
      /\ t.ok \in BOOLEAN
      /\ t.ok => t.f = M /\ off + amt <= Len(g)
      /\ ((off \div Block) * Block) + Block <= Len(g) /\ off + amt <= Len(g) => t.ok

LEMMA WriteFacts ==
  ASSUME NEW g, Whole(g), NEW off \in Nat, NEW amt \in Nat, amt >= 1,
         ~Crossing, VF!Written(off, amt),
         NEW buf \in Seq(Int), Len(buf) = amt,
         NEW h, h = VF!WriteHead(g, off, buf, 0),
         NEW m, m = VF!WriteMiddle(h, buf),
         NEW t, t = VF!WriteTail(m, buf)
  PROVE  WritesRange(g, off, amt, buf, h, m, t)
<1> USE DEF WritesRange
<1> DEFINE M == VF!Move(g, off, buf, 0, amt)
           q == off \div Block
           r == off % Block
<1> USE ConstantsAre
<1>1. /\ q \in Nat /\ off = (q * Block) + r /\ r < Block /\ r \in Nat
      /\ (q + 1) - 1 = q /\ q * Block \in Nat
  BY DivFacts, MulFacts
<1>2. g \in Seq(Int) /\ Len(g) \in Nat
  BY DEF Whole
<1>3. \/ r = 0 /\ amt % Block = 0
      \/ r + amt <= Block /\ (r = 0 => amt % Block = 0 \/ amt < Block)
  <2>1. CASE off % Block = 0 /\ amt % Block = 0
    BY <2>1
  <2>2. CASE off \div Block = (off + amt - 1) \div Block
    <3>1. off + amt - 1 \in Nat
      OBVIOUS
    <3>2. /\ off + amt - 1 = (q * Block) + ((off + amt - 1) % Block)
          /\ (off + amt - 1) % Block < Block /\ (off + amt - 1) % Block \in Nat
      BY SMTT(30), <2>2, <3>1, DivFacts
    <3>3. r + amt <= Block
      <4> HIDE DEF q, r
      <4> QED BY <1>1, <3>2
    <3>4. Block % Block = 0
      <4>1. (1 * Block) % Block = 0 /\ 1 * Block = Block
        BY DivMul
      <4> QED BY <4>1
    <3>5. r = 0 => amt % Block = 0 \/ amt < Block
      <4> HIDE DEF r
      <4> QED BY <1>1, <3>3, <3>4
    <3> QED BY <3>3, <3>5
  <2> QED
    BY <2>1, <2>2 DEF VF!Written
<1> HIDE DEF q, r
(* Whole blocks: the middle part writes them.                              *)
<1>4. CASE r = 0 /\ amt % Block = 0
  <2>1. h = VF!Writing(g, amt, q + 1, 0, 0, TRUE)
    BY <1>4 DEF VF!WriteHead, q, r
  <2>2. h.f = g /\ h.amt = amt /\ h.vbn = q + 1 /\ h.pBuf = 0 /\ h.bcnt = 0 /\ h.ok = TRUE
    BY <2>1 DEF VF!Writing
  <2>3. amt >= Block
    <3>1. amt = ((amt \div Block) * Block) + (amt % Block) /\ amt \div Block \in Nat
      BY DivFacts
    <3>2. amt \div Block # 0
      BY <1>4, <3>1
    <3>3. 1 <= amt \div Block => 1 * Block <= (amt \div Block) * Block
      BY <3>1, MulFacts
    <3>4. 1 * Block = Block
      OBVIOUS
    <3>5. (amt \div Block) * Block \in Nat
      BY <3>1, MulFacts
    <3> DEFINE x == (amt \div Block) * Block
               d == amt \div Block
    <3>6. amt = x + 0 /\ x \in Nat /\ d \in Nat /\ d # 0 /\ (1 <= d => Block <= x)
      BY <1>4, <3>1, <3>2, <3>3, <3>4, <3>5
    <3> HIDE DEF x, d
    <3> QED
      BY <3>6
  <2>4. /\ h.amt - (h.amt % Block) = amt /\ (h.vbn - 1) * Block = off
        /\ ~(h.amt < Block) /\ h.amt % Block = 0
    BY SMTT(30), <1>1, <1>4, <2>2, <2>3
  <2>5. VF!InFile(h.f, h.vbn, amt) <=> off + amt <= Len(g)
    BY <2>2, <2>4 DEF VF!InFile
  <2>6. CASE off + amt <= Len(g)
    <3>1. m = VF!Writing(M, 0, q + 1, 0, 0, TRUE)
      <4>1. m = VF!Writing(VF!Move(h.f, (h.vbn - 1) * Block, buf, h.pBuf, h.amt - (h.amt % Block)),
                           h.amt % Block, h.vbn, h.pBuf, h.bcnt, TRUE)
        <5>1. h.ok /\ ~(h.amt < Block) /\ ~(h.bcnt > 0)
              /\ VF!InFile(h.f, h.vbn, h.amt - (h.amt % Block))
          BY <2>2, <2>4, <2>5, <2>6
        <5> QED
          BY <5>1, Zenon DEF VF!WriteMiddle
      <4> QED
        BY <2>2, <2>4, <4>1
    <3>2. m.f = M /\ m.amt = 0 /\ m.ok = TRUE
      BY <3>1 DEF VF!Writing
    <3>3. t = m
      BY <3>2 DEF VF!WriteTail
    <3> QED
      BY <2>2, <2>6, <3>2, <3>3
  <2>7. CASE ~(off + amt <= Len(g))
    <3>1. m = [h EXCEPT !.ok = FALSE]
      BY <2>2, <2>4, <2>5, <2>7 DEF VF!WriteMiddle
    <3>2. m.f = g /\ m.ok = FALSE
      BY <2>1, <3>1 DEF VF!Writing
    <3>3. t = m
      BY <3>2 DEF VF!WriteTail
    <3> QED
      BY <2>2, <2>7, <3>2, <3>3
  <2> QED
    BY <2>6, <2>7
(* Within a block, not from its beginning: the head writes it.             *)
<1>5. CASE r # 0 /\ r + amt <= Block
  <2>1. VF!Least(Len(buf), Block - r) = amt
    BY <1>1, <1>5 DEF VF!Least
  <2>2. VF!InFile(g, q + 1, Block) <=> (q * Block) + Block <= Len(g)
    BY <1>1 DEF VF!InFile
  <2>3. (q * Block) + Block <= Len(g) => off + amt <= Len(g)
    BY <1>1, <1>2, <1>5
  <2>4. CASE (q * Block) + Block <= Len(g)
    <3>1. h = VF!Writing(M, 0, q + 2, 0, amt, TRUE)
      <4>1. ~(amt <= 0) /\ amt - amt = 0 /\ q + 1 + 1 = q + 2
        BY <1>1
      <4> QED
        BY <1>5, <2>1, <2>2, <2>4, <4>1 DEF VF!WriteHead, q, r
    <3>2. h.f = M /\ h.amt = 0 /\ h.ok = TRUE
      BY <3>1 DEF VF!Writing
    <3>3. m = h
      <4>1. h.amt < Block
        BY <3>2
      <4> QED
        BY <4>1, Zenon DEF VF!WriteMiddle
    <3>4. t = m
      BY <3>2, <3>3 DEF VF!WriteTail
    <3> QED
      BY <2>3, <2>4, <3>2, <3>3, <3>4
  <2>5. CASE ~((q * Block) + Block <= Len(g))
    <3>1. h = VF!Writing(g, amt, q + 1, 0, 0, FALSE)
      BY <1>5, <2>2, <2>5 DEF VF!WriteHead, q, r
    <3>2. h.f = g /\ h.ok = FALSE
      BY <3>1 DEF VF!Writing
    <3>3. m = h
      BY <3>2 DEF VF!WriteMiddle
    <3>4. t = m
      BY <3>2, <3>3 DEF VF!WriteTail
    <3> QED
      BY <2>5, <3>2, <3>3, <3>4 DEF q
  <2> QED
    BY <2>4, <2>5
(* The beginning of a block: the tail writes it.                           *)
<1>6. CASE r = 0 /\ amt < Block
  <2>1. h = VF!Writing(g, amt, q + 1, 0, 0, TRUE)
    BY <1>6 DEF VF!WriteHead, q, r
  <2>2. h.f = g /\ h.amt = amt /\ h.vbn = q + 1 /\ h.pBuf = 0 /\ h.ok = TRUE
    BY <2>1 DEF VF!Writing
  <2>3. m = h
    BY <1>6, <2>2 DEF VF!WriteMiddle
  <2>4. (m.vbn - 1) * Block = off /\ m.amt # 0
    BY SMTT(30), <1>1, <1>6, <2>2, <2>3
  <2>5. VF!InFile(m.f, m.vbn, Block) <=> (q * Block) + Block <= Len(g)
    BY <1>1, <1>6, <2>2, <2>3 DEF VF!InFile
  <2>6. (q * Block) + Block <= Len(g) => off + amt <= Len(g)
    BY <1>1, <1>2, <1>6
  <2>7. CASE (q * Block) + Block <= Len(g)
    <3>1. t = [m EXCEPT !.f = M]
      BY <2>2, <2>3, <2>4, <2>5, <2>7 DEF VF!WriteTail
    <3>2. t.f = M /\ t.ok = TRUE
      BY <2>1, <2>3, <3>1 DEF VF!Writing
    <3> QED
      BY <2>2, <2>3, <2>6, <2>7, <3>2
  <2>8. CASE ~((q * Block) + Block <= Len(g))
    <3>1. t = [m EXCEPT !.ok = FALSE]
      BY <2>2, <2>3, <2>4, <2>5, <2>8 DEF VF!WriteTail
    <3>2. t.f = g /\ t.ok = FALSE
      BY <2>1, <2>3, <3>1 DEF VF!Writing
    <3> QED
      BY <2>2, <2>3, <2>8, <3>2 DEF q
  <2> QED
    BY <2>7, <2>8
<1> QED
  BY <1>3, <1>4, <1>5, <1>6

LEMMA BufferFacts ==
  ASSUME NEW amt \in Nat
  PROVE  /\ VF!Buffer(amt) \in Seq(Int) /\ Len(VF!Buffer(amt)) = amt
         /\ \A k \in 1..amt : VF!Buffer(amt)[k] = k
<1> DEFINE b == VF!Buffer(amt)
<1>1. b = [i \in 1..amt |-> b[i]] /\ \A i \in 1..amt : b[i] = i /\ b[i] \in Int
  BY DEF VF!Buffer
<1> HIDE DEF b
<1>2. b \in Seq(Int) /\ Len(b) = amt
  BY <1>1, FunctionIsSeq
<1> QED
  BY <1>1, <1>2 DEF b

(* A write keeps what was written, where it succeeds and where it fails.   *)
LEMMA WriteKeeps ==
  ASSUME FileInv, NEW off \in VF!Offset, NEW amt \in 1..MaxByte,
         NEW g, g = VF!Extended(file, off, amt),
         NEW M, M = VF!Move(g, off, VF!Buffer(amt), 0, amt),
         NEW ok \in BOOLEAN, ok => file' = M /\ off + amt <= Len(g),
         file' \in {file, g, M}, want' = VF!Wanted(off, VF!Buffer(amt), ok),
         szHint' \in Nat, szChunk' = szChunk
  PROVE  FileInv'
<1> DEFINE b == VF!Buffer(amt)
<1>1. off \in Nat /\ amt \in Nat /\ MaxByte \in Nat
  BY ConstantsAre DEF VF!Offset
<1>2. b \in Seq(Int) /\ Len(b) = amt /\ \A k \in 1..amt : b[k] = k
  BY <1>1, BufferFacts
<1> HIDE DEF b
<1>3. /\ Whole(file) /\ file \in Seq(Int) /\ szHint \in Nat /\ szChunk \in Nat /\ Len(file) \in Nat
      /\ want \in [VF!Offset -> Int]
  BY DEF FileInv, Whole
<1>4. /\ Whole(g) /\ g \in Seq(Int) /\ Len(g) \in Nat /\ Len(g) >= Len(file)
      /\ \A i \in 1..Len(file) : g[i] = file[i]
  BY <1>1, <1>3, ExtendedFacts DEF Whole
<1>5. /\ M \in Seq(Int) /\ Len(M) = Len(g)
      /\ \A i \in 1..Len(g) : M[i] = IF i \in (off + 1)..(off + amt) THEN b[i - off] ELSE g[i]
  BY <1>1, <1>2, <1>4, MoveFacts DEF b
<1>6. Whole(M)
  BY <1>4, <1>5 DEF Whole
<1>7. Whole(file') /\ Len(file') \in Nat /\ Len(file') >= Len(file)
  BY <1>3, <1>4, <1>5, <1>6
<1>8. \A i \in VF!Offset :
         want'[i] = IF i \in off..(off + amt - 1) THEN IF ok THEN b[i - off + 1] ELSE VF!Unknown
                    ELSE want[i]
  BY <1>2 DEF VF!Wanted, b
<1>9. want' \in [VF!Offset -> Int]
  <2>1. \A i \in VF!Offset : i \in off..(off + amt - 1) => b[i - off + 1] \in Int
    <3> SUFFICES ASSUME NEW i \in VF!Offset, i \in off..(off + amt - 1)
                 PROVE  b[i - off + 1] \in Int
      OBVIOUS
    <3>1. i - off + 1 \in 1..amt
      BY <1>1
    <3> QED
      BY <3>1, <1>2
  <2>2. \A i \in VF!Offset : want[i] \in Int /\ want'[i] \in Int
    BY <1>3, <1>8, <2>1 DEF VF!Unknown
  <2>3. want' = [i \in VF!Offset |-> want'[i]]
    BY DEF VF!Wanted
  <2> QED
    BY <2>2, <2>3
<1>10. ASSUME NEW i \in VF!Offset, want'[i] # VF!Unknown
       PROVE  i < Len(file') /\ file'[i + 1] = want'[i]
  <2>1. i \in Nat
    BY <1>1 DEF VF!Offset
  <2>2. CASE i \in off..(off + amt - 1)
    <3>1. ok /\ want'[i] = b[i - off + 1]
      BY <1>8, <1>10, <2>2
    <3>2. /\ i + 1 \in 1..Len(g) /\ i + 1 \in (off + 1)..(off + amt) /\ (i + 1) - off = i - off + 1
          /\ file' = M /\ i < Len(g)
      BY <1>1, <1>4, <2>1, <2>2, <3>1
    <3>3. M[i + 1] = b[(i + 1) - off]
      <4> DEFINE j == i + 1
      <4>1. j \in 1..Len(g) /\ j \in (off + 1)..(off + amt)
        BY <3>2
      <4> HIDE DEF j
      <4>2. M[j] = b[j - off]
        BY <1>5, <4>1
      <4> QED
        BY <4>2 DEF j
    <3>4. Len(file') = Len(g)
      BY <1>5, <3>2
    <3> QED
      BY <3>1, <3>2, <3>3, <3>4
  <2>3. CASE i \notin off..(off + amt - 1)
    <3>1. want'[i] = want[i] /\ i < Len(file) /\ file[i + 1] = want[i]
      BY <1>8, <1>10, <2>3 DEF FileInv, VF!FileHolds
    <3>2. /\ i + 1 \in 1..Len(file) /\ i + 1 \in 1..Len(g) /\ i + 1 \notin (off + 1)..(off + amt)
          /\ i < Len(file')
      <4>1. i + 1 \in 1..Len(file) /\ i + 1 \in 1..Len(g)
        BY <1>3, <1>4, <2>1, <3>1
      <4>2. i + 1 \notin (off + 1)..(off + amt)
        BY <1>1, <2>1, <2>3
      <4>3. i < Len(file')
        BY <1>3, <1>7, <2>1, <3>1
      <4> QED
        BY <4>1, <4>2, <4>3
    <3>3. g[i + 1] = file[i + 1] /\ M[i + 1] = g[i + 1]
      BY <1>4, <1>5, <3>2
    <3> QED
      BY <3>1, <3>2, <3>3
  <2> QED
    BY <2>2, <2>3
<1> QED
  BY <1>3, <1>7, <1>9, <1>10 DEF FileInv, VF!FileHolds, Whole, VF!Offset, VF!Unknown

(* vmsWrite(), with or without a transfer that fails.                      *)
LEMMA WriteStep ==
  ASSUME ~Crossing, FileInv, NEW off \in VF!Offset, NEW amt \in 1..MaxByte,
         VF!Written(off, amt),
         VF!vmsWrite(off, VF!Buffer(amt), 0) \/ VF!WriteError(off, VF!Buffer(amt), 0)
  PROVE  FileInv' /\ VF!ExtendsEnough'
<1> DEFINE b == VF!Buffer(amt)
           g == VF!Extended(file, off, amt)
           h == VF!WriteHead(g, off, b, 0)
           m == VF!WriteMiddle(h, b)
           t == VF!WriteTail(m, b)
           M == VF!Move(g, off, b, 0, amt)
<1>1. off \in Nat /\ amt \in Nat /\ amt >= 1 /\ MaxByte \in Nat
  BY ConstantsAre DEF VF!Offset
<1>2. b \in Seq(Int) /\ Len(b) = amt
  BY <1>1, BufferFacts
<1>3. Whole(file) /\ szHint \in Nat /\ szChunk \in Nat
  BY DEF FileInv
<1>4. /\ Whole(g) /\ Len(g) \in Nat
      /\ ExtendsByNeed => Len(g) >= VF!needed(off, amt) * Block
  BY <1>1, <1>3, ExtendedFacts
<1>5. VF!Extended(file, off, Len(b)) = g
  BY <1>2
<1>6. /\ {h.f, m.f, t.f} \subseteq {g, M}
      /\ t.ok \in BOOLEAN
      /\ t.ok => t.f = M /\ off + amt <= Len(g)
      /\ ((off \div Block) * Block) + Block <= Len(g) /\ off + amt <= Len(g) => t.ok
  <2> HIDE DEF b, g, h, m, t
  <2>1. h = VF!WriteHead(g, off, b, 0) /\ m = VF!WriteMiddle(h, b) /\ t = VF!WriteTail(m, b)
    BY DEF h, m, t
  <2>2. WritesRange(g, off, amt, b, h, m, t)
    BY <1>1, <1>2, <1>4, <2>1, WriteFacts
  <2> QED
    BY <2>2 DEF WritesRange
<1>7. CASE VF!vmsWrite(off, b, 0)
  <2>1. /\ file' = t.f /\ want' = VF!Wanted(off, b, t.ok) /\ szHint' = 0 /\ fault' = FALSE
        /\ szChunk' = szChunk
        /\ rc' = IF t.ok THEN "SQLITE_OK" ELSE "SQLITE_IOERR_WRITE"
    BY <1>5, <1>7 DEF VF!vmsWrite
  <2> HIDE DEF b, g, h, m, t, M
  <2>2. FileInv'
    BY <1>6, <2>1, WriteKeeps DEF b, g, M
  <2>3. ASSUME ExtendsByNeed PROVE t.ok
    <3> DEFINE w == VF!needed(off, amt) * Block
               v == ((off \div Block) * Block) + Block
    <3>1. Len(g) >= w /\ w >= off + amt /\ w >= v
      BY <1>1, <1>4, <2>3, NeededFacts
    <3>2. w \in Int /\ v \in Int
      <4>1. off \div Block \in Nat /\ VF!needed(off, amt) \in Nat
        <5>1. Block \in Nat /\ Block > 0
          BY ConstantsAre
        <5>2. off \div Block \in Nat
          BY <1>1, <5>1, DivFacts
        <5> QED
          BY <1>1, <5>2, NeededFacts
      <4> QED
        BY <4>1, ConstantsAre, MulFacts
    <3>3. ((off \div Block) * Block) + Block = v
      OBVIOUS
    <3> HIDE DEF w, v
    <3> QED
      BY <1>1, <1>4, <1>6, <3>1, <3>2, <3>3
  <2>4. VF!ExtendsEnough'
    <3>1. ~ExtendsByNeed => szChunk = 0 /\ DefExt = 0 /\ RmsExtend > 0
      BY <1>3, ConstantsAre DEF ExtendsByNeed
    <3> QED
      BY <2>1, <2>3, <3>1 DEF VF!ExtendsEnough
  <2> QED
    BY <2>2, <2>4
<1>8. CASE VF!WriteError(off, b, 0)
  <2>1. /\ want' = VF!Wanted(off, b, FALSE) /\ fault' = TRUE /\ szChunk' = szChunk
        /\ (file' = file /\ szHint' = szHint)
           \/ (file' \in {file, g, h.f, m.f} /\ szHint' = 0)
    BY <1>5, <1>8 DEF VF!WriteError
  <2> HIDE DEF b, g, h, m, t, M
  <2>2. file' \in {file, g, M} /\ szHint' \in Nat
    BY <1>3, <1>6, <2>1
  <2>3. FileInv'
    BY <2>1, <2>2, WriteKeeps DEF b, g, M
  <2> QED
    BY <2>1, <2>3 DEF VF!ExtendsEnough
<1> QED
  BY <1>7, <1>8

-----------------------------------------------------------------------------
(* vmsTruncate() keeps the block that it cuts.                             *)

LEMMA ExvbnFacts ==
  ASSUME NEW n \in Nat
  PROVE  VF!exvbn(n) \in Nat /\ VF!exvbn(n) * Block \in Nat /\ n <= VF!exvbn(n) * Block
<1> DEFINE q == n \div Block
<1>1. q \in Nat /\ n = (q * Block) + (n % Block) /\ n % Block < Block /\ n % Block \in Nat
  BY ConstantsAre, DivFacts
<1>2. VF!exvbn(n) = IF n % Block # 0 THEN q + 1 ELSE q
  BY <1>1 DEF VF!exvbn
<1> HIDE DEF q
<1>3. (q + 1) * Block = (q * Block) + Block /\ q * Block \in Nat
  BY <1>1, ConstantsAre, MulFacts
<1> QED
  BY <1>1, <1>2, <1>3, ConstantsAre

LEMMA TruncateFacts ==
  ASSUME Whole(file), NEW n \in 0..MaxByte, VF!vmsTruncate(n)
  PROVE  /\ Whole(file') /\ Len(file') \in Nat /\ (Len(file') = Len(file) \/ Len(file') >= n)
         /\ \A i \in 1..Len(file') : i \in 1..Len(file) /\ file'[i] = file[i]
<1> DEFINE e == VF!exvbn(n) * Block
           l == VF!Least(e, Len(file))
<1>1. n \in Nat /\ MaxByte \in Nat
  BY ConstantsAre
<1>2. VF!exvbn(n) \in Nat /\ e \in Nat /\ n <= e
  BY <1>1, ExvbnFacts
<1>3. file \in Seq(Int) /\ Len(file) \in Nat
  BY DEF Whole
<1>4. file' \in {file, SubSeq(file, 1, l)}
  BY DEF VF!vmsTruncate
<1>5. l \in 0..Len(file) /\ l \in Int /\ (\E k \in Nat : l = k * Block)
      /\ (l < Len(file) => n <= l)
  BY <1>2, <1>3 DEF VF!Least, Whole
<1> HIDE DEF e, l
<1>6. /\ SubSeq(file, 1, l) \in Seq(Int) /\ Len(SubSeq(file, 1, l)) = l
      /\ \A i \in 1..l : SubSeq(file, 1, l)[i] = file[i]
  <2>1. \A i \in 1..l : file[i] \in Int /\ 1 + i - 1 = i
    BY <1>3, <1>5
  <2>2. /\ SubSeq(file, 1, l) \in Seq(Int)
        /\ Len(SubSeq(file, 1, l)) = IF 1 <= l THEN l - 1 + 1 ELSE 0
        /\ \A i \in 1..(l - 1 + 1) : SubSeq(file, 1, l)[i] = file[1 + i - 1]
    BY <1>5, <2>1, SubSeqProperties
  <2>3. l - 1 + 1 = l /\ (~(1 <= l) => l = 0)
    BY <1>5
  <2> QED
    BY <2>1, <2>2, <2>3
<1>7. CASE file' = file
  BY <1>3, <1>7
<1>8. CASE file' = SubSeq(file, 1, l)
  <2>1. Whole(file') /\ Len(file') = l
    BY <1>5, <1>6, <1>8 DEF Whole
  <2> QED
    BY <1>3, <1>5, <1>6, <1>8, <2>1
<1> QED
  BY <1>4, <1>7, <1>8

LEMMA TruncateStep ==
  ASSUME FileInv, NEW n \in 0..MaxByte, VF!vmsTruncate(n)
  PROVE  FileInv' /\ VF!ExtendsEnough'
<1>1. n \in Nat /\ MaxByte \in Nat
  BY ConstantsAre
<1>2. /\ Whole(file) /\ Len(file) \in Nat /\ szHint \in Nat /\ szChunk \in Nat
      /\ want \in [VF!Offset -> Int]
  BY DEF FileInv, Whole
<1>3. /\ szHint' = szHint /\ szChunk' = szChunk /\ rc' = "SQLITE_OK"
      /\ want' = [i \in VF!Offset |-> IF i < n THEN want[i] ELSE VF!Unknown]
  BY DEF VF!vmsTruncate
<1>4. /\ Whole(file') /\ Len(file') \in Nat /\ (Len(file') = Len(file) \/ Len(file') >= n)
      /\ \A i \in 1..Len(file') : i \in 1..Len(file) /\ file'[i] = file[i]
  BY <1>2, TruncateFacts
<1>5. want' \in [VF!Offset -> Int]
  BY <1>2, <1>3 DEF VF!Unknown
<1>6. ASSUME NEW i \in VF!Offset, want'[i] # VF!Unknown
      PROVE  i < Len(file') /\ file'[i + 1] = want'[i]
  <2>1. i \in Nat
    BY <1>1 DEF VF!Offset
  <2>2. i < n /\ want'[i] = want[i] /\ want[i] # VF!Unknown
    BY <1>3, <1>6
  <2>3. i < Len(file) /\ file[i + 1] = want[i]
    BY <2>2 DEF FileInv, VF!FileHolds
  <2>4. i < Len(file') /\ i + 1 \in 1..Len(file')
    BY <1>1, <1>2, <1>4, <2>1, <2>2, <2>3
  <2> QED
    BY <1>4, <2>2, <2>3, <2>4
<1> QED
  BY <1>2, <1>3, <1>4, <1>5, <1>6
  DEF FileInv, VF!FileHolds, VF!ExtendsEnough, Whole, VF!Offset, VF!Unknown

(* vmsFileControl() only sets the chunk size or the hint.                  *)
LEMMA ControlFacts ==
  ASSUME szHint \in Nat, szChunk \in Nat, NEW op, NEW n \in Nat, VF!vmsFileControl(op, n)
  PROVE  /\ file' = file /\ want' = want /\ rc' = "SQLITE_OK"
         /\ szHint' \in Nat /\ szChunk' \in Nat
<1> DEFINE d == n \div Block
<1>1. /\ file' = file /\ want' = want /\ rc' = "SQLITE_OK"
      /\ \/ szChunk' = n /\ szHint' = szHint
         \/ szHint' = d + 1 /\ szChunk' = szChunk
  BY DEF VF!vmsFileControl
<1>2. d \in Nat
  BY ConstantsAre, DivFacts
<1> HIDE DEF d
<1> QED
  BY <1>1, <1>2

LEMMA ControlStep ==
  ASSUME FileInv, NEW op, NEW n \in Nat, VF!vmsFileControl(op, n)
  PROVE  FileInv' /\ VF!ExtendsEnough'
<1>1. /\ file' = file /\ want' = want /\ rc' = "SQLITE_OK"
      /\ szHint' \in Nat /\ szChunk' \in Nat
  BY ControlFacts DEF FileInv
<1> QED
  BY <1>1 DEF FileInv, VF!FileHolds, VF!ExtendsEnough, Whole, VF!Offset, VF!Unknown

LEMMA FileInit ==
  VF!Init => FileInv /\ VF!ExtendsEnough
<1> SUFFICES ASSUME VF!Init PROVE FileInv /\ VF!ExtendsEnough
  OBVIOUS
<1>1. /\ file = <<>> /\ szChunk = 0 /\ szHint = 0 /\ rc = "SQLITE_OK"
      /\ want = [i \in VF!Offset |-> VF!Unknown]
  BY DEF VF!Init
<1>2. Len(file) = 0 /\ 0 = 0 * Block /\ file \in Seq(Int)
  BY <1>1, ConstantsAre
<1>3. Whole(file)
  BY <1>2 DEF Whole
<1>4. want \in [VF!Offset -> Int] /\ VF!FileHolds
  BY <1>1 DEF VF!Unknown, VF!FileHolds
<1> QED
  BY <1>1, <1>3, <1>4 DEF FileInv, VF!ExtendsEnough

LEMMA FileNext ==
  ASSUME ~Crossing, FileInv, VF!Next
  PROVE  FileInv' /\ VF!ExtendsEnough'
<1>1. CASE \E n \in 0..MaxByte : VF!vmsTruncate(n)
  BY <1>1, TruncateStep
<1>2. CASE \/ \E n \in {0, MaxByte} : VF!vmsFileControl("SQLITE_FCNTL_CHUNK_SIZE", n)
           \/ VF!vmsFileControl("SQLITE_FCNTL_SIZE_HINT", MaxByte)
  BY <1>2, ConstantsAre, ControlStep
<1>3. CASE \E off \in VF!Offset, amt \in 1..MaxByte :
           \E stack \in IF Crossing THEN {0, 1} ELSE {0} :
              /\ VF!Written(off, amt)
              /\ \/ VF!vmsWrite(off, VF!Buffer(amt), stack)
                 \/ VF!WriteError(off, VF!Buffer(amt), stack)
  <2>1. PICK off \in VF!Offset, amt \in 1..MaxByte :
           /\ VF!Written(off, amt)
           /\ VF!vmsWrite(off, VF!Buffer(amt), 0) \/ VF!WriteError(off, VF!Buffer(amt), 0)
    BY <1>3
  <2> QED
    BY <2>1, WriteStep
<1> QED
  BY <1>1, <1>2, <1>3 DEF VF!Next

-----------------------------------------------------------------------------
(* vmsRead() of any range of a file of whole blocks.                       *)

(* A call that has come to s: what has been read is what the file has, and *)
(* either the file has ended or the next block begins where the rest does. *)
ReadTo(f, off, amt, s) ==
  /\ s = VF!Reading(s.buf, s.amt, s.vbn, s.eof)
  /\ s.buf \in Seq(Int) /\ s.amt \in Nat /\ s.vbn \in Nat /\ s.vbn >= 1 /\ s.eof \in BOOLEAN
  /\ Len(s.buf) + s.amt = amt
  /\ \A k \in 1..Len(s.buf) : off + k <= Len(f) /\ s.buf[k] = f[off + k]
  /\ s.eof => s.amt > 0 /\ off + Len(s.buf) >= Len(f)
  /\ ~s.eof /\ s.amt > 0 => (s.vbn - 1) * Block = off + Len(s.buf)

LEMMA ReadToReading ==
  ASSUME NEW f, NEW off, NEW amt,
         NEW b \in Seq(Int), NEW a \in Nat, NEW v \in Nat, v >= 1, NEW e \in BOOLEAN,
         Len(b) + a = amt,
         \A k \in 1..Len(b) : off + k <= Len(f) /\ b[k] = f[off + k],
         e => a > 0 /\ off + Len(b) >= Len(f),
         ~e /\ a > 0 => (v - 1) * Block = off + Len(b)
  PROVE  ReadTo(f, off, amt, VF!Reading(b, a, v, e))
<1> DEFINE s == VF!Reading(b, a, v, e)
<1>1. /\ s.buf = b /\ s.amt = a /\ s.vbn = v /\ s.eof = e
      /\ s = VF!Reading(s.buf, s.amt, s.vbn, s.eof)
  BY DEF VF!Reading
<1> HIDE DEF s
<1>2. ReadTo(f, off, amt, s)
  BY <1>1 DEF ReadTo
<1> QED
  BY <1>2 DEF s

(* The file ends with a block or before it.                                *)
LEMMA WholeBlocks ==
  ASSUME NEW f, Whole(f), NEW q \in Nat
  PROVE  Len(f) <= q * Block \/ (q * Block) + Block <= Len(f)
<1>1. PICK k \in Nat : Len(f) = k * Block
  BY DEF Whole
<1>2. CASE k <= q
  BY <1>1, <1>2, ConstantsAre, MulFacts
<1>3. CASE q < k
  BY <1>1, <1>3, ConstantsAre, MulFacts
<1> QED
  BY <1>2, <1>3

(* What a transfer of n bytes from offset B on gives.                      *)
Got(f, B, n, got) ==
  /\ got \in Seq(Int) /\ Len(got) \in Nat
  /\ Len(f) <= B => Len(got) = 0
  /\ Len(f) > B => Len(got) = IF B + n <= Len(f) THEN n ELSE Len(f) - B
  /\ \A k \in 1..Len(got) : B + k <= Len(f) /\ got[k] = f[B + k]

LEMMA ReadBlocksFacts ==
  ASSUME NEW f \in Seq(Int), NEW q \in Nat, NEW n \in Nat,
         NEW vbn, vbn = q + 1, NEW got, got = VF!ReadBlocks(f, vbn, n)
  PROVE  Got(f, q * Block, n, got)
<1> DEFINE B == q * Block
           l == VF!Least(B + n, Len(f))
<1>1. B \in Nat /\ (q + 1) - 1 = q /\ Len(f) \in Nat
  BY ConstantsAre, MulFacts
<1>2. got = SubSeq(f, B + 1, l)
  BY <1>1 DEF VF!ReadBlocks
<1> HIDE DEF B
<1>3. l \in Int /\ l <= Len(f) /\ l = IF B + n <= Len(f) THEN B + n ELSE Len(f)
  BY <1>1 DEF VF!Least
<1> HIDE DEF l
<1>4. \A i \in (B + 1)..l : f[i] \in Int
  <2>1. \A i \in (B + 1)..l : i \in 1..Len(f)
    BY <1>1, <1>3
  <2> QED
    BY <2>1, ElementOfSeq
<1>5. /\ got \in Seq(Int) /\ Len(got) = IF B + 1 <= l THEN l - (B + 1) + 1 ELSE 0
      /\ \A i \in 1..(l - (B + 1) + 1) : got[i] = f[(B + 1) + i - 1]
  <2> DEFINE x == SubSeq(f, B + 1, l)
  <2>1. /\ x \in Seq(Int) /\ Len(x) = IF B + 1 <= l THEN l - (B + 1) + 1 ELSE 0
        /\ \A i \in 1..(l - (B + 1) + 1) : x[i] = f[(B + 1) + i - 1]
    BY <1>1, <1>3, <1>4, SubSeqProperties
  <2> QED
    BY <1>2, <2>1
<1>6. Len(got) = IF B < l THEN l - B ELSE 0
  BY <1>1, <1>3, <1>5
<1>7. ASSUME NEW k \in 1..Len(got)
      PROVE  B + k <= Len(f) /\ got[k] = f[B + k]
  <2>1. B < l /\ k \in 1..(l - (B + 1) + 1) /\ (B + 1) + k - 1 = B + k /\ B + k <= l
    BY <1>1, <1>3, <1>6
  <2>2. got[k] = f[(B + 1) + k - 1]
    BY <1>5, <2>1
  <2>3. B + k <= Len(f)
    BY <1>1, <1>3, <2>1
  <2> QED
    BY <2>1, <2>2, <2>3
<1>8. Len(got) \in Nat /\ (Len(f) <= B => Len(got) = 0)
      /\ (Len(f) > B => Len(got) = IF B + n <= Len(f) THEN n ELSE Len(f) - B)
  BY <1>1, <1>3, <1>6
<1> QED
  BY <1>5, <1>7, <1>8 DEF B, Got

(* b is what the file has from offset at on.                               *)
Part(f, at, b) ==
  b \in Seq(Int) /\ \A k \in 1..Len(b) : at + k <= Len(f) /\ b[k] = f[at + k]

(* Bytes from a later position follow what has been read.                  *)
LEMMA ReadMore ==
  ASSUME NEW f \in Seq(Int), NEW off \in Nat, NEW b, NEW x,
         Part(f, off, b), Part(f, off + Len(b), x)
  PROVE  Part(f, off, b \o x) /\ Len(b \o x) = Len(b) + Len(x)
<1> USE DEF Part
<1>1. /\ b \o x \in Seq(Int) /\ Len(b \o x) = Len(b) + Len(x)
      /\ \A i \in 1..Len(b) + Len(x) : (b \o x)[i] = IF i <= Len(b) THEN b[i] ELSE x[i - Len(b)]
      /\ Len(b) \in Nat /\ Len(x) \in Nat /\ Len(f) \in Nat
  BY ConcatProperties
<1>2. ASSUME NEW k \in 1..Len(b \o x)
      PROVE  off + k <= Len(f) /\ (b \o x)[k] = f[off + k]
  <2>1. CASE k <= Len(b)
    <3>1. k \in 1..Len(b) /\ k \in 1..Len(b) + Len(x)
      BY <1>1, <2>1
    <3> QED
      BY <1>1, <2>1, <3>1
  <2>2. CASE ~(k <= Len(b))
    <3> DEFINE j == k - Len(b)
    <3>1. j \in 1..Len(x) /\ (off + Len(b)) + j = off + k /\ k \in 1..Len(b) + Len(x)
      BY <1>1, <2>2
    <3>2. (b \o x)[k] = x[j]
      BY <1>1, <2>2, <3>1
    <3> HIDE DEF j
    <3> QED
      BY <3>1, <3>2
  <2> QED
    BY <2>1, <2>2
<1> QED
  BY <1>1, <1>2

LEMMA ReadHeadTo ==
  ASSUME NEW f, Whole(f), NEW off \in Nat, NEW amt \in Nat, amt >= 1
  PROVE  ReadTo(f, off, amt, VF!ReadHead(f, off, amt))
<1> DEFINE q == off \div Block
           r == off % Block
           s == VF!ReadHead(f, off, amt)
           got == VF!ReadBlocks(f, q + 1, Block)
           bcnt == VF!Least(amt, Block - r)
<1>1. /\ q \in Nat /\ off = (q * Block) + r /\ r < Block /\ r \in Nat
      /\ (q + 1) - 1 = q /\ q * Block \in Nat /\ (q + 2) - 1 = q + 1
      /\ (q + 1) * Block = (q * Block) + Block /\ Block \in Nat
  BY ConstantsAre, DivFacts, MulFacts
<1>2. f \in Seq(Int) /\ Len(f) \in Nat
  BY DEF Whole
<1>3. Len(f) <= q * Block \/ (q * Block) + Block <= Len(f)
  BY <1>1, WholeBlocks
<1>4. s = IF r = 0 THEN VF!Reading(<<>>, amt, q + 1, FALSE)
          ELSE IF got = <<>> THEN VF!Reading(<<>>, amt, q + 2, TRUE)
          ELSE VF!Reading(SubSeq(got, r + 1, r + bcnt), amt - bcnt, q + 2, FALSE)
  <2>1. (q + 1) + 1 = q + 2
    BY <1>1
  <2> QED
    BY <2>1 DEF VF!ReadHead
<1>5. Got(f, q * Block, Block, got)
  <2>1. q \in Nat /\ Block \in Nat
    BY <1>1
  <2> DEFINE v == q + 1
  <2>2. got = VF!ReadBlocks(f, v, Block) /\ v = q + 1
    OBVIOUS
  <2> HIDE DEF q, v, got
  <2> QED
    BY <1>2, <2>1, <2>2, ReadBlocksFacts
<1>6. <<>> \in Seq(Int) /\ Len(<<>>) = 0
  OBVIOUS
<1>7. bcnt \in Nat /\ bcnt <= amt /\ bcnt <= Block - r /\ (bcnt < amt => bcnt = Block - r)
  BY <1>1 DEF VF!Least
<1> HIDE DEF q, r, got, bcnt, s
<1>8. CASE r = 0
  <2>1. s = VF!Reading(<<>>, amt, q + 1, FALSE)
    BY <1>4, <1>8
  <2>2. (q + 1) \in Nat /\ q + 1 >= 1 /\ 0 + amt = amt /\ (q * Block) = off + 0
    BY <1>1, <1>8
  <2> DEFINE z == <<>>
  <2>3. ReadTo(f, off, amt, VF!Reading(z, amt, q + 1, FALSE))
    <3>1. z \in Seq(Int) /\ Len(z) = 0 /\ 1..0 = {}
      OBVIOUS
    <3> HIDE DEF z
    <3> QED
      BY <1>1, <2>2, <3>1, ReadToReading
  <2> QED
    BY <2>1, <2>3 DEF s
<1>9. CASE r # 0 /\ got = <<>>
  <2>1. s = VF!Reading(<<>>, amt, q + 2, TRUE)
    BY <1>4, <1>9
  <2>2. (q + 2) \in Nat /\ q + 2 >= 1 /\ 0 + amt = amt /\ amt > 0
    BY <1>1
  <2>3. Len(f) <= q * Block
    BY <1>1, <1>2, <1>3, <1>5, <1>6, <1>9 DEF Got
  <2>4. off + 0 >= Len(f)
    BY <1>1, <1>2, <2>3
  <2> DEFINE z == <<>>
  <2>5. ReadTo(f, off, amt, VF!Reading(z, amt, q + 2, TRUE))
    <3>1. z \in Seq(Int) /\ Len(z) = 0 /\ 1..0 = {}
      OBVIOUS
    <3> HIDE DEF z
    <3> QED
      BY <2>2, <2>4, <3>1, ReadToReading
  <2> QED
    BY <2>1, <2>5 DEF s
<1>10. CASE r # 0 /\ got # <<>>
  <2> DEFINE x == SubSeq(got, r + 1, r + bcnt)
  <2>1. s = VF!Reading(x, amt - bcnt, q + 2, FALSE)
    BY <1>4, <1>10
  <2>2. (q + 2) \in Nat /\ q + 2 >= 1
    BY <1>1
  <2>3. Len(got) = Block
    <3>1. Len(got) # 0
      BY <1>5, <1>10, EmptySeq DEF Got
    <3> QED
      BY <1>1, <1>2, <1>3, <1>5, <3>1 DEF Got
  <2>4. \A i \in (r + 1)..(r + bcnt) : got[i] \in Int
    <3>1. \A i \in (r + 1)..(r + bcnt) : i \in 1..Len(got)
      BY <1>1, <1>7, <2>3
    <3> QED
      BY <1>5, <3>1, ElementOfSeq DEF Got
  <2>5. /\ x \in Seq(Int) /\ Len(x) = IF r + 1 <= r + bcnt THEN (r + bcnt) - (r + 1) + 1 ELSE 0
        /\ \A i \in 1..((r + bcnt) - (r + 1) + 1) : x[i] = got[(r + 1) + i - 1]
    BY <1>1, <1>7, <2>4, SubSeqProperties
  <2> HIDE DEF x
  <2>6. Len(x) = bcnt
    BY <1>1, <1>7, <2>5
  <2>7. ASSUME NEW k \in 1..Len(x)
        PROVE  off + k <= Len(f) /\ x[k] = f[off + k]
    <3>1. /\ k \in 1..((r + bcnt) - (r + 1) + 1) /\ (r + 1) + k - 1 = r + k
          /\ r + k \in 1..Len(got) /\ (q * Block) + (r + k) = off + k
      BY <1>1, <1>7, <2>3, <2>6
    <3> QED
      BY <1>5, <2>5, <3>1 DEF Got
  <2>8. amt - bcnt > 0 => ((q + 2) - 1) * Block = off + Len(x)
    <3>1. amt - bcnt > 0 => off + Len(x) = (q * Block) + Block
      BY <1>1, <1>7, <2>6
    <3> QED
      BY <1>1, <3>1
  <2>9. amt - bcnt \in Nat /\ Len(x) + (amt - bcnt) = amt
    BY <1>7, <2>6
  <2>10. ReadTo(f, off, amt, VF!Reading(x, amt - bcnt, q + 2, FALSE))
    BY <2>2, <2>5, <2>7, <2>8, <2>9, ReadToReading
  <2> QED
    BY <2>1, <2>10 DEF s
<1> QED
  BY <1>8, <1>9, <1>10

LEMMA ReadMiddleTo ==
  ASSUME NEW f, Whole(f), NEW off \in Nat, NEW amt \in Nat, NEW s, ReadTo(f, off, amt, s),
         NEW m, m = VF!ReadMiddle(f, s)
  PROVE  ReadTo(f, off, amt, m) /\ (m.eof \/ m.amt < Block)
<1> DEFINE b == s.buf
           a == s.amt
           v == s.vbn
           q == v - 1
           w == a - (a % Block)
           got == VF!ReadBlocks(f, v, w)
<1>1. f \in Seq(Int) /\ Len(f) \in Nat
  BY DEF Whole
<1>2. /\ b \in Seq(Int) /\ a \in Nat /\ v \in Nat /\ v >= 1 /\ Len(b) \in Nat
      /\ Len(b) + a = amt /\ q \in Nat /\ v = q + 1
      /\ \A k \in 1..Len(b) : off + k <= Len(f) /\ b[k] = f[off + k]
  BY DEF ReadTo
<1>3. CASE s.eof \/ a < Block
  <2>1. m = s
    BY <1>3 DEF VF!ReadMiddle
  <2> QED
    BY <1>3, <2>1
<1>4. CASE ~(s.eof \/ a < Block)
  <2> DEFINE d == a \div Block
  <2>1. m = VF!Reading(b \o got, a - Len(got), v + (Len(got) \div Block), Len(got) < w)
    BY <1>4, Zenon DEF VF!ReadMiddle
  <2>2. /\ ~(a < Block) /\ (a > 0 => q * Block = off + Len(b))
        /\ w = a - (a % Block) /\ d = a \div Block
    BY <1>4 DEF ReadTo
  <2> HIDE DEF w, got, d, b, a, v, q
  <2>3. /\ d \in Nat /\ a = (d * Block) + (a % Block) /\ a % Block < Block /\ a % Block \in Nat
        /\ Block \in Nat /\ Block > 0 /\ d * Block \in Nat
    <3>1. Block \in Nat /\ Block > 0
      BY ConstantsAre
    <3>2. /\ a \div Block \in Nat /\ a = ((a \div Block) * Block) + (a % Block)
          /\ a % Block < Block /\ a % Block \in Nat
      BY <1>2, <3>1, DivFacts
    <3>3. d * Block \in Nat
      BY <2>2, <3>1, <3>2, MulFacts
    <3> QED
      BY <2>2, <3>1, <3>2, <3>3
  <2>4. w = d * Block /\ w \in Nat /\ w <= a /\ a - w < Block /\ w > 0
    BY <1>2, <2>2, <2>3
  <2>5. q * Block = off + Len(b) /\ q * Block \in Nat
    BY <1>2, <2>2, <2>3
  <2>6. Got(f, q * Block, w, got)
    <3>1. got = VF!ReadBlocks(f, v, w)
      BY DEF got
    <3> QED
      BY <1>1, <1>2, <2>4, <3>1, ReadBlocksFacts
  <2>7. got \in Seq(Int) /\ Len(got) \in Nat /\ Len(got) <= w
    BY <1>1, <2>4, <2>5, <2>6 DEF Got
  <2>8. \A k \in 1..Len(got) : (off + Len(b)) + k <= Len(f) /\ got[k] = f[(off + Len(b)) + k]
    BY <2>5, <2>6 DEF Got
  <2>9. /\ b \o got \in Seq(Int) /\ Len(b \o got) = Len(b) + Len(got)
        /\ \A k \in 1..Len(b \o got) : off + k <= Len(f) /\ (b \o got)[k] = f[off + k]
    <3>1. Part(f, off, b) /\ Part(f, off + Len(b), got)
      BY <1>2, <2>7, <2>8 DEF Part
    <3>2. Part(f, off, b \o got) /\ Len(b \o got) = Len(b) + Len(got)
      BY <1>1, <3>1, ReadMore
    <3> QED
      BY <3>2 DEF Part
  <2>10. Len(got) \div Block \in Nat
    BY <2>3, <2>7, DivFacts
  <2> DEFINE x == b \o got
             u == v + (Len(got) \div Block)
             y == a - Len(got)
             e == (Len(got) < w)
  <2>11. u \in Nat /\ u >= 1 /\ y \in Nat /\ Len(x) + y = amt /\ e \in BOOLEAN
    <3>1. u \in Nat /\ u >= 1
      BY <1>2, <2>10
    <3>2. y \in Nat /\ Len(x) + y = amt
      <4>1. Len(x) = Len(b) + Len(got)
        BY <2>9
      <4> HIDE DEF x
      <4> QED
        <5>1. /\ Len(got) <= a /\ a \in Nat /\ Len(got) \in Nat /\ Len(b) \in Nat
              /\ Len(b) + a = amt
          BY <1>2, <2>4, <2>7
        <5> QED
          BY <4>1, <5>1
    <3> QED
      BY <3>1, <3>2
  <2>12. e => y > 0 /\ off + Len(x) >= Len(f)
    <3> SUFFICES ASSUME e PROVE y > 0 /\ off + Len(x) >= Len(f)
      OBVIOUS
    <3>1. y > 0
      BY <1>2, <2>4, <2>7
    <3>2. q * Block >= Len(f) \/ Len(got) = Len(f) - (q * Block)
      BY <1>1, <2>4, <2>5, <2>6, <2>7 DEF Got
    <3>3. off + (Len(b) + Len(got)) >= Len(f)
      BY <1>1, <1>2, <2>5, <2>7, <3>2
    <3> QED
      BY <2>9, <3>1, <3>3
  <2>13. ~e => y < Block /\ (u - 1) * Block = off + Len(x)
    <3> SUFFICES ASSUME ~e PROVE y < Block /\ (u - 1) * Block = off + Len(x)
      OBVIOUS
    <3>1. Len(got) = w
      BY <2>4, <2>7
    <3>2. w \div Block = d
      BY <2>3, <2>4, DivMul
    <3>3. u - 1 = q + d
      BY <1>2, <2>3, <3>1, <3>2
    <3>4. (q + d) * Block = (q * Block) + (d * Block)
      BY <1>2, <2>3, MulFacts
    <3>5. (q + d) * Block = off + (Len(b) + w)
      BY <1>2, <2>4, <2>5, <3>4
    <3>6. y < Block
      BY <2>4, <3>1
    <3>7. Len(x) = Len(b) + w
      BY <2>9, <3>1
    <3> HIDE DEF u, x, y
    <3> QED
      BY <3>3, <3>5, <3>6, <3>7
  <2>14. x \in Seq(Int) /\ \A k \in 1..Len(x) : off + k <= Len(f) /\ x[k] = f[off + k]
    BY <2>9
  <2>15. m = VF!Reading(x, y, u, e)
    BY <2>1
  <2> HIDE DEF x, y, u, e
  <2>16. ReadTo(f, off, amt, VF!Reading(x, y, u, e))
    BY <2>11, <2>12, <2>13, <2>14, ReadToReading
  <2>17. m.eof = e /\ m.amt = y
    BY <2>15 DEF VF!Reading
  <2> QED
    BY <2>11, <2>13, <2>15, <2>16, <2>17
<1> QED
  BY <1>3, <1>4

LEMMA ReadTailTo ==
  ASSUME NEW f, Whole(f), NEW off \in Nat, NEW amt \in Nat, NEW s, ReadTo(f, off, amt, s),
         s.eof \/ s.amt < Block,
         NEW t, t = VF!ReadTail(f, s)
  PROVE  ReadTo(f, off, amt, t) /\ (t.eof \/ t.amt = 0)
<1> DEFINE b == s.buf
           a == s.amt
           v == s.vbn
           q == v - 1
           got == VF!ReadBlocks(f, v, Block)
<1>1. f \in Seq(Int) /\ Len(f) \in Nat /\ Block \in Nat /\ Block > 0
  BY ConstantsAre DEF Whole
<1>2. /\ b \in Seq(Int) /\ a \in Nat /\ v \in Nat /\ v >= 1 /\ Len(b) \in Nat
      /\ Len(b) + a = amt /\ q \in Nat /\ v = q + 1
      /\ \A k \in 1..Len(b) : off + k <= Len(f) /\ b[k] = f[off + k]
  BY DEF ReadTo
<1>3. CASE s.eof \/ a = 0
  <2>1. t = s
    BY <1>3 DEF VF!ReadTail
  <2> QED
    BY <1>3, <2>1
<1>4. CASE ~(s.eof \/ a = 0)
  <2>1. q * Block = off + Len(b) /\ a > 0 /\ a < Block
    BY <1>2, <1>4 DEF ReadTo
  <2>2. s = VF!Reading(b, a, v, FALSE)
    BY <1>4, Zenon DEF ReadTo
  <2>3. t = IF got = <<>> THEN [s EXCEPT !.eof = TRUE]
            ELSE VF!Reading(b \o SubSeq(got, 1, a), 0, v, FALSE)
    BY <1>4, Zenon DEF VF!ReadTail
  <2> HIDE DEF got, b, a, v, q
  <2>4. Got(f, q * Block, Block, got)
    <3>1. got = VF!ReadBlocks(f, v, Block)
      BY DEF got
    <3> QED
      BY <1>1, <1>2, <3>1, ReadBlocksFacts
  <2>5. Len(f) <= q * Block \/ (q * Block) + Block <= Len(f)
    BY <1>2, WholeBlocks
  <2>6. got \in Seq(Int) /\ (Len(got) = 0 <=> got = <<>>)
    BY <2>4, EmptySeq DEF Got
  <2>7. CASE got = <<>>
    <3>1. t = [s EXCEPT !.eof = TRUE]
      BY <2>3, <2>7
    <3>2. t = VF!Reading(b, a, v, TRUE)
      BY <2>2, <3>1 DEF VF!Reading
    <3>3. off + Len(b) >= Len(f)
      BY <1>1, <1>2, <2>1, <2>4, <2>5, <2>6, <2>7 DEF Got
    <3>4. ReadTo(f, off, amt, VF!Reading(b, a, v, TRUE))
      BY <1>2, <2>1, <3>3, ReadToReading
    <3>5. t.eof = TRUE
      BY <3>2 DEF VF!Reading
    <3> QED
      BY <3>2, <3>4, <3>5
  <2>8. CASE got # <<>>
    <3> DEFINE x == SubSeq(got, 1, a)
    <3>1. t = VF!Reading(b \o x, 0, v, FALSE)
      BY <2>3, <2>8
    <3>2. Len(got) = Block
      BY <1>1, <1>2, <2>1, <2>4, <2>5, <2>6, <2>8 DEF Got
    <3>3. \A i \in 1..a : i \in 1..Len(got) /\ got[i] \in Int /\ 1 + i - 1 = i
      <4>1. \A i \in 1..a : i \in 1..Len(got) /\ 1 + i - 1 = i
        BY <1>1, <1>2, <2>1, <3>2
      <4> QED
        BY <2>6, <4>1, ElementOfSeq
    <3>4. /\ x \in Seq(Int) /\ Len(x) = IF 1 <= a THEN a - 1 + 1 ELSE 0
          /\ \A i \in 1..(a - 1 + 1) : x[i] = got[1 + i - 1]
      BY <1>2, <3>3, SubSeqProperties
    <3>5. Len(x) = a /\ a - 1 + 1 = a
      BY <1>2, <2>1, <3>4
    <3> HIDE DEF x
    <3>6. \A k \in 1..Len(x) : x[k] = got[k] /\ k \in 1..Len(got)
      BY <3>3, <3>4, <3>5
    <3>7. \A k \in 1..Len(x) : (off + Len(b)) + k <= Len(f) /\ x[k] = f[(off + Len(b)) + k]
      BY <2>1, <2>4, <3>6 DEF Got
    <3>8. /\ b \o x \in Seq(Int) /\ Len(b \o x) = Len(b) + Len(x)
          /\ \A k \in 1..Len(b \o x) : off + k <= Len(f) /\ (b \o x)[k] = f[off + k]
      <4>1. Part(f, off, b) /\ Part(f, off + Len(b), x)
        BY <1>2, <3>4, <3>7 DEF Part
      <4>2. Part(f, off, b \o x) /\ Len(b \o x) = Len(b) + Len(x)
        BY <1>1, <4>1, ReadMore
      <4> QED
        BY <4>2 DEF Part
    <3>9. Len(b \o x) + 0 = amt
      BY <1>2, <3>5, <3>8
    <3> DEFINE y == b \o x
    <3>10. ReadTo(f, off, amt, VF!Reading(y, 0, v, FALSE))
      <4>1. /\ y \in Seq(Int) /\ Len(y) + 0 = amt
            /\ \A k \in 1..Len(y) : off + k <= Len(f) /\ y[k] = f[off + k]
        BY <3>8, <3>9
      <4>2. 0 \in Nat /\ ~(0 > 0) /\ v \in Nat /\ v >= 1
        BY <1>2
      <4> HIDE DEF y
      <4> QED
        BY <4>1, <4>2, ReadToReading
    <3>11. t.amt = 0
      BY <3>1 DEF VF!Reading
    <3> QED
      BY <3>1, <3>10, <3>11
  <2> QED
    BY <2>7, <2>8
<1> QED
  BY <1>3, <1>4

(* The zeroes and the result.                                              *)
LEMMA ReadIsCorrect ==
  ASSUME Whole(file)
  PROVE  VF!ReadCorrect
<1> SUFFICES ASSUME NEW off \in VF!Offset, NEW amt \in 1..MaxByte, NEW failing \in VF!Failing
             PROVE  LET r == VF!vmsRead(file, off, amt, failing)
                    IN  \/ r.rc = "SQLITE_IOERR_READ" /\ failing # "none"
                        \/ /\ r.buf = [k \in 1..amt |-> IF off + k <= Len(file)
                                                        THEN file[off + k] ELSE 0]
                           /\ r.rc = IF off + amt <= VF!vmsFileSize(file) THEN "SQLITE_OK"
                                     ELSE "SQLITE_IOERR_SHORT_READ"
  BY DEF VF!ReadCorrect
<1> DEFINE h == VF!ReadHead(file, off, amt)
           m == VF!ReadMiddle(file, h)
           s == VF!ReadTail(file, m)
           r == VF!vmsRead(file, off, amt, failing)
           want0 == [k \in 1..amt |-> IF off + k <= Len(file) THEN file[off + k] ELSE 0]
<1>1. off \in Nat /\ amt \in Nat /\ amt >= 1
  BY ConstantsAre DEF VF!Offset
<1>2. file \in Seq(Int) /\ Len(file) \in Nat
  BY DEF Whole
<1>3. ReadTo(file, off, amt, s) /\ (s.eof \/ s.amt = 0)
  <2>1. ReadTo(file, off, amt, h)
    BY <1>1, ReadHeadTo
  <2> HIDE DEF h
  <2>2. ReadTo(file, off, amt, m) /\ (m.eof \/ m.amt < Block)
    BY <1>1, <2>1, ReadMiddleTo
  <2> HIDE DEF m
  <2> QED
    BY <1>1, <2>2, ReadTailTo
<1>4. \/ r.rc = "SQLITE_IOERR_READ" /\ failing # "none"
      \/ /\ r.rc = IF s.eof THEN "SQLITE_IOERR_SHORT_READ" ELSE "SQLITE_OK"
         /\ r.buf = IF s.eof THEN s.buf \o [k \in 1..s.amt |-> 0] ELSE s.buf
  <2> HIDE DEF h
  <2> DEFINE failed == \/ failing = "head" /\ off % Block # 0
                       \/ failing = "middle" /\ ~h.eof /\ h.amt >= Block
                       \/ failing = "tail" /\ ~m.eof /\ m.amt > 0
  <2>1. failed => failing # "none"
    OBVIOUS
  <2>2. r = IF failed THEN [rc |-> "SQLITE_IOERR_READ", buf |-> <<>>]
            ELSE IF s.eof THEN [rc |-> "SQLITE_IOERR_SHORT_READ", buf |-> VF!ZeroFill(s)]
            ELSE [rc |-> "SQLITE_OK", buf |-> s.buf]
    BY Zenon DEF VF!vmsRead, h
  <2> HIDE DEF failed, m, s, r
  <2> QED
    BY <2>1, <2>2 DEF VF!ZeroFill
<1>a. CASE r.rc = "SQLITE_IOERR_READ" /\ failing # "none"
  BY <1>a
<1>b. CASE /\ r.rc = IF s.eof THEN "SQLITE_IOERR_SHORT_READ" ELSE "SQLITE_OK"
           /\ r.buf = IF s.eof THEN s.buf \o [k \in 1..s.amt |-> 0] ELSE s.buf
  <2>5. VF!vmsFileSize(file) = Len(file)
    <3>1. PICK k \in Nat : Len(file) = k * Block
      BY DEF Whole
    <3> QED
      BY <3>1, ConstantsAre, DivMul DEF VF!vmsFileSize, VF!Blocks
  <2> HIDE DEF h, m, s, r
  <2>6. /\ s.buf \in Seq(Int) /\ s.amt \in Nat /\ Len(s.buf) \in Nat /\ s.eof \in BOOLEAN
        /\ Len(s.buf) + s.amt = amt
        /\ \A k \in 1..Len(s.buf) : off + k <= Len(file) /\ s.buf[k] = file[off + k]
        /\ s.eof => s.amt > 0 /\ off + Len(s.buf) >= Len(file)
    BY <1>3 DEF ReadTo
  <2>7. want0 \in Seq(Int) /\ Len(want0) = amt
        /\ \A k \in 1..amt : want0[k] = IF off + k <= Len(file) THEN file[off + k] ELSE 0
    <3>1. want0 = [i \in 1..amt |-> want0[i]] /\ \A k \in 1..amt : want0[k] \in Int
      <4>1. \A k \in 1..amt : off + k <= Len(file) => off + k \in 1..Len(file)
        BY <1>1, <1>2
      <4> QED
        BY <1>2, <4>1, ElementOfSeq
    <3>2. \A k \in 1..amt : want0[k] = IF off + k <= Len(file) THEN file[off + k] ELSE 0
      OBVIOUS
    <3> HIDE DEF want0
    <3> QED
      BY <1>1, <3>1, <3>2, FunctionIsSeq
  <2> HIDE DEF want0
  <2>8. CASE s.eof
    <3> DEFINE z == [k \in 1..s.amt |-> 0]
               y == s.buf \o z
    <3>1. z \in Seq(Int) /\ Len(z) = s.amt /\ \A k \in 1..s.amt : z[k] = 0
      <4>1. z = [i \in 1..s.amt |-> z[i]] /\ \A k \in 1..s.amt : z[k] = 0 /\ z[k] \in Int
        OBVIOUS
      <4> HIDE DEF z
      <4> QED
        BY <2>6, <4>1, FunctionIsSeq
    <3>2. r.buf = y /\ r.rc = "SQLITE_IOERR_SHORT_READ"
      BY <1>b, <2>8
    <3> HIDE DEF z
    <3>3. /\ y \in Seq(Int) /\ Len(y) = Len(s.buf) + Len(z)
          /\ \A i \in 1..Len(s.buf) + Len(z) :
                y[i] = IF i <= Len(s.buf) THEN s.buf[i] ELSE z[i - Len(s.buf)]
      <4> DEFINE sb == s.buf
      <4>1. sb \in Seq(Int) /\ z \in Seq(Int)
        BY <2>6, <3>1
      <4> HIDE DEF sb
      <4>2. /\ sb \o z \in Seq(Int) /\ Len(sb \o z) = Len(sb) + Len(z)
            /\ \A i \in 1..Len(sb) + Len(z) :
                  (sb \o z)[i] = IF i <= Len(sb) THEN sb[i] ELSE z[i - Len(sb)]
        BY <4>1, ConcatProperties
      <4> QED
        BY <4>2 DEF sb
    <3>4. Len(y) = amt
      BY <2>6, <3>1, <3>3
    <3> HIDE DEF y
    <3>5. ASSUME NEW k \in 1..amt
          PROVE  y[k] = want0[k]
      <4>0. k \in 1..Len(s.buf) + Len(z)
        BY <2>6, <3>1
      <4>1. CASE k <= Len(s.buf)
        <5>1. k \in 1..Len(s.buf)
          BY <2>6, <4>1
        <5> QED
          BY <2>6, <2>7, <3>3, <4>0, <4>1, <5>1
      <4>2. CASE ~(k <= Len(s.buf))
        <5>1. k - Len(s.buf) \in 1..s.amt /\ ~(off + k <= Len(file))
          BY <1>1, <1>2, <2>6, <2>8, <4>2
        <5>2. y[k] = z[k - Len(s.buf)]
          BY <3>3, <4>0, <4>2
        <5> QED
          BY <2>7, <3>1, <5>1, <5>2
      <4> QED
        BY <4>1, <4>2
    <3>6. y = want0
      BY <2>7, <3>3, <3>4, <3>5, SeqEqual
    <3>7. ~(off + amt <= Len(file))
      BY <1>1, <1>2, <2>6, <2>8
    <3> QED
      BY <2>5, <3>2, <3>6, <3>7 DEF want0, r
  <2>9. CASE ~s.eof
    <3>1. s.amt = 0 /\ Len(s.buf) = amt /\ r.buf = s.buf /\ r.rc = "SQLITE_OK"
      BY <1>3, <1>b, <2>6, <2>9
    <3>2. \A k \in 1..amt : s.buf[k] = want0[k]
      BY <2>6, <2>7, <3>1
    <3>3. s.buf = want0
      BY <2>6, <2>7, <3>1, <3>2, SeqEqual
    <3>4. off + amt <= Len(file)
      <4>1. amt \in 1..Len(s.buf)
        BY <1>1, <3>1
      <4> QED
        BY <2>6, <4>1
    <3> QED
      BY <2>5, <3>1, <3>3, <3>4 DEF want0, r
  <2> QED
    BY <2>8, <2>9
<1> QED
  BY <1>4, <1>a, <1>b

-----------------------------------------------------------------------------
(* Whatever a write does to the bytes, also one that crosses blocks, the   *)
(* file remains whole blocks, which is all that vmsRead() needs.           *)

LEMMA MoveWhole ==
  ASSUME NEW f, Whole(f), NEW b \in Seq(Int), NEW at \in Nat, NEW p \in Nat, NEW n \in Nat,
         p + n <= Len(b)
  PROVE  Whole(VF!Move(f, at, b, p, n))
<1> DEFINE m == VF!Move(f, at, b, p, n)
<1>1. f \in Seq(Int) /\ Len(f) \in Nat /\ Len(b) \in Nat
  BY DEF Whole
<1>2. \A i \in 1..Len(f) : m[i] = IF i \in (at + 1)..(at + n) THEN b[p + i - at] ELSE f[i]
  BY <1>1 DEF VF!Move
<1>3. \A i \in (at + 1)..(at + n) : p + i - at \in 1..Len(b)
  BY <1>1
<1>4. \A i \in 1..Len(f) : m[i] \in Int
  BY <1>1, <1>2, <1>3, ElementOfSeq
<1>5. m = [i \in 1..Len(f) |-> m[i]]
  BY DEF VF!Move
<1> HIDE DEF m
<1>6. m \in Seq(Int) /\ Len(m) = Len(f)
  BY <1>1, <1>4, <1>5, FunctionIsSeq
<1>7. Whole(m)
  BY <1>6 DEF Whole
<1> QED
  BY <1>7 DEF m

(* The parts of a write: what is left to write is still in the buffer.     *)
InBuffer(s, buf) ==
  /\ s = VF!Writing(s.f, s.amt, s.vbn, s.pBuf, s.bcnt, s.ok)
  /\ Whole(s.f) /\ s.amt \in Nat /\ s.vbn \in Nat /\ s.vbn >= 1 /\ s.pBuf \in Nat
  /\ s.pBuf + s.amt <= Len(buf) /\ s.bcnt \in Int

LEMMA InBufferWriting ==
  ASSUME NEW buf, NEW f, Whole(f), NEW a \in Nat, NEW v \in Nat, v >= 1, NEW p \in Nat,
         p + a <= Len(buf), NEW c \in Int, NEW ok,
         NEW s, s = VF!Writing(f, a, v, p, c, ok)
  PROVE  InBuffer(s, buf) /\ s.f = f
<1>1. /\ s.f = f /\ s.amt = a /\ s.vbn = v /\ s.pBuf = p /\ s.bcnt = c /\ s.ok = ok
      /\ s = VF!Writing(s.f, s.amt, s.vbn, s.pBuf, s.bcnt, s.ok)
  BY DEF VF!Writing
<1> QED
  BY <1>1 DEF InBuffer

LEMMA HeadInBuffer ==
  ASSUME NEW g, Whole(g), NEW off \in Nat, NEW buf \in Seq(Int), NEW stack \in Int,
         NEW h, h = VF!WriteHead(g, off, buf, stack)
  PROVE  InBuffer(h, buf)
<1> DEFINE q == off \div Block
           r == off % Block
           n == Len(buf)
           bcnt == VF!Least(n, Block - r)
           M == VF!Move(g, off, buf, 0, bcnt)
<1>1. q \in Nat /\ r \in Nat /\ r < Block /\ Block \in Nat /\ Block > 0
  BY ConstantsAre, DivFacts
<1>2. n \in Nat /\ q + 1 \in Nat /\ q + 1 >= 1 /\ (q + 1) + 1 \in Nat /\ (q + 1) + 1 >= 1
  BY <1>1
<1>3. \/ h = VF!Writing(g, n, q + 1, 0, stack, TRUE)
      \/ h = VF!Writing(g, n, q + 1, 0, stack, FALSE)
      \/ h = VF!Writing(M, n - bcnt, (q + 1) + 1, IF bcnt <= 0 THEN bcnt ELSE 0, bcnt, TRUE)
  BY Zenon DEF VF!WriteHead
<1> HIDE DEF q, r, n
<1>4. bcnt \in Nat /\ bcnt <= n /\ n - bcnt \in Nat
  BY <1>1, <1>2 DEF VF!Least
<1> HIDE DEF bcnt
<1>5. (IF bcnt <= 0 THEN bcnt ELSE 0) = 0 /\ 0 + n <= n /\ 0 + (n - bcnt) <= n /\ 0 + bcnt <= n
  BY <1>2, <1>4
<1>6. Whole(M)
  BY <1>4, <1>5, MoveWhole DEF n
<1> HIDE DEF M
<1>7. CASE h = VF!Writing(g, n, q + 1, 0, stack, TRUE)
  <2> DEFINE v == q + 1
             z == 0
             k == TRUE
  <2>1. /\ v \in Nat /\ v >= 1 /\ z \in Nat /\ z + n <= Len(buf)
        /\ h = VF!Writing(g, n, v, z, stack, k)
    BY <1>2, <1>5, <1>7 DEF n
  <2> HIDE DEF v, z, k
  <2> QED
    BY <1>2, <2>1, InBufferWriting
<1>8. CASE h = VF!Writing(g, n, q + 1, 0, stack, FALSE)
  <2> DEFINE v == q + 1
             z == 0
             k == FALSE
  <2>1. /\ v \in Nat /\ v >= 1 /\ z \in Nat /\ z + n <= Len(buf)
        /\ h = VF!Writing(g, n, v, z, stack, k)
    BY <1>2, <1>5, <1>8 DEF n
  <2> HIDE DEF v, z, k
  <2> QED
    BY <1>2, <2>1, InBufferWriting
<1>9. CASE h = VF!Writing(M, n - bcnt, (q + 1) + 1, IF bcnt <= 0 THEN bcnt ELSE 0, bcnt, TRUE)
  <2>1. h = VF!Writing(M, n - bcnt, (q + 1) + 1, 0, bcnt, TRUE)
    BY <1>5, <1>9
  <2> DEFINE v == (q + 1) + 1
             z == 0
             l == n - bcnt
             k == TRUE
  <2>2. v \in Nat /\ v >= 1 /\ z \in Nat /\ z + l <= Len(buf) /\ l \in Nat /\ bcnt \in Int
    BY <1>2, <1>4, <1>5 DEF n
  <2>3. h = VF!Writing(M, l, v, z, bcnt, k)
    BY <2>1
  <2> HIDE DEF v, z, l, k
  <2> QED
    BY <1>6, <2>2, <2>3, InBufferWriting
<1> QED
  BY <1>3, <1>7, <1>8, <1>9

LEMMA MiddleInBuffer ==
  ASSUME NEW buf \in Seq(Int), NEW s, InBuffer(s, buf), NEW m, m = VF!WriteMiddle(s, buf)
  PROVE  InBuffer(m, buf)
<1> DEFINE a == s.amt
           v == s.vbn
           p == s.pBuf
           c == s.bcnt
           w == a - (a % Block)
           at == (v - 1) * Block
           M == VF!Move(s.f, at, buf, p, w)
<1>1. \/ m = s
      \/ m = [s EXCEPT !.ok = FALSE]
      \/ m = VF!Writing(M, a % Block, IF c > 0 THEN v + (a \div Block) ELSE v,
                        IF c > 0 THEN p + w ELSE p, c, TRUE)
  BY Zenon DEF VF!WriteMiddle
<1>2. /\ s = VF!Writing(s.f, a, v, p, c, s.ok)
      /\ Whole(s.f) /\ a \in Nat /\ v \in Nat /\ v >= 1 /\ p \in Nat
      /\ p + a <= Len(buf) /\ c \in Int
  BY Zenon DEF InBuffer
<1> HIDE DEF a, v, p, c
<1>3. /\ a \div Block \in Nat /\ a % Block \in Nat /\ Block \in Nat /\ Block > 0
      /\ w \in Nat /\ w <= a
  <2>1. Block \in Nat /\ Block > 0
    BY ConstantsAre
  <2>2. /\ a \div Block \in Nat /\ a % Block \in Nat
        /\ a = ((a \div Block) * Block) + (a % Block)
    BY <1>2, <2>1, DivFacts
  <2>3. (a \div Block) * Block \in Nat
    BY <2>1, <2>2, MulFacts
  <2> DEFINE x == (a \div Block) * Block
             y == a % Block
  <2>4. x \in Nat /\ y \in Nat /\ a = x + y /\ w = a - y
    BY <2>2, <2>3
  <2> HIDE DEF x, y, w
  <2>5. w \in Nat /\ w <= a
    BY <1>2, <2>4
  <2> QED
    BY <2>1, <2>2, <2>5
<1>4. v - 1 \in Nat /\ at \in Nat
  <2>1. v - 1 \in Nat
    BY <1>2
  <2> QED
    BY <1>3, <2>1, MulFacts
<1>5. CASE m = s
  BY <1>5
<1>6. CASE m = [s EXCEPT !.ok = FALSE]
  <2> DEFINE F == s.f
             o == s.ok
             k == FALSE
  <2>1. s = VF!Writing(F, a, v, p, c, o) /\ Whole(F)
    BY <1>2
  <2> HIDE DEF F, o
  <2>2. m = VF!Writing(F, a, v, p, c, k)
    BY <1>6, <2>1 DEF VF!Writing
  <2> HIDE DEF k
  <2> QED
    BY <1>2, <2>1, <2>2, InBufferWriting
<1>7. CASE m = VF!Writing(M, a % Block, IF c > 0 THEN v + (a \div Block) ELSE v,
                          IF c > 0 THEN p + w ELSE p, c, TRUE)
  <2> DEFINE u == IF c > 0 THEN v + (a \div Block) ELSE v
             o == IF c > 0 THEN p + w ELSE p
             r == a % Block
             d == a \div Block
             k == TRUE
  <2>1. r \in Nat /\ d \in Nat /\ w = a - r /\ m = VF!Writing(M, r, u, o, c, k)
    BY <1>3, <1>7
  <2>2. u \in Nat /\ u >= 1
    <3> HIDE DEF d
    <3> QED BY <1>2, <2>1 DEF d
  <2>3. p + w <= Len(buf) /\ o \in Nat /\ o + r <= Len(buf)
    <3> HIDE DEF r, w
    <3>1. Len(buf) \in Nat
      OBVIOUS
    <3> QED BY <1>2, <1>3, <2>1, <3>1
  <2>4. Whole(M)
    <3> HIDE DEF at, w
    <3> QED BY <1>2, <1>3, <1>4, <2>3, MoveWhole
  <2> HIDE DEF u, o, r, M, k
  <2> QED
    BY <1>2, <2>1, <2>2, <2>3, <2>4, InBufferWriting
<1> QED
  BY <1>1, <1>5, <1>6, <1>7

LEMMA TailWhole ==
  ASSUME NEW buf \in Seq(Int), NEW s, InBuffer(s, buf), NEW t, t = VF!WriteTail(s, buf)
  PROVE  Whole(t.f)
<1> DEFINE a == s.amt
           v == s.vbn
           p == s.pBuf
           at == (v - 1) * Block
           M == VF!Move(s.f, at, buf, p, a)
<1>1. t = s \/ t = [s EXCEPT !.ok = FALSE] \/ t = [s EXCEPT !.f = M]
  BY Zenon DEF VF!WriteTail
<1>2. /\ s = VF!Writing(s.f, a, v, p, s.bcnt, s.ok)
      /\ Whole(s.f) /\ a \in Nat /\ v \in Nat /\ v >= 1 /\ p \in Nat /\ p + a <= Len(buf)
  BY Zenon DEF InBuffer
<1> HIDE DEF a, v, p
<1>3. at \in Nat
  <2>1. v - 1 \in Nat /\ Block \in Nat
    BY <1>2, ConstantsAre
  <2> QED
    BY <2>1, MulFacts
<1> HIDE DEF at
<1>4. Whole(M)
  BY <1>2, <1>3, MoveWhole
<1> HIDE DEF M
<1>5. t.f = s.f \/ t.f = M
  BY <1>1, <1>2 DEF VF!Writing
<1> QED
  BY <1>2, <1>4, <1>5

LEMMA WholeNext ==
  ASSUME Whole(file), szChunk \in Nat, szHint \in Nat, VF!Next
  PROVE  Whole(file') /\ szChunk' \in Nat /\ szHint' \in Nat
<1>1. ASSUME NEW off \in VF!Offset, NEW amt \in 1..MaxByte, NEW stack \in {0, 1},
             \/ VF!vmsWrite(off, VF!Buffer(amt), stack)
             \/ VF!WriteError(off, VF!Buffer(amt), stack)
      PROVE  Whole(file') /\ szChunk' \in Nat /\ szHint' \in Nat
  <2> DEFINE b == VF!Buffer(amt)
             g == VF!Extended(file, off, Len(b))
             h == VF!WriteHead(g, off, b, stack)
             m == VF!WriteMiddle(h, b)
             t == VF!WriteTail(m, b)
  <2>1. off \in Nat /\ amt \in Nat /\ stack \in Int
    BY ConstantsAre DEF VF!Offset
  <2>2. b \in Seq(Int) /\ Len(b) = amt
    BY <2>1, BufferFacts
  <2>3. \/ file' = file /\ szHint' = szHint
        \/ file' \in {file, g, h.f, m.f, t.f} /\ szHint' = 0
    BY <1>1, Zenon DEF VF!vmsWrite, VF!WriteError
  <2>c. szChunk' = szChunk
    BY <1>1 DEF VF!vmsWrite, VF!WriteError
  <2>4. Whole(g)
    <3> HIDE DEF b
    <3> QED BY <2>1, <2>2, ExtendedFacts
  <2> HIDE DEF b, g
  <2>5. InBuffer(h, b)
    BY <2>1, <2>2, <2>4, HeadInBuffer
  <2> HIDE DEF h
  <2>6. InBuffer(m, b)
    BY <2>2, <2>5, MiddleInBuffer
  <2> HIDE DEF m
  <2>7. Whole(t.f)
    BY <2>2, <2>6, TailWhole
  <2> HIDE DEF t
  <2> QED
    BY <2>3, <2>4, <2>5, <2>6, <2>7, <2>c DEF InBuffer
<1>2. ASSUME NEW n \in 0..MaxByte, VF!vmsTruncate(n)
      PROVE  Whole(file') /\ szChunk' \in Nat /\ szHint' \in Nat
  BY <1>2, TruncateFacts DEF VF!vmsTruncate
<1>3. CASE \/ \E n \in {0, MaxByte} : VF!vmsFileControl("SQLITE_FCNTL_CHUNK_SIZE", n)
           \/ VF!vmsFileControl("SQLITE_FCNTL_SIZE_HINT", MaxByte)
  <2>1. file' = file /\ szHint' \in Nat /\ szChunk' \in Nat
    BY <1>3, ConstantsAre, ControlFacts
  <2> QED
    BY <2>1
<1>4. CASE \E off \in VF!Offset, amt \in 1..MaxByte :
           \E stack \in IF Crossing THEN {0, 1} ELSE {0} :
              /\ VF!Written(off, amt)
              /\ \/ VF!vmsWrite(off, VF!Buffer(amt), stack)
                 \/ VF!WriteError(off, VF!Buffer(amt), stack)
  <2>1. PICK off \in VF!Offset, amt \in 1..MaxByte, stack \in {0, 1} :
           VF!vmsWrite(off, VF!Buffer(amt), stack) \/ VF!WriteError(off, VF!Buffer(amt), stack)
    BY <1>4
  <2> QED
    BY <1>1, <2>1
<1> QED
  BY <1>2, <1>3, <1>4 DEF VF!Next

-----------------------------------------------------------------------------
(* What vmsWrite() reported as written stays in the file, for blocks of    *)
(* any size and files of any length, where writes are of whole blocks or   *)
(* within one block: extensions, truncations and failed transfers of       *)
(* os_vms.c lose nothing.                                                  *)
THEOREM FileHoldsAlways ==
  ASSUME ~Crossing
  PROVE  VmsSpec => []FileHolds
<1>1. VmsInit => FileInv
  BY FileInit DEF VmsInit
<1>2. FileInv /\ [VmsNext]_<<part, vars, fileVars>> => FileInv'
  <2> SUFFICES ASSUME FileInv, [VmsNext]_<<part, vars, fileVars>> PROVE FileInv'
    OBVIOUS
  <2>1. CASE VF!Next
    BY <2>1, FileNext
  <2>2. CASE file' = file /\ szChunk' = szChunk /\ szHint' = szHint /\ want' = want
    BY <2>2 DEF FileInv, VF!FileHolds, Whole, VF!Offset, VF!Unknown
  <2> QED
    BY <2>1, <2>2 DEF VmsNext, fileVars
<1>3. FileInv => FileHolds
  BY DEF FileInv, FileHolds
<1> QED
  BY <1>1, <1>2, <1>3, PTL DEF VmsSpec

(* vmsRead() of any range returns the bytes of the file and, exactly where *)
(* it ends, zeroes and SQLITE_IOERR_SHORT_READ, for blocks of any size and *)
(* whatever vmsWrite() has done to the file, across blocks too; only where *)
(* a transfer fails is it SQLITE_IOERR_READ.                               *)
THEOREM ReadsWhatIsThere == VmsSpec => []ReadCorrect
<1> DEFINE I == Whole(file) /\ szChunk \in Nat /\ szHint \in Nat
<1>1. VmsInit => I
  BY FileInit DEF VmsInit, FileInv
<1>2. I /\ [VmsNext]_<<part, vars, fileVars>> => I'
  <2> SUFFICES ASSUME I, [VmsNext]_<<part, vars, fileVars>> PROVE I'
    OBVIOUS
  <2>1. CASE VF!Next
    BY <2>1, WholeNext DEF Whole
  <2>2. CASE file' = file /\ szChunk' = szChunk /\ szHint' = szHint
    BY <2>2 DEF Whole
  <2> QED
    BY <2>1, <2>2 DEF VmsNext, fileVars
<1>3. I => ReadCorrect
  BY ReadIsCorrect DEF ReadCorrect
<1> QED
  BY <1>1, <1>2, <1>3, PTL DEF VmsSpec

(* vmsWrite() of whole blocks or within one extends the file by enough, so *)
(* that it fails only if a transfer does, for any chunk size, hint and     *)
(* extension but one: an RMS default of the process, where neither the     *)
(* file nor its user has set one, is used as it is (os_vms.c:286).         *)
THEOREM ExtendsEnoughAlways ==
  ASSUME ~Crossing
  PROVE  VmsSpec => []ExtendsEnough
<1> DEFINE I == FileInv /\ VF!ExtendsEnough
<1>1. VmsInit => I
  BY FileInit DEF VmsInit
<1>2. I /\ [VmsNext]_<<part, vars, fileVars>> => I'
  <2> SUFFICES ASSUME I, [VmsNext]_<<part, vars, fileVars>> PROVE I'
    OBVIOUS
  <2>1. CASE VF!Next
    BY <2>1, FileNext
  <2>2. CASE UNCHANGED fileVars
    BY <2>2 DEF FileInv, VF!FileHolds, VF!ExtendsEnough, Whole, VF!Offset, VF!Unknown, fileVars
  <2> QED
    BY <2>1, <2>2 DEF VmsNext, fileVars
<1>3. I => ExtendsEnough
  BY DEF ExtendsEnough
<1> QED
  BY <1>1, <1>2, <1>3, PTL DEF VmsSpec
=============================================================================
