---------------------------- MODULE BtMutexProofs ----------------------------
(***************************************************************************)
(* Proofs about BtMutex, for any set of connections, any number of         *)
(* BtShared objects and any depth of nested entries.                       *)
(***************************************************************************)
EXTENDS BtMutex, WellFoundedInduction, TLAPS

(* The type of the state.                                                  *)
TypeOK ==
  /\ owner \in [Bt -> SUBSET Db]
  /\ btDb \in [Bt -> SUBSET Db]
  /\ wantToLock \in [Db -> [Bt -> Nat]]
  /\ locked \in [Db -> [Bt -> BOOLEAN]]
  /\ pc \in [Db -> {"out", "release", "wait", "relock"}]
  /\ enter \in [Db -> Nat]
  /\ \A d \in Db : pc[d] # "out" => enter[d] \in Bt

(* Btree.locked is the truth about who holds a mutex.                      *)
LockedIsOwner ==
  \A d \in Db, b \in Bt :
     /\ locked[d][b] => owner[b] = {d} /\ btDb[b] = {d} /\ wantToLock[d][b] > 0
     /\ d \in owner[b] => locked[d][b]

(* What d has entered below b it still holds.                              *)
HoldsBelow(d, b) == \A c \in Bt : c < b /\ wantToLock[d][c] > 0 => locked[d][c]

(* How far sqlite3BtreeEnter() has come.  While it waits it holds nothing  *)
(* at or above the mutex it waits for; while it takes mutexes back, what   *)
(* it still lacks lies above all that it holds.                            *)
EnterProgress ==
  \A d \in Db :
     /\ pc[d] = "out" => \A b \in Bt : wantToLock[d][b] > 0 => locked[d][b]
     /\ pc[d] # "out" => HoldsBelow(d, enter[d]) /\ wantToLock[d][enter[d]] > 0
     /\ pc[d] \in {"release", "wait"} => ~locked[d][enter[d]]
     /\ pc[d] = "wait" => \A b \in Bt : b > enter[d] => ~locked[d][b]
     /\ pc[d] = "relock" => /\ locked[d][enter[d]]
                            /\ \A b \in Bt, c \in ToRelock(d) : locked[d][b] => b < c

(* The inductive invariant.                                                *)
IInv == TypeOK /\ LockedIsOwner /\ EnterProgress

-----------------------------------------------------------------------------
(* Every non-empty set of natural numbers has a least member.              *)
LEMMA LeastNatural ==
  ASSUME NEW s \in SUBSET Nat, s # {}
  PROVE  \E n \in s : \A m \in s : n <= m
<1>1. PICK n \in s : \A m \in s : ~ (<<m, n>> \in OpToRel(<, Nat))
  BY NatLessThanWellFounded, WFMin
<1>2. \A m \in s : ~ (m < n)
  BY <1>1 DEF OpToRel
<1> QED
  BY <1>2

(* First() of a set of BtShared objects is its least member.               *)
LEMMA FirstIsLeast ==
  ASSUME NBt \in Nat, NEW s \in SUBSET Bt, s # {}
  PROVE  First(s) \in s /\ \A c \in s : First(s) <= c
<1>1. s \in SUBSET Nat
  BY DEF Bt
<1>2. PICK b \in s : \A c \in s : b <= c
  BY <1>1, LeastNatural
<1> QED
  BY <1>2 DEF First

(* A non-empty set of BtShared objects has a greatest member.              *)
LEMMA GreatestBt ==
  ASSUME NBt \in Nat, NEW s \in SUBSET Bt, s # {}
  PROVE  \E b \in s : \A c \in s : c <= b
<1> DEFINE t == {NBt - b : b \in s}
<1>1. ASSUME NEW b \in s PROVE b \in Nat /\ NBt - b \in Nat
  BY DEF Bt
<1>2. t \in SUBSET Nat /\ t # {}
  BY <1>1
<1>3. PICK n \in t : \A m \in t : n <= m
  BY <1>2, LeastNatural
<1>4. PICK b \in s : n = NBt - b
  BY <1>3
<1>5. ASSUME NEW c \in s PROVE c <= b
  <2>1. n <= NBt - c
    BY <1>3
  <2> QED
    BY <2>1, <1>4, <1>1
<1> QED
  BY <1>5

-----------------------------------------------------------------------------
(* Updating one place of a table.                                          *)
Updated(g, f, x, y, v, S, T, V) ==
  /\ g \in [S -> [T -> V]]
  /\ \A i \in S, j \in T : g[i][j] = IF i = x /\ j = y THEN v ELSE f[i][j]

LEMMA TableUpdate ==
  ASSUME NEW S, NEW T, NEW V, NEW f \in [S -> [T -> V]],
         NEW x \in S, NEW y \in T, NEW v \in V, NEW g, g = [f EXCEPT ![x][y] = v]
  PROVE  Updated(g, f, x, y, v, S, T, V)
BY DEF Updated

(* What taking a mutex changes.                                            *)
LockEffect(d, b) ==
  /\ owner[b] = {}
  /\ owner' \in [Bt -> SUBSET Db] /\ btDb' \in [Bt -> SUBSET Db]
  /\ locked' \in [Db -> [Bt -> BOOLEAN]]
  /\ owner'[b] = {d} /\ btDb'[b] = {d} /\ locked'[d][b]
  /\ \A c \in Bt : c # b => owner'[c] = owner[c] /\ btDb'[c] = btDb[c]
  /\ \A e \in Db, c \in Bt : e # d \/ c # b => (locked'[e][c] <=> locked[e][c])

(* lockBtreeMutex() has that effect.                                       *)
LEMMA LockHasEffect ==
  ASSUME TypeOK, NEW d \in Db, NEW b \in Bt, lockBtreeMutex(d, b)
  PROVE  LockEffect(d, b)
<1>1. locked' = [locked EXCEPT ![d][b] = TRUE]
  BY DEF lockBtreeMutex
<1>2. locked \in [Db -> [Bt -> BOOLEAN]]
  BY DEF TypeOK
<1>3. /\ locked' \in [Db -> [Bt -> BOOLEAN]]
      /\ \A e \in Db, c \in Bt :
           locked'[e][c] = IF e = d /\ c = b THEN TRUE ELSE locked[e][c]
  <2>1. TRUE \in BOOLEAN
    OBVIOUS
  <2>2. Updated(locked', locked, d, b, TRUE, Db, Bt, BOOLEAN)
    BY ONLY <1>1, <1>2, <2>1, TableUpdate, d \in Db, b \in Bt
  <2> QED
    BY ONLY <2>2, Zenon DEF Updated
<1>4. /\ owner[b] = {}
      /\ owner' \in [Bt -> SUBSET Db] /\ btDb' \in [Bt -> SUBSET Db]
      /\ owner'[b] = {d} /\ btDb'[b] = {d}
      /\ \A c \in Bt : c # b => owner'[c] = owner[c] /\ btDb'[c] = btDb[c]
  BY DEF lockBtreeMutex, TypeOK, Free
<1>5. /\ locked'[d][b]
      /\ \A e \in Db, c \in Bt : e # d \/ c # b => (locked'[e][c] <=> locked[e][c])
  BY <1>3
<1> QED
  BY <1>3, <1>4, <1>5 DEF LockEffect

(* What releasing a mutex changes.                                         *)
UnlockEffect(d, b) ==
  /\ owner' \in [Bt -> SUBSET Db] /\ btDb' = btDb
  /\ locked' \in [Db -> [Bt -> BOOLEAN]]
  /\ owner'[b] = {} /\ ~locked'[d][b]
  /\ \A c \in Bt : c # b => owner'[c] = owner[c]
  /\ \A e \in Db, c \in Bt : e # d \/ c # b => (locked'[e][c] <=> locked[e][c])

(* unlockBtreeMutex() has that effect.                                     *)
LEMMA UnlockHasEffect ==
  ASSUME TypeOK, NEW d \in Db, NEW b \in Bt, unlockBtreeMutex(d, b)
  PROVE  UnlockEffect(d, b)
<1>1. locked' = [locked EXCEPT ![d][b] = FALSE]
  BY DEF unlockBtreeMutex
<1>2. locked \in [Db -> [Bt -> BOOLEAN]]
  BY DEF TypeOK
<1>3. /\ locked' \in [Db -> [Bt -> BOOLEAN]]
      /\ \A e \in Db, c \in Bt :
           locked'[e][c] = IF e = d /\ c = b THEN FALSE ELSE locked[e][c]
  <2>1. FALSE \in BOOLEAN
    OBVIOUS
  <2>2. Updated(locked', locked, d, b, FALSE, Db, Bt, BOOLEAN)
    BY ONLY <1>1, <1>2, <2>1, TableUpdate, d \in Db, b \in Bt
  <2> QED
    BY ONLY <2>2, Zenon DEF Updated
<1> QED
  BY <1>3 DEF unlockBtreeMutex, TypeOK, UnlockEffect

(* The initial state satisfies the invariant.                              *)
LEMMA InitIInv == Init => IInv
BY DEF Init, IInv, TypeOK, LockedIsOwner, EnterProgress

(* Taking a mutex that it wants makes d the one that holds it.             *)
LEMMA LockedStep ==
  ASSUME LockedIsOwner, NEW d \in Db, NEW b \in Bt, LockEffect(d, b),
         wantToLock'[d][b] > 0,
         \A e \in Db, c \in Bt : c # b => wantToLock'[e][c] > 0 <=> wantToLock[e][c] > 0
  PROVE  LockedIsOwner'
<1>1. \A e \in Db : ~locked[e][b]
  <2>1. owner[b] = {}
    BY DEF LockEffect
  <2> QED
    BY <2>1, Zenon DEF LockedIsOwner
<1>2. ASSUME NEW e \in Db
      PROVE  /\ locked'[e][b] => owner'[b] = {e} /\ btDb'[b] = {e} /\ wantToLock'[e][b] > 0
             /\ e \in owner'[b] => locked'[e][b]
  BY <1>1 DEF LockEffect
<1>3. ASSUME NEW e \in Db, NEW c \in Bt, c # b
      PROVE  /\ locked'[e][c] => owner'[c] = {e} /\ btDb'[c] = {e} /\ wantToLock'[e][c] > 0
             /\ e \in owner'[c] => locked'[e][c]
  BY <1>3 DEF LockedIsOwner, LockEffect
<1> QED
  BY <1>2, <1>3 DEF LockedIsOwner

(* Entering a b-tree preserves the invariant.                              *)
LEMMA EnterStep ==
  ASSUME NBt \in Nat, IInv, NEW d \in Db, NEW b \in Bt, sqlite3BtreeEnter(d, b)
  PROVE  IInv'
<1> USE DEF IInv
<1>1. wantToLock[d][b] + 1 \in Nat /\ b \in Nat
  BY DEF TypeOK, Bt
<1>2. wantToLock' = [wantToLock EXCEPT ![d][b] = wantToLock[d][b] + 1]
  BY DEF sqlite3BtreeEnter
<1>3. /\ wantToLock' \in [Db -> [Bt -> Nat]]
      /\ wantToLock'[d][b] = wantToLock[d][b] + 1
      /\ \A e \in Db, c \in Bt : e # d \/ c # b => wantToLock'[e][c] = wantToLock[e][c]
  BY <1>1, <1>2 DEF TypeOK
<1>4. pc[d] = "out"
  BY DEF sqlite3BtreeEnter
<1>5. CASE locked[d][b]
  <2>1. UNCHANGED <<owner, btDb, locked, pc, enter>>
    BY <1>5 DEF sqlite3BtreeEnter
  <2>2. TypeOK'
    BY <1>3, <2>1 DEF TypeOK
  <2>3. LockedIsOwner'
    BY <1>1, <1>3, <2>1 DEF TypeOK, LockedIsOwner
  <2>4. EnterProgress'
    BY <1>1, <1>3, <1>4, <1>5, <2>1 DEF TypeOK, EnterProgress, HoldsBelow, ToRelock, Later
  <2> QED
    BY <2>2, <2>3, <2>4
<1>6. CASE ~locked[d][b] /\ Free(b)
  <2>1. lockBtreeMutex(d, b) /\ UNCHANGED <<pc, enter>>
    BY <1>6 DEF sqlite3BtreeEnter
  <2>2. LockEffect(d, b)
    BY <2>1, LockHasEffect
  <2>3. TypeOK'
    BY <1>3, <2>1, <2>2 DEF TypeOK, LockEffect
  <2>4. LockedIsOwner'
    BY <1>1, <1>3, <2>2, LockedStep DEF TypeOK
  <2>5. EnterProgress'
    BY <1>1, <1>3, <1>4, <2>1, <2>2
       DEF TypeOK, EnterProgress, HoldsBelow, ToRelock, Later, LockEffect
  <2> QED
    BY <2>3, <2>4, <2>5
<1>7. CASE ~locked[d][b] /\ ~Free(b)
  <2>1. /\ pc' = [pc EXCEPT ![d] = "release"]
        /\ enter' = [enter EXCEPT ![d] = b]
        /\ UNCHANGED <<owner, btDb, locked>>
    BY <1>7 DEF sqlite3BtreeEnter
  <2>2. TypeOK'
    BY <1>1, <1>3, <2>1 DEF TypeOK
  <2>3. LockedIsOwner'
    BY <1>1, <1>3, <2>1 DEF TypeOK, LockedIsOwner
  <2>4. EnterProgress'
    BY <1>1, <1>3, <1>4, <1>7, <2>1 DEF TypeOK, EnterProgress, HoldsBelow, ToRelock, Later
  <2> QED
    BY <2>2, <2>3, <2>4
<1> QED
  BY <1>5, <1>6, <1>7

(* Leaving a b-tree preserves the invariant.                               *)
LEMMA LeaveStep ==
  ASSUME NBt \in Nat, IInv, NEW d \in Db, NEW b \in Bt, sqlite3BtreeLeave(d, b)
  PROVE  IInv'
<1> USE DEF IInv
<1>1. wantToLock[d][b] \in Nat /\ wantToLock[d][b] - 1 \in Nat /\ wantToLock[d][b] > 0
  BY DEF TypeOK, sqlite3BtreeLeave
<1>2. wantToLock' = [wantToLock EXCEPT ![d][b] = wantToLock[d][b] - 1]
  BY DEF sqlite3BtreeLeave
<1>3. /\ wantToLock' \in [Db -> [Bt -> Nat]]
      /\ wantToLock'[d][b] = wantToLock[d][b] - 1
      /\ \A e \in Db, c \in Bt : e # d \/ c # b => wantToLock'[e][c] = wantToLock[e][c]
  BY <1>1, <1>2 DEF TypeOK
<1>4. pc[d] = "out" /\ UNCHANGED <<pc, enter>> /\ locked[d][b]
  BY <1>1 DEF sqlite3BtreeLeave, EnterProgress
<1>5. CASE wantToLock[d][b] = 1
  <2>1. unlockBtreeMutex(d, b)
    BY <1>5 DEF sqlite3BtreeLeave
  <2>2. UnlockEffect(d, b)
    BY <2>1, UnlockHasEffect
  <2>3. TypeOK'
    BY <1>3, <1>4, <2>2 DEF TypeOK, UnlockEffect
  <2>4. LockedIsOwner'
    <3>1. \A e \in Db : ~locked'[e][b]
      BY <1>4, <2>2 DEF LockedIsOwner, UnlockEffect
    <3>2. ASSUME NEW e \in Db, NEW c \in Bt, c # b
          PROVE  /\ locked'[e][c] <=> locked[e][c]
                 /\ owner'[c] = owner[c] /\ btDb'[c] = btDb[c]
                 /\ wantToLock'[e][c] = wantToLock[e][c]
      BY <1>3, <2>2, <3>2 DEF UnlockEffect
    <3>3. owner'[b] = {}
      BY <2>2 DEF UnlockEffect
    <3> QED
      BY <3>1, <3>2, <3>3 DEF LockedIsOwner
  <2>5. EnterProgress'
    <3>1. ASSUME NEW e \in Db, NEW c \in Bt, e # d \/ c # b
          PROVE  /\ locked'[e][c] <=> locked[e][c]
                 /\ wantToLock'[e][c] = wantToLock[e][c]
      BY <1>3, <2>2, <3>1 DEF UnlockEffect
    <3>2. ~locked'[d][b] /\ wantToLock'[d][b] = 0
      BY <1>3, <1>5, <2>2 DEF UnlockEffect
    <3>3. \A e \in Db : pc[e] # "out" => enter[e] \in Bt /\ e # d
      BY <1>4 DEF TypeOK
    <3>4. ASSUME NEW e \in Db, pc[e] # "out"
          PROVE  ToRelock(e)' = ToRelock(e)
      BY <1>4, <3>1, <3>3, <3>4 DEF ToRelock, Later
    <3> QED
      BY <1>4, <3>1, <3>2, <3>3, <3>4 DEF EnterProgress, HoldsBelow
  <2> QED
    BY <2>3, <2>4, <2>5
<1>6. CASE wantToLock[d][b] # 1
  <2>1. ASSUME NEW e \in Db, NEW c \in Bt
        PROVE  wantToLock'[e][c] > 0 <=> wantToLock[e][c] > 0
    <3>1. wantToLock[d][b] > 0 /\ wantToLock'[d][b] > 0
      BY <1>1, <1>3, <1>6
    <3> QED
      BY <1>3, <3>1
  <2>2. UNCHANGED <<owner, btDb, locked>>
    BY <1>6 DEF sqlite3BtreeLeave
  <2>3. TypeOK'
    BY <1>3, <1>4, <2>2 DEF TypeOK
  <2>4. LockedIsOwner'
    BY <2>1, <2>2 DEF LockedIsOwner
  <2>5. EnterProgress'
    BY <1>4, <2>1, <2>2 DEF TypeOK, EnterProgress, HoldsBelow, ToRelock, Later
  <2> QED
    BY <2>3, <2>4, <2>5
<1> QED
  BY <1>5, <1>6

(* Releasing the mutexes at higher addresses preserves the invariant.      *)
LEMMA ReleaseStep ==
  ASSUME NBt \in Nat, IInv, NEW d \in Db, ReleaseLater(d)
  PROVE  IInv'
<1> USE DEF IInv
<1> DEFINE held == {b \in Later(d) : locked[d][b]}
<1>1. pc[d] = "release" /\ UNCHANGED <<wantToLock, enter>> /\ enter[d] \in Bt
  BY DEF ReleaseLater, TypeOK
<1>2. CASE held # {}
  <2> DEFINE b == First(held)
  <2>1. held \in SUBSET Bt
    BY DEF Later
  <2>2. b \in held
    BY <1>2, <2>1, FirstIsLeast
  <2>3. b \in Bt /\ b > enter[d] /\ locked[d][b]
    BY <2>2 DEF Later
  <2>4. unlockBtreeMutex(d, b) /\ UNCHANGED pc
    BY <1>2 DEF ReleaseLater
  <2> HIDE DEF b
  <2>5. UnlockEffect(d, b)
    BY <2>3, <2>4, UnlockHasEffect
  <2>6. TypeOK'
    BY <1>1, <2>4, <2>5 DEF TypeOK, UnlockEffect
  <2>7. LockedIsOwner'
    BY <1>1, <2>3, <2>5 DEF LockedIsOwner, UnlockEffect
  <2>8. EnterProgress'
    <3>1. ASSUME NEW e \in Db, e # d, NEW c \in Bt PROVE locked'[e][c] <=> locked[e][c]
      BY <2>5, <3>1 DEF UnlockEffect
    <3>2. \A c \in Bt : c < enter[d] => (locked'[d][c] <=> locked[d][c])
      BY <1>1, <2>3, <2>5 DEF UnlockEffect, TypeOK, Bt
    <3>3. ~locked'[d][enter[d]]
      BY <1>1, <2>3, <2>5 DEF UnlockEffect, EnterProgress, TypeOK
    <3> QED
      BY <1>1, <2>4, <3>1, <3>2, <3>3 DEF TypeOK, EnterProgress, HoldsBelow, ToRelock, Later
  <2> QED
    BY <2>6, <2>7, <2>8
<1>3. CASE held = {}
  <2>1. pc' = [pc EXCEPT ![d] = "wait"] /\ UNCHANGED <<owner, btDb, locked>>
    BY <1>3 DEF ReleaseLater
  <2>2. TypeOK' /\ LockedIsOwner'
    BY <1>1, <2>1 DEF TypeOK, LockedIsOwner
  <2>3. EnterProgress'
    BY <1>1, <1>3, <2>1 DEF TypeOK, EnterProgress, HoldsBelow, ToRelock, Later
  <2> QED
    BY <2>2, <2>3
<1> QED
  BY <1>2, <1>3

(* Waiting for the mutex preserves the invariant.                          *)
LEMMA WaitStep ==
  ASSUME NBt \in Nat, IInv, NEW d \in Db, Wait(d)
  PROVE  IInv'
<1> USE DEF IInv
<1> DEFINE b == enter[d]
<1>1. /\ pc[d] = "wait" /\ UNCHANGED <<wantToLock, enter>> /\ b \in Bt
      /\ lockBtreeMutex(d, b) /\ pc' = [pc EXCEPT ![d] = "relock"]
  BY DEF Wait, TypeOK
<1>2. LockEffect(d, b)
  BY <1>1, LockHasEffect
<1>3. TypeOK'
  BY <1>1, <1>2 DEF TypeOK, LockEffect
<1>4. wantToLock[d][b] > 0
  BY <1>1 DEF EnterProgress
<1>5. LockedIsOwner'
  BY <1>1, <1>2, <1>4, LockedStep
<1>6. EnterProgress'
  <2>1. ASSUME NEW e \in Db, e # d, NEW c \in Bt PROVE locked'[e][c] <=> locked[e][c]
    BY <1>2, <2>1 DEF LockEffect
  <2>2. \A c \in Bt : c < b => (locked'[d][c] <=> locked[d][c])
    BY <1>1, <1>2 DEF LockEffect, Bt
  <2>3. locked'[d][b] /\ \A c \in Bt : c > b => ~locked'[d][c]
    BY <1>1, <1>2 DEF LockEffect, EnterProgress, Bt
  <2>4. ASSUME NEW a \in Bt, NEW c \in ToRelock(d)', locked'[d][a]
        PROVE  a < c
    <3>1. a \in Int /\ b \in Int /\ c \in Int /\ c > b
      BY <1>1 DEF ToRelock, Later, Bt
    <3>2. ~ (a > b)
      BY <2>3, <2>4
    <3> QED
      BY <3>1, <3>2
  <2> QED
    BY <1>1, <1>4, <2>1, <2>2, <2>3, <2>4 DEF TypeOK, EnterProgress, HoldsBelow, ToRelock, Later
<1> QED
  BY <1>3, <1>5, <1>6

(* Taking the mutexes back preserves the invariant.                        *)
LEMMA RelockStep ==
  ASSUME NBt \in Nat, IInv, NEW d \in Db, RelockLater(d)
  PROVE  IInv'
<1> USE DEF IInv
<1>1. pc[d] = "relock" /\ UNCHANGED <<wantToLock, enter>> /\ enter[d] \in Bt
  BY DEF RelockLater, TypeOK
<1>2. CASE ToRelock(d) # {}
  <2> DEFINE b == First(ToRelock(d))
  <2>1. b \in ToRelock(d) /\ \A c \in ToRelock(d) : b <= c
    BY <1>2, FirstIsLeast DEF ToRelock, Later
  <2>2. b \in Bt /\ b > enter[d] /\ wantToLock[d][b] > 0
    BY <2>1 DEF ToRelock, Later
  <2>3. lockBtreeMutex(d, b) /\ UNCHANGED pc
    BY <1>2 DEF RelockLater
  <2> HIDE DEF b
  <2>4. LockEffect(d, b)
    BY <2>2, <2>3, LockHasEffect
  <2>5. TypeOK'
    BY <1>1, <2>3, <2>4 DEF TypeOK, LockEffect
  <2>6. LockedIsOwner'
    BY <1>1, <2>2, <2>4, LockedStep
  <2>7. EnterProgress'
    <3>1. ASSUME NEW e \in Db, e # d, NEW c \in Bt PROVE locked'[e][c] <=> locked[e][c]
      BY <2>4, <3>1 DEF LockEffect
    <3>2. \A c \in Bt : locked[d][c] => locked'[d][c]
      BY <2>4 DEF LockEffect
    <3>3. ASSUME NEW a \in Bt, NEW c \in ToRelock(d)', locked'[d][a]
          PROVE  a < c
      <4>1. c \in Bt /\ c # b /\ c \in ToRelock(d)
        BY <1>1, <2>4, <3>2 DEF ToRelock, Later, LockEffect
      <4>2. CASE a = b
        BY <2>1, <2>2, <4>1, <4>2 DEF Bt
      <4>3. CASE a # b
        BY <1>1, <2>4, <3>3, <4>1, <4>3 DEF LockEffect, EnterProgress
      <4> QED
        BY <4>2, <4>3
    <3> QED
      BY <1>1, <2>3, <3>1, <3>2, <3>3 DEF TypeOK, EnterProgress, HoldsBelow, ToRelock, Later
  <2> QED
    BY <2>5, <2>6, <2>7
<1>3. CASE ToRelock(d) = {}
  <2>1. pc' = [pc EXCEPT ![d] = "out"] /\ UNCHANGED <<owner, btDb, locked>>
    BY <1>3 DEF RelockLater
  <2>2. TypeOK' /\ LockedIsOwner'
    BY <1>1, <2>1 DEF TypeOK, LockedIsOwner
  <2>3. \A c \in Bt : wantToLock[d][c] > 0 => locked[d][c]
    <3> SUFFICES ASSUME NEW c \in Bt, wantToLock[d][c] > 0 PROVE locked[d][c]
      OBVIOUS
    <3>1. CASE c < enter[d]
      BY <1>1, <3>1 DEF EnterProgress, HoldsBelow
    <3>2. CASE c = enter[d]
      BY <1>1, <3>2 DEF EnterProgress
    <3>3. CASE c > enter[d]
      BY <1>3, <3>3 DEF ToRelock, Later
    <3> QED
      BY <1>1, <3>1, <3>2, <3>3 DEF Bt
  <2>4. EnterProgress'
    BY <1>1, <2>1, <2>3 DEF TypeOK, EnterProgress, HoldsBelow, ToRelock, Later
  <2> QED
    BY <2>2, <2>4
<1> QED
  BY <1>2, <1>3

-----------------------------------------------------------------------------
(* The invariant holds in every reachable state, for any set of            *)
(* connections and any number of BtShared objects.                         *)
THEOREM Invariance ==
  ASSUME NBt \in Nat
  PROVE  Spec => []IInv
<1>1. Init => IInv
  BY InitIInv
<1>2. IInv /\ [Next]_vars => IInv'
  <2> SUFFICES ASSUME IInv, [Next]_vars PROVE IInv'
    OBVIOUS
  <2>1. ASSUME NEW d \in Db, NEW b \in Bt, sqlite3BtreeEnter(d, b) PROVE IInv'
    BY <2>1, EnterStep
  <2>2. ASSUME NEW d \in Db, NEW b \in Bt, sqlite3BtreeLeave(d, b) PROVE IInv'
    BY <2>2, LeaveStep
  <2>3. ASSUME NEW d \in Db, ReleaseLater(d) PROVE IInv'
    BY <2>3, ReleaseStep
  <2>4. ASSUME NEW d \in Db, Wait(d) PROVE IInv'
    BY <2>4, WaitStep
  <2>5. ASSUME NEW d \in Db, RelockLater(d) PROVE IInv'
    BY <2>5, RelockStep
  <2>6. CASE UNCHANGED vars
    BY <2>6 DEF vars, IInv, TypeOK, LockedIsOwner, EnterProgress, HoldsBelow, ToRelock, Later
  <2> QED
    BY <2>1, <2>2, <2>3, <2>4, <2>5, <2>6 DEF Next
<1> QED
  BY <1>1, <1>2, PTL DEF Spec

(* Outside of sqlite3BtreeEnter() every connection holds exactly the       *)
(* mutexes it entered, whatever was released and taken back in between.    *)
THEOREM HoldsWhatItEnteredHolds ==
  ASSUME NBt \in Nat
  PROVE  Spec => []HoldsWhatItEntered
<1>1. IInv => HoldsWhatItEntered
  BY DEF IInv, LockedIsOwner, EnterProgress, HoldsWhatItEntered
<1> QED
  BY <1>1, Invariance, PTL

(* A blocked thread waits for one mutex, above all those it holds.         *)
LEMMA BlockedAboveHeld ==
  ASSUME NBt \in Nat, IInv, NEW d \in Db, NEW b \in Blocked(d)
  PROVE  /\ b \in Bt
         /\ \A c \in Bt : locked[d][c] => c < b
<1>1. CASE pc[d] = "wait"
  <2>1. b = enter[d] /\ b \in Bt
    BY <1>1 DEF Blocked, IInv, TypeOK
  <2>2. ASSUME NEW c \in Bt, locked[d][c] PROVE c < b
    <3>1. c # b /\ ~ (c > b)
      BY <1>1, <2>1, <2>2 DEF IInv, EnterProgress
    <3> QED
      BY <2>1, <3>1 DEF Bt
  <2> QED
    BY <2>1, <2>2
<1>2. CASE pc[d] = "relock" /\ ToRelock(d) # {}
  <2>1. b \in ToRelock(d)
    BY <1>2, FirstIsLeast DEF Blocked, ToRelock, Later
  <2> QED
    BY <1>2, <2>1 DEF IInv, EnterProgress, ToRelock, Later
<1>3. CASE pc[d] # "wait" /\ ~ (pc[d] = "relock" /\ ToRelock(d) # {})
  BY <1>3 DEF Blocked
<1> QED
  BY <1>1, <1>2, <1>3

(* Threads that enter and leave b-trees in any order never wait for each   *)
(* other in a circle.  Of the threads of a supposed circle take the one    *)
(* that waits at the highest address: the thread that holds that mutex     *)
(* would have to wait above it.                                            *)
THEOREM NoMutexCycleHolds ==
  ASSUME NBt \in Nat
  PROVE  Spec => []NoMutexCycle
<1>1. IInv => NoMutexCycle
  <2> SUFFICES ASSUME IInv, NEW s \in SUBSET Db, s # {},
                      \A d \in s : WaitsFor(d) \cap s # {}
               PROVE  FALSE
    BY DEF NoMutexCycle
  <2> DEFINE w == UNION {Blocked(d) : d \in s}
  <2>1. ASSUME NEW d \in s
        PROVE  \E b \in Blocked(d), e \in s : e \in owner[b]
    <3>1. PICK e \in s : e \in WaitsFor(d)
      BY <2>1
    <3> QED
      BY <3>1 DEF WaitsFor
  <2>2. w \in SUBSET Bt
    BY BlockedAboveHeld
  <2>3. w # {}
    BY <2>1
  <2>4. PICK b \in w : \A c \in w : c <= b
    <3> HIDE DEF w
    <3> QED
      BY <2>2, <2>3, GreatestBt
  <2>5. PICK d \in s : b \in Blocked(d)
    BY <2>4
  <2>6. PICK e \in s : e \in owner[b]
    <3>1. PICK c \in Blocked(d), e \in s : e \in owner[c]
      BY <2>1
    <3>2. c = b
      BY <2>5, <3>1 DEF Blocked
    <3> QED
      BY <3>1, <3>2
  <2>7. locked[e][b] /\ b \in Bt
    BY <2>2, <2>4, <2>6 DEF IInv, LockedIsOwner
  <2>8. PICK c \in Blocked(e) : TRUE
    BY <2>1
  <2>9. b < c /\ c \in Bt
    BY <2>7, <2>8, BlockedAboveHeld
  <2>10. c <= b
    BY <2>4, <2>8
  <2> QED
    BY <2>7, <2>9, <2>10 DEF Bt
<1> QED
  BY <1>1, Invariance, PTL
=============================================================================
