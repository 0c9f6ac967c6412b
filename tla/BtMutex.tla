------------------------------- MODULE BtMutex -------------------------------
(***************************************************************************)
(* btmutex.c: the mutexes of the b-trees that connections share.  A        *)
(* connection is used by one thread at a time (the thread that holds       *)
(* db->mutex), so a connection stands for its thread.  Every connection    *)
(* has a handle on every BtShared; the numbers of the BtShared objects are *)
(* their addresses, the order of Btree.pNext.  Threads enter and leave     *)
(* them in any order: sqlite3BtreeEnterAll() works in the order of         *)
(* db->aDb[], which need not be that of the addresses.                     *)
(***************************************************************************)
EXTENDS Naturals, FiniteSets

CONSTANTS Db,         \* the connections
          NBt,        \* number of BtShared objects
          MaxWant     \* bound: entries of one connection, nested ones included

VARIABLES owner,      \* owner[b]: the connections that hold b's mutex
          btDb,       \* btDb[b]: BtShared.db, the connection that uses b
          wantToLock, \* wantToLock[d][b]
          locked,     \* locked[d][b]
          pc,         \* where d is in sqlite3BtreeEnter()
          enter       \* enter[d]: the BtShared it is called for

vars == <<owner, btDb, wantToLock, locked, pc, enter>>

Bt == 1 .. NBt

Init ==
  /\ owner = [b \in Bt |-> {}]
  /\ btDb = [b \in Bt |-> {}]
  /\ wantToLock = [d \in Db |-> [b \in Bt |-> 0]]
  /\ locked = [d \in Db |-> [b \in Bt |-> FALSE]]
  /\ pc = [d \in Db |-> "out"]
  /\ enter = [d \in Db |-> 1]

Entries(d) == Cardinality({x \in Bt \X (1 .. MaxWant) : x[2] <= wantToLock[d][x[1]]})

-----------------------------------------------------------------------------
\* sqlite3_mutex_enter() and sqlite3_mutex_leave() on a BtShared mutex.

Free(b) == owner[b] = {}

lockBtreeMutex(d, b) ==
  /\ Free(b)
  /\ owner' = [owner EXCEPT ![b] = {d}]
  /\ btDb' = [btDb EXCEPT ![b] = {d}]
  /\ locked' = [locked EXCEPT ![d][b] = TRUE]

unlockBtreeMutex(d, b) ==
  /\ owner' = [owner EXCEPT ![b] = {}]
  /\ locked' = [locked EXCEPT ![d][b] = FALSE]
  /\ UNCHANGED btDb

-----------------------------------------------------------------------------
\* Mutant: wait for the mutex with all the others in hand.
EnterAndWait(d, b) ==
  /\ pc[d] = "out"
  /\ Entries(d) < MaxWant
  /\ wantToLock' = [wantToLock EXCEPT ![d][b] = @ + 1]
  /\ IF locked[d][b]
     THEN UNCHANGED <<owner, btDb, locked, pc, enter>>
     ELSE /\ pc' = [pc EXCEPT ![d] = "wait"]
          /\ enter' = [enter EXCEPT ![d] = b]
          /\ UNCHANGED <<owner, btDb, locked>>

(***************************************************************************)
(* sqlite3BtreeEnter(): count, return if the mutex is held already, try    *)
(* it without waiting.  When the try fails, release the mutexes at higher  *)
(* addresses, wait, and take those back in ascending order.                *)
(***************************************************************************)
sqlite3BtreeEnter(d, b) ==
  /\ pc[d] = "out"
  /\ Entries(d) < MaxWant
  /\ wantToLock' = [wantToLock EXCEPT ![d][b] = @ + 1]
  /\ IF locked[d][b]
     THEN UNCHANGED <<owner, btDb, locked, pc, enter>>
     ELSE IF Free(b)
     THEN /\ lockBtreeMutex(d, b)
          /\ UNCHANGED <<pc, enter>>
     ELSE /\ pc' = [pc EXCEPT ![d] = "release"]
          /\ enter' = [enter EXCEPT ![d] = b]
          /\ UNCHANGED <<owner, btDb, locked>>

Later(d) == {b \in Bt : b > enter[d]}

First(s) == CHOOSE b \in s : \A c \in s : b <= c

ReleaseLater(d) ==
  LET held == {b \in Later(d) : locked[d][b]} IN
  /\ pc[d] = "release"
  /\ IF held # {}
     THEN unlockBtreeMutex(d, First(held)) /\ UNCHANGED pc
     ELSE pc' = [pc EXCEPT ![d] = "wait"] /\ UNCHANGED <<owner, btDb, locked>>
  /\ UNCHANGED <<wantToLock, enter>>

Wait(d) ==
  /\ pc[d] = "wait"
  /\ lockBtreeMutex(d, enter[d])
  /\ pc' = [pc EXCEPT ![d] = "relock"]
  /\ UNCHANGED <<wantToLock, enter>>

\* Mutant: only those entered more than once are taken back.
ToRelockNested(d) == {b \in Later(d) : wantToLock[d][b] > 1 /\ ~locked[d][b]}

ToRelock(d) == {b \in Later(d) : wantToLock[d][b] > 0 /\ ~locked[d][b]}

RelockLater(d) ==
  /\ pc[d] = "relock"
  /\ IF ToRelock(d) # {}
     THEN lockBtreeMutex(d, First(ToRelock(d))) /\ UNCHANGED pc
     ELSE pc' = [pc EXCEPT ![d] = "out"] /\ UNCHANGED <<owner, btDb, locked>>
  /\ UNCHANGED <<wantToLock, enter>>

sqlite3BtreeLeave(d, b) ==
  /\ pc[d] = "out"
  /\ wantToLock[d][b] > 0
  /\ wantToLock' = [wantToLock EXCEPT ![d][b] = @ - 1]
  /\ IF wantToLock[d][b] = 1
     THEN unlockBtreeMutex(d, b)
     ELSE UNCHANGED <<owner, btDb, locked>>
  /\ UNCHANGED <<pc, enter>>

Next ==
  \E d \in Db : \/ \E b \in Bt : sqlite3BtreeEnter(d, b) \/ sqlite3BtreeLeave(d, b)
                \/ ReleaseLater(d) \/ Wait(d) \/ RelockLater(d)

Spec == Init /\ [][Next]_vars

-----------------------------------------------------------------------------

\* The mutex thread d is blocked on.
Blocked(d) ==
  CASE pc[d] = "wait" -> {enter[d]}
    [] pc[d] = "relock" /\ ToRelock(d) # {} -> {First(ToRelock(d))}
    [] OTHER -> {}

WaitsFor(d) == UNION {owner[b] : b \in Blocked(d)}

(***************************************************************************)
(* Threads that enter and leave b-trees in any order never wait for each   *)
(* other in a circle: among any threads one waits for none of them.        *)
(* sqlite3BtreeEnter() (btmutex.c) gives up what it holds at higher        *)
(* addresses before it waits.                                              *)
(***************************************************************************)
NoMutexCycle ==
  \A s \in SUBSET Db : s # {} => \E d \in s : WaitsFor(d) \cap s = {}

(***************************************************************************)
(* Outside of sqlite3BtreeEnter() a connection holds exactly the mutexes   *)
(* it entered and BtShared.db names it, although Enter on another b-tree   *)
(* may have let them go in between.                                        *)
(***************************************************************************)
HoldsWhatItEntered ==
  \A d \in Db, b \in Bt :
     /\ locked[d][b] => owner[b] = {d} /\ btDb[b] = {d}
     /\ pc[d] = "out" => (locked[d][b] <=> wantToLock[d][b] > 0)
=============================================================================
