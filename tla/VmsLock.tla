------------------------------- MODULE VmsLock -------------------------------
(***************************************************************************)
(* The locking methods of the OpenVMS port, os_vms.c.  Every open file     *)
(* owns one lock on a resource named after the file, created in NL mode by *)
(* vmsOpen() and converted up and down by vmsLock() and vmsUnLock().       *)
(*                                                                         *)
(* vmsLock() calls sys$enqw without LCK$M_NOQUEUE, so a conversion that is *)
(* not compatible with the modes of the other locks waits in the           *)
(* conversion queue of the distributed lock manager (DLM), and the calling *)
(* process with it.  The DLM is external to the repository: it is modelled *)
(* by its mode table, its conversion queue (first in, first out, a         *)
(* conversion that can be granted at once does not wait) and its deadlock  *)
(* search, which ends one of the waiting calls with SS$_DEADLOCK.          *)
(***************************************************************************)
EXTENDS Naturals, Sequences

CONSTANT Conn          \* the connections (vmsFile objects) on one file

VARIABLES
  held,                \* held[c]: the granted mode of c's lock, or Closed
  queue                \* conversion queue: waiting [who, mode] requests

vars == <<held, queue>>

NO_LOCK        == 0
SHARED_LOCK    == 1
RESERVED_LOCK  == 2
EXCLUSIVE_LOCK == 4

Closed == "closed"
Mode   == {"NL", "PR", "PW", "EX"}

(* The conversion from SQLite lock levels to DLM modes.  There is no entry *)
(* for PENDING, which is never passed to xLock().                          *)
lock_modes == [l \in {NO_LOCK, SHARED_LOCK, RESERVED_LOCK, EXCLUSIVE_LOCK} |->
                 CASE l = NO_LOCK       -> "NL"
                   [] l = SHARED_LOCK   -> "PR"
                   [] l = RESERVED_LOCK -> "PW"
                   [] OTHER             -> "EX"]

(* The level a granted mode stands for.                                    *)
LevelOf(m) ==
  CASE m = "PR" -> SHARED_LOCK
    [] m = "PW" -> RESERVED_LOCK
    [] m = "EX" -> EXCLUSIVE_LOCK
    [] OTHER    -> NO_LOCK

(* Mutant: protected write admits protected read.                          *)
CompatiblePW(m, n) ==
  \/ m \in {"NL", Closed} \/ n \in {"NL", Closed}
  \/ {m, n} \in {{"PR"}, {"PR", "PW"}}

(* The DLM's mode table, restricted to the modes of lock_modes.            *)
Compatible(m, n) ==
  \/ m \in {"NL", Closed} \/ n \in {"NL", Closed}
  \/ m = "PR" /\ n = "PR"

Others(c) == Conn \ {c}

(* Mutant: readers do not stop an upgrade.                                 *)
CanGrantOverReaders(c, m) == \A d \in Others(c) : held[d] \notin {"PW", "EX"}

(* c's lock can have mode m.                                               *)
CanGrant(c, m) == \A d \in Others(c) : Compatible(m, held[d])

Request == [who : Conn, mode : Mode]

Waiting(c) == \E i \in 1..Len(queue) : queue[i].who = c

(* Mutant: the head waits until it would be alone.                         *)
HeadAlone ==
  queue # <<>> /\ \A d \in Others(Head(queue).who) : held[d] \in {"NL", Closed}

(* The DLM grants from the head of the conversion queue as soon as a lock  *)
(* is lowered, before it looks at any other request.                       *)
HeadGrantable == queue # <<>> /\ CanGrant(Head(queue).who, Head(queue).mode)

(* A call made by c's process: it is not waiting in sys$enqw.              *)
Calls(c) == ~Waiting(c) /\ ~HeadGrantable

-----------------------------------------------------------------------------

TypeOK ==
  /\ held \in [Conn -> Mode \cup {Closed}]
  /\ queue \in Seq(Request)

Init ==
  /\ held = [c \in Conn |-> Closed]
  /\ queue = <<>>

vmsOpen(c) ==
  /\ Calls(c) /\ held[c] = Closed
  /\ held' = [held EXCEPT ![c] = "NL"]
  /\ UNCHANGED queue

(* sys$enqw with LCK$M_CONVERT: granted now, or queued.                    *)
Convert(c, m) ==
  IF CanGrant(c, m)
    THEN held' = [held EXCEPT ![c] = m] /\ UNCHANGED queue
    ELSE queue' = Append(queue, [who |-> c, mode |-> m]) /\ UNCHANGED held

(* The levels the pager asks for from the level it holds: see              *)
(* pagerLockDb().  SHARED to EXCLUSIVE is the hot-journal rollback.        *)
Upgrade == [l \in {NO_LOCK, SHARED_LOCK, RESERVED_LOCK} |->
              CASE l = NO_LOCK     -> {SHARED_LOCK}
                [] l = SHARED_LOCK -> {RESERVED_LOCK, EXCLUSIVE_LOCK}
                [] OTHER           -> {EXCLUSIVE_LOCK}]

vmsLock(c, locktype) ==
  /\ Calls(c) /\ held[c] \in {"NL", "PR", "PW"}
  /\ locktype \in Upgrade[LevelOf(held[c])]
  /\ Convert(c, lock_modes[locktype])

vmsUnLock(c, locktype) ==
  /\ Calls(c) /\ held[c] # Closed
  /\ locktype \in {NO_LOCK, SHARED_LOCK}
  /\ locktype < LevelOf(held[c])
  /\ Convert(c, lock_modes[locktype])

(* sys$deq with LCK$M_CANCEL, then the channel is deassigned.  The pager   *)
(* has unlocked the file before, so no conversion is there to be cancelled *)
(* and the lock is left in NL mode, which no other lock ever feels.        *)
vmsClose(c) ==
  /\ Calls(c) /\ held[c] = lock_modes[NO_LOCK]
  /\ held' = [held EXCEPT ![c] = Closed]
  /\ UNCHANGED queue

(* What vmsCheckReservedLock() stores in *pResOut: sys$getlkiw asks for    *)
(* the state of this file's own lock.                                      *)
vmsCheckReservedLock(c) == held[c] = lock_modes[RESERVED_LOCK]

-----------------------------------------------------------------------------
(* The lock manager.                                                       *)

Grant ==
  /\ HeadGrantable
  /\ held' = [held EXCEPT ![Head(queue).who] = Head(queue).mode]
  /\ queue' = Tail(queue)

(* c's request waits for d: d holds an incompatible mode, or d's request   *)
(* is ahead of c's in the queue.                                           *)
WaitsFor(c, d) ==
  \E i \in 1..Len(queue) :
     /\ queue[i].who = c
     /\ c # d
     /\ \/ ~Compatible(queue[i].mode, held[d])
        \/ \E j \in 1..(i - 1) : queue[j].who = d

(* Two waiting requests that wait for each other: with one resource every  *)
(* cycle contains such a pair.                                             *)
Deadlocked(c) ==
  Waiting(c) /\ \E d \in Conn : WaitsFor(c, d) /\ WaitsFor(d, c)

Without(q, i) == [j \in 1..(Len(q) - 1) |-> IF j < i THEN q[j] ELSE q[j + 1]]

(* c's request, if it has one, leaves the queue.                           *)
Withdraw(c) ==
  IF Waiting(c)
    THEN \E i \in 1..Len(queue) : queue[i].who = c /\ queue' = Without(queue, i)
    ELSE UNCHANGED queue

(* The deadlock search ends c's sys$enqw with a failure status and vmsLock *)
(* returns SQLITE_BUSY; the lock keeps the mode it had.                    *)
DeadlockVictim(c) ==
  /\ Deadlocked(c) /\ ~HeadGrantable
  /\ Withdraw(c)
  /\ UNCHANGED held

(* The process of c dies, waiting or not: image rundown dequeues its lock. *)
Crash(c) ==
  /\ held[c] # Closed /\ ~HeadGrantable
  /\ held' = [held EXCEPT ![c] = Closed]
  /\ Withdraw(c)

Next ==
  \/ \E c \in Conn :
        \/ vmsOpen(c) \/ vmsClose(c) \/ Crash(c) \/ DeadlockVictim(c)
        \/ \E l \in {SHARED_LOCK, RESERVED_LOCK, EXCLUSIVE_LOCK} : vmsLock(c, l)
        \/ \E l \in {NO_LOCK, SHARED_LOCK} : vmsUnLock(c, l)
  \/ Grant

(* The DLM answers: it grants what it can and its deadlock search ends.    *)
(* Nothing is assumed of the connections, which may keep a lock for ever.  *)
Fairness ==
  /\ WF_vars(Grant)
  /\ \A c \in Conn : WF_vars(DeadlockVictim(c))

Spec == Init /\ [][Next]_vars /\ Fairness

-----------------------------------------------------------------------------
(* Properties.                                                             *)

(* The locks of os.h: what the pager gets from these methods is what       *)
(* sqlite3OsLock() promises, whatever the queueing, the deadlock victims   *)
(* and the crashes.                                                        *)
FL == INSTANCE FileLock WITH lock <- [c \in Conn |-> LevelOf(held[c])]

ImplementsFileLock == FL!Spec

(* Every two granted locks are compatible: at most one connection is a     *)
(* writer, and while it is (from RESERVED on) nobody reads.                *)
WritersExcludeAll ==
  \A c, d \in Conn :
     c # d /\ LevelOf(held[c]) >= RESERVED_LOCK => LevelOf(held[d]) = NO_LOCK

(* A waiting reader is let in as soon as the writers let go: if, again and *)
(* again, no other connection is a writer, then a connection waiting for   *)
(* its SHARED lock in vmsLock() gets it, whatever waits ahead of it in the *)
(* queue and however often the writers come back.                          *)
SharedGranted ==
  \A c \in Conn :
     []<>(\A d \in Others(c) : LevelOf(held[d]) < RESERVED_LOCK)
       => ((Waiting(c) /\ held[c] = "NL") ~> ~Waiting(c))

(* What os.h says of RESERVED: other processes may obtain new SHARED       *)
(* locks.  No connection waits for a SHARED lock because of a RESERVED one.*)
ReservedAdmitsReaders ==
  \A c, d \in Conn :
     held[c] = lock_modes[RESERVED_LOCK] => ~(Waiting(d) /\ held[d] = "NL")

(* What the comment of vmsCheckReservedLock() says: a RESERVED lock held   *)
(* by this or any other process is reported.                               *)
CheckReservedSeesAll ==
  \A c, d \in Conn :
     held[c] # Closed /\ held[d] = lock_modes[RESERVED_LOCK]
       => vmsCheckReservedLock(c)
=============================================================================
