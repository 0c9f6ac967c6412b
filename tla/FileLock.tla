------------------------------ MODULE FileLock ------------------------------
(***************************************************************************)
(* What sqlite3OsLock() and sqlite3OsUnlock() promise their one caller,    *)
(* the pager: the lock levels of os.h as seen by every connection to one   *)
(* database file.  A virtual file system is correct when the levels its    *)
(* connections hold change only by the steps of this module.               *)
(***************************************************************************)
EXTENDS Naturals

CONSTANT Conn          \* the open connections to the database file

VARIABLE lock          \* lock[c]: the level connection c holds

NO_LOCK        == 0
SHARED_LOCK    == 1
RESERVED_LOCK  == 2
PENDING_LOCK   == 3
EXCLUSIVE_LOCK == 4

Level == NO_LOCK .. EXCLUSIVE_LOCK

Others(c) == Conn \ {c}

-----------------------------------------------------------------------------

Init == lock = [c \in Conn |-> NO_LOCK]

(***************************************************************************)
(* The rules of os.h for the connection that is given level l.  A SHARED   *)
(* lock is refused once a PENDING or an EXCLUSIVE lock is out; a RESERVED  *)
(* lock is given to one connection at a time; an EXCLUSIVE lock precludes  *)
(* every other lock.                                                       *)
(***************************************************************************)
MayHold(c, l) ==
  CASE l = SHARED_LOCK    -> \A d \in Others(c) : lock[d] < PENDING_LOCK
    [] l = RESERVED_LOCK  -> \A d \in Others(c) : lock[d] < RESERVED_LOCK
    [] l = PENDING_LOCK   -> \A d \in Others(c) : lock[d] < PENDING_LOCK
    [] l = EXCLUSIVE_LOCK -> \A d \in Others(c) : lock[d] = NO_LOCK
    [] OTHER              -> FALSE

Acquire(c, l) ==
  /\ lock[c] < l
  /\ MayHold(c, l)
  /\ lock' = [lock EXCEPT ![c] = l]

(***************************************************************************)
(* xUnlock() lowers a lock to SHARED or NONE; closing the file and the     *)
(* death of the process lower it to NONE.                                  *)
(***************************************************************************)
Release(c, l) ==
  /\ l \in {NO_LOCK, SHARED_LOCK}
  /\ l < lock[c]
  /\ lock' = [lock EXCEPT ![c] = l]

Next == \E c \in Conn, l \in Level : Acquire(c, l) \/ Release(c, l)

Spec == Init /\ [][Next]_lock
=============================================================================
