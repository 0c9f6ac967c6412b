------------------------------ MODULE UnixLock ------------------------------
(***************************************************************************)
(* os_unix.c: database locks made of POSIX advisory locks.  The kernel     *)
(* gives a lock to a process, not to a handle, never refuses a process     *)
(* what it holds itself, and drops every lock of a process on a file when  *)
(* any descriptor of that file is closed.  The handles a process has on    *)
(* one database therefore share a unixInodeInfo, and a close waits for the *)
(* last of their locks.                                                    *)
(*                                                                         *)
(* One step is one fcntl(): processes interleave there, the threads of a   *)
(* process do not, for the mutex of unixEnterMutex() is held throughout.   *)
(* A handle is used by one thread at a time.  fcntl() fails only when      *)
(* another process holds a conflicting lock.                               *)
(***************************************************************************)
EXTENDS Integers, FiniteSets

CONSTANTS Proc,        \* the processes
          Slot,        \* the handles a process may have on the database
          MaxUnused    \* bound: descriptors whose close is deferred

VARIABLES posix,       \* posix[p][b]: what the kernel gave p on byte range b
          inode,       \* inode[p]: the unixInodeInfo of the database in p
          file,        \* file[f]: the unixFile of handle f
          call         \* call[p]: the call that holds p's mutex

vars == <<posix, inode, file, call>>

Handle == Proc \X Slot
ProcOf(f) == f[1]

ByteRange == {"PENDING_BYTE", "RESERVED_BYTE", "SHARED_FIRST"}

NO_LOCK == 0
SHARED_LOCK == 1
RESERVED_LOCK == 2
PENDING_LOCK == 3
EXCLUSIVE_LOCK == 4

Unlocked == [b \in ByteRange |-> "none"]
NoInode == [eFileLock |-> NO_LOCK, nShared |-> 0, nLock |-> 0, nRef |-> 0, pUnused |-> 0]
Closed == [state |-> "closed", eFileLock |-> NO_LOCK]
Idle == [at |-> "idle", f |-> <<>>, to |-> NO_LOCK]

Init ==
  /\ posix = [p \in Proc |-> Unlocked]
  /\ inode = [p \in Proc |-> NoInode]
  /\ file = [f \in Handle |-> Closed]
  /\ call = [p \in Proc |-> Idle]

-----------------------------------------------------------------------------
\* fcntl(F_SETLK): granted unless another process is in the way.

MaySet(p, b, type) ==
  \A q \in Proc \ {p} : posix[q][b] = "none" \/ (type = "read" /\ posix[q][b] = "read")

Set(p, b, type) == posix' = [posix EXCEPT ![p][b] = type]

\* A handle of p starts a call: the mutex is free.
Entered(f) == file[f].state = "open" /\ call[ProcOf(f)] = Idle

At(f, step) == call[ProcOf(f)].f = f /\ call[ProcOf(f)].at = step

Goto(f, step, to) == call' = [call EXCEPT ![ProcOf(f)] = [at |-> step, f |-> f, to |-> to]]

Leave(f) == call' = [call EXCEPT ![ProcOf(f)] = Idle]

SetLevels(f, level) ==
  /\ file' = [file EXCEPT ![f].eFileLock = level]
  /\ inode' = [inode EXCEPT ![ProcOf(f)].eFileLock = level]

-----------------------------------------------------------------------------
(***************************************************************************)
(* unixOpen().  findReusableFd() takes a descriptor whose close was        *)
(* deferred when one was opened with the same flags; findInodeInfo() comes *)
(* later, under the mutex again.                                           *)
(***************************************************************************)
findReusableFd(f) ==
  LET p == ProcOf(f) IN
  /\ file[f].state = "closed" /\ call[p] = Idle
  /\ \E taken \in 0 .. (IF inode[p].pUnused > 0 THEN 1 ELSE 0) :
        inode' = [inode EXCEPT ![p].pUnused = @ - taken]
  /\ file' = [file EXCEPT ![f].state = "opening"]
  /\ UNCHANGED <<posix, call>>

fillInUnixFile(f) ==
  /\ file[f].state = "opening" /\ call[ProcOf(f)] = Idle
  /\ file' = [file EXCEPT ![f].state = "open"]
  /\ inode' = [inode EXCEPT ![ProcOf(f)].nRef = @ + 1]
  /\ UNCHANGED <<posix, call>>

-----------------------------------------------------------------------------
\* unixLock().  A request that returns SQLITE_BUSY at once changes nothing.

\* A SHARED lock beside another handle of the process that has one.
LockSharedAgain(f) ==
  LET p == ProcOf(f) IN
  /\ Entered(f) /\ file[f].eFileLock = NO_LOCK
  /\ inode[p].eFileLock \in {SHARED_LOCK, RESERVED_LOCK}
  /\ file' = [file EXCEPT ![f].eFileLock = SHARED_LOCK]
  /\ inode' = [inode EXCEPT ![p].nShared = @ + 1, ![p].nLock = @ + 1]
  /\ UNCHANGED <<posix, call>>

LockShared(f) ==
  LET p == ProcOf(f) IN
  /\ Entered(f) /\ file[f].eFileLock = NO_LOCK
  /\ inode[p].eFileLock = NO_LOCK
  /\ MaySet(p, "PENDING_BYTE", "read")
  /\ Set(p, "PENDING_BYTE", "read")
  /\ Goto(f, "shared", SHARED_LOCK)
  /\ UNCHANGED <<inode, file>>

SharedRange(f) ==
  LET p == ProcOf(f) IN
  /\ At(f, "shared")
  /\ IF MaySet(p, "SHARED_FIRST", "read")
     THEN Set(p, "SHARED_FIRST", "read") /\ Goto(f, "unpend", SHARED_LOCK)
     ELSE Goto(f, "unpend", NO_LOCK) /\ UNCHANGED posix
  /\ UNCHANGED <<inode, file>>

\* Drop the temporary PENDING lock and record the outcome.
DropPending(f) ==
  LET p == ProcOf(f) IN
  /\ At(f, "unpend")
  /\ Set(p, "PENDING_BYTE", "none")
  /\ IF call[p].to = SHARED_LOCK
     THEN /\ file' = [file EXCEPT ![f].eFileLock = SHARED_LOCK]
          /\ inode' = [inode EXCEPT ![p].eFileLock = SHARED_LOCK, ![p].nShared = 1,
                                    ![p].nLock = @ + 1]
     ELSE UNCHANGED <<file, inode>>
  /\ Leave(f)

\* Another handle of the process has a lock that precludes the request.
NotPrecluded(f) == file[f].eFileLock = inode[ProcOf(f)].eFileLock

LockReserved(f) ==
  LET p == ProcOf(f) IN
  /\ Entered(f) /\ file[f].eFileLock = SHARED_LOCK /\ NotPrecluded(f)
  /\ MaySet(p, "RESERVED_BYTE", "write")
  /\ Set(p, "RESERVED_BYTE", "write")
  /\ SetLevels(f, RESERVED_LOCK)
  /\ UNCHANGED call

LockExclusive(f) ==
  LET p == ProcOf(f) IN
  /\ Entered(f) /\ file[f].eFileLock \in SHARED_LOCK .. PENDING_LOCK /\ NotPrecluded(f)
  /\ \/ file[f].eFileLock = PENDING_LOCK /\ UNCHANGED posix
     \/ /\ file[f].eFileLock < PENDING_LOCK
        /\ MaySet(p, "PENDING_BYTE", "write")
        /\ Set(p, "PENDING_BYTE", "write")
  /\ Goto(f, "excl", EXCLUSIVE_LOCK)
  /\ UNCHANGED <<inode, file>>

\* Refused by this process or by another one, the request leaves a PENDING lock.
ExclusiveRange(f) ==
  LET p == ProcOf(f) IN
  /\ At(f, "excl")
  /\ IF inode[p].nShared = 1 /\ MaySet(p, "SHARED_FIRST", "write")
     THEN Set(p, "SHARED_FIRST", "write") /\ SetLevels(f, EXCLUSIVE_LOCK)
     ELSE SetLevels(f, PENDING_LOCK) /\ UNCHANGED posix
  /\ Leave(f)

-----------------------------------------------------------------------------
(***************************************************************************)
(* posixUnlock().  The handle's own level is written after the mutex is    *)
(* left; only the thread that makes the call reads it.                     *)
(***************************************************************************)
unixUnlock(f, to) ==
  /\ Entered(f) /\ to < file[f].eFileLock
  /\ to \in {NO_LOCK, SHARED_LOCK}
  /\ Goto(f, IF file[f].eFileLock = SHARED_LOCK THEN "drop"
             ELSE IF to = SHARED_LOCK THEN "reread" ELSE "unreserve", to)
  /\ UNCHANGED <<posix, inode, file>>

ReadSharedRange(f) ==
  LET p == ProcOf(f) IN
  /\ At(f, "reread")
  /\ MaySet(p, "SHARED_FIRST", "read")
  /\ Set(p, "SHARED_FIRST", "read")
  /\ Goto(f, "unreserve", SHARED_LOCK)
  /\ UNCHANGED <<inode, file>>

\* The PENDING and the RESERVED byte, in one request.
UnlockReserved(f) ==
  LET p == ProcOf(f) IN
  /\ At(f, "unreserve")
  /\ posix' = [posix EXCEPT ![p]["PENDING_BYTE"] = "none", ![p]["RESERVED_BYTE"] = "none"]
  /\ inode' = [inode EXCEPT ![p].eFileLock = SHARED_LOCK]
  /\ IF call[p].to = SHARED_LOCK
     THEN file' = [file EXCEPT ![f].eFileLock = SHARED_LOCK] /\ Leave(f)
     ELSE Goto(f, "drop", NO_LOCK) /\ UNCHANGED file

(***************************************************************************)
(* The last handle to give up its lock unlocks the whole file, and closes  *)
(* the descriptors that were kept open for the sake of the locks.          *)
(***************************************************************************)
UnlockShared(f) ==
  LET p == ProcOf(f)
      last == inode[p].nShared = 1
  IN
  /\ At(f, "drop")
  /\ posix' = IF last \/ inode[p].nLock = 1 THEN [posix EXCEPT ![p] = Unlocked] ELSE posix
  /\ inode' = [inode EXCEPT ![p].nShared = @ - 1, ![p].nLock = @ - 1,
                            ![p].eFileLock = IF last THEN NO_LOCK ELSE @,
                            ![p].pUnused = IF inode[p].nLock = 1 THEN 0 ELSE @]
  /\ file' = [file EXCEPT ![f].eFileLock = NO_LOCK]
  /\ Leave(f)

\* Mutant: the descriptor is closed although the process holds locks.
CloseAtOnce(f) ==
  LET p == ProcOf(f) IN
  /\ Entered(f) /\ file[f].eFileLock = NO_LOCK
  /\ posix' = [posix EXCEPT ![p] = Unlocked]
  /\ inode' = [inode EXCEPT ![p].nRef = @ - 1]
  /\ file' = [file EXCEPT ![f] = Closed]
  /\ UNCHANGED call

(***************************************************************************)
(* unixClose(), after its unixUnlock(): close() would drop the locks of    *)
(* the process, so setPendingFd() keeps the descriptor while there are     *)
(* any.  releaseInodeInfo() by the last handle closes those, too.          *)
(***************************************************************************)
unixClose(f) ==
  LET p == ProcOf(f)
      deferred == inode[p].nLock > 0
  IN
  /\ Entered(f) /\ file[f].eFileLock = NO_LOCK
  /\ deferred => inode[p].pUnused < MaxUnused
  /\ posix' = IF deferred /\ inode[p].nRef > 1 THEN posix ELSE [posix EXCEPT ![p] = Unlocked]
  /\ inode' = IF inode[p].nRef = 1
              THEN [inode EXCEPT ![p] = NoInode]
              ELSE [inode EXCEPT ![p].nRef = @ - 1, ![p].pUnused = @ + (IF deferred THEN 1 ELSE 0)]
  /\ file' = [file EXCEPT ![f] = Closed]
  /\ UNCHANGED call

-----------------------------------------------------------------------------
(***************************************************************************)
(* What a handle may count on.  From the moment the PENDING and RESERVED   *)
(* bytes are given back it is a SHARED lock.  A PENDING lock excludes no   *)
(* more than the lock it came from: RESERVED, or SHARED when the rollback  *)
(* of a hot journal was refused.                                           *)
(***************************************************************************)
Held(f) ==
  IF At(f, "drop") THEN SHARED_LOCK
  ELSE IF file[f].eFileLock # PENDING_LOCK THEN file[f].eFileLock
  ELSE IF posix[ProcOf(f)]["RESERVED_BYTE"] = "write" THEN RESERVED_LOCK ELSE SHARED_LOCK

(***************************************************************************)
(* A process is killed.  What is left of it are the locks the kernel       *)
(* drops when it closes the descriptors; until then its handles end one by *)
(* one, in any order as far as others can tell.                            *)
(***************************************************************************)
Kill(p) ==
  /\ call[p].at # "killed"
  /\ file' = [f \in Handle |-> IF ProcOf(f) = p THEN [file[f] EXCEPT !.eFileLock = Held(f)]
                               ELSE file[f]]
  /\ call' = [call EXCEPT ![p] = [Idle EXCEPT !.at = "killed"]]
  /\ UNCHANGED <<posix, inode>>

Forget(f) ==
  /\ call[ProcOf(f)].at = "killed" /\ file[f] # Closed
  /\ file' = [file EXCEPT ![f] = Closed]
  /\ UNCHANGED <<posix, inode, call>>

Reap(p) ==
  /\ call[p].at = "killed"
  /\ \A f \in Handle : ProcOf(f) = p => file[f] = Closed
  /\ posix' = [posix EXCEPT ![p] = Unlocked]
  /\ inode' = [inode EXCEPT ![p] = NoInode]
  /\ call' = [call EXCEPT ![p] = Idle]
  /\ UNCHANGED file

Next ==
  \/ \E f \in Handle :
        \/ findReusableFd(f) \/ fillInUnixFile(f)
        \/ LockSharedAgain(f) \/ LockShared(f) \/ SharedRange(f) \/ DropPending(f)
        \/ LockReserved(f) \/ LockExclusive(f) \/ ExclusiveRange(f)
        \/ \E to \in {NO_LOCK, SHARED_LOCK} : unixUnlock(f, to)
        \/ ReadSharedRange(f) \/ UnlockReserved(f) \/ UnlockShared(f)
        \/ unixClose(f) \/ Forget(f)
  \/ \E p \in Proc : Kill(p) \/ Reap(p)

Spec == Init /\ [][Next]_vars

-----------------------------------------------------------------------------

FL == INSTANCE FileLock WITH Conn <- Handle, lock <- [f \in Handle |-> Held(f)]

(***************************************************************************)
(* os_unix.c keeps the promise of xLock() and xUnlock() to every handle of *)
(* every process: handles of one process, between which the kernel sees no *)
(* difference, exclude each other like handles of two, and opening or      *)
(* closing a handle takes no lock from another one.                        *)
(***************************************************************************)
UnixImplementsFileLock == FL!Spec

(***************************************************************************)
(* The comment of unixLock(): a PENDING lock "ensures that no new SHARED   *)
(* locks can be obtained, but existing SHARED locks are allowed to         *)
(* persist".                                                               *)
(***************************************************************************)
PendingKeepsReadersOut ==
  [][\A f, g \in Handle :
        file[f].eFileLock = NO_LOCK /\ file'[f].eFileLock = SHARED_LOCK
        => file[g].eFileLock < PENDING_LOCK]_vars
=============================================================================
