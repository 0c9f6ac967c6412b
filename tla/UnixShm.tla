------------------------------- MODULE UnixShm -------------------------------
(***************************************************************************)
(* os_unix.c: the locks on the shared memory of a write-ahead log.  The    *)
(* connections of a process share one unixShmNode and one descriptor of    *)
(* the -shm file, so that for the kernel they are one owner; unixShmLock() *)
(* keeps a mask per connection and calls fcntl() only for the first of the *)
(* siblings that shares a lock and for the last that gives it back.  The   *)
(* dead-man switch (UNIX_SHM_DMS) tells the first process to arrive, which *)
(* empties the file, from the others.                                      *)
(*                                                                         *)
(* Every call of unixShmLock() holds the mutex of the node and makes at    *)
(* most one fcntl().  Opening the node makes several.  Connections release *)
(* their locks before they unmap, as wal.c does.                           *)
(***************************************************************************)
EXTENDS Integers, FiniteSets

CONSTANTS Proc,        \* the processes
          Slot,        \* the connections a process may have
          NLock        \* SQLITE_SHM_NLOCK

VARIABLES posix,       \* posix[p][i]: what the kernel gave p on byte i
          node,        \* node[p]: the unixShmNode of p
          conn         \* conn[f]: the unixShm of connection f

vars == <<posix, node, conn>>

Conn == Proc \X Slot
ProcOf(f) == f[1]
Lock == 0 .. NLock - 1
UNIX_SHM_DMS == NLock

Unlocked == [i \in Lock \cup {UNIX_SHM_DMS} |-> "none"]
Unmapped == [open |-> FALSE, sharedMask |-> {}, exclMask |-> {}]
NoNode == [at |-> "none", nRef |-> 0, opener |-> <<>>]

Init ==
  /\ posix = [p \in Proc |-> Unlocked]
  /\ node = [p \in Proc |-> NoNode]
  /\ conn = [f \in Conn |-> Unmapped]

Siblings(f) == {g \in Conn : ProcOf(g) = ProcOf(f) /\ conn[g].open}

-----------------------------------------------------------------------------
\* unixShmSystemLock(): one fcntl() for the bytes of mask.

MaySet(p, mask, type) ==
  \A q \in Proc \ {p}, i \in mask :
     posix[q][i] = "none" \/ (type = "read" /\ posix[q][i] = "read")

Set(p, mask, type) ==
  posix' = [posix EXCEPT ![p] = [i \in DOMAIN @ |-> IF i \in mask THEN type ELSE @[i]]]

-----------------------------------------------------------------------------
\* unixOpenSharedMemory(), under the mutex of the process.

JoinNode(f) ==
  /\ ~conn[f].open /\ node[ProcOf(f)].at = "ready"
  /\ conn' = [conn EXCEPT ![f].open = TRUE]
  /\ node' = [node EXCEPT ![ProcOf(f)].nRef = @ + 1]
  /\ UNCHANGED posix

\* Mutant: the file is emptied whoever else has it open.
OpenNodeUnchecked(f) ==
  LET p == ProcOf(f) IN
  /\ ~conn[f].open /\ node[p].at = "none"
  /\ node' = [node EXCEPT ![p].opener = f, ![p].at = "truncate"]
  /\ UNCHANGED <<posix, conn>>

\* Does another process hold the dead-man switch?
OpenNode(f) ==
  LET p == ProcOf(f)
      first == MaySet(p, {UNIX_SHM_DMS}, "write")
  IN
  /\ ~conn[f].open /\ node[p].at = "none"
  /\ node' = [node EXCEPT ![p].opener = f, ![p].at = IF first THEN "truncate" ELSE "dms"]
  /\ IF first THEN Set(p, {UNIX_SHM_DMS}, "write") ELSE UNCHANGED posix
  /\ UNCHANGED conn

Truncate(p) ==
  /\ node[p].at = "truncate"
  /\ node' = [node EXCEPT ![p].at = "dms"]
  /\ UNCHANGED <<posix, conn>>

\* Take the switch, or give up: unixShmPurge() closes the file.
TakeSwitch(p) ==
  /\ node[p].at = "dms"
  /\ IF MaySet(p, {UNIX_SHM_DMS}, "read")
     THEN /\ Set(p, {UNIX_SHM_DMS}, "read")
          /\ node' = [node EXCEPT ![p] = [at |-> "ready", nRef |-> 1, opener |-> <<>>]]
          /\ conn' = [conn EXCEPT ![node[p].opener].open = TRUE]
     ELSE /\ posix' = [posix EXCEPT ![p] = Unlocked]
          /\ node' = [node EXCEPT ![p] = NoNode]
          /\ UNCHANGED conn

-----------------------------------------------------------------------------
\* unixShmLock().  A request that meets SQLITE_BUSY changes nothing.

LockShared(f, i) ==
  LET p == ProcOf(f)
      allShared == UNION {conn[g].sharedMask : g \in Siblings(f)}
  IN
  /\ conn[f].open
  /\ \A g \in Siblings(f) : i \notin conn[g].exclMask
  /\ IF i \in allShared
     THEN UNCHANGED posix
     ELSE MaySet(p, {i}, "read") /\ Set(p, {i}, "read")
  /\ conn' = [conn EXCEPT ![f].sharedMask = @ \cup {i}]
  /\ UNCHANGED node

LockExclusive(f, mask) ==
  LET p == ProcOf(f) IN
  /\ conn[f].open
  /\ \A g \in Siblings(f) : (conn[g].exclMask \cup conn[g].sharedMask) \cap mask = {}
  /\ MaySet(p, mask, "write")
  /\ Set(p, mask, "write")
  /\ conn' = [conn EXCEPT ![f].exclMask = @ \cup mask]
  /\ UNCHANGED node

\* Mutant: the system lock goes although a sibling still shares it.
UnlockOwn(f, mask) ==
  /\ conn[f].open
  /\ mask \subseteq conn[f].sharedMask \/ mask \subseteq conn[f].exclMask
  /\ Set(ProcOf(f), mask, "none")
  /\ conn' = [conn EXCEPT ![f].sharedMask = @ \ mask, ![f].exclMask = @ \ mask]
  /\ UNCHANGED node

Unlock(f, mask) ==
  LET allMask == UNION {conn[g].sharedMask : g \in Siblings(f) \ {f}} IN
  /\ conn[f].open
  /\ mask \subseteq conn[f].sharedMask \/ mask \subseteq conn[f].exclMask
  /\ IF mask \cap allMask = {} THEN Set(ProcOf(f), mask, "none") ELSE UNCHANGED posix
  /\ conn' = [conn EXCEPT ![f].sharedMask = @ \ mask, ![f].exclMask = @ \ mask]
  /\ UNCHANGED node

-----------------------------------------------------------------------------

\* The last connection to leave closes the file, and with it every lock.
unixShmUnmap(f) ==
  LET p == ProcOf(f)
      last == node[p].nRef = 1
  IN
  /\ conn[f] = [Unmapped EXCEPT !.open = TRUE]
  /\ conn' = [conn EXCEPT ![f] = Unmapped]
  /\ node' = IF last THEN [node EXCEPT ![p] = NoNode] ELSE [node EXCEPT ![p].nRef = @ - 1]
  /\ posix' = IF last THEN [posix EXCEPT ![p] = Unlocked] ELSE posix

\* The process is killed: the kernel closes the file.
Kill(p) ==
  /\ node[p] # NoNode
  /\ conn' = [f \in Conn |-> IF ProcOf(f) = p THEN Unmapped ELSE conn[f]]
  /\ node' = [node EXCEPT ![p] = NoNode]
  /\ posix' = [posix EXCEPT ![p] = Unlocked]

\* Exclusive locks and their release name a range of locks, shared ones one.
LockRange == {i .. j : i, j \in Lock} \ {{}}

Next ==
  \/ \E f \in Conn :
        \/ JoinNode(f) \/ OpenNode(f) \/ unixShmUnmap(f)
        \/ \E i \in Lock : LockShared(f, i)
        \/ \E mask \in LockRange : LockExclusive(f, mask) \/ Unlock(f, mask)
  \/ \E p \in Proc : Truncate(p) \/ TakeSwitch(p) \/ Kill(p)

Spec == Init /\ [][Next]_vars

-----------------------------------------------------------------------------

(***************************************************************************)
(* xShmLock() excludes connections from each other although the kernel     *)
(* cannot tell siblings apart and a lock shared by siblings is one kernel  *)
(* lock: whoever holds a lock exclusively is alone with it, in whichever   *)
(* processes the connections are and whichever of them left first.         *)
(***************************************************************************)
ShmLocksExclude ==
  \A f, g \in Conn :
     f # g => conn[f].exclMask \cap (conn[g].exclMask \cup conn[g].sharedMask) = {}

(***************************************************************************)
(* unixOpenSharedMemory() empties the -shm file only while no process has  *)
(* the wal-index in it in use, however processes come, go and die between  *)
(* its two requests for the dead-man switch.                               *)
(***************************************************************************)
TruncatedUnused ==
  \A p \in Proc : node[p].at = "truncate" => \A q \in Proc : node[q].at # "ready"
=============================================================================
