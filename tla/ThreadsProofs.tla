--------------------------- MODULE ThreadsProofs ----------------------------
(***************************************************************************)
(* Proofs about the modules of the run Threads.  UnixLock, for any set of  *)
(* processes and any number of handles in each: os_unix.c implements       *)
(* FileLock.  PCache1, for any number of caches and of pages, of any       *)
(* sizes: the counters agree with the pages, and the budget is exceeded    *)
(* only for pages in use.                                                  *)
(***************************************************************************)
EXTENDS Threads, FiniteSetTheorems, SequenceTheorems, TLAPS

Level == NO_LOCK .. EXCLUSIVE_LOCK

Step == {"idle", "shared", "unpend", "excl", "reread", "unreserve", "drop", "killed"}

UnixInodeInfo ==
  [eFileLock : Level, nShared : Int, nLock : Int, nRef : Int, pUnused : Int]

UnixFile == [state : {"closed", "opening", "open"}, eFileLock : Level]

Call == [at : Step, f : Handle \cup {<<>>}, to : {NO_LOCK, SHARED_LOCK, EXCLUSIVE_LOCK}]

(* The type of the state.                                                  *)
TypeOK ==
  /\ posix \in [Proc -> [ByteRange -> {"none", "read", "write"}]]
  /\ inode \in [Proc -> UnixInodeInfo]
  /\ file \in [Handle -> UnixFile]
  /\ call \in [Proc -> Call]

HandlesOf(p) == {f \in Handle : ProcOf(f) = p}

(* The level a handle has: SHARED once its posixUnlock() has given back    *)
(* the PENDING and the RESERVED byte.                                      *)
Lvl(f) == IF At(f, "drop") THEN SHARED_LOCK ELSE file[f].eFileLock

Opened(p) == {f \in HandlesOf(p) : file[f].state = "open"}
Lockers(p) == {f \in HandlesOf(p) : file[f].eFileLock # NO_LOCK}

(* The counters of the unixInodeInfo count handles.                        *)
Counted(p) ==
  /\ IsFiniteSet(Opened(p)) /\ inode[p].nRef = Cardinality(Opened(p))
  /\ IsFiniteSet(Lockers(p)) /\ inode[p].nShared = Cardinality(Lockers(p))
  /\ inode[p].nLock = inode[p].nShared

(* The level of the unixInodeInfo is the highest of its handles, which     *)
(* only one of them has if it is RESERVED or more.                         *)
LevelsOK(p) ==
  /\ \A f \in HandlesOf(p) : file[f].eFileLock # NO_LOCK => file[f].state = "open"
  /\ \A f \in HandlesOf(p) : Lvl(f) <= inode[p].eFileLock
  /\ \A f, g \in HandlesOf(p) :
       /\ f # g /\ Lvl(f) >= RESERVED_LOCK => Lvl(g) <= SHARED_LOCK
       /\ f # g /\ Lvl(f) = EXCLUSIVE_LOCK => Lvl(g) = NO_LOCK
  /\ \A f \in HandlesOf(p) : Lvl(f) >= RESERVED_LOCK => Lvl(f) = inode[p].eFileLock
  /\ inode[p].eFileLock # NO_LOCK => \E f \in HandlesOf(p) : Lvl(f) = inode[p].eFileLock

(* The bytes that go with level l.                                         *)
PendingByte(l) == IF l >= PENDING_LOCK THEN "write" ELSE "none"
SharedRangeOf(l) == IF l = NO_LOCK THEN "none" ELSE IF l = EXCLUSIVE_LOCK THEN "write" ELSE "read"
ReservedByteOK(l, type) ==
  /\ l <= SHARED_LOCK => type = "none"
  /\ l = RESERVED_LOCK => type = "write"

(* The kernel's locks of a process, and where its call has come.           *)
BytesOK(p) ==
  LET c == call[p].f
      at == call[p].at
      l == inode[p].eFileLock
      pending == posix[p]["PENDING_BYTE"]
      reserved == posix[p]["RESERVED_BYTE"]
      shared == posix[p]["SHARED_FIRST"]
  IN
  /\ at # "idle" => c \in Opened(p)
  /\ at \in {"shared", "unpend"} => l = NO_LOCK
  /\ at \in {"excl", "reread", "unreserve"} => file[c].eFileLock = l
  /\ at = "excl" => l \in SHARED_LOCK .. PENDING_LOCK
  /\ at \in {"reread", "unreserve"} => l >= RESERVED_LOCK /\ call[p].to # EXCLUSIVE_LOCK
  /\ at = "drop" => l # NO_LOCK /\ file[c].eFileLock # NO_LOCK
  /\ pending = IF at \in {"shared", "unpend"} THEN "read"
               ELSE IF at = "excl" THEN "write" ELSE PendingByte(l)
  /\ ReservedByteOK(l, reserved)
  /\ \/ shared = SharedRangeOf(l) /\ (at \in {"unpend", "unreserve"} => call[p].to # SHARED_LOCK)
     \/ shared = "read" /\ at \in {"unpend", "unreserve"} /\ call[p].to = SHARED_LOCK
     \/ shared = "write" /\ at = "drop" /\ l = SHARED_LOCK /\ Lockers(p) = {c}

(* What the kernel's locks of a process back, and who else of the process  *)
(* may hold what: all that is left of this when the process is killed.     *)
Backed(p) ==
  /\ \A f \in HandlesOf(p) :
       /\ Held(f) \in {NO_LOCK, SHARED_LOCK, RESERVED_LOCK, EXCLUSIVE_LOCK}
       /\ Held(f) # NO_LOCK => posix[p]["SHARED_FIRST"] # "none"
       /\ Held(f) = RESERVED_LOCK => posix[p]["RESERVED_BYTE"] = "write"
       /\ Held(f) = EXCLUSIVE_LOCK => posix[p]["PENDING_BYTE"] = "write"
  /\ \A f, g \in HandlesOf(p) :
       /\ f # g /\ Held(f) = RESERVED_LOCK => Held(g) <= SHARED_LOCK
       /\ f # g /\ Held(f) = EXCLUSIVE_LOCK => Held(g) = NO_LOCK

(* The state of one process.                                               *)
ProcOK(p) ==
  IF call[p].at = "killed"
  THEN Backed(p) /\ \A f \in HandlesOf(p) : file[f].eFileLock # PENDING_LOCK
  ELSE Counted(p) /\ LevelsOK(p) /\ BytesOK(p)

(* The kernel's part: a write lock excludes the other processes.           *)
KernelExcludes ==
  \A p, q \in Proc, b \in ByteRange : p # q /\ posix[p][b] = "write" => posix[q][b] = "none"

(* While a handle is EXCLUSIVE no other process has the shared range, not  *)
(* even when posixUnlock() has already made it a read lock.                *)
ExclusiveAlone ==
  \A f \in Handle, q \in Proc :
     Held(f) = EXCLUSIVE_LOCK /\ q # ProcOf(f) => posix[q]["SHARED_FIRST"] = "none"

(* The inductive invariant.                                                *)
IInv == TypeOK /\ KernelExcludes /\ ExclusiveAlone /\ \A p \in Proc : ProcOK(p)

-----------------------------------------------------------------------------
(* Lock levels are numbers.                                                *)
USE DEF NO_LOCK, SHARED_LOCK, RESERVED_LOCK, PENDING_LOCK, EXCLUSIVE_LOCK, Level

(* The parts of a handle's name.                                           *)
LEMMA ProcOfHandle ==
  \A f \in Handle : ProcOf(f) \in Proc /\ f \in HandlesOf(ProcOf(f)) /\ f # <<>>
BY DEF Handle, ProcOf, HandlesOf

(* The three byte ranges.                                                  *)
LEMMA Ranges ==
  /\ "PENDING_BYTE" \in ByteRange /\ "RESERVED_BYTE" \in ByteRange /\ "SHARED_FIRST" \in ByteRange
  /\ \A b \in ByteRange : b = "PENDING_BYTE" \/ b = "RESERVED_BYTE" \/ b = "SHARED_FIRST"
BY DEF ByteRange

(* The level of a handle, with its process named.                          *)
LEMMA LvlOf ==
  ASSUME NEW p \in Proc, NEW f \in HandlesOf(p)
  PROVE  Lvl(f) = IF call[p].f = f /\ call[p].at = "drop" THEN SHARED_LOCK ELSE file[f].eFileLock
BY DEF Lvl, At, HandlesOf

(* What a handle may count on, with its process named.                     *)
LEMMA HeldOf ==
  ASSUME NEW p \in Proc, NEW f \in HandlesOf(p)
  PROVE  Held(f) = IF Lvl(f) # PENDING_LOCK THEN Lvl(f)
                   ELSE IF posix[p]["RESERVED_BYTE"] = "write" THEN RESERVED_LOCK ELSE SHARED_LOCK
BY DEF Held, Lvl, At, HandlesOf

(* A level is a level.                                                     *)
LEMMA LvlType ==
  ASSUME TypeOK, NEW f \in Handle
  PROVE  Lvl(f) \in Level
BY DEF Lvl, TypeOK, UnixFile

(* The state of a process backs what its handles hold.                     *)
LEMMA ProcBacks ==
  ASSUME TypeOK, NEW p \in Proc, ProcOK(p)
  PROVE  Backed(p)
<1>1. CASE call[p].at = "killed"
  BY <1>1 DEF ProcOK
<1>2. CASE call[p].at # "killed"
  <2>1. Counted(p) /\ LevelsOK(p) /\ BytesOK(p)
    BY <1>2 DEF ProcOK
  <2>2. \A f \in HandlesOf(p) : Lvl(f) \in Level
    BY LvlType DEF HandlesOf
  <2>3. inode[p].eFileLock \in Level
    BY DEF TypeOK, UnixInodeInfo
  <2>4. ASSUME NEW f \in HandlesOf(p)
        PROVE  /\ Held(f) \in {NO_LOCK, SHARED_LOCK, RESERVED_LOCK, EXCLUSIVE_LOCK}
               /\ Held(f) # NO_LOCK => posix[p]["SHARED_FIRST"] # "none"
               /\ Held(f) = RESERVED_LOCK => posix[p]["RESERVED_BYTE"] = "write"
               /\ Held(f) = EXCLUSIVE_LOCK => posix[p]["PENDING_BYTE"] = "write"
    <3>1. /\ Lvl(f) \in Level /\ Lvl(f) <= inode[p].eFileLock
          /\ Lvl(f) >= RESERVED_LOCK => Lvl(f) = inode[p].eFileLock
      BY <2>1, <2>2 DEF LevelsOK
    <3>2. Lvl(f) # NO_LOCK => posix[p]["SHARED_FIRST"] # "none"
      BY <2>1, <2>3, <3>1 DEF BytesOK, SharedRangeOf
    <3>3. Lvl(f) = RESERVED_LOCK => posix[p]["RESERVED_BYTE"] = "write"
      BY <2>1, <2>3, <3>1 DEF BytesOK, ReservedByteOK
    <3>4. Lvl(f) = EXCLUSIVE_LOCK => posix[p]["PENDING_BYTE"] = "write"
      BY <2>1, <2>3, <3>1 DEF BytesOK, PendingByte
    <3> QED
      BY <3>1, <3>2, <3>3, <3>4, HeldOf
  <2>5. ASSUME NEW f \in HandlesOf(p), NEW g \in HandlesOf(p), f # g
        PROVE  /\ Held(f) = RESERVED_LOCK => Held(g) <= SHARED_LOCK
               /\ Held(f) = EXCLUSIVE_LOCK => Held(g) = NO_LOCK
    <3>1. /\ Lvl(f) >= RESERVED_LOCK => Lvl(g) <= SHARED_LOCK
          /\ Lvl(f) = EXCLUSIVE_LOCK => Lvl(g) = NO_LOCK
      BY <2>1, <2>5 DEF LevelsOK
    <3> QED
      BY <2>2, <3>1, HeldOf
  <2> QED
    BY <2>4, <2>5 DEF Backed
<1> QED
  BY <1>1, <1>2

-----------------------------------------------------------------------------
(* A step of process p and of nobody else.                                 *)
Only(p) ==
  /\ \A q \in Proc : q # p => posix'[q] = posix[q] /\ inode'[q] = inode[q] /\ call'[q] = call[q]
  /\ \A g \in Handle : ProcOf(g) # p => file'[g] = file[g]

(* Another process keeps its state and what its handles hold.              *)
LEMMA OthersKept ==
  ASSUME NEW p \in Proc, NEW q \in Proc, q # p, Only(p), ProcOK(q)
  PROVE  ProcOK(q)' /\ \A g \in HandlesOf(q) : Held(g)' = Held(g)
<1>1. /\ posix'[q] = posix[q] /\ inode'[q] = inode[q] /\ call'[q] = call[q]
      /\ \A g \in HandlesOf(q) : file'[g] = file[g]
  BY DEF Only, HandlesOf
<1>2. HandlesOf(q)' = HandlesOf(q)
  BY DEF HandlesOf
<1>3. \A g \in HandlesOf(q) : Lvl(g)' = Lvl(g)
  BY <1>1 DEF Lvl, At, HandlesOf
<1>4. \A g \in HandlesOf(q) : Held(g)' = Held(g)
  BY <1>1 DEF Held, At, HandlesOf
<1>5. Opened(q)' = Opened(q) /\ Lockers(q)' = Lockers(q)
  BY <1>1, <1>2 DEF Opened, Lockers
<1>6. Backed(q) => Backed(q)'
  BY <1>1, <1>2, <1>4 DEF Backed
<1>7. Counted(q) => Counted(q)'
  BY <1>1, <1>5 DEF Counted
<1>8. LevelsOK(q) => LevelsOK(q)'
  BY <1>1, <1>2, <1>3 DEF LevelsOK
<1>9. BytesOK(q) => BytesOK(q)'
  BY <1>1, <1>5 DEF BytesOK, Opened, HandlesOf
<1> QED
  BY <1>1, <1>2, <1>4, <1>6, <1>7, <1>8, <1>9 DEF ProcOK

-----------------------------------------------------------------------------
(* What is left to show of a step of process p.                            *)
LEMMA StepOf ==
  ASSUME IInv, NEW p \in Proc, Only(p), TypeOK', ProcOK(p)',
         \A q \in Proc, b \in ByteRange :
            q # p => /\ posix'[p][b] = "write" => posix[q][b] = "none"
                     /\ posix[q][b] = "write" => posix'[p][b] = "none",
         \A f \in HandlesOf(p), q \in Proc :
            Held(f)' = EXCLUSIVE_LOCK /\ q # p => posix[q]["SHARED_FIRST"] = "none",
         \A f \in Handle :
            ProcOf(f) # p /\ Held(f) = EXCLUSIVE_LOCK => posix'[p]["SHARED_FIRST"] = "none"
  PROVE  IInv' /\ \A g \in Handle : ProcOf(g) # p => Held(g)' = Held(g)
<1>1. \A q \in Proc : ProcOK(q)'
  BY OthersKept DEF IInv
<1>2. ASSUME NEW g \in Handle, ProcOf(g) # p
      PROVE  Held(g)' = Held(g)
  BY <1>2, OthersKept, ProcOfHandle DEF IInv
<1>3. KernelExcludes'
  <2> SUFFICES ASSUME NEW r \in Proc, NEW q \in Proc, NEW b \in ByteRange, r # q,
                      posix'[r][b] = "write"
               PROVE  posix'[q][b] = "none"
    BY DEF KernelExcludes
  <2>1. CASE r = p
    BY <2>1 DEF Only
  <2>2. CASE q = p
    BY <2>2 DEF Only
  <2>3. CASE r # p /\ q # p
    BY <2>3 DEF Only, IInv, KernelExcludes
  <2> QED
    BY <2>1, <2>2, <2>3
<1>4. ExclusiveAlone'
  <2> SUFFICES ASSUME NEW f \in Handle, NEW q \in Proc, Held(f)' = EXCLUSIVE_LOCK, q # ProcOf(f)
               PROVE  posix'[q]["SHARED_FIRST"] = "none"
    BY DEF ExclusiveAlone
  <2>1. CASE ProcOf(f) = p
    BY <2>1, ProcOfHandle DEF Only
  <2>2. CASE ProcOf(f) # p /\ q = p
    BY <1>2, <2>2
  <2>3. CASE ProcOf(f) # p /\ q # p
    BY <1>2, <2>3 DEF Only, IInv, ExclusiveAlone
  <2> QED
    BY <2>1, <2>2, <2>3
<1> QED
  BY <1>1, <1>2, <1>3, <1>4 DEF IInv

(* A step that leaves the kernel's locks alone and makes no handle         *)
(* EXCLUSIVE needs no other process.                                       *)
LEMMA QuietStepOf ==
  ASSUME IInv, NEW p \in Proc, Only(p), TypeOK', ProcOK(p)', UNCHANGED posix,
         \A f \in HandlesOf(p) : Held(f)' = EXCLUSIVE_LOCK => Held(f) = EXCLUSIVE_LOCK
  PROVE  IInv' /\ \A g \in Handle : ProcOf(g) # p => Held(g)' = Held(g)
<1>1. \A q \in Proc, b \in ByteRange :
        q # p => /\ posix'[p][b] = "write" => posix[q][b] = "none"
                 /\ posix[q][b] = "write" => posix'[p][b] = "none"
  BY DEF IInv, KernelExcludes
<1>2. \A f \in HandlesOf(p), q \in Proc :
        Held(f)' = EXCLUSIVE_LOCK /\ q # p => posix[q]["SHARED_FIRST"] = "none"
  BY DEF IInv, ExclusiveAlone, HandlesOf
<1>3. \A f \in Handle :
        ProcOf(f) # p /\ Held(f) = EXCLUSIVE_LOCK => posix'[p]["SHARED_FIRST"] = "none"
  BY DEF IInv, ExclusiveAlone
<1> QED
  BY <1>1, <1>2, <1>3, StepOf

-----------------------------------------------------------------------------
(* What the handles hold, as FileLock sees it.                             *)
heldBar == [f \in Handle |-> Held(f)]

(* A step that no handle notices.                                          *)
LEMMA Stutters ==
  ASSUME \A g \in Handle : Held(g)' = Held(g)
  PROVE  UNCHANGED heldBar
BY DEF heldBar

(* Only f's level changes.                                                 *)
LEMMA HeldChanges ==
  ASSUME NEW f \in Handle, NEW l, Held(f)' = l, \A g \in Handle : g # f => Held(g)' = Held(g)
  PROVE  heldBar' = [heldBar EXCEPT ![f] = l]
BY DEF heldBar

(* A lock that FileLock grants.                                            *)
LEMMA Acquires ==
  ASSUME NEW f \in Handle, NEW l \in Level, Held(f)' = l, Held(f) < l,
         \A g \in Handle : g # f => Held(g)' = Held(g),
         \/ l = SHARED_LOCK /\ \A g \in Handle : g # f => Held(g) < PENDING_LOCK
         \/ l = RESERVED_LOCK /\ \A g \in Handle : g # f => Held(g) < RESERVED_LOCK
         \/ l = EXCLUSIVE_LOCK /\ \A g \in Handle : g # f => Held(g) = NO_LOCK
  PROVE  FL!Next
<1>1. heldBar' = [heldBar EXCEPT ![f] = l]
  BY HeldChanges
<1>2. FL!Acquire(f, l)
  BY <1>1 DEF FL!Acquire, FL!MayHold, FL!Others, FL!SHARED_LOCK, FL!RESERVED_LOCK,
              FL!PENDING_LOCK, FL!EXCLUSIVE_LOCK, FL!NO_LOCK, heldBar
<1> QED
  BY <1>2 DEF FL!Next, FL!Level, FL!NO_LOCK, FL!EXCLUSIVE_LOCK

(* A lock that is lowered.                                                 *)
LEMMA Releases ==
  ASSUME NEW f \in Handle, NEW l \in {NO_LOCK, SHARED_LOCK}, Held(f)' = l, l < Held(f),
         \A g \in Handle : g # f => Held(g)' = Held(g)
  PROVE  FL!Next
<1>1. heldBar' = [heldBar EXCEPT ![f] = l]
  BY HeldChanges
<1>2. FL!Release(f, l)
  BY <1>1 DEF FL!Release, FL!SHARED_LOCK, FL!NO_LOCK, heldBar
<1> QED
  BY <1>2 DEF FL!Next, FL!Level, FL!NO_LOCK, FL!EXCLUSIVE_LOCK

-----------------------------------------------------------------------------
(* The parts of the state after a step of process p.                       *)
FileEffect(f, state, level) ==
  /\ file' \in [Handle -> UnixFile]
  /\ file'[f].state = state /\ file'[f].eFileLock = level
  /\ \A g \in Handle : g # f => file'[g] = file[g]

InodeEffect(p, level, nShared, nLock, nRef) ==
  /\ inode' \in [Proc -> UnixInodeInfo]
  /\ inode'[p].eFileLock = level /\ inode'[p].nShared = nShared
  /\ inode'[p].nLock = nLock /\ inode'[p].nRef = nRef
  /\ \A q \in Proc : q # p => inode'[q] = inode[q]

PosixEffect(p, pending, reserved, shared) ==
  /\ posix' \in [Proc -> [ByteRange -> {"none", "read", "write"}]]
  /\ posix'[p]["PENDING_BYTE"] = pending /\ posix'[p]["RESERVED_BYTE"] = reserved
  /\ posix'[p]["SHARED_FIRST"] = shared
  /\ \A q \in Proc : q # p => posix'[q] = posix[q]

CallEffect(p, at, f, to) ==
  /\ call' \in [Proc -> Call]
  /\ call'[p].at = at /\ call'[p].f = f /\ call'[p].to = to
  /\ \A q \in Proc : q # p => call'[q] = call[q]

(* Setting the level of a handle, its inode's, or the state of a handle.   *)
LEMMA FileUpdates ==
  ASSUME TypeOK, NEW f \in Handle
  PROVE  /\ \A l \in Level : file' = [file EXCEPT ![f].eFileLock = l] =>
              FileEffect(f, file[f].state, l)
         /\ \A s \in {"closed", "opening", "open"} : file' = [file EXCEPT ![f].state = s] =>
              FileEffect(f, s, file[f].eFileLock)
         /\ file' = [file EXCEPT ![f] = Closed] => FileEffect(f, "closed", NO_LOCK)
         /\ file' = file => FileEffect(f, file[f].state, file[f].eFileLock)
<1>1. file[f] \in UnixFile
  BY DEF TypeOK
<1>2. ASSUME NEW r \in UnixFile, file' = [file EXCEPT ![f] = r]
      PROVE  FileEffect(f, r.state, r.eFileLock)
  BY <1>2 DEF TypeOK, FileEffect
<1>3. ASSUME NEW l \in Level, file' = [file EXCEPT ![f].eFileLock = l]
      PROVE  FileEffect(f, file[f].state, l)
  <2>1. [file[f] EXCEPT !.eFileLock = l] \in UnixFile
    BY <1>1 DEF UnixFile
  <2> QED
    BY <1>1, <1>2, <1>3, <2>1 DEF UnixFile
<1>4. ASSUME NEW s \in {"closed", "opening", "open"}, file' = [file EXCEPT ![f].state = s]
      PROVE  FileEffect(f, s, file[f].eFileLock)
  <2>1. [file[f] EXCEPT !.state = s] \in UnixFile
    BY <1>1 DEF UnixFile
  <2> QED
    BY <1>1, <1>2, <1>4, <2>1 DEF UnixFile
<1>5. file' = [file EXCEPT ![f] = Closed] => FileEffect(f, "closed", NO_LOCK)
  BY DEF TypeOK, FileEffect, UnixFile, Closed
<1>6. file' = file => FileEffect(f, file[f].state, file[f].eFileLock)
  BY DEF FileEffect, TypeOK
<1> QED
  BY <1>3, <1>4, <1>5, <1>6

(* An unchanged inode, one whose level changes, and one that is freed.     *)
LEMMA InodeUpdates ==
  ASSUME TypeOK, NEW p \in Proc
  PROVE  /\ \A l \in Level : inode' = [inode EXCEPT ![p].eFileLock = l] =>
              InodeEffect(p, l, inode[p].nShared, inode[p].nLock, inode[p].nRef)
         /\ inode' = [inode EXCEPT ![p] = NoInode] => InodeEffect(p, NO_LOCK, 0, 0, 0)
         /\ inode' = inode =>
              InodeEffect(p, inode[p].eFileLock, inode[p].nShared, inode[p].nLock, inode[p].nRef)
<1>1. inode[p] \in UnixInodeInfo
  BY DEF TypeOK
<1>2. ASSUME NEW l \in Level, inode' = [inode EXCEPT ![p].eFileLock = l]
      PROVE  InodeEffect(p, l, inode[p].nShared, inode[p].nLock, inode[p].nRef)
  <2>1. [inode[p] EXCEPT !.eFileLock = l] \in UnixInodeInfo
    BY <1>1 DEF UnixInodeInfo
  <2> QED
    BY <1>1, <1>2, <2>1 DEF TypeOK, UnixInodeInfo, InodeEffect
<1>3. inode' = [inode EXCEPT ![p] = NoInode] => InodeEffect(p, NO_LOCK, 0, 0, 0)
  BY DEF TypeOK, InodeEffect, UnixInodeInfo, NoInode
<1>4. inode' = inode =>
        InodeEffect(p, inode[p].eFileLock, inode[p].nShared, inode[p].nLock, inode[p].nRef)
  BY DEF TypeOK, InodeEffect
<1> QED
  BY <1>2, <1>3, <1>4

(* fcntl() on one range, close(), and none of them.                        *)
LEMMA PosixUpdates ==
  ASSUME TypeOK, NEW p \in Proc
  PROVE  /\ \A t \in {"none", "read", "write"} : Set(p, "PENDING_BYTE", t) =>
              PosixEffect(p, t, posix[p]["RESERVED_BYTE"], posix[p]["SHARED_FIRST"])
         /\ \A t \in {"none", "read", "write"} : Set(p, "RESERVED_BYTE", t) =>
              PosixEffect(p, posix[p]["PENDING_BYTE"], t, posix[p]["SHARED_FIRST"])
         /\ \A t \in {"none", "read", "write"} : Set(p, "SHARED_FIRST", t) =>
              PosixEffect(p, posix[p]["PENDING_BYTE"], posix[p]["RESERVED_BYTE"], t)
         /\ posix' = [posix EXCEPT ![p] = Unlocked] => PosixEffect(p, "none", "none", "none")
         /\ posix' = posix =>
              PosixEffect(p, posix[p]["PENDING_BYTE"], posix[p]["RESERVED_BYTE"],
                          posix[p]["SHARED_FIRST"])
<1>1. posix[p] \in [ByteRange -> {"none", "read", "write"}]
  BY DEF TypeOK
<1>2. ASSUME NEW t \in {"none", "read", "write"}, NEW b \in ByteRange, Set(p, b, t)
      PROVE  /\ posix' \in [Proc -> [ByteRange -> {"none", "read", "write"}]]
             /\ posix'[p][b] = t
             /\ \A c \in ByteRange : c # b => posix'[p][c] = posix[p][c]
             /\ \A q \in Proc : q # p => posix'[q] = posix[q]
  <2>1. [posix[p] EXCEPT ![b] = t] \in [ByteRange -> {"none", "read", "write"}]
    BY <1>1
  <2> QED
    BY <1>1, <1>2, <2>1 DEF Set, TypeOK
<1>3. ASSUME NEW t \in {"none", "read", "write"}
      PROVE  Set(p, "PENDING_BYTE", t) =>
               PosixEffect(p, t, posix[p]["RESERVED_BYTE"], posix[p]["SHARED_FIRST"])
  BY <1>2, Ranges DEF PosixEffect
<1>4. ASSUME NEW t \in {"none", "read", "write"}
      PROVE  Set(p, "RESERVED_BYTE", t) =>
               PosixEffect(p, posix[p]["PENDING_BYTE"], t, posix[p]["SHARED_FIRST"])
  BY <1>2, Ranges DEF PosixEffect
<1>5. ASSUME NEW t \in {"none", "read", "write"}
      PROVE  Set(p, "SHARED_FIRST", t) =>
               PosixEffect(p, posix[p]["PENDING_BYTE"], posix[p]["RESERVED_BYTE"], t)
  BY <1>2, Ranges DEF PosixEffect
<1>6. posix' = [posix EXCEPT ![p] = Unlocked] => PosixEffect(p, "none", "none", "none")
  BY Ranges DEF TypeOK, PosixEffect, Unlocked
<1>7. posix' = posix =>
        PosixEffect(p, posix[p]["PENDING_BYTE"], posix[p]["RESERVED_BYTE"], posix[p]["SHARED_FIRST"])
  BY DEF TypeOK, PosixEffect
<1> QED
  BY <1>3, <1>4, <1>5, <1>6, <1>7

(* A call goes on, ends, or does not move.                                 *)
LEMMA CallUpdates ==
  ASSUME TypeOK, NEW f \in Handle
  PROVE  /\ \A s \in Step, to \in {NO_LOCK, SHARED_LOCK, EXCLUSIVE_LOCK} :
              Goto(f, s, to) => CallEffect(ProcOf(f), s, f, to)
         /\ Leave(f) => CallEffect(ProcOf(f), "idle", <<>>, NO_LOCK)
         /\ call' = call => CallEffect(ProcOf(f), call[ProcOf(f)].at, call[ProcOf(f)].f,
                                       call[ProcOf(f)].to)
<1>1. ProcOf(f) \in Proc
  BY ProcOfHandle
<1>2. ASSUME NEW s \in Step, NEW to \in {NO_LOCK, SHARED_LOCK, EXCLUSIVE_LOCK}, Goto(f, s, to)
      PROVE  CallEffect(ProcOf(f), s, f, to)
  <2>1. [at |-> s, f |-> f, to |-> to] \in Call
    BY DEF Call
  <2> QED
    BY <1>1, <1>2, <2>1 DEF TypeOK, Goto, CallEffect
<1>3. Leave(f) => CallEffect(ProcOf(f), "idle", <<>>, NO_LOCK)
  <2>1. Idle \in Call
    BY DEF Call, Idle, Step
  <2> QED
    BY <1>1, <2>1 DEF TypeOK, Leave, Idle, CallEffect
<1>4. call' = call => CallEffect(ProcOf(f), call[ProcOf(f)].at, call[ProcOf(f)].f,
                                 call[ProcOf(f)].to)
  BY DEF TypeOK, CallEffect
<1> QED
  BY <1>2, <1>3, <1>4

(* The four effects together are a step of one process.                    *)
LEMMA EffectsAreOnly ==
  ASSUME NEW f \in Handle, NEW s, NEW l, FileEffect(f, s, l),
         NEW e, NEW n1, NEW n2, NEW n3, InodeEffect(ProcOf(f), e, n1, n2, n3),
         NEW pe, NEW re, NEW sh, PosixEffect(ProcOf(f), pe, re, sh),
         NEW at, NEW c, NEW to, CallEffect(ProcOf(f), at, c, to)
  PROVE  Only(ProcOf(f)) /\ TypeOK'
BY DEF Only, TypeOK, FileEffect, InodeEffect, PosixEffect, CallEffect

(* Who has the file open and who holds a lock after a change to f.         *)
LEMMA SetsAfter ==
  ASSUME NEW f \in Handle, NEW s, NEW l, FileEffect(f, s, l)
  PROVE  /\ Opened(ProcOf(f))' = IF s = "open" THEN Opened(ProcOf(f)) \cup {f}
                                 ELSE Opened(ProcOf(f)) \ {f}
         /\ Lockers(ProcOf(f))' = IF l # NO_LOCK THEN Lockers(ProcOf(f)) \cup {f}
                                  ELSE Lockers(ProcOf(f)) \ {f}
BY DEF FileEffect, Opened, Lockers, HandlesOf

(* The levels after a change to f.                                         *)
LEMMA LvlAfter ==
  ASSUME NEW f \in Handle, NEW s, NEW l, FileEffect(f, s, l),
         NEW at, NEW c, NEW to, CallEffect(ProcOf(f), at, c, to),
         NEW g \in HandlesOf(ProcOf(f))
  PROVE  Lvl(g)' = IF c = g /\ at = "drop" THEN SHARED_LOCK
                   ELSE IF g = f THEN l ELSE file[g].eFileLock
BY DEF Lvl, At, HandlesOf, FileEffect, CallEffect

(* What the handles hold after a change to f.                              *)
LEMMA HeldAfter ==
  ASSUME NEW f \in Handle, NEW pe, NEW re, NEW sh, PosixEffect(ProcOf(f), pe, re, sh),
         NEW g \in HandlesOf(ProcOf(f))
  PROVE  Held(g)' = IF Lvl(g)' # PENDING_LOCK THEN Lvl(g)'
                    ELSE IF re = "write" THEN RESERVED_LOCK ELSE SHARED_LOCK
BY DEF Held, Lvl, At, HandlesOf, PosixEffect

(* The levels of the handles of a process after a call made for f.         *)
LEMMA LvlsAfter ==
  ASSUME NEW f \in Handle, NEW s, NEW l, FileEffect(f, s, l),
         NEW at, NEW c, NEW to, CallEffect(ProcOf(f), at, c, to),
         at = "drop" => c = f,
         call[ProcOf(f)].at = "drop" => call[ProcOf(f)].f = f
  PROVE  /\ Lvl(f)' = IF at = "drop" THEN SHARED_LOCK ELSE l
         /\ \A g \in HandlesOf(ProcOf(f)) : g # f => Lvl(g)' = Lvl(g)
<1>1. f \in HandlesOf(ProcOf(f)) /\ ProcOf(f) \in Proc
  BY ProcOfHandle
<1>2. Lvl(f)' = IF at = "drop" THEN SHARED_LOCK ELSE l
  BY <1>1, LvlAfter
<1>3. ASSUME NEW g \in HandlesOf(ProcOf(f)), g # f PROVE Lvl(g)' = Lvl(g)
  <2>1. Lvl(g)' = file[g].eFileLock
    BY <1>3, LvlAfter
  <2>2. Lvl(g) = file[g].eFileLock
    BY <1>1, <1>3, LvlOf
  <2> QED
    BY <2>1, <2>2
<1> QED
  BY <1>2, <1>3

(* What the handles hold after a call made for f that leaves the RESERVED  *)
(* byte of a PENDING sibling alone.                                        *)
LEMMA HeldsAfter ==
  ASSUME NEW f \in Handle, NEW pe, NEW re, NEW sh, PosixEffect(ProcOf(f), pe, re, sh),
         \A g \in HandlesOf(ProcOf(f)) : g # f => Lvl(g)' = Lvl(g),
         \A g \in HandlesOf(ProcOf(f)) :
            g # f /\ Lvl(g) = PENDING_LOCK => re = posix[ProcOf(f)]["RESERVED_BYTE"]
  PROVE  /\ Held(f)' = IF Lvl(f)' # PENDING_LOCK THEN Lvl(f)'
                       ELSE IF re = "write" THEN RESERVED_LOCK ELSE SHARED_LOCK
         /\ \A g \in HandlesOf(ProcOf(f)) : g # f => Held(g)' = Held(g)
<1>1. f \in HandlesOf(ProcOf(f)) /\ ProcOf(f) \in Proc
  BY ProcOfHandle
<1>2. ASSUME NEW g \in HandlesOf(ProcOf(f)), g # f PROVE Held(g)' = Held(g)
  BY <1>1, <1>2, HeldAfter, HeldOf
<1> QED
  BY <1>1, <1>2, HeldAfter

(* A process outside of any call.                                          *)
LEMMA IdleOK ==
  ASSUME NEW p \in Proc, call'[p].at = "idle", Counted(p)', LevelsOK(p)',
         NEW re, ReservedByteOK(inode'[p].eFileLock, re),
         PosixEffect(p, PendingByte(inode'[p].eFileLock), re, SharedRangeOf(inode'[p].eFileLock))
  PROVE  ProcOK(p)'
BY DEF ProcOK, BytesOK, PosixEffect, PendingByte, ReservedByteOK, SharedRangeOf

(* What an invariant step is to show: it preserves the invariant and is a  *)
(* step of FileLock.                                                       *)
StepOK == IInv' /\ [FL!Next]_heldBar

(* A process that is in no call.                                           *)
LEMMA Entering ==
  ASSUME IInv, NEW p \in Proc, call[p] = Idle
  PROVE  /\ call[p].at = "idle" /\ call[p].f = <<>>
         /\ Counted(p) /\ LevelsOK(p) /\ BytesOK(p)
         /\ inode[p].eFileLock \in Level
         /\ \A g \in HandlesOf(p) : Lvl(g) = file[g].eFileLock /\ Lvl(g) \in Level
         /\ posix[p]["PENDING_BYTE"] = PendingByte(inode[p].eFileLock)
         /\ posix[p]["SHARED_FIRST"] = SharedRangeOf(inode[p].eFileLock)
         /\ ReservedByteOK(inode[p].eFileLock, posix[p]["RESERVED_BYTE"])
<1>1. call[p].at = "idle" /\ call[p].f = <<>>
  BY DEF Idle
<1>2. Counted(p) /\ LevelsOK(p) /\ BytesOK(p)
  BY <1>1 DEF IInv, ProcOK
<1>3. \A g \in HandlesOf(p) : Lvl(g) = file[g].eFileLock
  BY <1>1, LvlOf
<1>4. \A g \in HandlesOf(p) : Lvl(g) \in Level
  BY LvlType DEF IInv, HandlesOf
<1>5. inode[p].eFileLock \in Level
  BY DEF IInv, TypeOK, UnixInodeInfo
<1> QED
  BY <1>1, <1>2, <1>3, <1>4, <1>5 DEF BytesOK

(* Opening and closing: a handle without a lock changes its state between  *)
(* calls, and takes no lock from a sibling.                                *)
LEMMA StateStep ==
  ASSUME IInv, NEW f \in Handle, call[ProcOf(f)] = Idle, UNCHANGED call,
         file[f].eFileLock = NO_LOCK,
         NEW s, FileEffect(f, s, NO_LOCK),
         NEW e \in Level, NEW n, InodeEffect(ProcOf(f), e, inode[ProcOf(f)].nShared,
                                            inode[ProcOf(f)].nShared, n),
         IsFiniteSet(Opened(ProcOf(f))'), n = Cardinality(Opened(ProcOf(f))'),
         \/ e = inode[ProcOf(f)].eFileLock /\ UNCHANGED posix
         \/ /\ e = NO_LOCK /\ Lockers(ProcOf(f)) = {}
            /\ posix' = [posix EXCEPT ![ProcOf(f)] = Unlocked]
  PROVE  StepOK
<1> DEFINE p == ProcOf(f)
<1>1. p \in Proc /\ f \in HandlesOf(p)
  BY ProcOfHandle
<1>2. TypeOK
  BY DEF IInv
<1>3. /\ call[p].at = "idle" /\ call[p].f = <<>>
      /\ Counted(p) /\ LevelsOK(p) /\ BytesOK(p)
      /\ inode[p].eFileLock \in Level
      /\ \A g \in HandlesOf(p) : Lvl(g) = file[g].eFileLock /\ Lvl(g) \in Level
      /\ posix[p]["PENDING_BYTE"] = PendingByte(inode[p].eFileLock)
      /\ posix[p]["SHARED_FIRST"] = SharedRangeOf(inode[p].eFileLock)
      /\ ReservedByteOK(inode[p].eFileLock, posix[p]["RESERVED_BYTE"])
  BY <1>1, Entering
<1>4. CallEffect(p, "idle", <<>>, call[p].to)
  BY <1>2, <1>3, CallUpdates
<1>5. Lvl(f)' = NO_LOCK /\ \A g \in HandlesOf(p) : g # f => Lvl(g)' = Lvl(g)
  BY <1>3, <1>4, LvlsAfter
<1>6. \A g \in HandlesOf(p) : Lvl(g)' = Lvl(g)
  BY <1>3, <1>5
<1>7. Lockers(p)' = Lockers(p)
  BY <1>1, SetsAfter DEF Lockers
<1>8. Counted(p)'
  BY <1>3, <1>7 DEF Counted, InodeEffect
<1>9. \A g \in HandlesOf(p) : file'[g].eFileLock # NO_LOCK => file'[g].state = "open"
  BY <1>3 DEF LevelsOK, FileEffect, HandlesOf
<1>10. PICK re : /\ PosixEffect(p, PendingByte(e), re, SharedRangeOf(e)) /\ ReservedByteOK(e, re)
                 /\ \A g \in HandlesOf(p) : Lvl(g) = PENDING_LOCK => re = posix[p]["RESERVED_BYTE"]
  <2>1. CASE e = inode[p].eFileLock /\ UNCHANGED posix
    BY <1>1, <1>2, <1>3, <2>1, PosixUpdates
  <2>2. CASE /\ e = NO_LOCK /\ Lockers(p) = {}
             /\ posix' = [posix EXCEPT ![p] = Unlocked]
    <3>1. PosixEffect(p, "none", "none", "none")
      BY <1>1, <1>2, <2>2, PosixUpdates
    <3>2. \A g \in HandlesOf(p) : Lvl(g) = NO_LOCK
      BY <1>3, <2>2 DEF Lockers
    <3> QED
      BY <2>2, <3>1, <3>2 DEF PendingByte, SharedRangeOf, ReservedByteOK
  <2> QED
    BY <2>1, <2>2
<1>11. LevelsOK(p)'
  <2>1. HandlesOf(p)' = HandlesOf(p)
    BY DEF HandlesOf
  <2>2. \/ e = inode[p].eFileLock
        \/ e = NO_LOCK /\ \A g \in HandlesOf(p) : Lvl(g) = NO_LOCK
    BY <1>3 DEF Lockers
  <2>3. inode'[p].eFileLock = e
    BY DEF InodeEffect
  <2> QED
    BY <1>3, <1>6, <1>9, <2>1, <2>2, <2>3 DEF LevelsOK
<1>12. ProcOK(p)'
  BY <1>1, <1>4, <1>8, <1>10, <1>11, IdleOK DEF CallEffect, InodeEffect
<1>13. Held(f)' = Held(f) /\ \A g \in HandlesOf(p) : g # f => Held(g)' = Held(g)
  BY <1>1, <1>5, <1>6, <1>3, <1>10, HeldsAfter, HeldOf
<1>14. Only(p) /\ TypeOK'
  BY <1>4, <1>10, EffectsAreOnly
<1>15. IInv' /\ \A g \in Handle : ProcOf(g) # p => Held(g)' = Held(g)
  <2>1. \A b \in ByteRange : posix'[p][b] = posix[p][b] \/ posix'[p][b] = "none"
    BY <1>1 DEF Unlocked, IInv, TypeOK
  <2>2. \A q \in Proc, b \in ByteRange :
          q # p => /\ posix'[p][b] = "write" => posix[q][b] = "none"
                   /\ posix[q][b] = "write" => posix'[p][b] = "none"
    BY <1>1, <2>1 DEF IInv, KernelExcludes
  <2>3. \A g \in HandlesOf(p), q \in Proc :
          Held(g)' = EXCLUSIVE_LOCK /\ q # p => posix[q]["SHARED_FIRST"] = "none"
    BY <1>13 DEF IInv, ExclusiveAlone, HandlesOf
  <2>4. \A g \in Handle :
          ProcOf(g) # p /\ Held(g) = EXCLUSIVE_LOCK => posix'[p]["SHARED_FIRST"] = "none"
    BY <1>1, <2>1, Ranges DEF IInv, ExclusiveAlone
  <2> QED
    BY <1>1, <1>12, <1>14, <2>2, <2>3, <2>4, StepOf
<1>16. UNCHANGED heldBar
  BY <1>13, <1>15, Stutters DEF HandlesOf
<1> QED
  BY <1>15, <1>16 DEF StepOK

-----------------------------------------------------------------------------
(* What fcntl() allows.                                                    *)
ByteStep(p, b, type) == type = posix[p][b] \/ type = "none" \/ MaySet(p, b, type)

(* A step of a call made for f, from its effects and the state of the      *)
(* process after it.                                                       *)
LEMMA CallStep ==
  ASSUME IInv, NEW f \in Handle,
         call[ProcOf(f)].at = "drop" => call[ProcOf(f)].f = f,
         NEW s, NEW l, FileEffect(f, s, l),
         NEW e, NEW n1, NEW n2, NEW n3, InodeEffect(ProcOf(f), e, n1, n2, n3),
         NEW pe, NEW re, NEW sh, PosixEffect(ProcOf(f), pe, re, sh),
         NEW at, NEW c, NEW to, CallEffect(ProcOf(f), at, c, to),
         at = "drop" => c = f,
         ProcOK(ProcOf(f))',
         \A g \in HandlesOf(ProcOf(f)) :
            g # f /\ Lvl(g) = PENDING_LOCK => re = posix[ProcOf(f)]["RESERVED_BYTE"],
         ByteStep(ProcOf(f), "PENDING_BYTE", pe), ByteStep(ProcOf(f), "RESERVED_BYTE", re),
         ByteStep(ProcOf(f), "SHARED_FIRST", sh),
         \/ sh = "none" \/ posix[ProcOf(f)]["SHARED_FIRST"] # "none"
         \/ posix[ProcOf(f)]["PENDING_BYTE"] # "none",
         \/ Lvl(f)' # EXCLUSIVE_LOCK
         \/ Held(f) = EXCLUSIVE_LOCK
         \/ sh = "write" /\ MaySet(ProcOf(f), "SHARED_FIRST", "write")
  PROVE  /\ IInv'
         /\ \A g \in Handle : g # f => Held(g)' = Held(g)
         /\ Held(f)' = IF Lvl(f)' # PENDING_LOCK THEN Lvl(f)'
                       ELSE IF re = "write" THEN RESERVED_LOCK ELSE SHARED_LOCK
<1> DEFINE p == ProcOf(f)
<1>1. p \in Proc /\ f \in HandlesOf(p)
  BY ProcOfHandle
<1>2. \A g \in HandlesOf(p) : g # f => Lvl(g)' = Lvl(g)
  BY LvlsAfter
<1>3. /\ Held(f)' = IF Lvl(f)' # PENDING_LOCK THEN Lvl(f)'
                    ELSE IF re = "write" THEN RESERVED_LOCK ELSE SHARED_LOCK
      /\ \A g \in HandlesOf(p) : g # f => Held(g)' = Held(g)
  BY <1>2, HeldsAfter
<1>4. Only(p) /\ TypeOK'
  BY EffectsAreOnly
<1>5. ASSUME NEW q \in Proc, q # p, NEW b \in ByteRange
      PROVE  /\ posix'[p][b] = "write" => posix[q][b] = "none"
             /\ posix[q][b] = "write" => posix'[p][b] = "none"
  <2>1. ByteStep(p, b, posix'[p][b])
    BY Ranges DEF PosixEffect
  <2>2. posix[p][b] = "write" => posix[q][b] = "none"
    BY <1>1, <1>5 DEF IInv, KernelExcludes
  <2>3. posix[q][b] = "write" => posix[p][b] = "none"
    BY <1>1, <1>5 DEF IInv, KernelExcludes
  <2> QED
    BY <1>5, <2>1, <2>2, <2>3 DEF ByteStep, MaySet
<1>6. ASSUME NEW g \in HandlesOf(p), NEW q \in Proc, Held(g)' = EXCLUSIVE_LOCK, q # p
      PROVE  posix[q]["SHARED_FIRST"] = "none"
  <2>1. CASE Held(g) = EXCLUSIVE_LOCK
    BY <1>6, <2>1 DEF IInv, ExclusiveAlone, HandlesOf
  <2>2. CASE Held(g) # EXCLUSIVE_LOCK
    <3>1. g = f /\ Lvl(f)' = EXCLUSIVE_LOCK
      BY <1>3, <1>6, <2>2
    <3> QED
      BY <1>6, <2>2, <3>1 DEF MaySet
  <2> QED
    BY <2>1, <2>2
<1>7. ASSUME NEW g \in Handle, ProcOf(g) # p, Held(g) = EXCLUSIVE_LOCK
      PROVE  posix'[p]["SHARED_FIRST"] = "none"
  <2>1. posix[p]["SHARED_FIRST"] = "none"
    BY <1>1, <1>7 DEF IInv, ExclusiveAlone
  <2>2. posix[ProcOf(g)]["PENDING_BYTE"] = "write" /\ ProcOf(g) \in Proc
    BY <1>7, ProcOfHandle, ProcBacks DEF IInv, Backed
  <2>3. posix[p]["PENDING_BYTE"] = "none"
    BY <1>1, <1>7, <2>2, Ranges DEF IInv, KernelExcludes
  <2> QED
    BY <2>1, <2>3 DEF PosixEffect
<1>8. IInv' /\ \A g \in Handle : ProcOf(g) # p => Held(g)' = Held(g)
  BY <1>1, <1>4, <1>5, <1>6, <1>7, StepOf
<1> QED
  BY <1>3, <1>8 DEF HandlesOf

(* When no level changes nobody notices the step.                          *)
LEMMA UnnoticedStep ==
  ASSUME IInv', NEW f \in Handle, Held(f)' = Held(f),
         \A g \in Handle : g # f => Held(g)' = Held(g)
  PROVE  StepOK
BY Stutters DEF StepOK

-----------------------------------------------------------------------------
(* The counters of the inode.                                              *)
LEMMA InodeCounts ==
  ASSUME TypeOK, NEW p \in Proc, NEW i \in Int, NEW j \in Int
  PROVE  /\ inode' = [inode EXCEPT ![p].pUnused = i] =>
              InodeEffect(p, inode[p].eFileLock, inode[p].nShared, inode[p].nLock, inode[p].nRef)
         /\ inode' = [inode EXCEPT ![p].nRef = i] =>
              InodeEffect(p, inode[p].eFileLock, inode[p].nShared, inode[p].nLock, i)
         /\ inode' = [inode EXCEPT ![p].nRef = i, ![p].pUnused = j] =>
              InodeEffect(p, inode[p].eFileLock, inode[p].nShared, inode[p].nLock, i)
         /\ inode' = [inode EXCEPT ![p].nShared = i, ![p].nLock = j] =>
              InodeEffect(p, inode[p].eFileLock, i, j, inode[p].nRef)
<1>1. inode[p] \in UnixInodeInfo
  BY DEF TypeOK
<1>2. ASSUME NEW r \in UnixInodeInfo, inode' = [inode EXCEPT ![p] = r]
      PROVE  InodeEffect(p, r.eFileLock, r.nShared, r.nLock, r.nRef)
  BY <1>2 DEF TypeOK, InodeEffect
<1>3. ASSUME inode' = [inode EXCEPT ![p].pUnused = i]
      PROVE  InodeEffect(p, inode[p].eFileLock, inode[p].nShared, inode[p].nLock, inode[p].nRef)
  <2>1. [inode[p] EXCEPT !.pUnused = i] \in UnixInodeInfo
    BY <1>1 DEF UnixInodeInfo
  <2> QED
    BY <1>1, <1>2, <1>3, <2>1 DEF UnixInodeInfo
<1>4. ASSUME inode' = [inode EXCEPT ![p].nRef = i]
      PROVE  InodeEffect(p, inode[p].eFileLock, inode[p].nShared, inode[p].nLock, i)
  <2>1. [inode[p] EXCEPT !.nRef = i] \in UnixInodeInfo
    BY <1>1 DEF UnixInodeInfo
  <2> QED
    BY <1>1, <1>2, <1>4, <2>1 DEF UnixInodeInfo
<1>5. ASSUME inode' = [inode EXCEPT ![p].nRef = i, ![p].pUnused = j]
      PROVE  InodeEffect(p, inode[p].eFileLock, inode[p].nShared, inode[p].nLock, i)
  <2>1. [inode[p] EXCEPT !.nRef = i, !.pUnused = j] \in UnixInodeInfo
    BY <1>1 DEF UnixInodeInfo
  <2>2. inode' = [inode EXCEPT ![p] = [inode[p] EXCEPT !.nRef = i, !.pUnused = j]]
    BY <1>5 DEF TypeOK
  <2> QED
    BY <1>1, <1>2, <2>1, <2>2 DEF UnixInodeInfo
<1>6. ASSUME inode' = [inode EXCEPT ![p].nShared = i, ![p].nLock = j]
      PROVE  InodeEffect(p, inode[p].eFileLock, i, j, inode[p].nRef)
  <2>1. [inode[p] EXCEPT !.nShared = i, !.nLock = j] \in UnixInodeInfo
    BY <1>1 DEF UnixInodeInfo
  <2>2. inode' = [inode EXCEPT ![p] = [inode[p] EXCEPT !.nShared = i, !.nLock = j]]
    BY <1>6 DEF TypeOK
  <2> QED
    BY <1>1, <1>2, <2>1, <2>2 DEF UnixInodeInfo
<1> QED
  BY <1>3, <1>4, <1>5, <1>6

(* unixOpen() before findInodeInfo().                                      *)
LEMMA ReusableStep ==
  ASSUME IInv, NEW f \in Handle, findReusableFd(f)
  PROVE  StepOK
<1> DEFINE p == ProcOf(f)
<1> USE DEF IInv
<1>1. p \in Proc /\ f \in HandlesOf(p)
  BY ProcOfHandle
<1>2. call[p] = Idle /\ UNCHANGED <<posix, call>> /\ file[f].state = "closed"
  BY DEF findReusableFd
<1>3. Counted(p) /\ LevelsOK(p) /\ inode[p].eFileLock \in Level
  BY <1>1, <1>2, Entering
<1>4. file[f].eFileLock = NO_LOCK
  BY <1>1, <1>2, <1>3 DEF LevelsOK
<1>5. FileEffect(f, "opening", NO_LOCK)
  BY <1>4, FileUpdates DEF findReusableFd
<1>6. InodeEffect(p, inode[p].eFileLock, inode[p].nShared, inode[p].nLock, inode[p].nRef)
  <2>1. PICK taken \in 0 .. (IF inode[p].pUnused > 0 THEN 1 ELSE 0) :
          inode' = [inode EXCEPT ![p].pUnused = inode[p].pUnused - taken]
    BY DEF findReusableFd
  <2>2. inode[p].pUnused - taken \in Int
    BY <1>1 DEF TypeOK, UnixInodeInfo
  <2> QED
    BY <1>1, <2>1, <2>2, InodeCounts
<1>7. Opened(p)' = Opened(p)
  BY <1>2, <1>5, SetsAfter DEF Opened
<1> QED
  BY <1>2, <1>3, <1>4, <1>5, <1>6, <1>7, StateStep DEF Counted

(* unixOpen() ends: the handle is open and counted.                        *)
LEMMA FillInStep ==
  ASSUME IInv, NEW f \in Handle, fillInUnixFile(f)
  PROVE  StepOK
<1> DEFINE p == ProcOf(f)
<1> USE DEF IInv
<1>1. p \in Proc /\ f \in HandlesOf(p)
  BY ProcOfHandle
<1>2. call[p] = Idle /\ UNCHANGED <<posix, call>> /\ file[f].state = "opening"
  BY DEF fillInUnixFile
<1>3. Counted(p) /\ LevelsOK(p) /\ inode[p].eFileLock \in Level
  BY <1>1, <1>2, Entering
<1>4. file[f].eFileLock = NO_LOCK
  BY <1>1, <1>2, <1>3 DEF LevelsOK
<1>5. FileEffect(f, "open", NO_LOCK)
  BY <1>4, FileUpdates DEF fillInUnixFile
<1>6. InodeEffect(p, inode[p].eFileLock, inode[p].nShared, inode[p].nLock, inode[p].nRef + 1)
  <2>1. inode[p].nRef + 1 \in Int
    BY <1>1 DEF TypeOK, UnixInodeInfo
  <2> QED
    BY <1>1, <2>1, InodeCounts DEF fillInUnixFile
<1>7. Opened(p)' = Opened(p) \cup {f} /\ f \notin Opened(p)
  BY <1>2, <1>5, SetsAfter DEF Opened
<1>8. IsFiniteSet(Opened(p)') /\ inode[p].nRef + 1 = Cardinality(Opened(p)')
  BY <1>3, <1>7, FS_AddElement DEF Counted
<1> QED
  BY <1>2, <1>3, <1>4, <1>5, <1>6, <1>8, StateStep DEF Counted

(* unixClose(): as long as a sibling holds a lock no descriptor is closed. *)
LEMMA CloseStep ==
  ASSUME IInv, NEW f \in Handle, unixClose(f)
  PROVE  StepOK
<1> DEFINE p == ProcOf(f)
<1> USE DEF IInv
<1>1. p \in Proc /\ f \in HandlesOf(p)
  BY ProcOfHandle
<1>2. /\ call[p] = Idle /\ UNCHANGED call /\ file[f].state = "open"
      /\ file[f].eFileLock = NO_LOCK
  BY DEF unixClose, Entered
<1>3. Counted(p) /\ LevelsOK(p) /\ inode[p].eFileLock \in Level
  BY <1>1, <1>2, Entering
<1>4. FileEffect(f, "closed", NO_LOCK)
  BY FileUpdates DEF unixClose
<1>5. Opened(p)' = Opened(p) \ {f} /\ f \in Opened(p)
  BY <1>1, <1>2, <1>4, SetsAfter DEF Opened
<1>6. IsFiniteSet(Opened(p)') /\ inode[p].nRef - 1 = Cardinality(Opened(p)')
  BY <1>3, <1>5, FS_RemoveElement DEF Counted
<1>7. Lockers(p) \subseteq Opened(p) \ {f}
  BY <1>2, <1>3 DEF Lockers, Opened, LevelsOK
<1>8. inode[p].nLock = Cardinality(Lockers(p)) /\ IsFiniteSet(Lockers(p))
  BY <1>3 DEF Counted
<1>9. CASE inode[p].nRef = 1
  <2>1. Opened(p)' = {}
    BY <1>6, <1>9, FS_EmptySet
  <2>2. Lockers(p) = {}
    BY <1>5, <1>7, <2>1
  <2>3. InodeEffect(p, NO_LOCK, 0, 0, 0)
    BY <1>1, <1>9, InodeUpdates DEF unixClose
  <2>4. inode[p].nShared = 0
    BY <1>3, <2>2, FS_EmptySet DEF Counted
  <2>5. posix' = [posix EXCEPT ![p] = Unlocked]
    BY <1>9 DEF unixClose
  <2>6. IsFiniteSet(Opened(p)') /\ 0 = Cardinality(Opened(p)')
    BY <1>6, <2>1, FS_EmptySet
  <2>7. NO_LOCK \in Level /\ InodeEffect(p, NO_LOCK, inode[p].nShared, inode[p].nShared, 0)
    BY <2>3, <2>4
  <2> QED
    BY <1>2, <1>4, <2>2, <2>5, <2>6, <2>7, StateStep
<1>10. CASE inode[p].nRef # 1
  <2>1. InodeEffect(p, inode[p].eFileLock, inode[p].nShared, inode[p].nLock, inode[p].nRef - 1)
    <3>1. /\ inode[p].nRef - 1 \in Int
          /\ inode[p].pUnused + (IF inode[p].nLock > 0 THEN 1 ELSE 0) \in Int
      BY <1>1 DEF TypeOK, UnixInodeInfo
    <3>2. inode' = [inode EXCEPT ![p].nRef = inode[p].nRef - 1,
                     ![p].pUnused = inode[p].pUnused + (IF inode[p].nLock > 0 THEN 1 ELSE 0)]
      BY <1>10 DEF unixClose
    <3> QED
      BY <1>1, <3>1, <3>2, InodeCounts, Zenon
  <2>2. CASE inode[p].nLock > 0
    <3>1. inode[p].nRef > 1
      BY <1>1, <1>6, <1>10, FS_CardinalityType DEF TypeOK, UnixInodeInfo
    <3>2. UNCHANGED posix
      BY <2>2, <3>1 DEF unixClose
    <3> QED
      BY <1>2, <1>3, <1>4, <1>6, <2>1, <3>2, StateStep DEF Counted
  <2>3. CASE ~ (inode[p].nLock > 0)
    <3>1. Lockers(p) = {}
      BY <1>8, <2>3, FS_CardinalityType, FS_EmptySet
    <3>2. inode[p].eFileLock = NO_LOCK
      <4>1. \A g \in HandlesOf(p) : Lvl(g) = NO_LOCK
        BY <1>1, <1>2, <3>1, Entering DEF Lockers
      <4> QED
        BY <1>3, <4>1 DEF LevelsOK
    <3>3. posix' = [posix EXCEPT ![p] = Unlocked]
      BY <2>3 DEF unixClose
    <3> QED
      BY <1>2, <1>3, <1>4, <1>6, <2>1, <3>1, <3>2, <3>3, StateStep DEF Counted
  <2> QED
    BY <2>2, <2>3
<1> QED
  BY <1>9, <1>10

-----------------------------------------------------------------------------
(* What the kernel's locks of p keep from the handles of other processes.  *)
LEMMA KernelKeepsOut ==
  ASSUME IInv, NEW p \in Proc, NEW g \in Handle, ProcOf(g) # p
  PROVE  /\ posix[p]["SHARED_FIRST"] # "none" => Held(g) < PENDING_LOCK
         /\ MaySet(p, "RESERVED_BYTE", "write") => Held(g) # RESERVED_LOCK
         /\ MaySet(p, "SHARED_FIRST", "write") => Held(g) = NO_LOCK
         /\ Held(g) \in {NO_LOCK, SHARED_LOCK, RESERVED_LOCK, EXCLUSIVE_LOCK}
<1>1. ProcOf(g) \in Proc /\ g \in HandlesOf(ProcOf(g))
  BY ProcOfHandle
<1>2. Backed(ProcOf(g))
  BY <1>1, ProcBacks DEF IInv
<1>3. /\ Held(g) \in {NO_LOCK, SHARED_LOCK, RESERVED_LOCK, EXCLUSIVE_LOCK}
      /\ Held(g) # NO_LOCK => posix[ProcOf(g)]["SHARED_FIRST"] # "none"
      /\ Held(g) = RESERVED_LOCK => posix[ProcOf(g)]["RESERVED_BYTE"] = "write"
  BY <1>1, <1>2 DEF Backed
<1>4. posix[p]["SHARED_FIRST"] # "none" => Held(g) # EXCLUSIVE_LOCK
  BY DEF IInv, ExclusiveAlone
<1> QED
  BY <1>1, <1>3, <1>4 DEF MaySet

(* The levels of a process after f has got level l, its inode level e.     *)
LEMMA LevelsAfter ==
  ASSUME NEW f \in Handle, LevelsOK(ProcOf(f)),
         \A g \in HandlesOf(ProcOf(f)) : Lvl(g) \in Level,
         NEW e \in Level, inode'[ProcOf(f)].eFileLock = e,
         NEW l \in Level, Lvl(f)' = l,
         \A g \in HandlesOf(ProcOf(f)) : g # f => Lvl(g)' = Lvl(g),
         \A g \in HandlesOf(ProcOf(f)) : file'[g].eFileLock # NO_LOCK => file'[g].state = "open",
         l <= e, l >= RESERVED_LOCK => l = e,
         \A g \in HandlesOf(ProcOf(f)) : g # f =>
            /\ Lvl(g) <= e
            /\ l >= RESERVED_LOCK => Lvl(g) <= SHARED_LOCK
            /\ l = EXCLUSIVE_LOCK => Lvl(g) = NO_LOCK
            /\ Lvl(g) >= RESERVED_LOCK => l <= SHARED_LOCK /\ Lvl(g) = e
            /\ Lvl(g) = EXCLUSIVE_LOCK => l = NO_LOCK,
         e # NO_LOCK => \E g \in HandlesOf(ProcOf(f)) : Lvl(g)' = e
  PROVE  LevelsOK(ProcOf(f))'
<1> DEFINE p == ProcOf(f)
<1>1. HandlesOf(p)' = HandlesOf(p) /\ f \in HandlesOf(p)
  BY ProcOfHandle DEF HandlesOf
<1>2. ASSUME NEW g \in HandlesOf(p)
      PROVE  Lvl(g)' <= e /\ (Lvl(g)' >= RESERVED_LOCK => Lvl(g)' = e)
  BY <1>2
<1>3. ASSUME NEW g \in HandlesOf(p), NEW h \in HandlesOf(p), g # h
      PROVE  /\ Lvl(g)' >= RESERVED_LOCK => Lvl(h)' <= SHARED_LOCK
             /\ Lvl(g)' = EXCLUSIVE_LOCK => Lvl(h)' = NO_LOCK
  <2>1. CASE g = f
    BY <1>3, <2>1
  <2>2. CASE h = f
    BY <1>3, <2>2
  <2>3. CASE g # f /\ h # f
    BY <1>3, <2>3 DEF LevelsOK
  <2> QED
    BY <2>1, <2>2, <2>3
<1> QED
  BY <1>1, <1>2, <1>3 DEF LevelsOK

(* A call in progress.                                                     *)
LEMMA Calling ==
  ASSUME IInv, NEW f \in Handle, NEW s \in Step, s \notin {"idle", "killed"}, At(f, s)
  PROVE  /\ ProcOf(f) \in Proc /\ f \in HandlesOf(ProcOf(f))
         /\ call[ProcOf(f)].at = s /\ call[ProcOf(f)].f = f
         /\ call[ProcOf(f)].to \in {NO_LOCK, SHARED_LOCK, EXCLUSIVE_LOCK}
         /\ Counted(ProcOf(f)) /\ LevelsOK(ProcOf(f)) /\ BytesOK(ProcOf(f))
         /\ inode[ProcOf(f)].eFileLock \in Level
         /\ \A g \in HandlesOf(ProcOf(f)) :
              Lvl(g) \in Level /\ (g # f \/ s # "drop" => Lvl(g) = file[g].eFileLock)
         /\ f \in Opened(ProcOf(f)) /\ file[f].state = "open"
<1> DEFINE p == ProcOf(f)
<1>1. p \in Proc /\ f \in HandlesOf(p)
  BY ProcOfHandle
<1>2. call[p].at = s /\ call[p].f = f
  BY DEF At
<1>3. Counted(p) /\ LevelsOK(p) /\ BytesOK(p)
  BY <1>1, <1>2 DEF IInv, ProcOK
<1>4. \A g \in HandlesOf(p) : g # f \/ s # "drop" => Lvl(g) = file[g].eFileLock
  BY <1>1, <1>2, LvlOf
<1>5. \A g \in HandlesOf(p) : Lvl(g) \in Level
  BY LvlType DEF IInv, HandlesOf
<1>6. inode[p].eFileLock \in Level /\ call[p].to \in {NO_LOCK, SHARED_LOCK, EXCLUSIVE_LOCK}
  BY <1>1 DEF IInv, TypeOK, UnixInodeInfo, Call
<1>7. f \in Opened(p)
  BY <1>2, <1>3 DEF BytesOK
<1> QED
  BY <1>1, <1>2, <1>3, <1>4, <1>5, <1>6, <1>7 DEF Opened

(* A handle that has a lock keeps being counted, whatever the lock.        *)
LEMMA CountedStill ==
  ASSUME NEW f \in Handle, Counted(ProcOf(f)), NEW s, NEW l, FileEffect(f, s, l),
         (s = "open") <=> (file[f].state = "open"), (l # NO_LOCK) <=> (file[f].eFileLock # NO_LOCK),
         NEW e, InodeEffect(ProcOf(f), e, inode[ProcOf(f)].nShared, inode[ProcOf(f)].nLock,
                            inode[ProcOf(f)].nRef)
  PROVE  Counted(ProcOf(f))'
<1>1. Opened(ProcOf(f))' = Opened(ProcOf(f)) /\ Lockers(ProcOf(f))' = Lockers(ProcOf(f))
  BY ProcOfHandle, SetsAfter DEF Opened, Lockers
<1> QED
  BY <1>1 DEF Counted, InodeEffect

(* A handle that gets its first lock is counted.                           *)
LEMMA CountedMore ==
  ASSUME NEW f \in Handle, Counted(ProcOf(f)), FileEffect(f, "open", SHARED_LOCK),
         file[f].state = "open", file[f].eFileLock = NO_LOCK,
         NEW e, InodeEffect(ProcOf(f), e, inode[ProcOf(f)].nShared + 1, inode[ProcOf(f)].nLock + 1,
                            inode[ProcOf(f)].nRef)
  PROVE  Counted(ProcOf(f))'
<1> DEFINE p == ProcOf(f)
<1>1. Opened(p)' = Opened(p) /\ Lockers(p)' = Lockers(p) \cup {f} /\ f \notin Lockers(p)
  BY ProcOfHandle, SetsAfter DEF Opened, Lockers
<1>2. IsFiniteSet(Lockers(p)') /\ Cardinality(Lockers(p)') = Cardinality(Lockers(p)) + 1
  BY <1>1, FS_AddElement DEF Counted
<1> QED
  BY <1>1, <1>2 DEF Counted, InodeEffect

-----------------------------------------------------------------------------
(* unixLock(): SHARED beside a sibling.                                    *)
LEMMA SharedAgainStep ==
  ASSUME IInv, NEW f \in Handle, LockSharedAgain(f)
  PROVE  StepOK
<1> DEFINE p == ProcOf(f)
           e == inode[p].eFileLock
<1> USE DEF IInv
<1>1. p \in Proc /\ f \in HandlesOf(p)
  BY ProcOfHandle
<1>2. /\ call[p].at = "idle" /\ call[p].f = <<>>
      /\ Counted(p) /\ LevelsOK(p)
      /\ e \in {SHARED_LOCK, RESERVED_LOCK}
      /\ \A g \in HandlesOf(p) : Lvl(g) = file[g].eFileLock /\ Lvl(g) \in Level
      /\ posix[p]["PENDING_BYTE"] = PendingByte(e)
      /\ posix[p]["SHARED_FIRST"] = SharedRangeOf(e)
      /\ ReservedByteOK(e, posix[p]["RESERVED_BYTE"])
      /\ file[f].state = "open" /\ file[f].eFileLock = NO_LOCK
  BY <1>1, Entering DEF LockSharedAgain, Entered
<1>3. FileEffect(f, "open", SHARED_LOCK)
  <2>1. SHARED_LOCK \in Level /\ file' = [file EXCEPT ![f].eFileLock = SHARED_LOCK] /\ TypeOK
    BY DEF LockSharedAgain
  <2>2. FileEffect(f, file[f].state, SHARED_LOCK)
    BY ONLY <2>1, FileUpdates, f \in Handle, Zenon
  <2> QED
    BY <1>2, <2>2
<1>4. InodeEffect(p, e, inode[p].nShared + 1, inode[p].nLock + 1, inode[p].nRef)
  <2>1. inode[p].nShared + 1 \in Int /\ inode[p].nLock + 1 \in Int
    BY <1>1 DEF TypeOK, UnixInodeInfo
  <2>2. inode' = [inode EXCEPT ![p].nShared = inode[p].nShared + 1, ![p].nLock = inode[p].nLock + 1]
    BY <1>1 DEF LockSharedAgain
  <2> QED
    BY <1>1, <2>1, <2>2, InodeCounts, Zenon
<1>5. PosixEffect(p, posix[p]["PENDING_BYTE"], posix[p]["RESERVED_BYTE"], posix[p]["SHARED_FIRST"])
  BY <1>1, PosixUpdates DEF LockSharedAgain
<1>6. CallEffect(p, "idle", <<>>, call[p].to)
  BY <1>2, CallUpdates DEF LockSharedAgain
<1>7. Lvl(f)' = SHARED_LOCK /\ \A g \in HandlesOf(p) : g # f => Lvl(g)' = Lvl(g)
  BY <1>2, <1>3, <1>6, LvlsAfter
<1>8. Counted(p)'
  BY <1>2, <1>3, <1>4, CountedMore
<1>9. LevelsOK(p)'
  <2>1. \A g \in HandlesOf(p) : file'[g].eFileLock # NO_LOCK => file'[g].state = "open"
    BY <1>2, <1>3 DEF LevelsOK, FileEffect, HandlesOf
  <2>2. \A g \in HandlesOf(p) : Lvl(g) <= e /\ (Lvl(g) >= RESERVED_LOCK => Lvl(g) = e)
    BY <1>2 DEF LevelsOK
  <2>3. \E g \in HandlesOf(p) : Lvl(g)' = e
    <3>1. PICK g \in HandlesOf(p) : Lvl(g) = e
      BY <1>2 DEF LevelsOK
    <3> QED
      BY <1>2, <1>7, <3>1
  <2>4. e \in Level /\ inode'[p].eFileLock = e
    BY <1>2, <1>4 DEF InodeEffect
  <2> QED
    BY <1>2, <1>7, <2>1, <2>2, <2>3, <2>4, LevelsAfter
<1>10. ProcOK(p)'
  BY <1>1, <1>2, <1>4, <1>5, <1>6, <1>8, <1>9, IdleOK DEF CallEffect, InodeEffect
<1>11. posix[p]["SHARED_FIRST"] # "none"
  BY <1>2 DEF SharedRangeOf
<1>12. /\ IInv'
       /\ \A g \in Handle : g # f => Held(g)' = Held(g)
       /\ Held(f)' = SHARED_LOCK
  <2>1. \A b \in ByteRange : ByteStep(p, b, posix[p][b])
    BY DEF ByteStep
  <2> QED
    BY <1>1, <1>2, <1>3, <1>4, <1>5, <1>6, <1>7, <1>10, <1>11, <2>1, Ranges, CallStep
<1>13. Held(f) = NO_LOCK
  BY <1>1, <1>2, HeldOf
<1>14. \A g \in Handle : g # f => Held(g) < PENDING_LOCK
  <2>1. \A g \in HandlesOf(p) : Held(g) < PENDING_LOCK
    BY <1>1, <1>2, HeldOf DEF LevelsOK
  <2> QED
    BY <1>1, <1>11, <2>1, KernelKeepsOut DEF HandlesOf
<1> QED
  BY <1>12, <1>13, <1>14, Acquires DEF StepOK

(* unixLock(): the PENDING byte on the way to a SHARED lock.               *)
LEMMA SharedStep ==
  ASSUME IInv, NEW f \in Handle, LockShared(f)
  PROVE  StepOK
<1> DEFINE p == ProcOf(f)
<1> USE DEF IInv
<1>1. p \in Proc /\ f \in HandlesOf(p)
  BY ProcOfHandle
<1>2. /\ call[p].at = "idle" /\ call[p].f = <<>>
      /\ Counted(p) /\ LevelsOK(p)
      /\ inode[p].eFileLock = NO_LOCK
      /\ \A g \in HandlesOf(p) : Lvl(g) = file[g].eFileLock /\ Lvl(g) \in Level
      /\ posix[p]["PENDING_BYTE"] = "none"
      /\ posix[p]["SHARED_FIRST"] = "none"
      /\ posix[p]["RESERVED_BYTE"] = "none"
      /\ file[f].state = "open" /\ file[f].eFileLock = NO_LOCK
  BY <1>1, Entering DEF LockShared, Entered, PendingByte, SharedRangeOf, ReservedByteOK
<1>3. FileEffect(f, "open", NO_LOCK)
  BY <1>2, FileUpdates DEF LockShared
<1>4. InodeEffect(p, NO_LOCK, inode[p].nShared, inode[p].nLock, inode[p].nRef)
  BY <1>1, <1>2, InodeUpdates DEF LockShared
<1>5. PosixEffect(p, "read", "none", "none")
  BY <1>1, <1>2, PosixUpdates DEF LockShared
<1>6. CallEffect(p, "shared", f, SHARED_LOCK)
  BY CallUpdates DEF LockShared, Step
<1>7. Lvl(f)' = NO_LOCK /\ \A g \in HandlesOf(p) : g # f => Lvl(g)' = Lvl(g)
  BY <1>2, <1>3, <1>6, LvlsAfter
<1>8. Counted(p)'
  BY <1>2, <1>3, <1>4, CountedStill
<1>9. LevelsOK(p)'
  <2>1. HandlesOf(p)' = HandlesOf(p)
    BY DEF HandlesOf
  <2>2. \A g \in HandlesOf(p) : Lvl(g)' = Lvl(g)
    BY <1>1, <1>2, <1>7
  <2> QED
    BY <1>2, <2>1, <2>2 DEF LevelsOK, LockShared
<1>10. ProcOK(p)'
  <2>1. f \in Opened(p)'
    BY <1>1, <1>3, SetsAfter
  <2>2. BytesOK(p)'
    BY <1>4, <1>5, <1>6, <2>1 DEF BytesOK, PosixEffect, InodeEffect, CallEffect, SharedRangeOf,
                                  ReservedByteOK
  <2> QED
    BY <1>6, <1>8, <1>9, <2>2 DEF ProcOK, CallEffect
<1>11. Held(f) = NO_LOCK
  BY <1>1, <1>2, HeldOf
<1>12. /\ IInv'
       /\ \A g \in Handle : g # f => Held(g)' = Held(g)
       /\ Held(f)' = NO_LOCK
  <2>1. ByteStep(p, "PENDING_BYTE", "read") /\ ByteStep(p, "RESERVED_BYTE", "none")
        /\ ByteStep(p, "SHARED_FIRST", "none")
    BY DEF ByteStep, LockShared
  <2> QED
    BY <1>1, <1>2, <1>3, <1>4, <1>5, <1>6, <1>7, <1>10, <2>1, CallStep
<1> QED
  BY <1>11, <1>12, UnnoticedStep

(* unixLock(): the shared range.                                           *)
LEMMA SharedRangeStep ==
  ASSUME IInv, NEW f \in Handle, SharedRange(f)
  PROVE  StepOK
<1> DEFINE p == ProcOf(f)
<1> USE DEF IInv
<1>1. /\ p \in Proc /\ f \in HandlesOf(p)
      /\ call[p].at = "shared" /\ call[p].f = f
      /\ Counted(p) /\ LevelsOK(p) /\ BytesOK(p)
      /\ \A g \in HandlesOf(p) : Lvl(g) \in Level /\ Lvl(g) = file[g].eFileLock
      /\ f \in Opened(p) /\ file[f].state = "open"
  BY Calling DEF SharedRange, Step
<1>2. /\ inode[p].eFileLock = NO_LOCK
      /\ posix[p]["PENDING_BYTE"] = "read"
      /\ posix[p]["SHARED_FIRST"] = "none"
      /\ posix[p]["RESERVED_BYTE"] = "none"
  BY <1>1 DEF BytesOK, SharedRangeOf, ReservedByteOK
<1>3. \A g \in HandlesOf(p) : Lvl(g) = NO_LOCK /\ file[g].eFileLock = NO_LOCK
  BY <1>1, <1>2 DEF LevelsOK
<1>4. FileEffect(f, "open", NO_LOCK)
  BY <1>1, <1>3, FileUpdates DEF SharedRange
<1>5. InodeEffect(p, NO_LOCK, inode[p].nShared, inode[p].nLock, inode[p].nRef)
  BY <1>1, <1>2, InodeUpdates DEF SharedRange
<1>6. \/ /\ PosixEffect(p, "read", "none", "read") /\ CallEffect(p, "unpend", f, SHARED_LOCK)
         /\ MaySet(p, "SHARED_FIRST", "read")
      \/ PosixEffect(p, "read", "none", "none") /\ CallEffect(p, "unpend", f, NO_LOCK)
  BY <1>1, <1>2, PosixUpdates, CallUpdates DEF SharedRange, Step
<1>7. PICK sh \in {"none", "read"}, to \in {NO_LOCK, SHARED_LOCK} :
        /\ PosixEffect(p, "read", "none", sh) /\ CallEffect(p, "unpend", f, to)
        /\ (sh = "read") <=> (to = SHARED_LOCK)
        /\ sh = "none" \/ MaySet(p, "SHARED_FIRST", sh)
  BY <1>6
<1>8. Lvl(f)' = NO_LOCK /\ \A g \in HandlesOf(p) : g # f => Lvl(g)' = Lvl(g)
  BY <1>1, <1>4, <1>7, LvlsAfter
<1>9. Counted(p)'
  BY <1>1, <1>3, <1>4, <1>5, CountedStill
<1>10. LevelsOK(p)'
  <2>1. HandlesOf(p)' = HandlesOf(p)
    BY DEF HandlesOf
  <2>2. \A g \in HandlesOf(p) : Lvl(g)' = Lvl(g)
    BY <1>3, <1>8
  <2> QED
    BY <1>1, <2>1, <2>2 DEF LevelsOK, SharedRange
<1>11. ProcOK(p)'
  <2>1. f \in Opened(p)'
    BY <1>1, <1>4, SetsAfter
  <2>2. BytesOK(p)'
    BY <1>5, <1>7, <2>1 DEF BytesOK, PosixEffect, InodeEffect, CallEffect, SharedRangeOf,
                            ReservedByteOK
  <2> QED
    BY <1>7, <1>9, <1>10, <2>2 DEF ProcOK, CallEffect
<1>12. Held(f) = NO_LOCK
  BY <1>1, <1>3, HeldOf
<1>13. /\ IInv'
       /\ \A g \in Handle : g # f => Held(g)' = Held(g)
       /\ Held(f)' = NO_LOCK
  <2>1. ByteStep(p, "PENDING_BYTE", "read") /\ ByteStep(p, "RESERVED_BYTE", "none")
        /\ ByteStep(p, "SHARED_FIRST", sh)
    BY <1>2, <1>7 DEF ByteStep
  <2> QED
    BY <1>1, <1>2, <1>3, <1>4, <1>5, <1>7, <1>8, <1>11, <2>1, CallStep
<1> QED
  BY <1>12, <1>13, UnnoticedStep

(* The level of the inode and its counters.                                *)
LEMMA InodeLocks ==
  ASSUME TypeOK, NEW p \in Proc, NEW l \in Level, NEW i \in Int, NEW j \in Int, NEW k \in Int
  PROVE  /\ inode' = [inode EXCEPT ![p].eFileLock = l, ![p].nShared = i, ![p].nLock = j] =>
              InodeEffect(p, l, i, j, inode[p].nRef)
         /\ inode' = [inode EXCEPT ![p].nShared = i, ![p].nLock = j, ![p].eFileLock = l,
                                   ![p].pUnused = k] =>
              InodeEffect(p, l, i, j, inode[p].nRef)
<1>1. inode[p] \in UnixInodeInfo
  BY DEF TypeOK
<1>2. ASSUME NEW r \in UnixInodeInfo, inode' = [inode EXCEPT ![p] = r]
      PROVE  InodeEffect(p, r.eFileLock, r.nShared, r.nLock, r.nRef)
  BY <1>2 DEF TypeOK, InodeEffect
<1>3. ASSUME inode' = [inode EXCEPT ![p].eFileLock = l, ![p].nShared = i, ![p].nLock = j]
      PROVE  InodeEffect(p, l, i, j, inode[p].nRef)
  <2>1. [inode[p] EXCEPT !.eFileLock = l, !.nShared = i, !.nLock = j] \in UnixInodeInfo
    BY <1>1 DEF UnixInodeInfo
  <2>2. inode' = [inode EXCEPT ![p] = [inode[p] EXCEPT !.eFileLock = l, !.nShared = i, !.nLock = j]]
    BY <1>3 DEF TypeOK
  <2> QED
    BY <1>1, <1>2, <2>1, <2>2 DEF UnixInodeInfo
<1>4. ASSUME inode' = [inode EXCEPT ![p].nShared = i, ![p].nLock = j, ![p].eFileLock = l,
                                    ![p].pUnused = k]
      PROVE  InodeEffect(p, l, i, j, inode[p].nRef)
  <2>1. [inode[p] EXCEPT !.nShared = i, !.nLock = j, !.eFileLock = l, !.pUnused = k]
          \in UnixInodeInfo
    BY <1>1 DEF UnixInodeInfo
  <2>2. inode' = [inode EXCEPT ![p] = [inode[p] EXCEPT !.nShared = i, !.nLock = j, !.eFileLock = l,
                                                       !.pUnused = k]]
    BY <1>4 DEF TypeOK
  <2> QED
    BY <1>1, <1>2, <2>1, <2>2 DEF UnixInodeInfo
<1> QED
  BY <1>3, <1>4

(* unixLock(): the SHARED lock is there, or is not.                        *)
LEMMA DropPendingStep ==
  ASSUME IInv, NEW f \in Handle, DropPending(f)
  PROVE  StepOK
<1> DEFINE p == ProcOf(f)
<1> USE DEF IInv
<1>1. /\ p \in Proc /\ f \in HandlesOf(p)
      /\ call[p].at = "unpend" /\ call[p].f = f
      /\ Counted(p) /\ LevelsOK(p) /\ BytesOK(p)
      /\ \A g \in HandlesOf(p) : Lvl(g) \in Level /\ Lvl(g) = file[g].eFileLock
      /\ f \in Opened(p) /\ file[f].state = "open"
  BY Calling DEF DropPending, Step
<1>2. /\ inode[p].eFileLock = NO_LOCK
      /\ posix[p]["RESERVED_BYTE"] = "none"
      /\ posix[p]["SHARED_FIRST"] = IF call[p].to = SHARED_LOCK THEN "read" ELSE "none"
  BY <1>1 DEF BytesOK, SharedRangeOf, ReservedByteOK
<1>3. \A g \in HandlesOf(p) : Lvl(g) = NO_LOCK /\ file[g].eFileLock = NO_LOCK
  BY <1>1, <1>2 DEF LevelsOK
<1>4. PosixEffect(p, "none", "none", posix[p]["SHARED_FIRST"])
  BY <1>1, <1>2, PosixUpdates DEF DropPending
<1>5. CallEffect(p, "idle", <<>>, NO_LOCK)
  BY CallUpdates DEF DropPending
<1>6. /\ ByteStep(p, "PENDING_BYTE", "none") /\ ByteStep(p, "RESERVED_BYTE", "none")
      /\ ByteStep(p, "SHARED_FIRST", posix[p]["SHARED_FIRST"])
  BY DEF ByteStep
<1>7. Held(f) = NO_LOCK
  BY <1>1, <1>3, HeldOf
<1>8. CASE call[p].to = SHARED_LOCK
  <2>1. FileEffect(f, "open", SHARED_LOCK)
    <3>1. SHARED_LOCK \in Level /\ file' = [file EXCEPT ![f].eFileLock = SHARED_LOCK] /\ TypeOK
      BY <1>8 DEF DropPending
    <3>2. FileEffect(f, file[f].state, SHARED_LOCK)
      BY ONLY <3>1, FileUpdates, f \in Handle, Zenon
    <3> QED
      BY <1>1, <3>2
  <2>2. Lockers(p) = {}
    BY <1>3 DEF Lockers
  <2>3. inode[p].nShared = 0
    BY <1>1, <2>2, FS_EmptySet DEF Counted
  <2>4. InodeEffect(p, SHARED_LOCK, inode[p].nShared + 1, inode[p].nLock + 1, inode[p].nRef)
    <3>1. SHARED_LOCK \in Level /\ inode[p].nShared + 1 \in Int /\ inode[p].nLock + 1 \in Int
      BY <1>1 DEF TypeOK, UnixInodeInfo
    <3>2. inode' = [inode EXCEPT ![p].eFileLock = SHARED_LOCK, ![p].nShared = inode[p].nShared + 1,
                                 ![p].nLock = inode[p].nLock + 1]
      BY <1>1, <1>8, <2>3 DEF DropPending
    <3> QED
      BY <1>1, <3>1, <3>2, InodeLocks, Zenon
  <2>5. Lvl(f)' = SHARED_LOCK /\ \A g \in HandlesOf(p) : g # f => Lvl(g)' = Lvl(g)
    BY <1>1, <1>5, <2>1, LvlsAfter
  <2>6. Counted(p)'
    BY <1>1, <1>3, <2>1, <2>4, CountedMore
  <2>7. LevelsOK(p)'
    <3>1. \A g \in HandlesOf(p) : file'[g].eFileLock # NO_LOCK => file'[g].state = "open"
      BY <1>1, <2>1 DEF LevelsOK, FileEffect, HandlesOf
    <3>2. SHARED_LOCK \in Level /\ inode'[p].eFileLock = SHARED_LOCK
      BY <2>4 DEF InodeEffect
    <3> QED
      BY <1>1, <1>3, <2>5, <3>1, <3>2, LevelsAfter
  <2>8. ProcOK(p)'
    <3>1. PosixEffect(p, PendingByte(SHARED_LOCK), "none", SharedRangeOf(SHARED_LOCK))
          /\ ReservedByteOK(SHARED_LOCK, "none")
      BY <1>2, <1>4, <1>8 DEF PendingByte, SharedRangeOf, ReservedByteOK
    <3> QED
      BY <1>1, <1>5, <2>4, <2>6, <2>7, <3>1, IdleOK DEF CallEffect, InodeEffect
  <2>9. posix[p]["SHARED_FIRST"] = "read"
    BY <1>2, <1>8
  <2>10. /\ IInv'
         /\ \A g \in Handle : g # f => Held(g)' = Held(g)
         /\ Held(f)' = SHARED_LOCK
    BY <1>1, <1>3, <1>4, <1>5, <1>6, <2>1, <2>4, <2>5, <2>8, <2>9, CallStep
  <2>11. \A g \in Handle : g # f => Held(g) < PENDING_LOCK
    <3>1. \A g \in HandlesOf(p) : Held(g) < PENDING_LOCK
      BY <1>1, <1>3, HeldOf
    <3> QED
      BY <1>1, <2>9, <3>1, KernelKeepsOut DEF HandlesOf
  <2> QED
    BY <1>7, <2>10, <2>11, Acquires DEF StepOK
<1>9. CASE call[p].to # SHARED_LOCK
  <2>1. FileEffect(f, "open", NO_LOCK)
    BY <1>1, <1>3, <1>9, FileUpdates DEF DropPending
  <2>2. InodeEffect(p, NO_LOCK, inode[p].nShared, inode[p].nLock, inode[p].nRef)
    BY <1>1, <1>2, <1>9, InodeUpdates DEF DropPending
  <2>3. Lvl(f)' = NO_LOCK /\ \A g \in HandlesOf(p) : g # f => Lvl(g)' = Lvl(g)
    BY <1>1, <1>5, <2>1, LvlsAfter
  <2>4. Counted(p)'
    BY <1>1, <1>3, <2>1, <2>2, CountedStill
  <2>5. LevelsOK(p)'
    <3>1. \A g \in HandlesOf(p) : file'[g].eFileLock # NO_LOCK => file'[g].state = "open"
      BY <1>1, <1>9 DEF LevelsOK, DropPending
    <3>2. NO_LOCK \in Level /\ inode'[p].eFileLock = NO_LOCK
      BY <2>2 DEF InodeEffect
    <3> QED
      BY <1>1, <1>3, <2>3, <3>1, <3>2, LevelsAfter
  <2>6. ProcOK(p)'
    <3>1. PosixEffect(p, PendingByte(NO_LOCK), "none", SharedRangeOf(NO_LOCK))
          /\ ReservedByteOK(NO_LOCK, "none")
      BY <1>2, <1>4, <1>9 DEF PendingByte, SharedRangeOf, ReservedByteOK
    <3> QED
      BY <1>1, <1>5, <2>2, <2>4, <2>5, <3>1, IdleOK DEF CallEffect, InodeEffect
  <2>7. /\ IInv'
        /\ \A g \in Handle : g # f => Held(g)' = Held(g)
        /\ Held(f)' = NO_LOCK
    BY <1>1, <1>2, <1>3, <1>4, <1>5, <1>6, <1>9, <2>1, <2>2, <2>3, <2>6, CallStep
  <2> QED
    BY <1>7, <2>7, UnnoticedStep
<1> QED
  BY <1>8, <1>9

(* The levels of a handle and of its inode, set together.                  *)
LEMMA SetLevelsEffect ==
  ASSUME TypeOK, NEW f \in Handle, NEW l \in Level, SetLevels(f, l)
  PROVE  /\ FileEffect(f, file[f].state, l)
         /\ InodeEffect(ProcOf(f), l, inode[ProcOf(f)].nShared, inode[ProcOf(f)].nLock,
                        inode[ProcOf(f)].nRef)
<1>1. FileEffect(f, file[f].state, l)
  BY FileUpdates DEF SetLevels
<1>2. ProcOf(f) \in Proc
  BY ProcOfHandle
<1> QED
  BY <1>1, <1>2, InodeUpdates DEF SetLevels

(* The handle that may go on to RESERVED or more is the highest of its     *)
(* process.                                                                *)
LEMMA HighestAlone ==
  ASSUME NEW p \in Proc, LevelsOK(p), \A g \in HandlesOf(p) : Lvl(g) \in Level,
         NEW f \in HandlesOf(p), Lvl(f) = inode[p].eFileLock
  PROVE  \A g \in HandlesOf(p) : g # f => Lvl(g) <= SHARED_LOCK
BY DEF LevelsOK

(* unixLock(): RESERVED.                                                   *)
LEMMA ReservedStep ==
  ASSUME IInv, NEW f \in Handle, LockReserved(f)
  PROVE  StepOK
<1> DEFINE p == ProcOf(f)
<1> USE DEF IInv
<1>1. p \in Proc /\ f \in HandlesOf(p)
  BY ProcOfHandle
<1>2. /\ call[p].at = "idle" /\ call[p].f = <<>>
      /\ Counted(p) /\ LevelsOK(p)
      /\ inode[p].eFileLock = SHARED_LOCK
      /\ \A g \in HandlesOf(p) : Lvl(g) = file[g].eFileLock /\ Lvl(g) \in Level
      /\ posix[p]["PENDING_BYTE"] = "none"
      /\ posix[p]["SHARED_FIRST"] = "read"
      /\ file[f].state = "open" /\ file[f].eFileLock = SHARED_LOCK
      /\ MaySet(p, "RESERVED_BYTE", "write")
  BY <1>1, Entering DEF LockReserved, Entered, NotPrecluded, PendingByte, SharedRangeOf
<1>3. /\ FileEffect(f, "open", RESERVED_LOCK)
      /\ InodeEffect(p, RESERVED_LOCK, inode[p].nShared, inode[p].nLock, inode[p].nRef)
  <2>1. RESERVED_LOCK \in Level
    OBVIOUS
  <2> QED
    BY <1>2, <2>1, SetLevelsEffect DEF LockReserved
<1>4. PosixEffect(p, "none", "write", "read")
  BY <1>1, <1>2, PosixUpdates DEF LockReserved
<1>5. CallEffect(p, "idle", <<>>, call[p].to)
  BY <1>2, CallUpdates DEF LockReserved
<1>6. Lvl(f)' = RESERVED_LOCK /\ \A g \in HandlesOf(p) : g # f => Lvl(g)' = Lvl(g)
  BY <1>2, <1>3, <1>5, LvlsAfter
<1>7. \A g \in HandlesOf(p) : Lvl(g) <= SHARED_LOCK
  BY <1>2 DEF LevelsOK
<1>8. Counted(p)'
  BY <1>2, <1>3, CountedStill
<1>9. LevelsOK(p)'
  <2>1. \A g \in HandlesOf(p) : file'[g].eFileLock # NO_LOCK => file'[g].state = "open"
    BY <1>2, <1>3 DEF LevelsOK, FileEffect, HandlesOf
  <2>2. RESERVED_LOCK \in Level /\ inode'[p].eFileLock = RESERVED_LOCK
    BY <1>3 DEF InodeEffect
  <2> QED
    BY <1>1, <1>2, <1>6, <1>7, <2>1, <2>2, LevelsAfter
<1>10. ProcOK(p)'
  <2>1. PosixEffect(p, PendingByte(RESERVED_LOCK), "write", SharedRangeOf(RESERVED_LOCK))
        /\ ReservedByteOK(RESERVED_LOCK, "write")
    BY <1>4 DEF PendingByte, SharedRangeOf, ReservedByteOK
  <2> QED
    BY <1>1, <1>3, <1>5, <1>8, <1>9, <2>1, IdleOK DEF CallEffect, InodeEffect
<1>11. /\ IInv'
       /\ \A g \in Handle : g # f => Held(g)' = Held(g)
       /\ Held(f)' = RESERVED_LOCK
  <2>1. ByteStep(p, "PENDING_BYTE", "none") /\ ByteStep(p, "RESERVED_BYTE", "write")
        /\ ByteStep(p, "SHARED_FIRST", "read")
    BY <1>2 DEF ByteStep
  <2> QED
    BY <1>1, <1>2, <1>3, <1>4, <1>5, <1>6, <1>7, <1>10, <2>1, CallStep
<1>12. \A g \in HandlesOf(p) : Held(g) < RESERVED_LOCK
  BY <1>1, <1>2, <1>7, HeldOf
<1>13. \A g \in Handle : g # f => Held(g) < RESERVED_LOCK
  BY <1>1, <1>2, <1>12, KernelKeepsOut DEF HandlesOf
<1> QED
  BY <1>1, <1>11, <1>12, <1>13, Acquires DEF StepOK

(* unixLock(): the PENDING byte on the way to an EXCLUSIVE lock.           *)
LEMMA ExclusiveStep ==
  ASSUME IInv, NEW f \in Handle, LockExclusive(f)
  PROVE  StepOK
<1> DEFINE p == ProcOf(f)
           e == inode[p].eFileLock
           re == posix[p]["RESERVED_BYTE"]
<1> USE DEF IInv
<1>1. p \in Proc /\ f \in HandlesOf(p)
  BY ProcOfHandle
<1>2. /\ call[p].at = "idle" /\ call[p].f = <<>>
      /\ Counted(p) /\ LevelsOK(p)
      /\ e \in SHARED_LOCK .. PENDING_LOCK
      /\ \A g \in HandlesOf(p) : Lvl(g) = file[g].eFileLock /\ Lvl(g) \in Level
      /\ posix[p]["PENDING_BYTE"] = PendingByte(e)
      /\ posix[p]["SHARED_FIRST"] = "read"
      /\ ReservedByteOK(e, re)
      /\ file[f].state = "open" /\ file[f].eFileLock = e
  BY <1>1, Entering DEF LockExclusive, Entered, NotPrecluded, SharedRangeOf
<1>3. FileEffect(f, "open", e)
  BY <1>2, FileUpdates DEF LockExclusive
<1>4. InodeEffect(p, e, inode[p].nShared, inode[p].nLock, inode[p].nRef)
  BY <1>1, InodeUpdates DEF LockExclusive
<1>5. PosixEffect(p, "write", re, "read") /\ ByteStep(p, "PENDING_BYTE", "write")
  BY <1>1, <1>2, PosixUpdates DEF LockExclusive, PendingByte, ByteStep
<1>6. CallEffect(p, "excl", f, EXCLUSIVE_LOCK)
  BY CallUpdates DEF LockExclusive, Step
<1>7. Lvl(f)' = e /\ \A g \in HandlesOf(p) : g # f => Lvl(g)' = Lvl(g)
  BY <1>2, <1>3, <1>6, LvlsAfter
<1>8. \A g \in HandlesOf(p) : Lvl(g)' = Lvl(g)
  BY <1>1, <1>2, <1>7
<1>9. Counted(p)'
  BY <1>2, <1>3, <1>4, CountedStill
<1>10. LevelsOK(p)'
  <2>1. HandlesOf(p)' = HandlesOf(p)
    BY DEF HandlesOf
  <2> QED
    BY <1>2, <1>8, <2>1 DEF LevelsOK, LockExclusive
<1>11. ProcOK(p)'
  <2>1. f \in Opened(p)'
    BY <1>1, <1>3, SetsAfter
  <2>2. BytesOK(p)'
    BY <1>2, <1>3, <1>4, <1>5, <1>6, <2>1
    DEF BytesOK, PosixEffect, InodeEffect, CallEffect, FileEffect, SharedRangeOf
  <2> QED
    BY <1>6, <1>9, <1>10, <2>2 DEF ProcOK, CallEffect
<1>12. /\ IInv'
       /\ \A g \in Handle : g # f => Held(g)' = Held(g)
       /\ Held(f)' = IF Lvl(f)' # PENDING_LOCK THEN Lvl(f)'
                     ELSE IF re = "write" THEN RESERVED_LOCK ELSE SHARED_LOCK
  <2>1. ByteStep(p, "RESERVED_BYTE", re) /\ ByteStep(p, "SHARED_FIRST", "read")
    BY <1>2 DEF ByteStep
  <2> QED
    BY <1>1, <1>2, <1>3, <1>4, <1>5, <1>6, <1>7, <1>11, <2>1, CallStep
<1>13. Held(f)' = Held(f)
  BY <1>1, <1>2, <1>7, <1>12, HeldOf
<1> QED
  BY <1>12, <1>13, UnnoticedStep

(* The only handle with a lock, when the inode counts one.                 *)
LEMMA OnlyLocker ==
  ASSUME NEW p \in Proc, Counted(p), NEW f \in HandlesOf(p), file[f].eFileLock # NO_LOCK,
         inode[p].nShared = 1
  PROVE  Lockers(p) = {f} /\ \A g \in HandlesOf(p) : g # f => file[g].eFileLock = NO_LOCK
<1>1. IsFiniteSet(Lockers(p)) /\ Cardinality(Lockers(p)) = 1
  BY DEF Counted
<1>2. \E x : Lockers(p) = {x}
  BY <1>1, FS_Singleton
<1>3. f \in Lockers(p)
  BY DEF Lockers
<1> QED
  BY <1>2, <1>3 DEF Lockers

(* unixLock(): EXCLUSIVE, or a PENDING lock that is kept.                  *)
LEMMA ExclusiveRangeStep ==
  ASSUME IInv, NEW f \in Handle, ExclusiveRange(f)
  PROVE  StepOK
<1> DEFINE p == ProcOf(f)
           e == inode[p].eFileLock
           re == posix[p]["RESERVED_BYTE"]
<1> USE DEF IInv
<1>1. /\ p \in Proc /\ f \in HandlesOf(p)
      /\ call[p].at = "excl" /\ call[p].f = f
      /\ Counted(p) /\ LevelsOK(p) /\ BytesOK(p)
      /\ \A g \in HandlesOf(p) : Lvl(g) \in Level /\ Lvl(g) = file[g].eFileLock
      /\ f \in Opened(p) /\ file[f].state = "open"
  BY Calling DEF ExclusiveRange, Step
<1>2. /\ e \in SHARED_LOCK .. PENDING_LOCK /\ file[f].eFileLock = e
      /\ posix[p]["PENDING_BYTE"] = "write"
      /\ posix[p]["SHARED_FIRST"] = "read"
      /\ ReservedByteOK(e, re)
  BY <1>1 DEF BytesOK, SharedRangeOf
<1>3. CallEffect(p, "idle", <<>>, NO_LOCK)
  BY CallUpdates DEF ExclusiveRange
<1>4. \A g \in HandlesOf(p) : g # f => Lvl(g) <= SHARED_LOCK
  BY <1>1, <1>2, HighestAlone
<1>5. Held(f) = IF e # PENDING_LOCK THEN e ELSE IF re = "write" THEN RESERVED_LOCK ELSE SHARED_LOCK
  BY <1>1, <1>2, HeldOf
<1>6. CASE inode[p].nShared = 1 /\ MaySet(p, "SHARED_FIRST", "write")
  <2>1. /\ FileEffect(f, "open", EXCLUSIVE_LOCK)
        /\ InodeEffect(p, EXCLUSIVE_LOCK, inode[p].nShared, inode[p].nLock, inode[p].nRef)
    <3>1. EXCLUSIVE_LOCK \in Level
      OBVIOUS
    <3> QED
      BY <1>1, <1>6, <3>1, SetLevelsEffect DEF ExclusiveRange
  <2>2. PosixEffect(p, "write", re, "write")
    BY <1>1, <1>2, <1>6, PosixUpdates DEF ExclusiveRange
  <2>3. Lvl(f)' = EXCLUSIVE_LOCK /\ \A g \in HandlesOf(p) : g # f => Lvl(g)' = Lvl(g)
    BY <1>1, <1>3, <2>1, LvlsAfter
  <2>4. \A g \in HandlesOf(p) : g # f => Lvl(g) = NO_LOCK
    BY <1>1, <1>2, <1>6, OnlyLocker
  <2>5. Counted(p)'
    BY <1>1, <1>2, <2>1, CountedStill
  <2>6. LevelsOK(p)'
    <3>1. \A g \in HandlesOf(p) : file'[g].eFileLock # NO_LOCK => file'[g].state = "open"
      BY <1>1, <2>1 DEF LevelsOK, FileEffect, HandlesOf
    <3>2. EXCLUSIVE_LOCK \in Level /\ inode'[p].eFileLock = EXCLUSIVE_LOCK
      BY <2>1 DEF InodeEffect
    <3> QED
      BY <1>1, <2>3, <2>4, <3>1, <3>2, LevelsAfter
  <2>7. ProcOK(p)'
    <3>1. PosixEffect(p, PendingByte(EXCLUSIVE_LOCK), re, SharedRangeOf(EXCLUSIVE_LOCK))
          /\ ReservedByteOK(EXCLUSIVE_LOCK, re)
      BY <2>2 DEF PendingByte, SharedRangeOf, ReservedByteOK
    <3> QED
      BY <1>1, <1>3, <2>1, <2>5, <2>6, <3>1, IdleOK DEF CallEffect, InodeEffect
  <2>8. /\ IInv'
        /\ \A g \in Handle : g # f => Held(g)' = Held(g)
        /\ Held(f)' = EXCLUSIVE_LOCK
    <3>1. ByteStep(p, "PENDING_BYTE", "write") /\ ByteStep(p, "RESERVED_BYTE", re)
          /\ ByteStep(p, "SHARED_FIRST", "write")
      BY <1>2, <1>6 DEF ByteStep
    <3> QED
      BY <1>1, <1>2, <1>3, <1>6, <2>1, <2>2, <2>3, <2>4, <2>7, <3>1, CallStep
  <2>9. \A g \in Handle : g # f => Held(g) = NO_LOCK
    <3>1. \A g \in HandlesOf(p) : g # f => Held(g) = NO_LOCK
      BY <1>1, <2>4, HeldOf
    <3> QED
      BY <1>1, <1>6, <3>1, KernelKeepsOut DEF HandlesOf
  <2>10. Held(f) < EXCLUSIVE_LOCK
    BY <1>2, <1>5
  <2> QED
    BY <2>8, <2>9, <2>10, Acquires DEF StepOK
<1>7. CASE ~ (inode[p].nShared = 1 /\ MaySet(p, "SHARED_FIRST", "write"))
  <2>1. /\ FileEffect(f, "open", PENDING_LOCK)
        /\ InodeEffect(p, PENDING_LOCK, inode[p].nShared, inode[p].nLock, inode[p].nRef)
    <3>1. PENDING_LOCK \in Level
      OBVIOUS
    <3> QED
      BY <1>1, <1>7, <3>1, SetLevelsEffect DEF ExclusiveRange
  <2>2. PosixEffect(p, "write", re, "read")
    BY <1>1, <1>2, <1>7, PosixUpdates DEF ExclusiveRange
  <2>3. Lvl(f)' = PENDING_LOCK /\ \A g \in HandlesOf(p) : g # f => Lvl(g)' = Lvl(g)
    BY <1>1, <1>3, <2>1, LvlsAfter
  <2>4. Counted(p)'
    BY <1>1, <1>2, <2>1, CountedStill
  <2>5. LevelsOK(p)'
    <3>1. \A g \in HandlesOf(p) : file'[g].eFileLock # NO_LOCK => file'[g].state = "open"
      BY <1>1, <2>1 DEF LevelsOK, FileEffect, HandlesOf
    <3>2. PENDING_LOCK \in Level /\ inode'[p].eFileLock = PENDING_LOCK
      BY <2>1 DEF InodeEffect
    <3> QED
      BY <1>1, <1>4, <2>3, <3>1, <3>2, LevelsAfter
  <2>6. ProcOK(p)'
    <3>1. PosixEffect(p, PendingByte(PENDING_LOCK), re, SharedRangeOf(PENDING_LOCK))
          /\ ReservedByteOK(PENDING_LOCK, re)
      BY <2>2 DEF PendingByte, SharedRangeOf, ReservedByteOK
    <3> QED
      BY <1>1, <1>3, <2>1, <2>4, <2>5, <3>1, IdleOK DEF CallEffect, InodeEffect
  <2>7. /\ IInv'
        /\ \A g \in Handle : g # f => Held(g)' = Held(g)
        /\ Held(f)' = IF re = "write" THEN RESERVED_LOCK ELSE SHARED_LOCK
    <3>1. ByteStep(p, "PENDING_BYTE", "write") /\ ByteStep(p, "RESERVED_BYTE", re)
          /\ ByteStep(p, "SHARED_FIRST", "read")
      BY <1>2 DEF ByteStep
    <3> QED
      BY <1>1, <1>2, <1>3, <2>1, <2>2, <2>3, <2>6, <3>1, CallStep
  <2>8. Held(f)' = Held(f)
    BY <1>2, <1>5, <2>7 DEF ReservedByteOK
  <2> QED
    BY <2>7, <2>8, UnnoticedStep
<1> QED
  BY <1>6, <1>7

-----------------------------------------------------------------------------
(* posixUnlock() begins.                                                   *)
LEMMA UnlockStep ==
  ASSUME IInv, NEW f \in Handle, NEW to \in {NO_LOCK, SHARED_LOCK}, unixUnlock(f, to)
  PROVE  StepOK
<1> DEFINE p == ProcOf(f)
           e == inode[p].eFileLock
           l == file[f].eFileLock
           pe == posix[p]["PENDING_BYTE"]
           re == posix[p]["RESERVED_BYTE"]
           sh == posix[p]["SHARED_FIRST"]
           at == IF l = SHARED_LOCK THEN "drop" ELSE IF to = SHARED_LOCK THEN "reread" ELSE "unreserve"
<1> USE DEF IInv
<1>1. p \in Proc /\ f \in HandlesOf(p)
  BY ProcOfHandle
<1>2. /\ call[p].at = "idle" /\ call[p].f = <<>>
      /\ Counted(p) /\ LevelsOK(p) /\ e \in Level
      /\ \A g \in HandlesOf(p) : Lvl(g) = file[g].eFileLock /\ Lvl(g) \in Level
      /\ pe = PendingByte(e) /\ sh = SharedRangeOf(e) /\ ReservedByteOK(e, re)
      /\ file[f].state = "open" /\ to < l
  BY <1>1, Entering DEF unixUnlock, Entered
<1>3. FileEffect(f, "open", l)
  BY <1>2, FileUpdates DEF unixUnlock
<1>4. InodeEffect(p, e, inode[p].nShared, inode[p].nLock, inode[p].nRef)
  BY <1>1, InodeUpdates DEF unixUnlock
<1>5. PosixEffect(p, pe, re, sh)
  BY <1>1, PosixUpdates DEF unixUnlock
<1>6. CallEffect(p, at, f, to)
  <2>1. at \in Step /\ to \in {NO_LOCK, SHARED_LOCK, EXCLUSIVE_LOCK} /\ Goto(f, at, to) /\ TypeOK
    BY DEF unixUnlock, Step
  <2> QED
    BY <2>1, CallUpdates
<1>7. Lvl(f)' = l /\ \A g \in HandlesOf(p) : g # f => Lvl(g)' = Lvl(g)
  BY <1>2, <1>3, <1>6, LvlsAfter
<1>8. \A g \in HandlesOf(p) : Lvl(g)' = Lvl(g)
  BY <1>1, <1>2, <1>7
<1>9. Counted(p)'
  BY <1>2, <1>3, <1>4, CountedStill
<1>10. LevelsOK(p)'
  <2>1. HandlesOf(p)' = HandlesOf(p)
    BY DEF HandlesOf
  <2> QED
    BY <1>2, <1>8, <2>1 DEF LevelsOK, unixUnlock
<1>11. ProcOK(p)'
  <2>1. f \in Opened(p)'
    BY <1>1, <1>3, SetsAfter
  <2>2. l \in Level /\ l <= e /\ (l >= RESERVED_LOCK => l = e)
    BY <1>1, <1>2 DEF LevelsOK
  <2>3. BytesOK(p)'
    BY <1>2, <1>3, <1>4, <1>5, <1>6, <2>1, <2>2
    DEF BytesOK, PosixEffect, InodeEffect, CallEffect, FileEffect
  <2> QED
    BY <1>6, <1>9, <1>10, <2>3 DEF ProcOK, CallEffect
<1>12. Held(f) # NO_LOCK
  BY <1>1, <1>2, HeldOf
<1>13. /\ IInv'
       /\ \A g \in Handle : g # f => Held(g)' = Held(g)
       /\ Held(f)' = IF Lvl(f)' # PENDING_LOCK THEN Lvl(f)'
                     ELSE IF re = "write" THEN RESERVED_LOCK ELSE SHARED_LOCK
  <2>1. ByteStep(p, "PENDING_BYTE", pe) /\ ByteStep(p, "RESERVED_BYTE", re)
        /\ ByteStep(p, "SHARED_FIRST", sh)
    BY DEF ByteStep
  <2>2. Lvl(f)' = EXCLUSIVE_LOCK => Held(f) = EXCLUSIVE_LOCK
    BY ONLY <1>1, <1>8, HeldOf
  <2>3. sh = "none" \/ sh # "none"
    OBVIOUS
  <2> QED
    BY <1>1, <1>2, <1>3, <1>4, <1>5, <1>6, <1>11, <2>1, <2>2, <2>3, CallStep
<1>14. Held(f)' = Held(f)
  BY <1>1, <1>2, <1>7, <1>13, HeldOf
<1> QED
  BY <1>13, <1>14, UnnoticedStep

(* posixUnlock(): the shared range becomes a read lock again.              *)
LEMMA ReadSharedStep ==
  ASSUME IInv, NEW f \in Handle, ReadSharedRange(f)
  PROVE  StepOK
<1> DEFINE p == ProcOf(f)
           e == inode[p].eFileLock
           pe == posix[p]["PENDING_BYTE"]
           re == posix[p]["RESERVED_BYTE"]
<1> USE DEF IInv
<1>1. /\ p \in Proc /\ f \in HandlesOf(p)
      /\ call[p].at = "reread" /\ call[p].f = f
      /\ Counted(p) /\ LevelsOK(p) /\ BytesOK(p) /\ e \in Level
      /\ \A g \in HandlesOf(p) : Lvl(g) \in Level /\ Lvl(g) = file[g].eFileLock
      /\ f \in Opened(p) /\ file[f].state = "open"
  BY Calling DEF ReadSharedRange, Step
<1>2. /\ e >= RESERVED_LOCK /\ file[f].eFileLock = e
      /\ pe = PendingByte(e) /\ posix[p]["SHARED_FIRST"] = SharedRangeOf(e)
      /\ ReservedByteOK(e, re)
  BY <1>1 DEF BytesOK
<1>3. FileEffect(f, "open", e)
  BY <1>1, <1>2, FileUpdates DEF ReadSharedRange
<1>4. InodeEffect(p, e, inode[p].nShared, inode[p].nLock, inode[p].nRef)
  BY <1>1, InodeUpdates DEF ReadSharedRange
<1>5. PosixEffect(p, pe, re, "read")
  BY <1>1, PosixUpdates DEF ReadSharedRange
<1>6. CallEffect(p, "unreserve", f, SHARED_LOCK)
  BY CallUpdates DEF ReadSharedRange, Step
<1>7. Lvl(f)' = e /\ \A g \in HandlesOf(p) : g # f => Lvl(g)' = Lvl(g)
  BY <1>1, <1>3, <1>6, LvlsAfter
<1>8. \A g \in HandlesOf(p) : Lvl(g)' = Lvl(g)
  BY <1>1, <1>2, <1>7
<1>9. Counted(p)'
  BY <1>1, <1>2, <1>3, <1>4, CountedStill
<1>10. LevelsOK(p)'
  <2>1. HandlesOf(p)' = HandlesOf(p)
    BY DEF HandlesOf
  <2> QED
    BY <1>1, <1>8, <2>1 DEF LevelsOK, ReadSharedRange
<1>11. ProcOK(p)'
  <2>1. f \in Opened(p)'
    BY <1>1, <1>3, SetsAfter
  <2>2. BytesOK(p)'
    BY <1>2, <1>3, <1>4, <1>5, <1>6, <2>1
    DEF BytesOK, PosixEffect, InodeEffect, CallEffect, FileEffect
  <2> QED
    BY <1>6, <1>9, <1>10, <2>2 DEF ProcOK, CallEffect
<1>12. /\ IInv'
       /\ \A g \in Handle : g # f => Held(g)' = Held(g)
       /\ Held(f)' = IF Lvl(f)' # PENDING_LOCK THEN Lvl(f)'
                     ELSE IF re = "write" THEN RESERVED_LOCK ELSE SHARED_LOCK
  <2>1. ByteStep(p, "PENDING_BYTE", pe) /\ ByteStep(p, "RESERVED_BYTE", re)
        /\ ByteStep(p, "SHARED_FIRST", "read")
    BY DEF ByteStep, ReadSharedRange
  <2>2. Lvl(f)' = EXCLUSIVE_LOCK => Held(f) = EXCLUSIVE_LOCK
    BY <1>1, <1>2, <1>7, HeldOf
  <2>3. posix[p]["SHARED_FIRST"] # "none"
    BY <1>1, <1>2 DEF SharedRangeOf
  <2> QED
    BY <1>1, <1>3, <1>4, <1>5, <1>6, <1>11, <2>1, <2>2, <2>3, CallStep
<1>13. Held(f)' = Held(f)
  BY <1>1, <1>2, <1>7, <1>12, HeldOf
<1> QED
  BY <1>12, <1>13, UnnoticedStep

(* posixUnlock(): the PENDING and the RESERVED byte are given back, and    *)
(* the lock is a SHARED one.                                               *)
LEMMA UnlockReservedStep ==
  ASSUME IInv, NEW f \in Handle, UnlockReserved(f)
  PROVE  StepOK
<1> DEFINE p == ProcOf(f)
           e == inode[p].eFileLock
           re == posix[p]["RESERVED_BYTE"]
           sh == posix[p]["SHARED_FIRST"]
<1> USE DEF IInv
<1>1. /\ p \in Proc /\ f \in HandlesOf(p)
      /\ call[p].at = "unreserve" /\ call[p].f = f
      /\ Counted(p) /\ LevelsOK(p) /\ BytesOK(p) /\ e \in Level
      /\ \A g \in HandlesOf(p) : Lvl(g) \in Level /\ Lvl(g) = file[g].eFileLock
      /\ f \in Opened(p) /\ file[f].state = "open"
  BY Calling DEF UnlockReserved, Step
<1>2. /\ e >= RESERVED_LOCK /\ file[f].eFileLock = e
      /\ sh = IF call[p].to = SHARED_LOCK THEN "read" ELSE SharedRangeOf(e)
      /\ ReservedByteOK(e, re)
  BY <1>1 DEF BytesOK
<1>3. InodeEffect(p, SHARED_LOCK, inode[p].nShared, inode[p].nLock, inode[p].nRef)
  <2>1. SHARED_LOCK \in Level /\ TypeOK /\ inode' = [inode EXCEPT ![p].eFileLock = SHARED_LOCK]
    BY DEF UnlockReserved
  <2> QED
    BY ONLY <1>1, <2>1, InodeUpdates, Zenon
<1>4. PosixEffect(p, "none", "none", sh)
  <2>1. posix[p] \in [ByteRange -> {"none", "read", "write"}]
    BY <1>1 DEF TypeOK
  <2>2. [posix[p] EXCEPT !["PENDING_BYTE"] = "none", !["RESERVED_BYTE"] = "none"]
          \in [ByteRange -> {"none", "read", "write"}]
    BY <2>1
  <2>3. posix' = [posix EXCEPT ![p] = [posix[p] EXCEPT !["PENDING_BYTE"] = "none",
                                                       !["RESERVED_BYTE"] = "none"]]
    BY <1>1 DEF UnlockReserved, TypeOK
  <2> QED
    BY <1>1, <2>1, <2>2, <2>3, Ranges DEF PosixEffect, TypeOK
<1>5. \A g \in HandlesOf(p) :
        g # f => Lvl(g) <= SHARED_LOCK /\ (e = EXCLUSIVE_LOCK => Lvl(g) = NO_LOCK)
  BY <1>1, <1>2 DEF LevelsOK
<1>6. PICK l \in {e, SHARED_LOCK}, at \in {"idle", "drop"}, c \in {<<>>, f} :
        /\ FileEffect(f, "open", l) /\ CallEffect(p, at, c, NO_LOCK)
        /\ \/ l = SHARED_LOCK /\ at = "idle" /\ call[p].to = SHARED_LOCK
           \/ l = e /\ at = "drop" /\ c = f /\ call[p].to # SHARED_LOCK
  <2>1. CASE call[p].to = SHARED_LOCK
    <3>1. SHARED_LOCK \in Level /\ TypeOK /\ file' = [file EXCEPT ![f].eFileLock = SHARED_LOCK]
      BY <2>1 DEF UnlockReserved
    <3>2. FileEffect(f, file[f].state, SHARED_LOCK)
      BY ONLY <3>1, f \in Handle, FileUpdates, Zenon
    <3>3. FileEffect(f, "open", SHARED_LOCK)
      BY <1>1, <3>2
    <3>4. CallEffect(p, "idle", <<>>, NO_LOCK)
      BY <2>1, CallUpdates DEF UnlockReserved
    <3> QED
      BY <2>1, <3>3, <3>4
  <2>2. CASE call[p].to # SHARED_LOCK
    <3>1. FileEffect(f, "open", e)
      BY <1>1, <1>2, <2>2, FileUpdates DEF UnlockReserved
    <3>2. CallEffect(p, "drop", f, NO_LOCK)
      BY <2>2, CallUpdates DEF UnlockReserved, Step
    <3> QED
      BY <2>2, <3>1, <3>2
  <2> QED
    BY <2>1, <2>2
<1>7. Lvl(f)' = SHARED_LOCK /\ \A g \in HandlesOf(p) : g # f => Lvl(g)' = Lvl(g)
  BY <1>1, <1>6, LvlsAfter
<1>8. Counted(p)'
  BY <1>1, <1>2, <1>3, <1>6, CountedStill
<1>9. LevelsOK(p)'
  <2>1. \A g \in HandlesOf(p) : file'[g].eFileLock # NO_LOCK => file'[g].state = "open"
    BY <1>1, <1>6 DEF LevelsOK, FileEffect, HandlesOf
  <2>2. SHARED_LOCK \in Level /\ inode'[p].eFileLock = SHARED_LOCK
    BY <1>3 DEF InodeEffect
  <2> QED
    BY <1>1, <1>5, <1>7, <2>1, <2>2, LevelsAfter
<1>10. ProcOK(p)'
  <2>1. CASE at = "idle"
    <3>1. PosixEffect(p, PendingByte(SHARED_LOCK), "none", SharedRangeOf(SHARED_LOCK))
          /\ ReservedByteOK(SHARED_LOCK, "none")
      BY <1>2, <1>4, <1>6, <2>1 DEF PendingByte, SharedRangeOf, ReservedByteOK
    <3> QED
      BY <1>1, <1>3, <1>6, <1>8, <1>9, <2>1, <3>1, IdleOK DEF CallEffect, InodeEffect
  <2>2. CASE at = "drop"
    <3>1. f \in Opened(p)'
      BY <1>1, <1>6, SetsAfter
    <3>2. sh = "read" \/ (sh = "write" /\ Lockers(p)' = {f})
      <4>1. CASE e # EXCLUSIVE_LOCK
        BY <1>2, <4>1, <1>6, <2>2 DEF SharedRangeOf
      <4>2. CASE e = EXCLUSIVE_LOCK
        <5>1. Lockers(p) = {f}
          BY <1>1, <1>2, <1>5, <4>2 DEF Lockers
        <5>2. Lockers(p)' = {f}
          BY <1>2, <1>6, <2>2, <5>1, SetsAfter
        <5> QED
          BY <1>2, <1>6, <2>2, <4>2, <5>2 DEF SharedRangeOf
      <4> QED
        BY <4>1, <4>2
    <3>3. BytesOK(p)'
      BY <1>2, <1>3, <1>4, <1>6, <2>2, <3>1, <3>2
      DEF BytesOK, PosixEffect, InodeEffect, CallEffect, FileEffect, SharedRangeOf, PendingByte,
          ReservedByteOK
    <3> QED
      BY <1>6, <1>8, <1>9, <2>2, <3>3 DEF ProcOK, CallEffect
  <2> QED
    BY <2>1, <2>2
<1>11. /\ IInv'
       /\ \A g \in Handle : g # f => Held(g)' = Held(g)
       /\ Held(f)' = SHARED_LOCK
  <2>1. ByteStep(p, "PENDING_BYTE", "none") /\ ByteStep(p, "RESERVED_BYTE", "none")
        /\ ByteStep(p, "SHARED_FIRST", sh)
    BY DEF ByteStep
  <2>2. sh = "none" \/ sh # "none"
    OBVIOUS
  <2>3. \A g \in HandlesOf(p) : g # f /\ Lvl(g) = PENDING_LOCK => "none" = re
    BY <1>5
  <2> QED
    BY <1>1, <1>3, <1>4, <1>6, <1>7, <1>10, <2>1, <2>2, <2>3, CallStep
<1>12. Held(f) >= SHARED_LOCK /\ Held(f) \in Level
  BY <1>1, <1>2, HeldOf
<1>13. CASE Held(f) = SHARED_LOCK
  BY <1>11, <1>13, UnnoticedStep
<1>14. CASE Held(f) # SHARED_LOCK
  BY <1>11, <1>12, <1>14, Releases DEF StepOK
<1> QED
  BY <1>13, <1>14

(* A handle that gives up its lock is not counted any more.                *)
LEMMA CountedLess ==
  ASSUME NEW f \in Handle, Counted(ProcOf(f)), FileEffect(f, "open", NO_LOCK),
         file[f].state = "open", file[f].eFileLock # NO_LOCK,
         NEW e, InodeEffect(ProcOf(f), e, inode[ProcOf(f)].nShared - 1, inode[ProcOf(f)].nLock - 1,
                            inode[ProcOf(f)].nRef)
  PROVE  Counted(ProcOf(f))'
<1> DEFINE p == ProcOf(f)
<1>1. Opened(p)' = Opened(p) /\ Lockers(p)' = Lockers(p) \ {f} /\ f \in Lockers(p)
  BY ProcOfHandle, SetsAfter DEF Opened, Lockers
<1>2. IsFiniteSet(Lockers(p)') /\ Cardinality(Lockers(p)') = Cardinality(Lockers(p)) - 1
  BY <1>1, FS_RemoveElement DEF Counted
<1> QED
  BY <1>1, <1>2 DEF Counted, InodeEffect

(* posixUnlock(): the last of its locks.                                   *)
LEMMA UnlockSharedStep ==
  ASSUME IInv, NEW f \in Handle, UnlockShared(f)
  PROVE  StepOK
<1> DEFINE p == ProcOf(f)
           e == inode[p].eFileLock
           last == inode[p].nShared = 1
           e2 == IF last THEN NO_LOCK ELSE e
           pe == posix[p]["PENDING_BYTE"]
           re == posix[p]["RESERVED_BYTE"]
           sh == posix[p]["SHARED_FIRST"]
           re2 == IF last THEN "none" ELSE re
<1> USE DEF IInv
<1>1. /\ p \in Proc /\ f \in HandlesOf(p)
      /\ call[p].at = "drop" /\ call[p].f = f
      /\ Counted(p) /\ LevelsOK(p) /\ BytesOK(p) /\ e \in Level
      /\ \A g \in HandlesOf(p) : Lvl(g) \in Level /\ (g # f => Lvl(g) = file[g].eFileLock)
      /\ f \in Opened(p) /\ file[f].state = "open"
  BY Calling DEF UnlockShared, Step
<1>2. /\ e # NO_LOCK /\ file[f].eFileLock # NO_LOCK
      /\ pe = PendingByte(e) /\ ReservedByteOK(e, re)
      /\ sh = SharedRangeOf(e) \/ Lockers(p) = {f}
  BY <1>1 DEF BytesOK
<1>3. Lvl(f) = SHARED_LOCK
  BY <1>1, LvlOf
<1>4. inode[p].nLock = inode[p].nShared /\ inode[p].nShared = Cardinality(Lockers(p))
  BY <1>1 DEF Counted
<1>5. ~ last => sh = SharedRangeOf(e)
  BY <1>2, <1>4, FS_Singleton
<1>6. last => \A g \in HandlesOf(p) : g # f => Lvl(g) = NO_LOCK
  BY <1>1, <1>2, OnlyLocker
<1>7. FileEffect(f, "open", NO_LOCK)
  <2>1. NO_LOCK \in Level /\ TypeOK /\ file' = [file EXCEPT ![f].eFileLock = NO_LOCK]
    BY DEF UnlockShared
  <2>2. FileEffect(f, file[f].state, NO_LOCK)
    BY ONLY <2>1, f \in Handle, FileUpdates, Zenon
  <2> QED
    BY <1>1, <2>2
<1>8. InodeEffect(p, e2, inode[p].nShared - 1, inode[p].nLock - 1, inode[p].nRef)
  <2> DEFINE k == IF inode[p].nLock = 1 THEN 0 ELSE inode[p].pUnused
  <2>1. e2 \in Level /\ inode[p].nShared - 1 \in Int /\ inode[p].nLock - 1 \in Int /\ k \in Int
    BY <1>1 DEF TypeOK, UnixInodeInfo
  <2>2. inode' = [inode EXCEPT ![p].nShared = inode[p].nShared - 1, ![p].nLock = inode[p].nLock - 1,
                               ![p].eFileLock = e2, ![p].pUnused = k]
    BY <1>1 DEF UnlockShared, TypeOK, UnixInodeInfo
  <2> HIDE DEF e2, k
  <2> QED
    BY <1>1, <2>1, <2>2, InodeLocks, Zenon
<1>9. PosixEffect(p, PendingByte(e2), re2, SharedRangeOf(e2)) /\ ReservedByteOK(e2, re2)
  <2>1. CASE last
    <3>1. PosixEffect(p, "none", "none", "none")
      BY <1>1, <2>1, PosixUpdates DEF UnlockShared
    <3> QED
      BY <2>1, <3>1 DEF PendingByte, SharedRangeOf, ReservedByteOK
  <2>2. CASE ~ last
    <3>1. PosixEffect(p, pe, re, sh)
      BY <1>1, <1>4, <2>2, PosixUpdates DEF UnlockShared
    <3> QED
      BY <1>2, <1>5, <2>2, <3>1
  <2> QED
    BY <2>1, <2>2
<1>10. CallEffect(p, "idle", <<>>, NO_LOCK)
  BY CallUpdates DEF UnlockShared
<1>11. Lvl(f)' = NO_LOCK /\ \A g \in HandlesOf(p) : g # f => Lvl(g)' = Lvl(g)
  BY <1>1, <1>7, <1>10, LvlsAfter
<1>12. Counted(p)'
  BY <1>1, <1>2, <1>7, <1>8, CountedLess
<1>13. LevelsOK(p)'
  <2>1. \A g \in HandlesOf(p) : file'[g].eFileLock # NO_LOCK => file'[g].state = "open"
    BY <1>1, <1>7 DEF LevelsOK, FileEffect, HandlesOf
  <2>2. e2 \in Level /\ inode'[p].eFileLock = e2
    BY <1>1, <1>8 DEF InodeEffect
  <2>3. \A g \in HandlesOf(p) : g # f => Lvl(g) <= e2 /\ (Lvl(g) >= RESERVED_LOCK => Lvl(g) = e2)
    BY <1>1, <1>6 DEF LevelsOK
  <2>4. e2 # NO_LOCK => \E g \in HandlesOf(p) : Lvl(g)' = e2
    <3> SUFFICES ASSUME ~ last PROVE \E g \in HandlesOf(p) : g # f /\ Lvl(g) = e
      BY <1>11
    <3>1. CASE e = SHARED_LOCK
      <4>1. PICK g \in Lockers(p) : g # f
        <5>1. Lockers(p) # {f}
          BY <1>4, FS_Singleton
        <5>2. f \in Lockers(p)
          BY <1>1, <1>2 DEF Lockers
        <5> QED
          BY <5>1, <5>2
      <4>2. g \in HandlesOf(p) /\ Lvl(g) # NO_LOCK /\ Lvl(g) <= e /\ Lvl(g) \in Level
        BY <1>1, <4>1 DEF Lockers, LevelsOK
      <4> QED
        BY <3>1, <4>1, <4>2
    <3>2. CASE e # SHARED_LOCK
      BY <1>1, <1>2, <1>3, <3>2 DEF LevelsOK
    <3> QED
      BY <3>1, <3>2
  <2>5. \A g \in HandlesOf(p) : Lvl(g) \in Level
    BY <1>1
  <2> HIDE DEF e2
  <2>6. /\ NO_LOCK \in Level /\ NO_LOCK <= e2
        /\ ~ (NO_LOCK >= RESERVED_LOCK) /\ NO_LOCK # EXCLUSIVE_LOCK /\ NO_LOCK <= SHARED_LOCK
    BY <2>2
  <2> QED
    BY <1>1, <1>11, <2>1, <2>2, <2>3, <2>4, <2>5, <2>6, LevelsAfter
<1>14. ProcOK(p)'
  BY <1>1, <1>8, <1>9, <1>10, <1>12, <1>13, IdleOK DEF CallEffect, InodeEffect
<1>15. /\ IInv'
       /\ \A g \in Handle : g # f => Held(g)' = Held(g)
       /\ Held(f)' = NO_LOCK
  <2>1. /\ ByteStep(p, "PENDING_BYTE", PendingByte(e2)) /\ ByteStep(p, "RESERVED_BYTE", re2)
        /\ ByteStep(p, "SHARED_FIRST", SharedRangeOf(e2))
    BY <1>2, <1>5 DEF ByteStep, PendingByte, SharedRangeOf
  <2>2. SharedRangeOf(e2) = "none" \/ sh # "none"
    BY <1>1, <1>2, <1>5 DEF SharedRangeOf
  <2>3. \A g \in HandlesOf(p) : g # f /\ Lvl(g) = PENDING_LOCK => re2 = re
    BY <1>6
  <2> HIDE DEF e2, re2
  <2> QED
    BY <1>1, <1>7, <1>8, <1>9, <1>10, <1>11, <1>14, <2>1, <2>2, <2>3, CallStep
<1>16. Held(f) = SHARED_LOCK
  BY <1>1, <1>3, HeldOf
<1> QED
  BY <1>15, <1>16, Releases DEF StepOK

-----------------------------------------------------------------------------
(* What the handles of a killed process hold: their levels.                *)
LEMMA KilledHeld ==
  ASSUME NEW p \in Proc, call[p].at = "killed", NEW f \in HandlesOf(p),
         file[f].eFileLock # PENDING_LOCK
  PROVE  Held(f) = file[f].eFileLock
BY LvlOf, HeldOf

(* A process is killed: nobody notices yet.                                *)
LEMMA KillStep ==
  ASSUME IInv, NEW p \in Proc, Kill(p)
  PROVE  StepOK
<1> USE DEF IInv
<1>1. Backed(p)
  BY ProcBacks
<1>2. HandlesOf(p)' = HandlesOf(p)
  BY DEF HandlesOf
<1>3. /\ call' \in [Proc -> Call] /\ call'[p].at = "killed"
      /\ \A q \in Proc : q # p => call'[q] = call[q]
  <2>1. [Idle EXCEPT !.at = "killed"] = [at |-> "killed", f |-> <<>>, to |-> NO_LOCK]
    BY DEF Idle
  <2>2. [at |-> "killed", f |-> <<>>, to |-> NO_LOCK] \in Call
    BY DEF Call, Step
  <2>3. call' = [call EXCEPT ![p] = [at |-> "killed", f |-> <<>>, to |-> NO_LOCK]]
    BY <2>1 DEF Kill
  <2> QED
    BY <2>2, <2>3 DEF TypeOK
<1>4. \A g \in HandlesOf(p) : file'[g] \in UnixFile /\ file'[g].eFileLock = Held(g)
  <2> SUFFICES ASSUME NEW g \in HandlesOf(p)
               PROVE  file'[g] \in UnixFile /\ file'[g].eFileLock = Held(g)
    OBVIOUS
  <2>1. g \in Handle /\ file[g] \in UnixFile /\ Held(g) \in Level
    BY <1>1 DEF HandlesOf, TypeOK, Backed
  <2>2. file'[g] = [file[g] EXCEPT !.eFileLock = Held(g)]
    BY DEF Kill, HandlesOf
  <2> QED
    BY <2>1, <2>2 DEF UnixFile
<1>5. \A g \in Handle : ProcOf(g) # p => file'[g] = file[g]
  BY DEF Kill
<1>6. file' \in [Handle -> UnixFile]
  <2>1. file' = [g \in Handle |-> file'[g]]
    BY DEF Kill
  <2>2. \A g \in Handle : file'[g] \in UnixFile
    BY <1>4, <1>5 DEF HandlesOf, TypeOK
  <2> QED
    BY <2>1, <2>2
<1>7. TypeOK' /\ Only(p) /\ UNCHANGED posix
  BY <1>3, <1>5, <1>6 DEF TypeOK, Only, Kill
<1>8. \A g \in HandlesOf(p) : Held(g)' = Held(g) /\ file'[g].eFileLock # PENDING_LOCK
  <2> SUFFICES ASSUME NEW g \in HandlesOf(p)
               PROVE  Held(g)' = Held(g) /\ file'[g].eFileLock # PENDING_LOCK
    OBVIOUS
  <2>1. Held(g) \in {NO_LOCK, SHARED_LOCK, RESERVED_LOCK, EXCLUSIVE_LOCK}
    BY <1>1 DEF Backed
  <2>2. file'[g].eFileLock = Held(g)
    BY <1>4
  <2>3. Held(g)' = file'[g].eFileLock
    BY <1>3, <2>1, <2>2 DEF Held, At, HandlesOf
  <2> QED
    BY <2>1, <2>2, <2>3
<1>9. ProcOK(p)'
  <2>1. Backed(p)'
    BY <1>1, <1>2, <1>7, <1>8 DEF Backed
  <2> QED
    BY <1>2, <1>3, <1>8, <2>1 DEF ProcOK
<1>10. IInv' /\ \A g \in Handle : ProcOf(g) # p => Held(g)' = Held(g)
  BY <1>7, <1>8, <1>9, QuietStepOf
<1>11. \A g \in Handle : Held(g)' = Held(g)
  BY <1>8, <1>10 DEF HandlesOf
<1> QED
  BY <1>10, <1>11, Stutters DEF StepOK

(* A handle of a killed process ends.                                      *)
LEMMA ForgetStep ==
  ASSUME IInv, NEW f \in Handle, Forget(f)
  PROVE  StepOK
<1> DEFINE p == ProcOf(f)
<1> USE DEF IInv
<1>1. p \in Proc /\ f \in HandlesOf(p) /\ call[p].at = "killed" /\ UNCHANGED <<posix, inode, call>>
  BY ProcOfHandle DEF Forget
<1>2. Backed(p) /\ \A g \in HandlesOf(p) : file[g].eFileLock # PENDING_LOCK
  BY <1>1 DEF ProcOK
<1>3. FileEffect(f, "closed", NO_LOCK)
  BY FileUpdates DEF Forget
<1>4. Only(p) /\ TypeOK'
  BY <1>1, <1>3 DEF Only, TypeOK, FileEffect
<1>5. HandlesOf(p)' = HandlesOf(p)
  BY DEF HandlesOf
<1>6. /\ Held(f)' = NO_LOCK /\ file'[f].eFileLock = NO_LOCK
      /\ \A g \in HandlesOf(p) : g # f => Held(g)' = Held(g) /\ file'[g] = file[g]
  BY <1>1, <1>3 DEF Held, At, FileEffect, HandlesOf
<1>7. \A g \in HandlesOf(p) : Held(g)' = Held(g) \/ Held(g)' = NO_LOCK
  BY <1>6
<1>8. ProcOK(p)'
  <2>1. \A g \in HandlesOf(p) : Held(g) \in {NO_LOCK, SHARED_LOCK, RESERVED_LOCK, EXCLUSIVE_LOCK}
    BY <1>2 DEF Backed
  <2>2. Backed(p)'
    BY <1>1, <1>2, <1>5, <1>7, <2>1 DEF Backed
  <2> QED
    BY <1>1, <1>2, <1>5, <1>6, <2>2 DEF ProcOK
<1>9. IInv' /\ \A g \in Handle : ProcOf(g) # p => Held(g)' = Held(g)
  BY <1>1, <1>4, <1>7, <1>8, QuietStepOf
<1>10. \A g \in Handle : g # f => Held(g)' = Held(g)
  BY <1>6, <1>9 DEF HandlesOf
<1>11. Held(f) \in {NO_LOCK, SHARED_LOCK, RESERVED_LOCK, EXCLUSIVE_LOCK}
  BY <1>1, <1>2 DEF Backed
<1>12. CASE Held(f) = NO_LOCK
  BY <1>6, <1>9, <1>10, <1>12, UnnoticedStep
<1>13. CASE Held(f) # NO_LOCK
  BY <1>6, <1>9, <1>10, <1>11, <1>13, Releases DEF StepOK
<1> QED
  BY <1>12, <1>13

(* The kernel closes the descriptors of a killed process.                  *)
LEMMA ReapStep ==
  ASSUME IInv, NEW p \in Proc, Reap(p)
  PROVE  StepOK
<1> USE DEF IInv
<1>1. PosixEffect(p, "none", "none", "none")
  BY PosixUpdates DEF Reap
<1>2. InodeEffect(p, NO_LOCK, 0, 0, 0)
  BY InodeUpdates DEF Reap
<1>3. /\ call' \in [Proc -> Call] /\ call'[p].at = "idle"
      /\ \A q \in Proc : q # p => call'[q] = call[q]
  <2>1. Idle \in Call /\ Idle.at = "idle"
    BY DEF Call, Idle, Step
  <2> QED
    BY <2>1 DEF TypeOK, Reap
<1>4. TypeOK' /\ Only(p)
  BY <1>1, <1>2, <1>3 DEF TypeOK, Only, PosixEffect, InodeEffect, Reap
<1>5. \A g \in HandlesOf(p) : file'[g].state = "closed" /\ file'[g].eFileLock = NO_LOCK
  BY DEF Reap, Closed, HandlesOf
<1>6. \A g \in HandlesOf(p) : Lvl(g)' = NO_LOCK /\ Held(g)' = NO_LOCK
  BY <1>3, <1>5 DEF Lvl, Held, At, HandlesOf
<1>7. \A g \in HandlesOf(p) : Held(g) = NO_LOCK
  BY KilledHeld DEF Reap, Closed, HandlesOf
<1>8. ProcOK(p)'
  <2>1. HandlesOf(p)' = HandlesOf(p)
    BY DEF HandlesOf
  <2>2. Opened(p)' = {} /\ Lockers(p)' = {}
    BY <1>5, <2>1 DEF Opened, Lockers
  <2>3. Counted(p)'
    BY <1>2, <2>2, FS_EmptySet DEF Counted, InodeEffect
  <2>4. LevelsOK(p)'
    BY <1>2, <1>5, <1>6, <2>1 DEF LevelsOK, InodeEffect
  <2>5. PosixEffect(p, PendingByte(NO_LOCK), "none", SharedRangeOf(NO_LOCK))
        /\ ReservedByteOK(NO_LOCK, "none") /\ inode'[p].eFileLock = NO_LOCK
    BY <1>1, <1>2 DEF PendingByte, SharedRangeOf, ReservedByteOK, InodeEffect
  <2> QED
    BY <1>3, <2>3, <2>4, <2>5, IdleOK
<1>9. IInv' /\ \A g \in Handle : ProcOf(g) # p => Held(g)' = Held(g)
  <2>1. \A b \in ByteRange : posix'[p][b] = "none"
    BY <1>1, Ranges DEF PosixEffect
  <2> QED
    BY <1>4, <1>6, <1>8, <2>1, Ranges, StepOf
<1>10. \A g \in Handle : Held(g)' = Held(g)
  BY <1>6, <1>7, <1>9 DEF HandlesOf
<1> QED
  BY <1>9, <1>10, Stutters DEF StepOK

-----------------------------------------------------------------------------
(* The initial state.                                                      *)
LEMMA InitOK ==
  ASSUME Init
  PROVE  IInv /\ FL!Init
<1>1. /\ \A f \in Handle : file[f].state = "closed" /\ file[f].eFileLock = NO_LOCK
      /\ \A p \in Proc, b \in ByteRange : posix[p][b] = "none"
      /\ \A p \in Proc : call[p].at = "idle"
      /\ \A p \in Proc : /\ inode[p].eFileLock = NO_LOCK /\ inode[p].nShared = 0
                          /\ inode[p].nLock = 0 /\ inode[p].nRef = 0
  BY DEF Init, Closed, Unlocked, NoInode, Idle
<1>2. TypeOK
  <2>1. Idle \in Call /\ Closed \in UnixFile /\ NoInode \in UnixInodeInfo
        /\ Unlocked \in [ByteRange -> {"none", "read", "write"}]
    BY DEF Idle, Call, Step, Closed, UnixFile, NoInode, UnixInodeInfo, Unlocked
  <2> QED
    BY <2>1 DEF Init, TypeOK
<1>3. \A f \in Handle : Held(f) = NO_LOCK /\ Lvl(f) = NO_LOCK
  BY <1>1, ProcOfHandle DEF Held, Lvl, At
<1>4. KernelExcludes /\ ExclusiveAlone
  BY <1>1, <1>3 DEF KernelExcludes, ExclusiveAlone
<1>5. ASSUME NEW p \in Proc PROVE ProcOK(p)
  <2>1. Opened(p) = {} /\ Lockers(p) = {}
    BY <1>1 DEF Opened, Lockers, HandlesOf
  <2>2. Counted(p)
    BY <1>1, <2>1, FS_EmptySet DEF Counted
  <2>3. LevelsOK(p)
    BY <1>1, <1>3 DEF LevelsOK, HandlesOf
  <2>4. BytesOK(p)
    BY <1>1, Ranges DEF BytesOK, PendingByte, SharedRangeOf, ReservedByteOK
  <2> QED
    BY <1>1, <2>2, <2>3, <2>4 DEF ProcOK
<1>6. FL!Init
  BY <1>3 DEF FL!Init, FL!NO_LOCK
<1> QED
  BY <1>2, <1>4, <1>5, <1>6 DEF IInv

(* Every step of UnixLock preserves the invariant and is one of FileLock's *)
(* or none at all.                                                         *)
LEMMA NextOK ==
  ASSUME IInv, [Next]_vars
  PROVE  IInv' /\ [FL!Next]_heldBar
<1>1. CASE Next
  BY <1>1, ReusableStep, FillInStep, CloseStep, SharedAgainStep, SharedStep, SharedRangeStep,
     DropPendingStep, ReservedStep, ExclusiveStep, ExclusiveRangeStep, UnlockStep, ReadSharedStep,
     UnlockReservedStep, UnlockSharedStep, KillStep, ForgetStep, ReapStep DEF Next, StepOK
<1>2. CASE UNCHANGED vars
  <2>1. posix' = posix /\ inode' = inode /\ file' = file /\ call' = call
    BY <1>2 DEF vars
  <2>2. \A f \in Handle : Lvl(f)' = Lvl(f) /\ Held(f)' = Held(f)
    BY <2>1 DEF Lvl, Held, At
  <2>3. ASSUME NEW p \in Proc PROVE ProcOK(p)'
    <3>1. /\ HandlesOf(p)' = HandlesOf(p) /\ HandlesOf(p) \subseteq Handle
          /\ Opened(p)' = Opened(p) /\ Lockers(p)' = Lockers(p)
      BY <2>1 DEF HandlesOf, Opened, Lockers
    <3>2. Backed(p) => Backed(p)'
      BY <2>1, <2>2, <3>1 DEF Backed
    <3>3. Counted(p) => Counted(p)'
      BY <2>1, <3>1 DEF Counted
    <3>4. LevelsOK(p) => LevelsOK(p)'
      BY <2>1, <2>2, <3>1 DEF LevelsOK
    <3>5. BytesOK(p) => BytesOK(p)'
      BY <2>1, <3>1 DEF BytesOK
    <3> QED
      BY <2>1, <3>1, <3>2, <3>3, <3>4, <3>5 DEF IInv, ProcOK
  <2>4. TypeOK' /\ KernelExcludes'
    BY <2>1 DEF IInv, TypeOK, KernelExcludes
  <2>5. ExclusiveAlone'
    BY <2>1, <2>2 DEF IInv, ExclusiveAlone
  <2> QED
    BY <2>2, <2>3, <2>4, <2>5, Stutters DEF IInv
<1> QED
  BY <1>1, <1>2

(***************************************************************************)
(* The state of os_unix.c: what the kernel, the unixInodeInfo and the      *)
(* unixFile say about a lock agrees at every fcntl(), killed processes     *)
(* included.                                                               *)
(***************************************************************************)
THEOREM Invariance == Spec => []IInv
<1>1. Init => IInv
  BY InitOK
<1>2. IInv /\ [Next]_vars => IInv'
  BY NextOK
<1> QED
  BY <1>1, <1>2, PTL DEF Spec

(***************************************************************************)
(* os_unix.c implements FileLock for any number of processes, and of       *)
(* handles in each: xLock() and xUnlock() keep their promise.              *)
(***************************************************************************)
THEOREM UnixImplements == Spec => UnixImplementsFileLock
<1>1. Init => FL!Init
  BY InitOK
<1>2. IInv /\ [Next]_vars => [FL!Next]_[f \in Handle |-> Held(f)]
  BY NextOK DEF heldBar
<1> QED
  BY <1>1, <1>2, Invariance, PTL DEF Spec, UnixImplementsFileLock, FL!Spec

-----------------------------------------------------------------------------
\* PCache1: sequences without repetition.

Injective(q) == \A i, j \in DOMAIN q : q[i] = q[j] => i = j
Listed(q, x) == \E i \in DOMAIN q : q[i] = x

\* The cardinality module PCache1 takes from its own instance of FiniteSets.
LEMMA SameCardinality == \A S : P1!Cardinality(S) = Cardinality(S)
BY DEF P1!Cardinality, Cardinality

\* A function on 1 .. n is a sequence.
LEMMA FunctionIsSeq ==
  ASSUME NEW S, NEW n \in Nat, NEW s \in [1 .. n -> S]
  PROVE  s \in Seq(S) /\ Len(s) = n
<1>1. s \in Seq(S)
  BY SeqDef
<1> QED
  BY <1>1, LenProperties

\* The finite sets of places.
LEMMA PlacesFinite ==
  ASSUME NEW n \in Nat, NEW T \in SUBSET (1 .. n)
  PROVE  IsFiniteSet(T) /\ Cardinality(T) \in Nat
<1>1. IsFiniteSet(1 .. n)
  BY FS_Interval
<1>2. IsFiniteSet(T)
  BY <1>1, FS_Subset
<1> QED
  BY <1>2, FS_CardinalityType

\* Places of a finite set of numbers: each j up to the cardinality is the rank of one of them.
Upto(T, i) == {k \in T : k <= i}
Rank(T, i) == Cardinality(Upto(T, i))

LEMMA RankLess ==
  ASSUME NEW n \in Nat, NEW T \in SUBSET (1 .. n), NEW i \in T, NEW j \in T, i < j
  PROVE  Rank(T, i) < Rank(T, j)
<1>0. \A k \in T : k \in Int
  OBVIOUS
<1>1. Upto(T, i) \in SUBSET Upto(T, j) /\ j \in Upto(T, j) /\ j \notin Upto(T, i)
  <2>1. \A k \in T : k <= i => k <= j
    BY <1>0
  <2>2. j <= j /\ ~(j <= i)
    BY <1>0
  <2> QED
    BY <2>1, <2>2 DEF Upto
<1>2. Upto(T, j) \in SUBSET (1 .. n)
  BY DEF Upto
<1>3. IsFiniteSet(Upto(T, j)) /\ Cardinality(Upto(T, j)) \in Nat
  BY <1>2, PlacesFinite
<1>4. /\ Cardinality(Upto(T, i)) <= Cardinality(Upto(T, j))
      /\ Cardinality(Upto(T, j)) = Cardinality(Upto(T, i)) => Upto(T, j) = Upto(T, i)
  BY <1>1, <1>3, FS_Subset
<1>5. Cardinality(Upto(T, i)) \in Nat
  BY <1>1, <1>2, PlacesFinite
<1> QED
  BY <1>1, <1>3, <1>4, <1>5 DEF Rank

LEMMA RankOnto ==
  ASSUME NEW n \in Nat, NEW T \in SUBSET (1 .. n)
  PROVE  /\ \A i \in T : Rank(T, i) \in 1 .. Cardinality(T)
         /\ \A i, j \in T : Rank(T, i) = Rank(T, j) => i = j
         /\ \A j \in 1 .. Cardinality(T) : \E i \in T : Rank(T, i) = j
<1> DEFINE m == Cardinality(T)
           r == [i \in T |-> Rank(T, i)]
<1>1. IsFiniteSet(T) /\ m \in Nat
  BY PlacesFinite
<1>2. ASSUME NEW i \in T PROVE Rank(T, i) \in 1 .. m
  <2>1. Upto(T, i) \in SUBSET T /\ i \in Upto(T, i)
    BY DEF Upto
  <2>2. IsFiniteSet(Upto(T, i)) /\ Cardinality(Upto(T, i)) <= m
    BY <1>1, <2>1, FS_Subset
  <2>3. Cardinality(Upto(T, i)) \in Nat /\ Cardinality(Upto(T, i)) # 0
    BY <2>1, <2>2, FS_CardinalityType, FS_EmptySet
  <2> QED
    BY <1>1, <2>2, <2>3 DEF Rank
<1>3. ASSUME NEW i \in T, NEW j \in T, Rank(T, i) = Rank(T, j) PROVE i = j
  <2>1. i \in Int /\ j \in Int
    OBVIOUS
  <2>2. Rank(T, i) \in Int /\ Rank(T, j) \in Int
    BY <1>1, <1>2
  <2>3. ~(i < j)
    BY <1>3, <2>2, RankLess
  <2>4. ~(j < i)
    BY <1>3, <2>2, RankLess
  <2> QED
    BY <2>1, <2>3, <2>4
<1>4. r \in Injection(T, 1 .. m)
  BY <1>2, <1>3 DEF Injection, IsInjective
<1>5. IsFiniteSet(1 .. m) /\ Cardinality(1 .. m) = m
  BY <1>1, FS_Interval
<1>6. r \in Surjection(T, 1 .. m)
  <2> HIDE DEF r
  <2> QED
    BY <1>1, <1>4, <1>5, FS_Injection
<1>7. \A j \in 1 .. m : \E i \in T : r[i] = j
  BY <1>6 DEF Surjection
<1> QED
  BY <1>2, <1>3, <1>7

\* What pcache1PinPage() leaves of the list.
IsWithout(w, q, pages, S) ==
  /\ w \in Seq(S) /\ Injective(w)
  /\ \A x : Listed(w, x) <=> Listed(q, x) /\ x \notin pages

LEMMA WithoutFacts ==
  ASSUME NEW S, NEW q \in Seq(S), Injective(q), NEW pages
  PROVE  IsWithout(P1!Without(q, pages), q, pages, S)
<1> DEFINE kept == {i \in DOMAIN q : q[i] \notin pages}
           m == Cardinality(kept)
           at(j) == CHOOSE i \in kept : Rank(kept, i) = j
           w == P1!Without(q, pages)
<1>1. Len(q) \in Nat /\ DOMAIN q = 1 .. Len(q) /\ kept \in SUBSET (1 .. Len(q))
  OBVIOUS
<1>2. m \in Nat
  BY <1>1, PlacesFinite
<1>3. w = [j \in 1 .. m |-> q[at(j)]]
  BY Zenon DEF P1!Without, Rank, Upto, P1!Cardinality, Cardinality
<1> HIDE DEF kept, w
<1>4. /\ \A i \in kept : Rank(kept, i) \in 1 .. m
      /\ \A i, j \in kept : Rank(kept, i) = Rank(kept, j) => i = j
      /\ \A j \in 1 .. m : \E i \in kept : Rank(kept, i) = j
  BY <1>1, RankOnto
<1>5. \A j \in 1 .. m : at(j) \in kept /\ Rank(kept, at(j)) = j
  BY <1>4
<1> HIDE DEF m, at
<1>6. \A j \in 1 .. m : w[j] = q[at(j)] /\ w[j] \in S
  <2>1. \A j \in 1 .. m : w[j] = q[at(j)]
    BY <1>3
  <2>2. \A i \in kept : q[i] \in S
    BY <1>1
  <2> QED
    BY <1>5, <2>1, <2>2
<1>7. w \in Seq(S) /\ Len(w) = m /\ DOMAIN w = 1 .. m
  <2>1. w \in [1 .. m -> S]
    BY <1>3, <1>6
  <2> QED
    BY <1>2, <2>1, FunctionIsSeq DEF m
<1>8. Injective(w)
  <2>1. ASSUME NEW i \in 1 .. m, NEW j \in 1 .. m, w[i] = w[j] PROVE i = j
    <3>1. at(i) = at(j)
      BY <1>1, <1>5, <1>6, <2>1 DEF Injective
    <3> QED
      BY <1>5, <3>1
  <2> QED
    BY <1>7, <2>1 DEF Injective
<1>9. ASSUME NEW x, Listed(w, x) PROVE Listed(q, x) /\ x \notin pages
  <2>1. PICK j \in 1 .. m : w[j] = x
    BY <1>7, <1>9 DEF Listed
  <2> QED
    BY <1>5, <1>6, <2>1 DEF Listed, kept
<1>10. ASSUME NEW x, Listed(q, x), x \notin pages PROVE Listed(w, x)
  <2>1. PICK i \in kept : q[i] = x
    BY <1>10 DEF Listed, kept
  <2>2. Rank(kept, i) \in 1 .. m
    BY <1>4
  <2>3. at(Rank(kept, i)) = i
    BY <1>4, <1>5, <2>2
  <2> QED
    BY <1>6, <1>7, <2>1, <2>2, <2>3 DEF Listed
<1> QED
  BY <1>7, <1>8, <1>9, <1>10 DEF IsWithout, w

-----------------------------------------------------------------------------
\* PCache1: the pages, the counters and the list.

IsPCache(r) ==
  r = [open |-> r.open, szPage |-> r.szPage, nMax |-> r.nMax, n90pct |-> r.n90pct,
       nPage |-> r.nPage, nRecyclable |-> r.nRecyclable, keys |-> r.keys, pins |-> r.pins,
       iMaxKey |-> r.iMaxKey, hashed |-> r.hashed]

IsPGroup(g) ==
  g = [nMaxPage |-> g.nMaxPage, nMinPage |-> g.nMinPage, mxPinned |-> g.mxPinned,
       nCurrentPage |-> g.nCurrentPage, lru |-> g.lru]

\* The counters of a cache.
Counts(r) ==
  /\ r.keys \in SUBSET P1!Key /\ r.pins \in SUBSET r.keys
  /\ r.nPage = Cardinality(r.keys)
  /\ r.nRecyclable = Cardinality(r.keys \ r.pins)
  /\ r.iMaxKey \in Int /\ \A k \in r.keys : k <= r.iMaxKey

AllCaches(cs) ==
  /\ cs = [c \in Slot |-> cs[c]]
  /\ \A c \in Slot : IsPCache(cs[c]) /\ cs[c].nMax \in Int

PagesOf(cs) == {x \in Slot \X P1!Key : x[2] \in cs[x[1]].keys}

\* The list of a group, and its counter.
ListOK(cs, q) ==
  /\ q \in Seq(Slot \X P1!Key) /\ Injective(q)
  /\ \A c \in Slot, k \in P1!Key : Listed(q, <<c, k>>) <=> k \in cs[c].keys \ cs[c].pins

Accounted(cs, n, q) ==
  /\ \A c \in Slot : Counts(cs[c])
  /\ ListOK(cs, q)
  /\ n = Cardinality(PagesOf(cs))

\* Everything here is finite.
LEMMA KeysFinite ==
  ASSUME NEW T \in SUBSET P1!Key
  PROVE  IsFiniteSet(T) /\ Cardinality(T) \in Nat /\ T \in SUBSET Nat
<1>1. NKey \in Nat
  BY PCacheAssumption
<1> QED
  BY <1>1, PlacesFinite DEF P1!Key

LEMMA PagesFinite ==
  ASSUME NEW T \in SUBSET (Slot \X P1!Key)
  PROVE  IsFiniteSet(T) /\ Cardinality(T) \in Nat
<1>1. IsFiniteSet(P1!Key) /\ IsFiniteSet(Slot)
  BY KeysFinite, PCacheAssumption
<1>2. IsFiniteSet(Slot \X P1!Key)
  BY <1>1, FS_Product
<1>3. IsFiniteSet(T)
  BY <1>2, FS_Subset
<1> QED
  BY <1>3, FS_CardinalityType

\* The keys of a cache among some pages.
Gone(c, pages) == {k \in P1!Key : <<c, k>> \in pages}

LEMMA GoneFacts ==
  ASSUME NEW c \in Slot, NEW pages \in SUBSET (Slot \X P1!Key)
  PROVE  LET gone == {x \in pages : x[1] = c}
         IN  /\ {x[2] : x \in gone} = Gone(c, pages)
             /\ Cardinality(gone) = Cardinality(Gone(c, pages))
<1> DEFINE gone == {x \in pages : x[1] = c}
           G == Gone(c, pages)
           f == [k \in G |-> <<c, k>>]
<1>1. \A x \in gone : x = <<c, x[2]>> /\ x[2] \in G
  BY DEF Gone
<1>2. \A k \in G : <<c, k>> \in gone /\ <<c, k>>[2] = k
  BY DEF Gone
<1>3. {x[2] : x \in gone} = G
  BY <1>1, <1>2
<1>4. G \in SUBSET P1!Key
  BY DEF Gone
<1> HIDE DEF gone, G
<1>5. f \in Injection(G, gone)
  BY <1>2 DEF Injection, IsInjective
<1>6. f \in Surjection(G, gone)
  <2>1. f \in [G -> gone]
    BY <1>2
  <2>2. \A x \in gone : f[x[2]] = x
    BY <1>1
  <2> QED
    BY <1>1, <2>1, <2>2 DEF Surjection
<1>7. ExistsBijection(G, gone)
  BY <1>5, <1>6 DEF ExistsBijection, Bijection
<1>8. IsFiniteSet(G)
  BY <1>4, KeysFinite
<1>9. Cardinality(gone) = Cardinality(G)
  BY <1>7, <1>8, FS_Bijection
<1> QED
  BY <1>3, <1>9 DEF gone, G

\* A cache loses the keys G, those in L from the list too.
Loses(r2, r, G, L) ==
  /\ r2.keys = r.keys \ G
  /\ r2.nPage = r.nPage - Cardinality(G)
  /\ r2.nRecyclable = r.nRecyclable - Cardinality(L)

ListedGone(c, q, pages) == {k \in Gone(c, pages) : Listed(q, <<c, k>>)}

\* pcache1RemoveFromHash(): what it changes of a cache.
Kept(r2, r) ==
  /\ r2.open = r.open /\ r2.szPage = r.szPage /\ r2.nMax = r.nMax /\ r2.pins = r.pins
  /\ r2.iMaxKey = r.iMaxKey /\ r2.hashed = r.hashed

IsRemoved(cs2, cs, q, pages) ==
  /\ AllCaches(cs2)
  /\ \A c \in Slot : /\ Loses(cs2[c], cs[c], Gone(c, pages), ListedGone(c, q, pages))
                     /\ Kept(cs2[c], cs[c])

LEMMA RemovedFacts ==
  ASSUME NEW cs, AllCaches(cs), NEW g, NEW pages \in SUBSET (Slot \X P1!Key)
  PROVE  IsRemoved(P1!Removed(cs, g, pages), cs, g.lru, pages)
<1> DEFINE cs2 == P1!Removed(cs, g, pages)
           gone(c) == {x \in pages : x[1] = c}
           listed(c) == {x \in gone(c) : \E i \in DOMAIN g.lru : g.lru[i] = x}
           new(c) == [cs[c] EXCEPT !.keys = @ \ {x[2] : x \in gone(c)},
                                   !.nPage = @ - P1!Cardinality(gone(c)),
                                   !.nRecyclable = @ - P1!Cardinality(listed(c))]
<1>1. cs2 = [c \in Slot |-> new(c)]
  BY DEF P1!Removed
<1>2. ASSUME NEW c \in Slot
      PROVE  /\ cs2[c] = new(c)
             /\ IsPCache(cs2[c]) /\ Kept(cs2[c], cs[c])
             /\ Loses(cs2[c], cs[c], Gone(c, pages), ListedGone(c, g.lru, pages))
  <2>1. cs2[c] = new(c)
    BY <1>1
  <2> DEFINE G == {x[2] : x \in gone(c)}
             a == P1!Cardinality(gone(c))
             b == P1!Cardinality(listed(c))
  <2>2. new(c) = [cs[c] EXCEPT !.keys = @ \ G, !.nPage = @ - a, !.nRecyclable = @ - b]
    OBVIOUS
  <2>3. G = Gone(c, pages) /\ a = Cardinality(Gone(c, pages))
    BY GoneFacts, SameCardinality
  <2>4. b = Cardinality(ListedGone(c, g.lru, pages))
    <3> DEFINE L == {x \in pages : Listed(g.lru, x)}
    <3>1. L \in SUBSET (Slot \X P1!Key)
      OBVIOUS
    <3>2. listed(c) = {x \in L : x[1] = c}
      BY DEF Listed
    <3>3. ListedGone(c, g.lru, pages) = Gone(c, L)
      BY DEF ListedGone, Gone
    <3> HIDE DEF L
    <3>4. Cardinality({x \in L : x[1] = c}) = Cardinality(Gone(c, L))
      BY <3>1, GoneFacts
    <3> QED
      BY <3>2, <3>3, <3>4, SameCardinality
  <2> HIDE DEF G, a, b, new, cs2
  <2>5. IsPCache(cs[c])
    BY DEF AllCaches
  <2>6. /\ IsPCache(new(c)) /\ Kept(new(c), cs[c])
        /\ new(c).keys = cs[c].keys \ G /\ new(c).nPage = cs[c].nPage - a
        /\ new(c).nRecyclable = cs[c].nRecyclable - b
    <3> DEFINE r == cs[c]
    <3> HIDE DEF r
    <3>1. new(c) = [r EXCEPT !.keys = @ \ G, !.nPage = @ - a, !.nRecyclable = @ - b]
      BY <2>2 DEF r
    <3>2. IsPCache(r)
      BY <2>5 DEF r
    <3>3. /\ IsPCache(new(c)) /\ Kept(new(c), r)
          /\ new(c).keys = r.keys \ G /\ new(c).nPage = r.nPage - a
          /\ new(c).nRecyclable = r.nRecyclable - b
      BY <3>1, <3>2 DEF IsPCache, Kept
    <3> QED
      BY <3>3 DEF r
  <2> QED
    BY <2>1, <2>3, <2>4, <2>6 DEF Loses
<1> HIDE DEF new, cs2
<1>3. cs2 = [c \in Slot |-> cs2[c]]
  BY <1>1
<1>4. \A c \in Slot : cs2[c].nMax \in Int
  BY <1>2 DEF Kept, AllCaches
<1> QED
  BY <1>2, <1>3, <1>4 DEF IsRemoved, AllCaches, cs2

\* Cardinality of a difference.
LEMMA CardMinus ==
  ASSUME NEW A, IsFiniteSet(A), NEW B \in SUBSET A
  PROVE  Cardinality(A \ B) = Cardinality(A) - Cardinality(B)
<1>1. A \cap B = B
  OBVIOUS
<1> QED
  BY <1>1, FS_Difference

(***************************************************************************)
(* Pages leave their caches, the list and the counters; whoever had        *)
(* pinned one has let it go.                                               *)
(***************************************************************************)
LEMMA RemoveAccounted ==
  ASSUME NEW cs, NEW n, NEW q, Accounted(cs, n, q), NEW pages \in SUBSET PagesOf(cs),
         NEW cs2,
         \A c \in Slot : /\ Loses(cs2[c], cs[c], Gone(c, pages), ListedGone(c, q, pages))
                         /\ cs2[c].pins = cs[c].pins \ Gone(c, pages)
                         /\ cs2[c].iMaxKey \in Int
                         /\ \A k \in cs2[c].keys : k <= cs2[c].iMaxKey
  PROVE  Accounted(cs2, n - Cardinality(pages), P1!Without(q, pages))
<1>1. pages \in SUBSET (Slot \X P1!Key)
  BY DEF PagesOf
<1>2. ASSUME NEW c \in Slot PROVE Counts(cs2[c])
  <2> DEFINE G == Gone(c, pages)
             L == ListedGone(c, q, pages)
             K == cs[c].keys
             P == cs[c].pins
  <2>1. Counts(cs[c])
    BY DEF Accounted
  <2>2. G \in SUBSET K
    BY DEF Gone, PagesOf
  <2>3. L = G \ P
    BY <2>2 DEF Accounted, ListOK, ListedGone, Gone
  <2>4. cs2[c].keys = K \ G /\ cs2[c].pins = P \ G
    BY DEF Loses
  <2>5. /\ cs2[c].nPage = cs[c].nPage - Cardinality(G)
        /\ cs2[c].nRecyclable = cs[c].nRecyclable - Cardinality(L)
    BY DEF Loses
  <2> HIDE DEF G, L, K, P
  <2>6. /\ K \in SUBSET P1!Key /\ P \in SUBSET K
        /\ cs[c].nPage = Cardinality(K) /\ cs[c].nRecyclable = Cardinality(K \ P)
    BY <2>1 DEF Counts, K, P
  <2>7. IsFiniteSet(K) /\ IsFiniteSet(K \ P)
    BY <2>6, KeysFinite
  <2>8. Cardinality(K \ G) = Cardinality(K) - Cardinality(G)
    BY <2>2, <2>7, CardMinus
  <2>9. L \in SUBSET (K \ P) /\ (K \ G) \ (P \ G) = (K \ P) \ L
    BY <2>2, <2>3
  <2>10. Cardinality((K \ P) \ L) = Cardinality(K \ P) - Cardinality(L)
    BY <2>7, <2>9, CardMinus
  <2>11. K \ G \in SUBSET P1!Key /\ P \ G \in SUBSET (K \ G)
    BY <2>6
  <2>12. cs2[c].nRecyclable = Cardinality(cs2[c].keys \ cs2[c].pins)
    BY <2>4, <2>5, <2>6, <2>9, <2>10
  <2> QED
    BY <2>4, <2>5, <2>6, <2>8, <2>11, <2>12 DEF Counts
<1>3. ListOK(cs2, P1!Without(q, pages))
  <2> DEFINE w == P1!Without(q, pages)
  <2>1. q \in Seq(Slot \X P1!Key) /\ Injective(q)
    BY DEF Accounted, ListOK
  <2>2. IsWithout(w, q, pages, Slot \X P1!Key)
    BY <2>1, WithoutFacts
  <2> HIDE DEF w
  <2>3. ASSUME NEW c \in Slot, NEW k \in P1!Key
        PROVE  Listed(w, <<c, k>>) <=> k \in cs2[c].keys \ cs2[c].pins
    <3>1. Listed(w, <<c, k>>) <=> Listed(q, <<c, k>>) /\ <<c, k>> \notin pages
      BY <2>2 DEF IsWithout
    <3>2. Listed(q, <<c, k>>) <=> k \in cs[c].keys \ cs[c].pins
      BY DEF Accounted, ListOK
    <3>3. <<c, k>> \in pages <=> k \in Gone(c, pages)
      BY DEF Gone
    <3>4. /\ cs2[c].keys = cs[c].keys \ Gone(c, pages)
          /\ cs2[c].pins = cs[c].pins \ Gone(c, pages)
      BY DEF Loses
    <3> QED
      BY <3>1, <3>2, <3>3, <3>4
  <2> QED
    BY <2>2, <2>3 DEF ListOK, IsWithout, w
<1>4. Cardinality(PagesOf(cs2)) = n - Cardinality(pages)
  <2>1. PagesOf(cs2) = PagesOf(cs) \ pages
    <3>1. ASSUME NEW x \in Slot \X P1!Key
          PROVE  x \in PagesOf(cs2) <=> x \in PagesOf(cs) \ pages
      <4>1. x = <<x[1], x[2]>> /\ x[1] \in Slot /\ x[2] \in P1!Key
        OBVIOUS
      <4>2. x \in pages <=> x[2] \in Gone(x[1], pages)
        BY <4>1 DEF Gone
      <4>3. cs2[x[1]].keys = cs[x[1]].keys \ Gone(x[1], pages)
        BY <4>1 DEF Loses
      <4> QED
        BY <4>2, <4>3 DEF PagesOf
    <3>2. PagesOf(cs2) \in SUBSET (Slot \X P1!Key) /\ PagesOf(cs) \in SUBSET (Slot \X P1!Key)
      BY DEF PagesOf
    <3> QED
      BY <3>1, <3>2
  <2>2. IsFiniteSet(PagesOf(cs))
    BY PagesFinite DEF PagesOf
  <2>3. Cardinality(PagesOf(cs) \ pages) = Cardinality(PagesOf(cs)) - Cardinality(pages)
    BY <2>2, CardMinus
  <2> QED
    BY <2>1, <2>3 DEF Accounted
<1> QED
  BY <1>2, <1>3, <1>4 DEF Accounted

\* One cache changes: every other one keeps its keys and its pins.
OthersKeep(cs2, cs, c) ==
  \A d \in Slot : d # c => Counts(cs2[d]) /\ cs2[d].keys = cs[d].keys /\ cs2[d].pins = cs[d].pins

\* A page enters a cache, pinned.
LEMMA EnterAccounted ==
  ASSUME NEW cs, NEW n, NEW q, Accounted(cs, n, q),
         NEW c \in Slot, NEW k \in P1!Key, k \notin cs[c].keys,
         NEW cs2, OthersKeep(cs2, cs, c),
         cs2[c].keys = cs[c].keys \cup {k}, cs2[c].pins = cs[c].pins \cup {k},
         cs2[c].nPage = cs[c].nPage + 1, cs2[c].nRecyclable = cs[c].nRecyclable,
         cs2[c].iMaxKey = IF k > cs[c].iMaxKey THEN k ELSE cs[c].iMaxKey
  PROVE  Accounted(cs2, n + 1, q)
<1>1. Counts(cs[c])
  BY DEF Accounted
<1>2. Counts(cs2[c])
  <2> DEFINE K == cs[c].keys
             P == cs[c].pins
  <2> HIDE DEF K, P
  <2>1. /\ K \in SUBSET P1!Key /\ P \in SUBSET K /\ k \notin K
        /\ cs[c].nPage = Cardinality(K) /\ cs[c].nRecyclable = Cardinality(K \ P)
        /\ cs[c].iMaxKey \in Int /\ \A j \in K : j <= cs[c].iMaxKey
    BY <1>1 DEF Counts, K, P
  <2>2. cs2[c].keys = K \cup {k} /\ cs2[c].pins = P \cup {k}
    BY DEF K, P
  <2>3. IsFiniteSet(K)
    BY <2>1, KeysFinite
  <2>4. Cardinality(K \cup {k}) = Cardinality(K) + 1
    BY <2>1, <2>3, FS_AddElement
  <2>5. (K \cup {k}) \ (P \cup {k}) = K \ P
    BY <2>1
  <2>6. k \in Int /\ \A j \in K : j \in Int
    BY <2>1, KeysFinite
  <2>7. cs2[c].iMaxKey \in Int /\ \A j \in K \cup {k} : j <= cs2[c].iMaxKey
    BY <2>1, <2>6
  <2>8. K \cup {k} \in SUBSET P1!Key /\ P \cup {k} \in SUBSET (K \cup {k})
    BY <2>1
  <2>9. cs2[c].nRecyclable = Cardinality(cs2[c].keys \ cs2[c].pins)
    BY <2>1, <2>2, <2>5
  <2> QED
    BY <2>1, <2>2, <2>4, <2>7, <2>8, <2>9 DEF Counts
<1>3. \A d \in Slot : cs2[d].keys \ cs2[d].pins = cs[d].keys \ cs[d].pins
  BY DEF OthersKeep
<1>4. ListOK(cs2, q)
  BY <1>3 DEF Accounted, ListOK
<1>5. Cardinality(PagesOf(cs2)) = n + 1
  <2>1. PagesOf(cs2) = PagesOf(cs) \cup {<<c, k>>}
    BY DEF OthersKeep, PagesOf
  <2>2. IsFiniteSet(PagesOf(cs)) /\ <<c, k>> \notin PagesOf(cs)
    BY PagesFinite DEF PagesOf
  <2> QED
    BY <2>1, <2>2, FS_AddElement DEF Accounted
<1>6. \A d \in Slot : Counts(cs2[d])
  BY <1>2 DEF OthersKeep
<1> QED
  BY <1>4, <1>5, <1>6 DEF Accounted

\* A page is pinned: it leaves the list if it was there.
LEMMA PinAccounted ==
  ASSUME NEW cs, NEW n, NEW q, Accounted(cs, n, q),
         NEW c \in Slot, NEW k \in P1!Key, k \in cs[c].keys,
         NEW cs2, OthersKeep(cs2, cs, c),
         cs2[c].keys = cs[c].keys, cs2[c].pins = cs[c].pins \cup {k},
         cs2[c].nPage = cs[c].nPage,
         cs2[c].nRecyclable = cs[c].nRecyclable - (IF Listed(q, <<c, k>>) THEN 1 ELSE 0),
         cs2[c].iMaxKey = IF k > cs[c].iMaxKey THEN k ELSE cs[c].iMaxKey
  PROVE  Accounted(cs2, n, P1!Without(q, {<<c, k>>}))
<1>1. Counts(cs[c])
  BY DEF Accounted
<1>2. Listed(q, <<c, k>>) <=> k \in cs[c].keys \ cs[c].pins
  BY DEF Accounted, ListOK
<1>3. Counts(cs2[c])
  <2> DEFINE K == cs[c].keys
             P == cs[c].pins
  <2> HIDE DEF K, P
  <2>1. /\ K \in SUBSET P1!Key /\ P \in SUBSET K /\ k \in K
        /\ cs[c].nPage = Cardinality(K) /\ cs[c].nRecyclable = Cardinality(K \ P)
        /\ cs[c].iMaxKey \in Int /\ \A j \in K : j <= cs[c].iMaxKey
    BY <1>1 DEF Counts, K, P
  <2>2. cs2[c].keys = K /\ cs2[c].pins = P \cup {k}
    BY DEF K, P
  <2>3. IsFiniteSet(K \ P) /\ Cardinality(K \ P) \in Nat
    BY <2>1, KeysFinite
  <2>4. Cardinality((K \ P) \ {k}) = Cardinality(K \ P) - (IF k \in K \ P THEN 1 ELSE 0)
    <3> DEFINE A == K \ P
    <3> HIDE DEF A
    <3>1. Cardinality(A \ {k}) = IF k \in A THEN Cardinality(A) - 1 ELSE Cardinality(A)
      BY <2>3, FS_RemoveElement DEF A
    <3>2. Cardinality(A \ {k}) = Cardinality(A) - (IF k \in A THEN 1 ELSE 0)
      BY <2>3, <3>1 DEF A
    <3> QED
      BY <3>2 DEF A
  <2>5. K \ (P \cup {k}) = (K \ P) \ {k}
    OBVIOUS
  <2>6. k \in Int /\ k <= cs[c].iMaxKey
    BY <2>1, KeysFinite
  <2>7. cs2[c].iMaxKey = cs[c].iMaxKey
    BY <2>1, <2>6
  <2>8. P \cup {k} \in SUBSET K
    BY <2>1
  <2>9. cs2[c].nRecyclable = Cardinality(cs2[c].keys \ cs2[c].pins)
    BY <1>2, <2>1, <2>2, <2>4, <2>5 DEF K, P
  <2> QED
    BY <2>1, <2>2, <2>7, <2>8, <2>9 DEF Counts
<1>4. ListOK(cs2, P1!Without(q, {<<c, k>>}))
  <2> DEFINE w == P1!Without(q, {<<c, k>>})
  <2>1. q \in Seq(Slot \X P1!Key) /\ Injective(q)
    BY DEF Accounted, ListOK
  <2>2. IsWithout(w, q, {<<c, k>>}, Slot \X P1!Key)
    BY <2>1, WithoutFacts
  <2> HIDE DEF w
  <2>3. ASSUME NEW d \in Slot, NEW j \in P1!Key
        PROVE  Listed(w, <<d, j>>) <=> j \in cs2[d].keys \ cs2[d].pins
    <3>1. Listed(w, <<d, j>>) <=> Listed(q, <<d, j>>) /\ <<d, j>> # <<c, k>>
      BY <2>2 DEF IsWithout
    <3>2. Listed(q, <<d, j>>) <=> j \in cs[d].keys \ cs[d].pins
      BY DEF Accounted, ListOK
    <3> QED
      BY <3>1, <3>2 DEF OthersKeep
  <2> QED
    BY <2>2, <2>3 DEF ListOK, IsWithout, w
<1>5. PagesOf(cs2) = PagesOf(cs)
  BY DEF OthersKeep, PagesOf
<1>6. \A d \in Slot : Counts(cs2[d])
  BY <1>3 DEF OthersKeep
<1> QED
  BY <1>4, <1>5, <1>6 DEF Accounted

\* A page is unpinned: it comes to the head of the list.
LEMMA UnpinAccounted ==
  ASSUME NEW cs, NEW n, NEW q, Accounted(cs, n, q),
         NEW c \in Slot, NEW k \in P1!Key, k \in cs[c].pins,
         NEW cs2, OthersKeep(cs2, cs, c),
         cs2[c].keys = cs[c].keys, cs2[c].pins = cs[c].pins \ {k},
         cs2[c].nPage = cs[c].nPage, cs2[c].nRecyclable = cs[c].nRecyclable + 1,
         cs2[c].iMaxKey = cs[c].iMaxKey
  PROVE  Accounted(cs2, n, <<<<c, k>>>> \o q)
<1>1. Counts(cs[c])
  BY DEF Accounted
<1>2. ~Listed(q, <<c, k>>)
  BY DEF Accounted, ListOK
<1>3. Counts(cs2[c])
  <2> DEFINE K == cs[c].keys
             P == cs[c].pins
  <2> HIDE DEF K, P
  <2>1. /\ K \in SUBSET P1!Key /\ P \in SUBSET K /\ k \in K /\ k \in P
        /\ cs[c].nPage = Cardinality(K) /\ cs[c].nRecyclable = Cardinality(K \ P)
        /\ cs[c].iMaxKey \in Int /\ \A j \in K : j <= cs[c].iMaxKey
    BY <1>1 DEF Counts, K, P
  <2>2. cs2[c].keys = K /\ cs2[c].pins = P \ {k}
    BY DEF K, P
  <2>3. IsFiniteSet(K \ P)
    BY <2>1, KeysFinite
  <2>4. Cardinality((K \ P) \cup {k}) = Cardinality(K \ P) + 1
    BY <2>1, <2>3, FS_AddElement
  <2>5. K \ (P \ {k}) = (K \ P) \cup {k}
    BY <2>1
  <2>6. cs2[c].nRecyclable = Cardinality(cs2[c].keys \ cs2[c].pins)
    BY <2>1, <2>2, <2>4, <2>5
  <2> QED
    BY <2>1, <2>2, <2>6 DEF Counts
<1>4. ListOK(cs2, <<<<c, k>>>> \o q)
  <2> DEFINE S == Slot \X P1!Key
             x == <<c, k>>
             w == <<x>> \o q
  <2>1. q \in Seq(S) /\ Injective(q) /\ x \in S
    BY DEF Accounted, ListOK
  <2> HIDE DEF S, x
  <2>2. <<x>> \in Seq(S) /\ Len(<<x>>) = 1 /\ <<x>>[1] = x
    BY <2>1
  <2>3. /\ w \in Seq(S) /\ Len(w) = Len(q) + 1
        /\ \A i \in 1 .. Len(q) + 1 : w[i] = IF i <= 1 THEN x ELSE q[i - 1]
    <3>1. Len(q) \in Nat
      BY <2>1
    <3>2. /\ w \in Seq(S) /\ Len(w) = Len(<<x>>) + Len(q)
          /\ \A i \in 1 .. Len(<<x>>) + Len(q) :
               w[i] = IF i <= Len(<<x>>) THEN <<x>>[i] ELSE q[i - Len(<<x>>)]
      BY <2>1, <2>2, ConcatProperties
    <3> QED
      BY <2>2, <3>1, <3>2
  <2> HIDE DEF w
  <2>4. Len(q) \in Nat /\ DOMAIN q = 1 .. Len(q) /\ DOMAIN w = 1 .. Len(q) + 1
    BY <2>1, <2>3
  <2>5. w[1] = x /\ \A i \in 1 .. Len(q) : i + 1 \in DOMAIN w /\ w[i + 1] = q[i]
    BY <2>3, <2>4
  <2>6. \A i \in DOMAIN w : i = 1 \/ (i - 1 \in DOMAIN q /\ w[i] = q[i - 1])
    BY <2>3, <2>4
  <2>7. \A i \in DOMAIN q : q[i] # x
    BY <1>2 DEF Listed, x
  <2>8. Injective(w)
    <3>1. ASSUME NEW i \in DOMAIN w, NEW j \in DOMAIN w, w[i] = w[j] PROVE i = j
      <4>1. i \in Int /\ j \in Int
        BY <2>4
      <4>2. CASE i = 1 \/ j = 1
        BY <2>5, <2>6, <2>7, <3>1, <4>2
      <4>3. CASE i # 1 /\ j # 1
        <5>1. i - 1 = j - 1
          BY <2>1, <2>6, <3>1, <4>3 DEF Injective
        <5> QED
          BY <4>1, <5>1
      <4> QED
        BY <4>2, <4>3
    <3> QED
      BY <3>1 DEF Injective
  <2>9. \A y : Listed(w, y) <=> Listed(q, y) \/ y = x
    <3>1. ASSUME NEW y, Listed(w, y) PROVE Listed(q, y) \/ y = x
      BY <2>5, <2>6, <3>1 DEF Listed
    <3>2. ASSUME NEW y, Listed(q, y) PROVE Listed(w, y)
      BY <2>4, <2>5, <3>2 DEF Listed
    <3>3. Listed(w, x)
      <4>1. 1 \in DOMAIN w
        BY <2>4
      <4> QED
        BY <2>5, <4>1 DEF Listed
    <3> QED
      BY <3>1, <3>2, <3>3
  <2>10. ASSUME NEW d \in Slot, NEW j \in P1!Key
         PROVE  Listed(w, <<d, j>>) <=> j \in cs2[d].keys \ cs2[d].pins
    <3>1. Listed(w, <<d, j>>) <=> Listed(q, <<d, j>>) \/ (d = c /\ j = k)
      BY <2>9 DEF x
    <3>2. Listed(q, <<d, j>>) <=> j \in cs[d].keys \ cs[d].pins
      BY DEF Accounted, ListOK
    <3>3. k \in cs[c].keys
      BY <1>1 DEF Counts
    <3> QED
      BY <3>1, <3>2, <3>3 DEF OthersKeep
  <2> QED
    BY <2>3, <2>8, <2>10 DEF ListOK, S, w, x
<1>5. PagesOf(cs2) = PagesOf(cs)
  BY DEF OthersKeep, PagesOf
<1>6. \A d \in Slot : Counts(cs2[d])
  BY <1>3 DEF OthersKeep
<1> QED
  BY <1>4, <1>5, <1>6 DEF Accounted

\* A pinned page gets another key.
LEMMA RekeyAccounted ==
  ASSUME NEW cs, NEW n, NEW q, Accounted(cs, n, q),
         NEW c \in Slot, NEW k \in P1!Key, k \in cs[c].pins,
         NEW j \in P1!Key, j \notin cs[c].keys,
         NEW cs2, OthersKeep(cs2, cs, c),
         cs2[c].keys = (cs[c].keys \ {k}) \cup {j}, cs2[c].pins = (cs[c].pins \ {k}) \cup {j},
         cs2[c].nPage = cs[c].nPage, cs2[c].nRecyclable = cs[c].nRecyclable,
         cs2[c].iMaxKey = IF j > cs[c].iMaxKey THEN j ELSE cs[c].iMaxKey
  PROVE  Accounted(cs2, n, q)
<1> DEFINE K == cs[c].keys
           P == cs[c].pins
<1>1. Counts(cs[c])
  BY DEF Accounted
<1>2. /\ K \in SUBSET P1!Key /\ P \in SUBSET K /\ k \in K /\ k \in P /\ j \notin K
      /\ cs[c].nPage = Cardinality(K) /\ cs[c].nRecyclable = Cardinality(K \ P)
      /\ cs[c].iMaxKey \in Int /\ \A i \in K : i <= cs[c].iMaxKey
  BY <1>1 DEF Counts
<1>3. ((K \ {k}) \cup {j}) \ ((P \ {k}) \cup {j}) = K \ P
  BY <1>2
<1>4. Counts(cs2[c])
  <2> HIDE DEF K, P
  <2>1. cs2[c].keys = (K \ {k}) \cup {j} /\ cs2[c].pins = (P \ {k}) \cup {j}
    BY DEF K, P
  <2>2. IsFiniteSet(K) /\ Cardinality(K) \in Nat
    BY <1>2, KeysFinite
  <2>3. IsFiniteSet(K \ {k}) /\ Cardinality(K \ {k}) = Cardinality(K) - 1
    BY <1>2, <2>2, FS_RemoveElement
  <2>4. Cardinality((K \ {k}) \cup {j}) = Cardinality(K)
    <3> DEFINE B == K \ {k}
    <3>1. j \notin B /\ IsFiniteSet(B) /\ Cardinality(B) = Cardinality(K) - 1
      BY <1>2, <2>3
    <3> HIDE DEF B
    <3>2. Cardinality(B \cup {j}) = Cardinality(B) + 1
      BY <3>1, FS_AddElement
    <3>3. Cardinality(B \cup {j}) = Cardinality(K)
      BY <2>2, <3>1, <3>2
    <3> QED
      BY <3>3 DEF B
  <2>5. j \in Int /\ \A i \in K : i \in Int
    BY <1>2, KeysFinite
  <2>6. cs2[c].iMaxKey \in Int /\ \A i \in (K \ {k}) \cup {j} : i <= cs2[c].iMaxKey
    BY <1>2, <2>5
  <2>7. (K \ {k}) \cup {j} \in SUBSET P1!Key /\ (P \ {k}) \cup {j} \in SUBSET ((K \ {k}) \cup {j})
    BY <1>2
  <2>8. cs2[c].nRecyclable = Cardinality(cs2[c].keys \ cs2[c].pins)
    BY <1>2, <1>3, <2>1
  <2> QED
    BY <1>2, <2>1, <2>4, <2>6, <2>7, <2>8 DEF Counts
<1>5. \A d \in Slot : cs2[d].keys \ cs2[d].pins = cs[d].keys \ cs[d].pins
  BY <1>3 DEF OthersKeep
<1>6. ListOK(cs2, q)
  BY <1>5 DEF Accounted, ListOK
<1>7. Cardinality(PagesOf(cs2)) = n
  <2> DEFINE A == PagesOf(cs)
             x == <<c, k>>
             y == <<c, j>>
  <2>1. PagesOf(cs2) = (A \ {x}) \cup {y}
    BY DEF OthersKeep, PagesOf
  <2>2. IsFiniteSet(A) /\ Cardinality(A) \in Nat /\ x \in A /\ y \notin A
    BY <1>2, PagesFinite DEF PagesOf
  <2> HIDE DEF A, x, y
  <2>3. IsFiniteSet(A \ {x}) /\ Cardinality(A \ {x}) = Cardinality(A) - 1
    BY <2>2, FS_RemoveElement
  <2>4. Cardinality((A \ {x}) \cup {y}) = Cardinality(A)
    <3> DEFINE B == A \ {x}
    <3>1. y \notin B /\ IsFiniteSet(B) /\ Cardinality(B) = Cardinality(A) - 1
      BY <2>2, <2>3
    <3> HIDE DEF B
    <3>2. Cardinality(B \cup {y}) = Cardinality(B) + 1
      BY <3>1, FS_AddElement
    <3>3. Cardinality(B \cup {y}) = Cardinality(A)
      BY <2>2, <3>1, <3>2
    <3> QED
      BY <3>3 DEF B
  <2> QED
    BY <2>1, <2>4 DEF Accounted, A
<1>8. \A d \in Slot : Counts(cs2[d])
  BY <1>4 DEF OthersKeep
<1> QED
  BY <1>6, <1>7, <1>8 DEF Accounted

-----------------------------------------------------------------------------
\* PCache1: what the operators of the model do to the caches and the group.

\* The page of key k is pinned.
IsPinned(cs2, cs, c, k) ==
  /\ AllCaches(cs2)
  /\ \A d \in Slot : d # c => cs2[d] = cs[d]
  /\ cs2[c] = [cs[c] EXCEPT !.pins = cs[c].pins \cup {k},
                            !.iMaxKey = IF k > cs[c].iMaxKey THEN k ELSE cs[c].iMaxKey]

LEMMA PinnedFacts ==
  ASSUME NEW cs, AllCaches(cs), NEW c \in Slot, NEW k
  PROVE  IsPinned(P1!Pinned(cs, c, k), cs, c, k)
<1> DEFINE r == cs[c]
           p == r.pins \cup {k}
           m == IF k > r.iMaxKey THEN k ELSE r.iMaxKey
           r2 == [r EXCEPT !.pins = p, !.iMaxKey = m]
           cs2 == P1!Pinned(cs, c, k)
<1>1. IsPCache(r) /\ r.nMax \in Int
  BY DEF AllCaches
<1>2. cs = [d \in Slot |-> cs[d]]
  BY DEF AllCaches
<1>3. cs2 = [cs EXCEPT ![c] = r2]
  BY <1>1, <1>2 DEF P1!Pinned, IsPCache
<1>4. IsPCache(r2) /\ r2.nMax = r.nMax
  <2> HIDE DEF r, p, m
  <2>1. PICK x : x = [r EXCEPT !.pins = p, !.iMaxKey = m]
    OBVIOUS
  <2>2. IsPCache(x) /\ x.nMax = r.nMax
    BY <1>1, <2>1 DEF IsPCache
  <2> QED
    BY <2>1, <2>2
<1> HIDE DEF r, r2, cs2
<1>5. cs2 = [d \in Slot |-> cs2[d]] /\ cs2[c] = r2 /\ \A d \in Slot : d # c => cs2[d] = cs[d]
  BY <1>2, <1>3
<1> QED
  BY <1>1, <1>4, <1>5 DEF AllCaches, IsPinned, r, r2, cs2

\* The page of key k goes to the hash table, pinned.
IsEntered(cs2, cs, c, k) ==
  /\ AllCaches(cs2)
  /\ \A d \in Slot : d # c => cs2[d] = cs[d]
  /\ cs2[c].keys = cs[c].keys \cup {k} /\ cs2[c].pins = cs[c].pins \cup {k}
  /\ cs2[c].nPage = cs[c].nPage + 1 /\ cs2[c].nRecyclable = cs[c].nRecyclable
  /\ cs2[c].iMaxKey = IF k > cs[c].iMaxKey THEN k ELSE cs[c].iMaxKey

LEMMA EnteredFacts ==
  ASSUME NEW cs, AllCaches(cs), NEW c \in Slot, NEW k
  PROVE  IsEntered(P1!Entered(cs, c, k), cs, c, k)
<1> DEFINE r == cs[c]
           u == r.keys \cup {k}
           n == r.nPage + 1
           r2 == [r EXCEPT !.keys = u, !.nPage = n]
           ks == [cs EXCEPT ![c].keys = @ \cup {k}, ![c].nPage = @ + 1]
           cs2 == P1!Entered(cs, c, k)
<1>1. IsPCache(r) /\ r.nMax \in Int
  BY DEF AllCaches
<1>2. cs = [d \in Slot |-> cs[d]]
  BY DEF AllCaches
<1>3. ks = [cs EXCEPT ![c] = r2]
  BY <1>1, <1>2 DEF IsPCache
<1>4. cs2 = P1!Pinned(ks, c, k)
  BY DEF P1!Entered
<1>5. IsPCache(r2) /\ r2.nMax = r.nMax
  <2> HIDE DEF r, u, n
  <2>1. PICK x : x = [r EXCEPT !.keys = u, !.nPage = n]
    OBVIOUS
  <2>2. IsPCache(x) /\ x.nMax = r.nMax
    BY <1>1, <2>1 DEF IsPCache
  <2> QED
    BY <2>1, <2>2
<1> HIDE DEF r, r2, ks, cs2
<1>6. ks = [d \in Slot |-> ks[d]] /\ ks[c] = r2 /\ \A d \in Slot : d # c => ks[d] = cs[d]
  BY <1>2, <1>3
<1>7. AllCaches(ks)
  BY <1>1, <1>5, <1>6 DEF AllCaches
<1>8. /\ AllCaches(cs2) /\ \A d \in Slot : d # c => cs2[d] = ks[d]
      /\ cs2[c] = [ks[c] EXCEPT !.pins = ks[c].pins \cup {k},
                                !.iMaxKey = IF k > ks[c].iMaxKey THEN k ELSE ks[c].iMaxKey]
  <2>1. IsPinned(cs2, ks, c, k)
    BY <1>4, <1>7, PinnedFacts
  <2> QED
    BY <2>1 DEF IsPinned
<1>9. /\ r2.keys = r.keys \cup {k} /\ r2.nPage = r.nPage + 1 /\ r2.pins = r.pins
      /\ r2.nRecyclable = r.nRecyclable /\ r2.iMaxKey = r.iMaxKey
  BY <1>1 DEF IsPCache, r2
<1>10. /\ cs2[c].keys = r2.keys /\ cs2[c].nPage = r2.nPage /\ cs2[c].pins = r2.pins \cup {k}
       /\ cs2[c].nRecyclable = r2.nRecyclable
       /\ cs2[c].iMaxKey = IF k > r2.iMaxKey THEN k ELSE r2.iMaxKey
  BY <1>5, <1>6, <1>8 DEF IsPCache
<1> QED
  BY <1>6, <1>8, <1>9, <1>10 DEF IsEntered, r, cs2

\* Nothing that is counted changes.
SameCounts(r2, r) ==
  /\ r2.keys = r.keys /\ r2.pins = r.pins /\ r2.nPage = r.nPage
  /\ r2.nRecyclable = r.nRecyclable /\ r2.iMaxKey = r.iMaxKey

LEMMA SameAccounted ==
  ASSUME NEW cs, NEW n, NEW q, Accounted(cs, n, q), NEW cs2,
         \A c \in Slot : SameCounts(cs2[c], cs[c])
  PROVE  Accounted(cs2, n, q)
<1>1. PagesOf(cs2) = PagesOf(cs)
  BY DEF SameCounts, PagesOf
<1>2. \A c \in Slot : Counts(cs2[c])
  BY DEF Accounted, SameCounts, Counts
<1>3. ListOK(cs2, q)
  BY DEF Accounted, SameCounts, ListOK
<1> QED
  BY <1>1, <1>2, <1>3 DEF Accounted

\* pcache1FreePage() and the limits: what they do to the group.
LEMMA GroupFacts ==
  ASSUME NEW g, IsPGroup(g)
  PROVE  /\ \A pages : /\ IsPGroup(P1!Unlisted(g, pages)) /\ IsPGroup(P1!Freed(g, pages))
                       /\ P1!Unlisted(g, pages).lru = P1!Without(g.lru, pages)
                       /\ P1!Freed(g, pages).lru = P1!Without(g.lru, pages)
                       /\ P1!Unlisted(g, pages).nMaxPage = g.nMaxPage
                       /\ P1!Freed(g, pages).nMaxPage = g.nMaxPage
                       /\ P1!Unlisted(g, pages).nCurrentPage = g.nCurrentPage
                       /\ P1!Freed(g, pages).nCurrentPage = g.nCurrentPage - Cardinality(pages)
         /\ \A a, b : /\ IsPGroup(P1!Limits(g, a, b)) /\ P1!Limits(g, a, b).lru = g.lru
                      /\ P1!Limits(g, a, b).nMaxPage = a
                      /\ P1!Limits(g, a, b).nCurrentPage = g.nCurrentPage
<1>1. ASSUME NEW pages
      PROVE  /\ IsPGroup(P1!Unlisted(g, pages))
             /\ P1!Unlisted(g, pages).lru = P1!Without(g.lru, pages)
             /\ P1!Unlisted(g, pages).nMaxPage = g.nMaxPage
             /\ P1!Unlisted(g, pages).nCurrentPage = g.nCurrentPage
  BY DEF IsPGroup, P1!Unlisted
<1>2. ASSUME NEW pages
      PROVE  /\ IsPGroup(P1!Freed(g, pages))
             /\ P1!Freed(g, pages).lru = P1!Without(g.lru, pages)
             /\ P1!Freed(g, pages).nMaxPage = g.nMaxPage
             /\ P1!Freed(g, pages).nCurrentPage = g.nCurrentPage - Cardinality(pages)
  <2> DEFINE n == P1!Cardinality(pages)
             h == [g EXCEPT !.nCurrentPage = @ - n]
  <2>1. P1!Freed(g, pages) = [h EXCEPT !.lru = P1!Without(h.lru, pages)]
    BY DEF P1!Freed, P1!Unlisted
  <2>2. n = Cardinality(pages)
    BY SameCardinality
  <2> HIDE DEF n
  <2>3. IsPGroup(h) /\ h.lru = g.lru /\ h.nMaxPage = g.nMaxPage /\ h.nCurrentPage = g.nCurrentPage - n
    BY DEF IsPGroup
  <2> HIDE DEF h
  <2>4. /\ IsPGroup(P1!Freed(g, pages)) /\ P1!Freed(g, pages).lru = P1!Without(h.lru, pages)
        /\ P1!Freed(g, pages).nMaxPage = h.nMaxPage
        /\ P1!Freed(g, pages).nCurrentPage = h.nCurrentPage
    BY <2>1, <2>3 DEF IsPGroup
  <2> QED
    BY <2>2, <2>3, <2>4
<1>3. ASSUME NEW a, NEW b
      PROVE  /\ IsPGroup(P1!Limits(g, a, b)) /\ P1!Limits(g, a, b).lru = g.lru
             /\ P1!Limits(g, a, b).nMaxPage = a
             /\ P1!Limits(g, a, b).nCurrentPage = g.nCurrentPage
  <2> DEFINE x == (a + MinPages - b) % Word
  <2>1. P1!Limits(g, a, b) = [g EXCEPT !.nMaxPage = a, !.nMinPage = b, !.mxPinned = x]
    BY DEF P1!Limits
  <2> HIDE DEF x
  <2> QED
    BY <2>1 DEF IsPGroup
<1> QED
  BY <1>1, <1>2, <1>3

-----------------------------------------------------------------------------
(***************************************************************************)
(* PCache1: the inductive invariant.  An xFetch in progress looks for a    *)
(* key its cache does not have.  While the list is not empty, the pages    *)
(* and those that xFetch calls are about to add exceed the budget by less  *)
(* than the number of caches.                                              *)
(***************************************************************************)
FetchType == [at : {"out", "resize", "alloc"}, key : P1!Key \cup {0}]

FetchOK(cs, f) ==
  /\ f \in [Slot -> FetchType]
  /\ \A c \in Slot : f[c].at # "out" => f[c].key \in P1!Key /\ f[c].key \notin cs[c].keys

Allocating(f) == {c \in Slot : f[c].at = "alloc"}

Budget(g, f) ==
  g.lru # <<>> => g.nCurrentPage + Cardinality(Allocating(f)) <= g.nMaxPage + (Cardinality(Slot) - 1)

GroupOK(cs, g) ==
  /\ AllCaches(cs) /\ IsPGroup(g) /\ g.nMaxPage \in Int
  /\ Accounted(cs, g.nCurrentPage, g.lru)

PcInv(cs, g, f) == GroupOK(cs, g) /\ FetchOK(cs, f) /\ Budget(g, f)

LEMMA GroupTypes ==
  ASSUME NEW cs, NEW g, GroupOK(cs, g)
  PROVE  /\ g.nCurrentPage \in Nat /\ g.nMaxPage \in Int
         /\ g.lru \in Seq(Slot \X P1!Key) /\ Injective(g.lru)
         /\ Len(g.lru) \in Nat /\ DOMAIN g.lru = 1 .. Len(g.lru)
         /\ \A x : Listed(g.lru, x) => x \in PagesOf(cs)
         /\ \A c \in Slot : /\ cs[c].keys \in SUBSET P1!Key /\ cs[c].pins \in SUBSET cs[c].keys
                            /\ cs[c].iMaxKey \in Int /\ \A k \in cs[c].keys : k <= cs[c].iMaxKey
<1>1. g.nCurrentPage \in Nat
  BY PagesFinite DEF GroupOK, Accounted, PagesOf
<1>2. g.lru \in Seq(Slot \X P1!Key) /\ Injective(g.lru)
  BY DEF GroupOK, Accounted, ListOK
<1>3. Len(g.lru) \in Nat /\ DOMAIN g.lru = 1 .. Len(g.lru)
  BY <1>2
<1>4. ASSUME NEW x, Listed(g.lru, x) PROVE x \in PagesOf(cs)
  <2>1. x \in Slot \X P1!Key
    BY <1>2, <1>4 DEF Listed
  <2>2. x = <<x[1], x[2]>> /\ x[1] \in Slot /\ x[2] \in P1!Key
    BY <2>1
  <2>3. x[2] \in cs[x[1]].keys
    BY <1>4, <2>2 DEF GroupOK, Accounted, ListOK
  <2> QED
    BY <2>1, <2>3 DEF PagesOf
<1>5. \A c \in Slot : /\ cs[c].keys \in SUBSET P1!Key /\ cs[c].pins \in SUBSET cs[c].keys
                      /\ cs[c].iMaxKey \in Int /\ \A k \in cs[c].keys : k <= cs[c].iMaxKey
  BY DEF GroupOK, Accounted, Counts
<1> QED
  BY <1>1, <1>2, <1>3, <1>4, <1>5 DEF GroupOK

\* The caches after pages of the list are gone, and the group.
Recycled(cs2, g2, cs, g, pages) ==
  /\ GroupOK(cs2, g2)
  /\ g2.nCurrentPage = g.nCurrentPage - Cardinality(pages)
  /\ g2.nMaxPage = g.nMaxPage
  /\ g2.lru = P1!Without(g.lru, pages)
  /\ \A c \in Slot : /\ cs2[c].keys \in SUBSET cs[c].keys /\ cs2[c].pins = cs[c].pins
                     /\ cs2[c].nMax = cs[c].nMax /\ cs2[c].szPage = cs[c].szPage

LEMMA RecycleFacts ==
  ASSUME NEW cs, NEW g, GroupOK(cs, g), NEW pages, \A x \in pages : Listed(g.lru, x)
  PROVE  Recycled(P1!Removed(cs, g, pages), P1!Freed(g, pages), cs, g, pages)
<1> DEFINE cs2 == P1!Removed(cs, g, pages)
           g2 == P1!Freed(g, pages)
           q == g.lru
           n == g.nCurrentPage
<1>1. pages \in SUBSET PagesOf(cs) /\ pages \in SUBSET (Slot \X P1!Key)
  BY GroupTypes DEF PagesOf
<1>2. AllCaches(cs) /\ IsPGroup(g) /\ Accounted(cs, n, q) /\ g.nMaxPage \in Int
  BY DEF GroupOK
<1>3. IsRemoved(cs2, cs, q, pages)
  BY <1>1, <1>2, RemovedFacts
<1>4. /\ IsPGroup(g2) /\ g2.lru = P1!Without(q, pages) /\ g2.nMaxPage = g.nMaxPage
      /\ g2.nCurrentPage = n - Cardinality(pages)
  BY <1>2, GroupFacts
<1> HIDE DEF cs2, g2, q, n
<1>5. ASSUME NEW c \in Slot
      PROVE  /\ Loses(cs2[c], cs[c], Gone(c, pages), ListedGone(c, q, pages))
             /\ cs2[c].pins = cs[c].pins \ Gone(c, pages)
             /\ cs2[c].iMaxKey \in Int /\ \A k \in cs2[c].keys : k <= cs2[c].iMaxKey
  <2>1. /\ Loses(cs2[c], cs[c], Gone(c, pages), ListedGone(c, q, pages))
        /\ Kept(cs2[c], cs[c])
    BY <1>3 DEF IsRemoved
  <2>2. \A k \in Gone(c, pages) : k \notin cs[c].pins
    BY <1>2 DEF Gone, Accounted, ListOK, q
  <2>3. cs2[c].pins = cs[c].pins \ Gone(c, pages)
    BY <2>1, <2>2 DEF Kept
  <2>4. cs2[c].keys \in SUBSET cs[c].keys /\ cs2[c].iMaxKey = cs[c].iMaxKey
    BY <2>1 DEF Kept, Loses
  <2>5. cs[c].iMaxKey \in Int /\ \A k \in cs[c].keys : k <= cs[c].iMaxKey
    BY <1>2 DEF Accounted, Counts
  <2> QED
    BY <2>1, <2>3, <2>4, <2>5
<1>6. Accounted(cs2, n - Cardinality(pages), P1!Without(q, pages))
  BY <1>1, <1>2, <1>5, RemoveAccounted
<1>7. GroupOK(cs2, g2)
  BY <1>2, <1>3, <1>4, <1>6 DEF GroupOK, IsRemoved
<1>8. \A c \in Slot : /\ cs2[c].keys \in SUBSET cs[c].keys /\ cs2[c].pins = cs[c].pins
                      /\ cs2[c].nMax = cs[c].nMax /\ cs2[c].szPage = cs[c].szPage
  BY <1>3 DEF IsRemoved, Loses, Kept
<1> QED
  BY <1>4, <1>7, <1>8 DEF Recycled, cs2, g2, q, n

\* pcache1EnforceMaxPage(): the pages to recycle are of the list, and enough or all of it.
LEMMA ExcessFacts ==
  ASSUME NEW cs, NEW g, GroupOK(cs, g), NEW max \in Int
  PROVE  /\ \A x \in P1!Excess(g, max) : Listed(g.lru, x)
         /\ P1!Without(g.lru, P1!Excess(g, max)) # <<>> =>
              g.nCurrentPage - Cardinality(P1!Excess(g, max)) <= max
<1> DEFINE over == IF g.nCurrentPage > max THEN g.nCurrentPage - max ELSE 0
           E == P1!Excess(g, max)
           q == g.lru
           J == {j \in DOMAIN q : j > Len(q) - over}
<1>1. E = {q[i] : i \in J}
  BY DEF P1!Excess
<1>2. /\ g.nCurrentPage \in Nat /\ q \in Seq(Slot \X P1!Key) /\ Injective(q)
      /\ Len(q) \in Nat /\ DOMAIN q = 1 .. Len(q)
  BY GroupTypes
<1> HIDE DEF q, E
<1>3. \A x \in E : Listed(q, x)
  BY <1>1 DEF Listed
<1>4. IsFiniteSet(E) /\ Cardinality(E) \in Nat
  <2>1. E \in SUBSET (Slot \X P1!Key)
    BY <1>1, <1>2
  <2> QED
    BY <2>1, PagesFinite
<1>5. ASSUME P1!Without(q, E) # <<>> PROVE g.nCurrentPage - Cardinality(E) <= max
  <2>1. IsWithout(P1!Without(q, E), q, E, Slot \X P1!Key)
    BY <1>2, WithoutFacts
  <2>2. PICK x : Listed(P1!Without(q, E), x)
    <3> DEFINE w == P1!Without(q, E)
    <3>1. w \in Seq(Slot \X P1!Key) /\ w # <<>>
      BY <1>5, <2>1 DEF IsWithout
    <3> HIDE DEF w
    <3>2. 1 \in DOMAIN w
      BY <3>1
    <3> QED
      BY <3>2 DEF Listed, w
  <2>3. PICK i \in 1 .. Len(q) : q[i] \notin E
    BY <1>2, <2>1, <2>2 DEF IsWithout, Listed
  <2>4. over \in Nat /\ i <= Len(q) - over
    <3>1. over \in Nat
      BY <1>2
    <3>2. i \notin J
      BY <1>1, <2>3
    <3> HIDE DEF over
    <3> QED
      BY <1>2, <3>1, <3>2
  <2>5. over <= Cardinality(E)
    <3> DEFINE f == [j \in 1 .. over |-> q[Len(q) - over + j]]
    <3>1. over \in Nat /\ over < Len(q)
      <4> HIDE DEF over
      <4> QED
        BY <1>2, <2>4
    <3> HIDE DEF over
    <3>2. \A j \in 1 .. over : Len(q) - over + j \in J
      BY <1>2, <3>1
    <3>3. f \in [1 .. over -> E]
      BY <1>1, <3>2
    <3>4. \A j, k \in 1 .. over : f[j] = f[k] => j = k
      <4>1. ASSUME NEW j \in 1 .. over, NEW k \in 1 .. over, f[j] = f[k] PROVE j = k
        <5>1. Len(q) - over + j = Len(q) - over + k
          BY <1>2, <3>2, <4>1 DEF Injective
        <5> QED
          BY <1>2, <3>1, <5>1
      <4> QED
        BY <4>1
    <3> HIDE DEF f
    <3>5. f \in Injection(1 .. over, E)
      BY <3>3, <3>4 DEF Injection, IsInjective
    <3>6. Cardinality(1 .. over) <= Cardinality(E)
      BY <1>4, <3>5, FS_Injection
    <3>7. Cardinality(1 .. over) = over
      BY <3>1, FS_Interval
    <3> QED
      BY <3>6, <3>7
  <2> QED
    BY <1>2, <1>4, <2>5
<1> QED
  BY <1>3, <1>5 DEF q, E

-----------------------------------------------------------------------------
\* PCache1: every action keeps the invariant.

\* One cache is replaced.
IsPut(cs2, cs, c, r) ==
  AllCaches(cs2) /\ cs2[c] = r /\ \A d \in Slot : d # c => cs2[d] = cs[d]

LEMMA PutCache ==
  ASSUME NEW cs, AllCaches(cs), NEW c \in Slot, NEW r, IsPCache(r), r.nMax \in Int
  PROVE  IsPut([cs EXCEPT ![c] = r], cs, c, r)
<1> DEFINE cs2 == [cs EXCEPT ![c] = r]
<1>1. cs = [d \in Slot |-> cs[d]]
  BY DEF AllCaches
<1>2. cs2 = [d \in Slot |-> cs2[d]] /\ cs2[c] = r /\ \A d \in Slot : d # c => cs2[d] = cs[d]
  BY <1>1
<1>3. \A d \in Slot : IsPCache(cs2[d]) /\ cs2[d].nMax \in Int
  BY <1>2 DEF AllCaches
<1> QED
  BY <1>2, <1>3 DEF AllCaches, IsPut

LEMMA AllocFacts ==
  ASSUME NEW f
  PROVE  /\ IsFiniteSet(Allocating(f)) /\ Cardinality(Allocating(f)) \in Nat
         /\ Cardinality(Slot) \in Nat /\ Cardinality(Allocating(f)) <= Cardinality(Slot)
         /\ \A c \in Slot : f[c].at # "alloc" =>
              Cardinality(Allocating(f)) <= Cardinality(Slot) - 1
<1> DEFINE A == Allocating(f)
<1>1. A \in SUBSET Slot /\ IsFiniteSet(Slot)
  BY PCacheAssumption DEF Allocating
<1>2. \A c \in Slot : f[c].at # "alloc" => c \notin A
  BY DEF Allocating
<1> HIDE DEF A
<1>3. Cardinality(Slot) \in Nat
  BY <1>1, FS_CardinalityType
<1>4. /\ IsFiniteSet(A) /\ Cardinality(A) <= Cardinality(Slot)
      /\ Cardinality(Slot) = Cardinality(A) => Slot = A
  BY <1>1, FS_Subset
<1>5. Cardinality(A) \in Nat
  BY <1>4, FS_CardinalityType
<1>6. \A c \in Slot : c \notin A => Cardinality(A) <= Cardinality(Slot) - 1
  BY <1>3, <1>4, <1>5
<1> QED
  BY <1>2, <1>3, <1>4, <1>5, <1>6 DEF A

\* One cache begins or ends an allocation.
AllocMoved(f2, f, c, v) ==
  /\ f2 \in [Slot -> FetchType] /\ f2[c] = v /\ \A d \in Slot : d # c => f2[d] = f[d]
  /\ Cardinality(Allocating(f2)) <= Cardinality(Allocating(f)) + 1
  /\ v.at # "alloc" => Cardinality(Allocating(f2)) <= Cardinality(Allocating(f))
  /\ v.at # "alloc" /\ f[c].at = "alloc" =>
       Cardinality(Allocating(f2)) = Cardinality(Allocating(f)) - 1

LEMMA AllocChange ==
  ASSUME NEW f, f \in [Slot -> FetchType], NEW c \in Slot, NEW v \in FetchType
  PROVE  AllocMoved([f EXCEPT ![c] = v], f, c, v)
<1> DEFINE f2 == [f EXCEPT ![c] = v]
<1> SUFFICES AllocMoved(f2, f, c, v)
  OBVIOUS
<1> DEFINE A == Allocating(f)
           A2 == Allocating(f2)
<1>1. f2 \in [Slot -> FetchType] /\ f2[c] = v /\ \A d \in Slot : d # c => f2[d] = f[d]
  OBVIOUS
<1> HIDE DEF f2
<1>2. IsFiniteSet(A) /\ Cardinality(A) \in Nat
  BY AllocFacts
<1>3. CASE v.at = "alloc"
  <2>1. A2 = A \cup {c}
    BY <1>1, <1>3 DEF Allocating
  <2> HIDE DEF A, A2
  <2>2. Cardinality(A2) <= Cardinality(A) + 1
    <3>1. Cardinality(A \cup {c}) = IF c \in A THEN Cardinality(A) ELSE Cardinality(A) + 1
      BY <1>2, FS_AddElement
    <3> QED
      BY <1>2, <2>1, <3>1
  <2> QED
    BY <1>1, <1>3, <2>2 DEF A, A2, AllocMoved
<1>4. CASE v.at # "alloc"
  <2>1. A2 = A \ {c} /\ (c \in A <=> f[c].at = "alloc")
    BY <1>1, <1>4 DEF Allocating
  <2> HIDE DEF A, A2
  <2>2. Cardinality(A2) = IF c \in A THEN Cardinality(A) - 1 ELSE Cardinality(A)
    BY <1>2, <2>1, FS_RemoveElement
  <2>3. /\ Cardinality(A2) <= Cardinality(A) + 1 /\ Cardinality(A2) <= Cardinality(A)
        /\ f[c].at = "alloc" => Cardinality(A2) = Cardinality(A) - 1
    BY <1>2, <2>1, <2>2
  <2> QED
    BY <1>1, <1>4, <2>3 DEF A, A2, AllocMoved
<1> QED
  BY <1>3, <1>4

LEMMA FetchKept ==
  ASSUME NEW cs, NEW f, FetchOK(cs, f), NEW cs2,
         \A c \in Slot : cs2[c].keys \in SUBSET cs[c].keys
  PROVE  FetchOK(cs2, f)
BY DEF FetchOK

\* The xFetch of c begins, goes on or ends; its cache may get the key it looked for.
LEMMA FetchMoved ==
  ASSUME NEW cs, NEW f, FetchOK(cs, f), NEW c \in Slot, NEW v \in FetchType,
         NEW f2, f2 = [f EXCEPT ![c] = v],
         NEW cs2, \A d \in Slot : d # c => cs2[d].keys \in SUBSET cs[d].keys,
         v.at # "out" => v.key \in P1!Key /\ v.key \notin cs2[c].keys
  PROVE  FetchOK(cs2, f2)
<1>1. f \in [Slot -> FetchType]
  BY DEF FetchOK
<1>2. f2 \in [Slot -> FetchType] /\ f2[c] = v /\ \A d \in Slot : d # c => f2[d] = f[d]
  BY <1>1
<1>3. ASSUME NEW d \in Slot, f2[d].at # "out"
      PROVE  f2[d].key \in P1!Key /\ f2[d].key \notin cs2[d].keys
  <2>1. CASE d = c
    BY <1>2, <1>3, <2>1
  <2>2. CASE d # c
    BY <1>2, <1>3, <2>2 DEF FetchOK
  <2> QED
    BY <2>1, <2>2
<1> QED
  BY <1>2, <1>3 DEF FetchOK

\* What is left of a list that is not empty.
LEMMA WithoutShrinks ==
  ASSUME NEW cs, NEW g, GroupOK(cs, g), NEW pages, P1!Without(g.lru, pages) # <<>>
  PROVE  g.lru # <<>>
<1> DEFINE w == P1!Without(g.lru, pages)
<1>1. IsWithout(w, g.lru, pages, Slot \X P1!Key)
  BY GroupTypes, WithoutFacts
<1>2. w \in Seq(Slot \X P1!Key) /\ w # <<>>
  BY <1>1 DEF IsWithout
<1> HIDE DEF w
<1>3. 1 \in DOMAIN w
  BY <1>2
<1>4. Listed(g.lru, w[1])
  BY <1>1, <1>3 DEF IsWithout, Listed
<1> QED
  BY <1>4 DEF Listed

\* Fewer pages, and no more of them on the list.
LEMMA BudgetLess ==
  ASSUME NEW cs, NEW g, GroupOK(cs, g), NEW cs2, NEW g2, GroupOK(cs2, g2),
         NEW f, Budget(g, f), NEW f2,
         g2.lru # <<>> => g.lru # <<>>,
         g2.nMaxPage = g.nMaxPage,
         g2.nCurrentPage + Cardinality(Allocating(f2)) <=
           g.nCurrentPage + Cardinality(Allocating(f))
  PROVE  Budget(g2, f2)
<1>1. /\ g.nCurrentPage \in Nat /\ g2.nCurrentPage \in Nat /\ g.nMaxPage \in Int
  BY GroupTypes
<1>2. /\ Cardinality(Allocating(f)) \in Nat /\ Cardinality(Allocating(f2)) \in Nat
      /\ Cardinality(Slot) \in Nat
  BY AllocFacts
<1> QED
  BY <1>1, <1>2 DEF Budget

\* The budget was tested while c was not allocating.
LEMMA BudgetTested ==
  ASSUME NEW cs, NEW g, GroupOK(cs, g), NEW f, NEW c \in Slot, f[c].at # "alloc",
         g.lru # <<>> => g.nCurrentPage <= g.nMaxPage
  PROVE  Budget(g, f)
<1>1. g.nCurrentPage \in Nat /\ g.nMaxPage \in Int
  BY GroupTypes
<1>2. /\ Cardinality(Allocating(f)) \in Nat /\ Cardinality(Slot) \in Nat
      /\ Cardinality(Allocating(f)) <= Cardinality(Slot) - 1
  BY AllocFacts
<1> QED
  BY <1>1, <1>2 DEF Budget

LEMMA ReadyFacts ==
  ASSUME NEW c \in Slot, FetchOK(cache, fetch), P1!Ready(c)
  PROVE  fetch[c] = [at |-> "out", key |-> 0] /\ fetch[c].at = "out"
BY DEF P1!Ready, P1!NoFetch

LEMMA EnforceFacts ==
  ASSUME NEW cs, NEW g, GroupOK(cs, g), P1!pcache1EnforceMaxPage(cs, g)
  PROVE  /\ GroupOK(cache', grp')
         /\ grp'.lru # <<>> => grp'.nCurrentPage <= grp'.nMaxPage
         /\ \A c \in Slot : cache'[c].keys \in SUBSET cs[c].keys
<1> DEFINE E == P1!Excess(g, g.nMaxPage)
<1>1. cache' = P1!Removed(cs, g, E) /\ grp' = P1!Freed(g, E)
  BY DEF P1!pcache1EnforceMaxPage
<1>2. g.nMaxPage \in Int
  BY DEF GroupOK
<1>3. /\ \A x \in E : Listed(g.lru, x)
      /\ P1!Without(g.lru, E) # <<>> => g.nCurrentPage - Cardinality(E) <= g.nMaxPage
  BY <1>2, ExcessFacts
<1> HIDE DEF E
<1>4. Recycled(cache', grp', cs, g, E)
  BY <1>1, <1>3, RecycleFacts
<1> QED
  BY <1>3, <1>4 DEF Recycled

PageInv == PcInv(cache, grp, fetch)

LEMMA CreateOK ==
  ASSUME PageInv, NEW c \in Slot, NEW sz, P1!pcache1Create(c, sz)
  PROVE  PcInv(cache', grp', fetch')
<1> DEFINE r == cache[c]
           r2 == [r EXCEPT !.open = TRUE, !.szPage = sz]
<1>1. GroupOK(cache, grp) /\ FetchOK(cache, fetch) /\ Budget(grp, fetch)
  BY DEF PageInv, PcInv
<1>2. AllCaches(cache) /\ IsPGroup(grp) /\ Accounted(cache, grp.nCurrentPage, grp.lru)
  BY <1>1 DEF GroupOK
<1>3. IsPCache(r) /\ r.nMax \in Int /\ cache = [d \in Slot |-> cache[d]]
  BY <1>2 DEF AllCaches
<1>4. cache' = [cache EXCEPT ![c] = r2] /\ fetch' = fetch
  BY <1>3 DEF P1!pcache1Create, IsPCache
<1>5. IsPCache(r2) /\ r2.nMax = r.nMax /\ SameCounts(r2, r)
  <2> HIDE DEF r
  <2>1. PICK x : x = [r EXCEPT !.open = TRUE, !.szPage = sz]
    OBVIOUS
  <2>2. IsPCache(x) /\ x.nMax = r.nMax /\ SameCounts(x, r)
    BY <1>3, <2>1 DEF IsPCache, SameCounts
  <2> QED
    BY <2>1, <2>2
<1> HIDE DEF r2
<1>6. AllCaches(cache') /\ cache'[c] = r2 /\ \A d \in Slot : d # c => cache'[d] = cache[d]
  <2>1. r2.nMax \in Int
    BY <1>3, <1>5
  <2>2. IsPut(cache', cache, c, r2)
    BY <1>2, <1>4, <1>5, <2>1, PutCache
  <2> QED
    BY <2>2 DEF IsPut
<1>7. \A d \in Slot : SameCounts(cache'[d], cache[d])
  BY <1>5, <1>6 DEF SameCounts
<1>8. Accounted(cache', grp.nCurrentPage, grp.lru)
  BY <1>2, <1>7, SameAccounted
<1>9. grp' = P1!Limits(grp, grp.nMaxPage, grp.nMinPage + MinPages)
  BY DEF P1!pcache1Create
<1>10. IsPGroup(grp') /\ grp'.lru = grp.lru /\ grp'.nMaxPage = grp.nMaxPage
       /\ grp'.nCurrentPage = grp.nCurrentPage
  BY <1>2, <1>9, GroupFacts
<1>11. GroupOK(cache', grp')
  BY <1>1, <1>6, <1>8, <1>10 DEF GroupOK
<1>12. FetchOK(cache', fetch')
  BY <1>1, <1>4, <1>7, FetchKept DEF SameCounts
<1>13. Budget(grp', fetch')
  BY <1>1, <1>4, <1>10 DEF Budget
<1> QED
  BY <1>11, <1>12, <1>13 DEF PcInv

LEMMA CachesizeOK ==
  ASSUME PageInv, NEW c \in Slot, NEW nMax \in Sizes, P1!pcache1Cachesize(c, nMax)
  PROVE  PcInv(cache', grp', fetch')
<1> DEFINE r == cache[c]
           p == (nMax * 9) \div 10
           r2 == [r EXCEPT !.nMax = nMax, !.n90pct = p]
           cs == [cache EXCEPT ![c].nMax = nMax, ![c].n90pct = p]
           g == P1!Limits(grp, grp.nMaxPage + nMax - r.nMax, grp.nMinPage)
<1>1. GroupOK(cache, grp) /\ FetchOK(cache, fetch) /\ Budget(grp, fetch) /\ nMax \in Int
  BY PCacheAssumption DEF PageInv, PcInv
<1>2. AllCaches(cache) /\ IsPGroup(grp) /\ Accounted(cache, grp.nCurrentPage, grp.lru)
      /\ grp.nMaxPage \in Int
  BY <1>1 DEF GroupOK
<1>3. IsPCache(r) /\ r.nMax \in Int /\ cache = [d \in Slot |-> cache[d]]
  BY <1>2 DEF AllCaches
<1>4. P1!Ready(c) /\ P1!pcache1EnforceMaxPage(cs, g) /\ fetch' = fetch
  BY DEF P1!pcache1Cachesize
<1> HIDE DEF p
<1>5. cs = [cache EXCEPT ![c] = r2]
  BY <1>3 DEF IsPCache
<1>6. IsPCache(r2) /\ r2.nMax = nMax /\ SameCounts(r2, r)
  <2> HIDE DEF r
  <2>1. PICK x : x = [r EXCEPT !.nMax = nMax, !.n90pct = p]
    OBVIOUS
  <2>2. IsPCache(x) /\ x.nMax = nMax /\ SameCounts(x, r)
    BY <1>3, <2>1 DEF IsPCache, SameCounts
  <2> QED
    BY <2>1, <2>2
<1> HIDE DEF r2, cs
<1>7. AllCaches(cs) /\ cs[c] = r2 /\ \A d \in Slot : d # c => cs[d] = cache[d]
  <2>1. r2.nMax \in Int
    BY <1>1, <1>6
  <2>2. IsPut(cs, cache, c, r2)
    BY <1>2, <1>5, <1>6, <2>1, PutCache
  <2> QED
    BY <2>2 DEF IsPut
<1>8. \A d \in Slot : SameCounts(cs[d], cache[d])
  BY <1>6, <1>7 DEF SameCounts
<1>9. Accounted(cs, grp.nCurrentPage, grp.lru)
  BY <1>2, <1>8, SameAccounted
<1>10. IsPGroup(g) /\ g.lru = grp.lru /\ g.nMaxPage \in Int /\ g.nCurrentPage = grp.nCurrentPage
  <2>1. grp.nMaxPage + nMax - r.nMax \in Int
    BY <1>1, <1>2, <1>3
  <2> QED
    BY <1>2, <2>1, GroupFacts
<1> HIDE DEF g
<1>11. GroupOK(cs, g)
  BY <1>7, <1>9, <1>10 DEF GroupOK
<1>12. /\ GroupOK(cache', grp')
       /\ grp'.lru # <<>> => grp'.nCurrentPage <= grp'.nMaxPage
       /\ \A d \in Slot : cache'[d].keys \in SUBSET cs[d].keys
  BY <1>4, <1>11, EnforceFacts
<1>13. FetchOK(cache', fetch')
  <2>1. \A d \in Slot : cache'[d].keys \in SUBSET cache[d].keys
    BY <1>8, <1>12 DEF SameCounts
  <2> QED
    BY <1>1, <1>4, <2>1, FetchKept
<1>14. fetch'[c].at # "alloc"
  BY <1>1, <1>4, ReadyFacts
<1>15. Budget(grp', fetch')
  BY <1>12, <1>14, BudgetTested
<1> QED
  BY <1>12, <1>13, <1>15 DEF PcInv

\* Pages of the list are recycled, the limits are the same.
LEMMA RecycledOK ==
  ASSUME PageInv, NEW pages, \A x \in pages : Listed(grp.lru, x),
         cache' = P1!Removed(cache, grp, pages), grp' = P1!Freed(grp, pages), fetch' = fetch
  PROVE  PcInv(cache', grp', fetch')
<1>1. GroupOK(cache, grp) /\ FetchOK(cache, fetch) /\ Budget(grp, fetch)
  BY DEF PageInv, PcInv
<1>2. Recycled(cache', grp', cache, grp, pages)
  BY <1>1, RecycleFacts
<1>3. FetchOK(cache', fetch')
  BY <1>1, <1>2, FetchKept DEF Recycled
<1>4. Cardinality(pages) \in Nat /\ grp.nCurrentPage \in Nat
  <2>1. pages \in SUBSET (Slot \X P1!Key)
    BY <1>1, GroupTypes DEF PagesOf
  <2> QED
    BY <1>1, <2>1, PagesFinite, GroupTypes
<1>5. Cardinality(Allocating(fetch)) \in Nat
  BY AllocFacts
<1>6. Budget(grp', fetch')
  <2>1. grp'.lru # <<>> => grp.lru # <<>>
    BY <1>1, <1>2, WithoutShrinks DEF Recycled
  <2>2. grp'.nCurrentPage + Cardinality(Allocating(fetch')) <=
          grp.nCurrentPage + Cardinality(Allocating(fetch))
    BY <1>2, <1>4, <1>5 DEF Recycled
  <2> QED
    BY <1>1, <1>2, <2>1, <2>2, BudgetLess DEF Recycled
<1> QED
  BY <1>2, <1>3, <1>6 DEF PcInv, Recycled

LEMMA ShrinkOK ==
  ASSUME PageInv, NEW c \in Slot, P1!pcache1Shrink(c)
  PROVE  PcInv(cache', grp', fetch')
<1> DEFINE E == P1!Excess(grp, 0)
<1>1. cache' = P1!Removed(cache, grp, E) /\ grp' = P1!Freed(grp, E) /\ fetch' = fetch
  BY DEF P1!pcache1Shrink
<1>2. \A x \in E : Listed(grp.lru, x)
  BY ExcessFacts DEF PageInv, PcInv
<1> HIDE DEF E
<1> QED
  BY <1>1, <1>2, RecycledOK

\* The page unpinned longest ago.
LEMMA TailListed ==
  ASSUME GroupOK(cache, grp), grp.lru # <<>>
  PROVE  Listed(grp.lru, grp.lru[Len(grp.lru)])
<1>1. Len(grp.lru) \in DOMAIN grp.lru
  BY GroupTypes
<1> QED
  BY <1>1 DEF Listed

LEMMA ReleaseMemoryOK ==
  ASSUME PageInv, P1!sqlite3PcacheReleaseMemory
  PROVE  PcInv(cache', grp', fetch')
<1> DEFINE page == grp.lru[Len(grp.lru)]
<1>1. /\ grp.lru # <<>> /\ cache' = P1!Removed(cache, grp, {page})
      /\ grp' = P1!Freed(grp, {page}) /\ fetch' = fetch
  BY DEF P1!sqlite3PcacheReleaseMemory
<1>2. Listed(grp.lru, page)
  BY <1>1, TailListed DEF PageInv, PcInv
<1> HIDE DEF page
<1> QED
  BY <1>1, <1>2, RecycledOK

\* What is taken away of one cache leaves the keys of the others.
LEMMA FoundOK ==
  ASSUME PageInv, NEW c \in Slot, NEW k \in P1!Key, P1!Found(c, k)
  PROVE  PcInv(cache', grp', fetch')
<1> DEFINE r == cache[c]
           x == <<c, k>>
           z == r.nRecyclable - P1!Cardinality({x} \cap P1!Lru)
           r2 == [r EXCEPT !.nRecyclable = z]
           cs == [cache EXCEPT ![c].nRecyclable = @ - P1!Cardinality({x} \cap P1!Lru)]
<1>1. GroupOK(cache, grp) /\ FetchOK(cache, fetch) /\ Budget(grp, fetch)
  BY DEF PageInv, PcInv
<1>2. AllCaches(cache) /\ IsPGroup(grp) /\ Accounted(cache, grp.nCurrentPage, grp.lru)
  BY <1>1 DEF GroupOK
<1>3. IsPCache(r) /\ r.nMax \in Int /\ cache = [d \in Slot |-> cache[d]]
  BY <1>2 DEF AllCaches
<1>4. /\ k \in r.keys /\ cache' = P1!Pinned(cs, c, k) /\ grp' = P1!Unlisted(grp, {x})
      /\ fetch' = fetch
  BY DEF P1!Found
<1>5. cs = [cache EXCEPT ![c] = r2]
  BY <1>3 DEF IsPCache
<1>6. z = r.nRecyclable - (IF Listed(grp.lru, x) THEN 1 ELSE 0)
  <2>1. x \in P1!Lru <=> Listed(grp.lru, x)
    BY DEF P1!Lru, Listed
  <2>2. {x} \cap P1!Lru = IF Listed(grp.lru, x) THEN {x} ELSE {}
    BY <2>1
  <2>3. Cardinality({x}) = 1 /\ Cardinality({}) = 0
    BY FS_Singleton, FS_EmptySet
  <2>4. P1!Cardinality({x} \cap P1!Lru) = IF Listed(grp.lru, x) THEN 1 ELSE 0
    BY <2>2, <2>3, SameCardinality
  <2> QED
    BY <2>4
<1> HIDE DEF z
<1>7. /\ IsPCache(r2) /\ r2.nMax = r.nMax /\ r2.keys = r.keys /\ r2.pins = r.pins
      /\ r2.nPage = r.nPage /\ r2.nRecyclable = z /\ r2.iMaxKey = r.iMaxKey
  <2> HIDE DEF r
  <2>1. PICK y : y = [r EXCEPT !.nRecyclable = z]
    OBVIOUS
  <2>2. /\ IsPCache(y) /\ y.nMax = r.nMax /\ y.keys = r.keys /\ y.pins = r.pins
        /\ y.nPage = r.nPage /\ y.nRecyclable = z /\ y.iMaxKey = r.iMaxKey
    BY <1>3, <2>1 DEF IsPCache
  <2> QED
    BY <2>1, <2>2
<1> HIDE DEF r2, cs
<1>8. AllCaches(cs) /\ cs[c] = r2 /\ \A d \in Slot : d # c => cs[d] = cache[d]
  <2>1. r2.nMax \in Int
    BY <1>3, <1>7
  <2>2. IsPut(cs, cache, c, r2)
    BY <1>2, <1>5, <1>7, <2>1, PutCache
  <2> QED
    BY <2>2 DEF IsPut
<1>9. IsPinned(cache', cs, c, k)
  BY <1>4, <1>8, PinnedFacts
<1>10. /\ AllCaches(cache')
       /\ cache'[c].keys = r.keys /\ cache'[c].pins = r.pins \cup {k}
       /\ cache'[c].nPage = r.nPage /\ cache'[c].nRecyclable = z
       /\ cache'[c].iMaxKey = IF k > r.iMaxKey THEN k ELSE r.iMaxKey
  <2>1. cache'[c] = [r2 EXCEPT !.pins = r2.pins \cup {k},
                               !.iMaxKey = IF k > r2.iMaxKey THEN k ELSE r2.iMaxKey]
    BY <1>8, <1>9 DEF IsPinned
  <2>2. /\ cache'[c].keys = r2.keys /\ cache'[c].pins = r2.pins \cup {k}
        /\ cache'[c].nPage = r2.nPage /\ cache'[c].nRecyclable = r2.nRecyclable
        /\ cache'[c].iMaxKey = IF k > r2.iMaxKey THEN k ELSE r2.iMaxKey
    BY <1>7, <2>1 DEF IsPCache
  <2> QED
    BY <1>7, <1>9, <2>2 DEF IsPinned
<1>11. \A d \in Slot : d # c => cache'[d] = cache[d]
  BY <1>8, <1>9 DEF IsPinned
<1>12. OthersKeep(cache', cache, c)
  BY <1>2, <1>11 DEF OthersKeep, Accounted
<1>13. Accounted(cache', grp.nCurrentPage, P1!Without(grp.lru, {x}))
  <2>1. cache'[c].nRecyclable = cache[c].nRecyclable - (IF Listed(grp.lru, <<c, k>>) THEN 1 ELSE 0)
    BY <1>6, <1>10
  <2> QED
    BY <1>2, <1>4, <1>10, <1>12, <2>1, PinAccounted
<1>14. /\ IsPGroup(grp') /\ grp'.lru = P1!Without(grp.lru, {x}) /\ grp'.nMaxPage = grp.nMaxPage
       /\ grp'.nCurrentPage = grp.nCurrentPage
  BY <1>2, <1>4, GroupFacts
<1>15. GroupOK(cache', grp')
  BY <1>1, <1>10, <1>13, <1>14 DEF GroupOK
<1>16. FetchOK(cache', fetch')
  <2>1. \A d \in Slot : cache'[d].keys \in SUBSET cache[d].keys
    BY <1>10, <1>11
  <2> QED
    BY <1>1, <1>4, <2>1, FetchKept
<1>17. Budget(grp', fetch')
  <2>1. grp'.lru # <<>> => grp.lru # <<>>
    BY <1>1, <1>14, WithoutShrinks
  <2> QED
    BY <1>1, <1>4, <1>14, <2>1 DEF Budget
<1> QED
  BY <1>15, <1>16, <1>17 DEF PcInv

\* A page enters a cache that looked for it, and xFetch returns.
LEMMA EnterOK ==
  ASSUME NEW cs, NEW g, GroupOK(cs, g), NEW f, FetchOK(cs, f),
         NEW c \in Slot, NEW k \in P1!Key, k \notin cs[c].keys,
         NEW cs2, cs2 = P1!Entered(cs, c, k),
         NEW g2, IsPGroup(g2), g2.nMaxPage = g.nMaxPage, g2.lru = g.lru,
         g2.nCurrentPage = g.nCurrentPage + 1,
         NEW f2, f2 = [f EXCEPT ![c] = P1!NoFetch]
  PROVE  GroupOK(cs2, g2) /\ FetchOK(cs2, f2)
<1>1. AllCaches(cs) /\ Accounted(cs, g.nCurrentPage, g.lru) /\ g.nMaxPage \in Int
  BY DEF GroupOK
<1>2. IsEntered(cs2, cs, c, k)
  BY <1>1, EnteredFacts
<1>3. OthersKeep(cs2, cs, c)
  BY <1>1, <1>2 DEF OthersKeep, IsEntered, Accounted
<1>4. Accounted(cs2, g.nCurrentPage + 1, g.lru)
  <2>1. /\ cs2[c].keys = cs[c].keys \cup {k} /\ cs2[c].pins = cs[c].pins \cup {k}
        /\ cs2[c].nPage = cs[c].nPage + 1 /\ cs2[c].nRecyclable = cs[c].nRecyclable
        /\ cs2[c].iMaxKey = IF k > cs[c].iMaxKey THEN k ELSE cs[c].iMaxKey
    BY <1>2 DEF IsEntered
  <2> QED
    BY <1>1, <1>3, <2>1, EnterAccounted
<1>5. GroupOK(cs2, g2)
  BY <1>1, <1>2, <1>4 DEF GroupOK, IsEntered
<1>6. P1!NoFetch \in FetchType /\ P1!NoFetch.at = "out"
  BY DEF P1!NoFetch, FetchType
<1>7. FetchOK(cs2, f2)
  <2>1. \A d \in Slot : d # c => cs2[d].keys \in SUBSET cs[d].keys
    BY <1>3 DEF OthersKeep
  <2> QED
    BY <1>6, <2>1, FetchMoved
<1> QED
  BY <1>5, <1>7

\* The hash table exists: nothing that is counted changes.
LEMMA HashedOK ==
  ASSUME NEW cs, NEW g, GroupOK(cs, g), NEW c \in Slot,
         NEW cs2, cs2 = [cs EXCEPT ![c].hashed = TRUE]
  PROVE  GroupOK(cs2, g) /\ \A d \in Slot : SameCounts(cs2[d], cs[d])
<1> DEFINE r == cs[c]
           r2 == [r EXCEPT !.hashed = TRUE]
<1>1. AllCaches(cs) /\ Accounted(cs, g.nCurrentPage, g.lru) /\ IsPGroup(g) /\ g.nMaxPage \in Int
  BY DEF GroupOK
<1>2. IsPCache(r) /\ r.nMax \in Int
  BY <1>1 DEF AllCaches
<1>3. cs2 = [cs EXCEPT ![c] = r2]
  OBVIOUS
<1>4. IsPCache(r2) /\ r2.nMax = r.nMax /\ SameCounts(r2, r)
  <2> HIDE DEF r
  <2>1. PICK x : x = [r EXCEPT !.hashed = TRUE]
    OBVIOUS
  <2>2. IsPCache(x) /\ x.nMax = r.nMax /\ SameCounts(x, r)
    BY <1>2, <2>1 DEF IsPCache, SameCounts
  <2> QED
    BY <2>1, <2>2
<1> HIDE DEF r2
<1>5. AllCaches(cs2) /\ cs2[c] = r2 /\ \A d \in Slot : d # c => cs2[d] = cs[d]
  <2>1. r2.nMax \in Int
    BY <1>2, <1>4
  <2>2. IsPut([cs EXCEPT ![c] = r2], cs, c, r2)
    BY <1>1, <1>4, <2>1, PutCache
  <2>3. IsPut(cs2, cs, c, r2)
    BY <1>3, <2>2
  <2> QED
    BY <2>3 DEF IsPut
<1>6. \A d \in Slot : SameCounts(cs2[d], cs[d])
  BY <1>4, <1>5 DEF SameCounts
<1>7. Accounted(cs2, g.nCurrentPage, g.lru)
  BY <1>1, <1>6, SameAccounted
<1> QED
  BY <1>1, <1>5, <1>6, <1>7 DEF GroupOK

LEMMA RecycleOK ==
  ASSUME PageInv, NEW c \in Slot, NEW k \in P1!Key, k \notin cache[c].keys, grp.lru # <<>>,
         P1!Recycle(c, k)
  PROVE  PcInv(cache', grp', fetch')
<1> DEFINE page == grp.lru[Len(grp.lru)]
           rs == P1!Removed(cache, grp, {page})
           cs == [rs EXCEPT ![c].hashed = TRUE]
           g == P1!Freed(grp, {page})
<1>1. GroupOK(cache, grp) /\ FetchOK(cache, fetch) /\ Budget(grp, fetch)
  BY DEF PageInv, PcInv
<1>2. IF cache[page[1]].szPage = cache[c].szPage
      THEN /\ cache' = P1!Entered(cs, c, k)
           /\ grp' = P1!Unlisted(grp, {page})
           /\ fetch' = [fetch EXCEPT ![c] = P1!NoFetch]
      ELSE /\ cache' = cs
           /\ grp' = g
           /\ fetch' = [fetch EXCEPT ![c] = [at |-> "alloc", key |-> k]]
  BY DEF P1!Recycle
<1>3. Listed(grp.lru, page)
  BY <1>1, TailListed
<1>4. IsPGroup(grp)
  BY <1>1 DEF GroupOK
<1>5. /\ IsPGroup(P1!Unlisted(grp, {page}))
      /\ P1!Unlisted(grp, {page}).lru = P1!Without(grp.lru, {page})
      /\ P1!Unlisted(grp, {page}).nMaxPage = grp.nMaxPage
      /\ P1!Unlisted(grp, {page}).nCurrentPage = grp.nCurrentPage
  BY <1>4, GroupFacts
<1> HIDE DEF page
<1>6. Recycled(rs, g, cache, grp, {page})
  BY <1>1, <1>3, RecycleFacts
<1> HIDE DEF rs, g
<1>7. /\ GroupOK(rs, g) /\ g.nMaxPage = grp.nMaxPage /\ g.lru = P1!Without(grp.lru, {page})
      /\ g.nCurrentPage = grp.nCurrentPage - Cardinality({page})
      /\ \A d \in Slot : rs[d].keys \in SUBSET cache[d].keys
  BY <1>6 DEF Recycled
<1>8. GroupOK(cs, g) /\ \A d \in Slot : SameCounts(cs[d], rs[d])
  BY <1>7, HashedOK
<1> HIDE DEF cs
<1>9. \A d \in Slot : cs[d].keys \in SUBSET cache[d].keys
  BY <1>7, <1>8 DEF SameCounts
<1>10. FetchOK(cs, fetch) /\ k \notin cs[c].keys
  BY <1>1, <1>9, FetchKept
<1>11. Cardinality({page}) = 1 /\ grp.nCurrentPage \in Nat /\ g.nCurrentPage \in Nat
  BY <1>1, <1>7, FS_Singleton, GroupTypes
<1>12. g.nCurrentPage = grp.nCurrentPage - 1
  BY <1>7, <1>11
<1>13. grp'.lru = g.lru /\ (g.lru # <<>> => grp.lru # <<>>)
  BY <1>1, <1>2, <1>5, <1>7, WithoutShrinks
<1>14. fetch \in [Slot -> FetchType] /\ Cardinality(Allocating(fetch)) \in Nat
       /\ Cardinality(Allocating(fetch')) \in Nat
  BY <1>1, AllocFacts DEF FetchOK
<1>15. CASE cache[page[1]].szPage = cache[c].szPage
  <2>1. /\ cache' = P1!Entered(cs, c, k) /\ grp' = P1!Unlisted(grp, {page})
        /\ fetch' = [fetch EXCEPT ![c] = P1!NoFetch]
    BY <1>2, <1>15
  <2>2. grp'.nCurrentPage = g.nCurrentPage + 1 /\ grp'.nMaxPage = g.nMaxPage /\ IsPGroup(grp')
    BY <1>5, <1>7, <1>11, <1>12, <2>1
  <2>3. GroupOK(cache', grp') /\ FetchOK(cache', fetch')
    BY <1>8, <1>10, <1>13, <2>1, <2>2, EnterOK
  <2>4. P1!NoFetch \in FetchType /\ P1!NoFetch.at # "alloc"
    BY DEF P1!NoFetch, FetchType
  <2>5. Cardinality(Allocating(fetch')) <= Cardinality(Allocating(fetch))
    <3>1. AllocMoved(fetch', fetch, c, P1!NoFetch)
      BY <1>14, <2>1, <2>4, AllocChange
    <3> QED
      BY <2>4, <3>1 DEF AllocMoved
  <2>6. grp'.nCurrentPage + Cardinality(Allocating(fetch')) <=
          grp.nCurrentPage + Cardinality(Allocating(fetch))
    BY <1>11, <1>12, <1>14, <2>2, <2>5
  <2>7. Budget(grp', fetch')
    BY <1>1, <1>7, <1>13, <2>2, <2>3, <2>6, BudgetLess
  <2> QED
    BY <2>3, <2>7 DEF PcInv
<1>16. CASE cache[page[1]].szPage # cache[c].szPage
  <2> DEFINE v == [at |-> "alloc", key |-> k]
  <2>1. cache' = cs /\ grp' = g /\ fetch' = [fetch EXCEPT ![c] = v]
    BY <1>2, <1>16
  <2>2. v \in FetchType /\ v.key = k
    BY DEF FetchType
  <2> HIDE DEF v
  <2>3. \A d \in Slot : d # c => cache'[d].keys \in SUBSET cache[d].keys
    BY <1>9, <2>1
  <2>4. FetchOK(cache', fetch')
    BY <1>1, <1>10, <2>1, <2>2, <2>3, FetchMoved
  <2>5. Cardinality(Allocating(fetch')) <= Cardinality(Allocating(fetch)) + 1
    BY <1>14, <2>1, <2>2, AllocChange DEF AllocMoved
  <2>6. grp'.nCurrentPage + Cardinality(Allocating(fetch')) <=
          grp.nCurrentPage + Cardinality(Allocating(fetch))
    BY <1>11, <1>12, <1>14, <2>1, <2>5
  <2>7. Budget(grp', fetch')
    BY <1>1, <1>7, <1>8, <1>13, <2>1, <2>6, BudgetLess
  <2> QED
    BY <1>8, <2>1, <2>4, <2>7 DEF PcInv
<1> QED
  BY <1>15, <1>16

LEMMA RecycleOrAllocOK ==
  ASSUME PageInv, NEW c \in Slot, NEW k \in P1!Key, k \notin cache[c].keys,
         P1!RecycleOrAlloc(c, k)
  PROVE  PcInv(cache', grp', fetch')
<1>1. PICK underPressure \in BOOLEAN :
        IF grp.lru # <<>> /\ P1!MustRecycle(c, underPressure)
        THEN P1!Recycle(c, k)
        ELSE /\ cache' = [cache EXCEPT ![c].hashed = TRUE]
             /\ fetch' = [fetch EXCEPT ![c] = [at |-> "alloc", key |-> k]]
             /\ UNCHANGED grp
  BY DEF P1!RecycleOrAlloc
<1>2. CASE grp.lru # <<>> /\ P1!MustRecycle(c, underPressure)
  BY <1>1, <1>2, RecycleOK
<1>3. CASE ~(grp.lru # <<>> /\ P1!MustRecycle(c, underPressure))
  <2> DEFINE v == [at |-> "alloc", key |-> k]
  <2>1. /\ cache' = [cache EXCEPT ![c].hashed = TRUE] /\ grp' = grp
        /\ fetch' = [fetch EXCEPT ![c] = v]
    BY <1>1, <1>3
  <2>2. v \in FetchType /\ v.key = k
    BY DEF FetchType
  <2> HIDE DEF v
  <2>3. GroupOK(cache, grp) /\ FetchOK(cache, fetch)
    BY DEF PageInv, PcInv
  <2>4. GroupOK(cache', grp) /\ \A d \in Slot : SameCounts(cache'[d], cache[d])
    BY <2>1, <2>3, HashedOK
  <2>5. FetchOK(cache', fetch')
    <3>1. \A d \in Slot : d # c => cache'[d].keys \in SUBSET cache[d].keys
      BY <2>4 DEF SameCounts
    <3>2. k \notin cache'[c].keys
      BY <2>4 DEF SameCounts
    <3> QED
      BY <2>1, <2>2, <2>3, <3>1, <3>2, FetchMoved
  <2>6. grp.lru # <<>> => ~(grp.nCurrentPage >= grp.nMaxPage)
    BY <1>3 DEF P1!MustRecycle
  <2>7. grp.nCurrentPage \in Nat /\ grp.nMaxPage \in Int
    BY <2>3, GroupTypes
  <2>8. /\ Cardinality(Allocating(fetch')) \in Nat /\ Cardinality(Slot) \in Nat
        /\ Cardinality(Allocating(fetch')) <= Cardinality(Slot)
    BY AllocFacts
  <2>9. Budget(grp', fetch')
    BY <2>1, <2>6, <2>7, <2>8 DEF Budget
  <2> QED
    BY <2>1, <2>4, <2>5, <2>9 DEF PcInv
<1> QED
  BY <1>2, <1>3

LEMMA FetchNoMemOK ==
  ASSUME PageInv, NEW c \in Slot, P1!FetchNoMem(c)
  PROVE  PcInv(cache', grp', fetch')
<1>1. GroupOK(cache, grp) /\ FetchOK(cache, fetch) /\ Budget(grp, fetch)
  BY DEF PageInv, PcInv
<1>2. cache' = cache /\ grp' = grp /\ fetch' = [fetch EXCEPT ![c] = P1!NoFetch]
  BY DEF P1!FetchNoMem
<1>3. P1!NoFetch \in FetchType /\ P1!NoFetch.at = "out"
  BY DEF P1!NoFetch, FetchType
<1>4. fetch \in [Slot -> FetchType]
  BY <1>1 DEF FetchOK
<1>5. AllocMoved(fetch', fetch, c, P1!NoFetch)
  BY <1>2, <1>3, <1>4, AllocChange
<1>6. FetchOK(cache', fetch')
  BY <1>1, <1>2, <1>3, FetchMoved
<1>7. Budget(grp', fetch')
  <2>1. Cardinality(Allocating(fetch')) <= Cardinality(Allocating(fetch))
    BY <1>3, <1>5 DEF AllocMoved
  <2>2. Cardinality(Allocating(fetch)) \in Nat /\ Cardinality(Allocating(fetch')) \in Nat
    BY AllocFacts
  <2>3. grp.nCurrentPage \in Nat
    BY <1>1, GroupTypes
  <2>4. grp'.nCurrentPage + Cardinality(Allocating(fetch')) <=
          grp.nCurrentPage + Cardinality(Allocating(fetch))
    BY <1>2, <2>1, <2>2, <2>3
  <2> QED
    BY <1>1, <1>2, <2>4, BudgetLess
<1> QED
  BY <1>1, <1>2, <1>6, <1>7 DEF PcInv

LEMMA pcache1FetchOK ==
  ASSUME PageInv, NEW c \in Slot, NEW k \in P1!Key, NEW flag, P1!pcache1Fetch(c, k, flag)
  PROVE  PcInv(cache', grp', fetch')
<1> DEFINE v == [at |-> "resize", key |-> k]
<1>1. \/ P1!Found(c, k)
      \/ k \notin cache[c].keys /\ P1!RecycleOrAlloc(c, k)
      \/ /\ k \notin cache[c].keys /\ fetch' = [fetch EXCEPT ![c] = v]
         /\ cache' = cache /\ grp' = grp
  BY DEF P1!pcache1Fetch
<1>2. CASE P1!Found(c, k)
  BY <1>2, FoundOK
<1>3. CASE k \notin cache[c].keys /\ P1!RecycleOrAlloc(c, k)
  BY <1>3, RecycleOrAllocOK
<1>4. CASE /\ k \notin cache[c].keys /\ fetch' = [fetch EXCEPT ![c] = v]
           /\ cache' = cache /\ grp' = grp
  <2>1. GroupOK(cache, grp) /\ FetchOK(cache, fetch) /\ Budget(grp, fetch)
    BY DEF PageInv, PcInv
  <2>2. v \in FetchType /\ v.at # "alloc" /\ v.key = k
    BY DEF FetchType
  <2> HIDE DEF v
  <2>3. fetch \in [Slot -> FetchType]
    BY <2>1 DEF FetchOK
  <2>4. AllocMoved(fetch', fetch, c, v)
    BY <1>4, <2>2, <2>3, AllocChange
  <2>5. FetchOK(cache', fetch')
    BY <1>4, <2>1, <2>2, FetchMoved
  <2>6. Budget(grp', fetch')
    <3>1. Cardinality(Allocating(fetch')) <= Cardinality(Allocating(fetch))
      BY <2>2, <2>4 DEF AllocMoved
    <3>2. Cardinality(Allocating(fetch)) \in Nat /\ Cardinality(Allocating(fetch')) \in Nat
      BY AllocFacts
    <3>3. grp.nCurrentPage \in Nat
      BY <2>1, GroupTypes
    <3>4. grp'.nCurrentPage + Cardinality(Allocating(fetch')) <=
            grp.nCurrentPage + Cardinality(Allocating(fetch))
      BY <1>4, <3>1, <3>2, <3>3
    <3> QED
      BY <1>4, <2>1, <3>4, BudgetLess
  <2> QED
    BY <1>4, <2>1, <2>5, <2>6 DEF PcInv
<1> QED
  BY <1>1, <1>2, <1>3, <1>4

LEMMA FetchResizedOK ==
  ASSUME PageInv, NEW c \in Slot, P1!FetchResized(c)
  PROVE  PcInv(cache', grp', fetch')
<1> DEFINE k == fetch[c].key
<1>1. P1!RecycleOrAlloc(c, k) /\ fetch[c].at # "out"
  BY DEF P1!FetchResized
<1>2. k \in P1!Key /\ k \notin cache[c].keys
  BY <1>1 DEF PageInv, PcInv, FetchOK
<1> HIDE DEF k
<1> QED
  BY <1>1, <1>2, RecycleOrAllocOK

LEMMA FetchAllocatedOK ==
  ASSUME PageInv, NEW c \in Slot, P1!FetchAllocated(c)
  PROVE  PcInv(cache', grp', fetch')
<1> DEFINE k == fetch[c].key
<1>1. GroupOK(cache, grp) /\ FetchOK(cache, fetch) /\ Budget(grp, fetch)
  BY DEF PageInv, PcInv
<1>2. /\ fetch[c].at = "alloc" /\ cache' = P1!Entered(cache, c, k)
      /\ grp' = [grp EXCEPT !.nCurrentPage = @ + 1]
      /\ fetch' = [fetch EXCEPT ![c] = P1!NoFetch]
  BY DEF P1!FetchAllocated
<1>3. k \in P1!Key /\ k \notin cache[c].keys
  BY <1>1, <1>2 DEF FetchOK
<1> HIDE DEF k
<1>4. /\ IsPGroup(grp') /\ grp'.nMaxPage = grp.nMaxPage /\ grp'.lru = grp.lru
      /\ grp'.nCurrentPage = grp.nCurrentPage + 1
  BY <1>1, <1>2 DEF GroupOK, IsPGroup
<1>5. GroupOK(cache', grp') /\ FetchOK(cache', fetch')
  <2>1. cache' = P1!Entered(cache, c, k) /\ fetch' = [fetch EXCEPT ![c] = P1!NoFetch]
    BY <1>2
  <2> QED
    BY <1>1, <1>3, <1>4, <2>1, EnterOK
<1>6. P1!NoFetch \in FetchType /\ P1!NoFetch.at = "out"
  BY DEF P1!NoFetch, FetchType
<1>7. fetch \in [Slot -> FetchType]
  BY <1>1 DEF FetchOK
<1>8. AllocMoved(fetch', fetch, c, P1!NoFetch)
  BY <1>2, <1>6, <1>7, AllocChange
<1>9. Budget(grp', fetch')
  <2>1. Cardinality(Allocating(fetch')) = Cardinality(Allocating(fetch)) - 1
    BY <1>2, <1>6, <1>8 DEF AllocMoved
  <2>2. Cardinality(Allocating(fetch)) \in Nat
    BY AllocFacts
  <2>3. grp.nCurrentPage \in Nat
    BY <1>1, GroupTypes
  <2>4. grp'.nCurrentPage + Cardinality(Allocating(fetch')) <=
          grp.nCurrentPage + Cardinality(Allocating(fetch))
    BY <1>4, <2>1, <2>2, <2>3
  <2> QED
    BY <1>1, <1>4, <1>5, <2>4, BudgetLess
<1> QED
  BY <1>5, <1>9 DEF PcInv

LEMMA UnpinOK ==
  ASSUME PageInv, NEW c \in Slot, NEW k \in P1!Key, NEW unlikely, P1!pcache1Unpin(c, k, unlikely)
  PROVE  PcInv(cache', grp', fetch')
<1> DEFINE r == cache[c]
           p == r.pins \ {k}
           r2 == [r EXCEPT !.pins = p]
           cs == [cache EXCEPT ![c].pins = @ \ {k}]
           x == <<c, k>>
<1>1. GroupOK(cache, grp) /\ FetchOK(cache, fetch) /\ Budget(grp, fetch)
  BY DEF PageInv, PcInv
<1>2. AllCaches(cache) /\ IsPGroup(grp) /\ Accounted(cache, grp.nCurrentPage, grp.lru)
      /\ grp.nMaxPage \in Int
  BY <1>1 DEF GroupOK
<1>3. IsPCache(r) /\ r.nMax \in Int /\ cache = [d \in Slot |-> cache[d]]
  BY <1>2 DEF AllCaches
<1>4. /\ P1!Ready(c) /\ k \in r.pins /\ fetch' = fetch
      /\ \/ cache' = P1!Removed(cs, grp, {x}) /\ grp' = P1!Freed(grp, {x})
         \/ /\ ~(grp.nCurrentPage > grp.nMaxPage)
            /\ cache' = [cs EXCEPT ![c].nRecyclable = @ + 1]
            /\ grp' = [grp EXCEPT !.lru = <<x>> \o @]
  BY DEF P1!pcache1Unpin
<1>5. cs = [cache EXCEPT ![c] = r2]
  BY <1>3 DEF IsPCache
<1>6. /\ IsPCache(r2) /\ r2.nMax = r.nMax /\ r2.pins = p /\ r2.keys = r.keys
      /\ r2.nPage = r.nPage /\ r2.nRecyclable = r.nRecyclable /\ r2.iMaxKey = r.iMaxKey
  <2> HIDE DEF r, p
  <2>1. PICK y : y = [r EXCEPT !.pins = p]
    OBVIOUS
  <2>2. /\ IsPCache(y) /\ y.nMax = r.nMax /\ y.pins = p /\ y.keys = r.keys
        /\ y.nPage = r.nPage /\ y.nRecyclable = r.nRecyclable /\ y.iMaxKey = r.iMaxKey
    BY <1>3, <2>1 DEF IsPCache
  <2> QED
    BY <2>1, <2>2
<1> HIDE DEF r2, cs
<1>7. AllCaches(cs) /\ cs[c] = r2 /\ \A d \in Slot : d # c => cs[d] = cache[d]
  <2>1. r2.nMax \in Int
    BY <1>3, <1>6
  <2>2. IsPut(cs, cache, c, r2)
    BY <1>2, <1>5, <1>6, <2>1, PutCache
  <2> QED
    BY <2>2 DEF IsPut
<1>8. /\ r.keys \in SUBSET P1!Key /\ r.pins \in SUBSET r.keys
      /\ \A d \in Slot : cache[d].iMaxKey \in Int /\ \A j \in cache[d].keys : j <= cache[d].iMaxKey
  BY <1>1, GroupTypes
<1>9. fetch'[c].at # "alloc"
  BY <1>1, <1>4, ReadyFacts
<1>10. CASE cache' = P1!Removed(cs, grp, {x}) /\ grp' = P1!Freed(grp, {x})
  <2>1. {x} \in SUBSET PagesOf(cache) /\ {x} \in SUBSET (Slot \X P1!Key)
    BY <1>4, <1>8 DEF PagesOf
  <2>2. IsRemoved(cache', cs, grp.lru, {x})
    BY <1>7, <1>10, <2>1, RemovedFacts
  <2>3. ASSUME NEW d \in Slot
        PROVE  /\ Loses(cache'[d], cache[d], Gone(d, {x}), ListedGone(d, grp.lru, {x}))
               /\ cache'[d].pins = cache[d].pins \ Gone(d, {x})
               /\ cache'[d].iMaxKey \in Int
               /\ \A j \in cache'[d].keys : j <= cache'[d].iMaxKey
    <3>1. /\ Loses(cache'[d], cs[d], Gone(d, {x}), ListedGone(d, grp.lru, {x}))
          /\ Kept(cache'[d], cs[d])
      BY <2>2 DEF IsRemoved
    <3>2. /\ cs[d].keys = cache[d].keys /\ cs[d].nPage = cache[d].nPage
          /\ cs[d].nRecyclable = cache[d].nRecyclable /\ cs[d].iMaxKey = cache[d].iMaxKey
      BY <1>6, <1>7
    <3>3. cs[d].pins = cache[d].pins \ Gone(d, {x})
      <4>1. CASE d = c
        <5>1. Gone(c, {x}) = {k}
          BY DEF Gone
        <5> QED
          BY <1>6, <1>7, <4>1, <5>1
      <4>2. CASE d # c
        <5>1. Gone(d, {x}) = {}
          BY <4>2 DEF Gone
        <5> QED
          BY <1>7, <4>2, <5>1
      <4> QED
        BY <4>1, <4>2
    <3>4. cache'[d].iMaxKey = cache[d].iMaxKey /\ cache'[d].keys \in SUBSET cache[d].keys
      BY <3>1, <3>2 DEF Kept, Loses
    <3>5. Loses(cache'[d], cache[d], Gone(d, {x}), ListedGone(d, grp.lru, {x}))
      BY <3>1, <3>2 DEF Loses
    <3>6. cache'[d].pins = cache[d].pins \ Gone(d, {x})
      BY <3>1, <3>3 DEF Kept
    <3> QED
      BY <1>8, <3>4, <3>5, <3>6
  <2>4. Accounted(cache', grp.nCurrentPage - Cardinality({x}), P1!Without(grp.lru, {x}))
    BY <1>2, <2>1, <2>3, RemoveAccounted
  <2>5. /\ IsPGroup(grp') /\ grp'.lru = P1!Without(grp.lru, {x}) /\ grp'.nMaxPage = grp.nMaxPage
        /\ grp'.nCurrentPage = grp.nCurrentPage - Cardinality({x})
    BY <1>2, <1>10, GroupFacts
  <2>6. GroupOK(cache', grp')
    BY <1>2, <2>2, <2>4, <2>5 DEF GroupOK, IsRemoved
  <2>7. FetchOK(cache', fetch')
    <3>1. \A d \in Slot : cache'[d].keys \in SUBSET cache[d].keys
      BY <2>3 DEF Loses
    <3> QED
      BY <1>1, <1>4, <3>1, FetchKept
  <2>8. Budget(grp', fetch')
    <3>1. grp'.lru # <<>> => grp.lru # <<>>
      BY <1>1, <2>5, WithoutShrinks
    <3>2. Cardinality({x}) = 1 /\ grp.nCurrentPage \in Nat /\ Cardinality(Allocating(fetch)) \in Nat
      BY <1>1, FS_Singleton, GroupTypes, AllocFacts
    <3>3. grp'.nCurrentPage + Cardinality(Allocating(fetch')) <=
            grp.nCurrentPage + Cardinality(Allocating(fetch))
      BY <1>4, <2>5, <3>2
    <3> QED
      BY <1>1, <2>5, <2>6, <3>1, <3>3, BudgetLess
  <2> QED
    BY <2>6, <2>7, <2>8 DEF PcInv
<1>11. CASE /\ ~(grp.nCurrentPage > grp.nMaxPage)
            /\ cache' = [cs EXCEPT ![c].nRecyclable = @ + 1]
            /\ grp' = [grp EXCEPT !.lru = <<x>> \o @]
  <2> DEFINE m == r2.nRecyclable + 1
             r3 == [r2 EXCEPT !.nRecyclable = m]
  <2>1. cache' = [cs EXCEPT ![c] = r3]
    BY <1>7, <1>11
  <2>2. /\ IsPCache(r3) /\ r3.nMax = r2.nMax /\ r3.pins = r2.pins /\ r3.keys = r2.keys
        /\ r3.nPage = r2.nPage /\ r3.nRecyclable = m /\ r3.iMaxKey = r2.iMaxKey
    <3> HIDE DEF m
    <3>1. PICK y : y = [r2 EXCEPT !.nRecyclable = m]
      OBVIOUS
    <3>2. /\ IsPCache(y) /\ y.nMax = r2.nMax /\ y.pins = r2.pins /\ y.keys = r2.keys
          /\ y.nPage = r2.nPage /\ y.nRecyclable = m /\ y.iMaxKey = r2.iMaxKey
      BY <1>6, <3>1 DEF IsPCache
    <3> QED
      BY <3>1, <3>2
  <2> HIDE DEF r3
  <2>3. IsPut(cache', cs, c, r3)
    <3>1. r3.nMax \in Int
      BY <1>3, <1>6, <2>2
    <3> QED
      BY <1>7, <2>1, <2>2, <3>1, PutCache
  <2>4. /\ cache'[c].keys = r.keys /\ cache'[c].pins = r.pins \ {k} /\ cache'[c].nPage = r.nPage
        /\ cache'[c].nRecyclable = r.nRecyclable + 1 /\ cache'[c].iMaxKey = r.iMaxKey
    BY <1>6, <2>2, <2>3 DEF IsPut
  <2>5. \A d \in Slot : d # c => cache'[d] = cache[d]
    BY <1>7, <2>3 DEF IsPut
  <2>6. OthersKeep(cache', cache, c)
    BY <1>2, <2>5 DEF OthersKeep, Accounted
  <2>7. Accounted(cache', grp.nCurrentPage, <<<<c, k>>>> \o grp.lru)
    BY <1>2, <1>4, <2>4, <2>6, UnpinAccounted
  <2>8. /\ IsPGroup(grp') /\ grp'.lru = <<<<c, k>>>> \o grp.lru
        /\ grp'.nMaxPage = grp.nMaxPage /\ grp'.nCurrentPage = grp.nCurrentPage
    <3> DEFINE w == <<x>> \o grp.lru
    <3>1. grp' = [grp EXCEPT !.lru = w]
      BY <1>11
    <3> HIDE DEF w
    <3>2. /\ IsPGroup(grp') /\ grp'.lru = w
          /\ grp'.nMaxPage = grp.nMaxPage /\ grp'.nCurrentPage = grp.nCurrentPage
      BY <1>2, <3>1 DEF IsPGroup
    <3> QED
      BY <3>2 DEF w
  <2>9. GroupOK(cache', grp')
    BY <1>2, <2>3, <2>7, <2>8 DEF GroupOK, IsPut
  <2>10. FetchOK(cache', fetch')
    <3>1. \A d \in Slot : cache'[d].keys \in SUBSET cache[d].keys
      BY <2>4, <2>5
    <3> QED
      BY <1>1, <1>4, <3>1, FetchKept
  <2>11. Budget(grp', fetch')
    <3>1. grp'.nCurrentPage <= grp'.nMaxPage
      <4>1. grp.nCurrentPage \in Nat
        BY <1>1, GroupTypes
      <4> QED
        BY <1>2, <1>11, <2>8, <4>1
    <3> QED
      BY <1>9, <2>9, <3>1, BudgetTested
  <2> QED
    BY <2>9, <2>10, <2>11 DEF PcInv
<1> QED
  BY <1>4, <1>10, <1>11

LEMMA RekeyOK ==
  ASSUME PageInv, NEW c \in Slot, NEW k \in P1!Key, NEW j \in P1!Key, P1!pcache1Rekey(c, k, j)
  PROVE  PcInv(cache', grp', fetch')
<1> DEFINE r == cache[c]
           u == (r.keys \ {k}) \cup {j}
           p == r.pins \ {k}
           r2 == [r EXCEPT !.keys = u, !.pins = p]
           cs == [cache EXCEPT ![c].keys = (@ \ {k}) \cup {j}, ![c].pins = @ \ {k}]
<1>1. GroupOK(cache, grp) /\ FetchOK(cache, fetch) /\ Budget(grp, fetch)
  BY DEF PageInv, PcInv
<1>2. AllCaches(cache) /\ IsPGroup(grp) /\ Accounted(cache, grp.nCurrentPage, grp.lru)
      /\ grp.nMaxPage \in Int
  BY <1>1 DEF GroupOK
<1>3. IsPCache(r) /\ r.nMax \in Int /\ cache = [d \in Slot |-> cache[d]]
  BY <1>2 DEF AllCaches
<1>4. /\ P1!Ready(c) /\ k \in r.pins /\ j \notin r.keys /\ cache' = P1!Pinned(cs, c, j)
      /\ grp' = grp /\ fetch' = fetch
  BY DEF P1!pcache1Rekey
<1>5. cs = [cache EXCEPT ![c] = r2]
  BY <1>3 DEF IsPCache
<1>6. /\ IsPCache(r2) /\ r2.nMax = r.nMax /\ r2.pins = p /\ r2.keys = u
      /\ r2.nPage = r.nPage /\ r2.nRecyclable = r.nRecyclable /\ r2.iMaxKey = r.iMaxKey
  <2> HIDE DEF r, p, u
  <2>1. PICK y : y = [r EXCEPT !.keys = u, !.pins = p]
    OBVIOUS
  <2>2. /\ IsPCache(y) /\ y.nMax = r.nMax /\ y.pins = p /\ y.keys = u
        /\ y.nPage = r.nPage /\ y.nRecyclable = r.nRecyclable /\ y.iMaxKey = r.iMaxKey
    BY <1>3, <2>1 DEF IsPCache
  <2> QED
    BY <2>1, <2>2
<1> HIDE DEF r2, cs
<1>7. AllCaches(cs) /\ cs[c] = r2 /\ \A d \in Slot : d # c => cs[d] = cache[d]
  <2>1. r2.nMax \in Int
    BY <1>3, <1>6
  <2>2. IsPut(cs, cache, c, r2)
    BY <1>2, <1>5, <1>6, <2>1, PutCache
  <2> QED
    BY <2>2 DEF IsPut
<1>8. IsPinned(cache', cs, c, j)
  BY <1>4, <1>7, PinnedFacts
<1>9. /\ AllCaches(cache')
      /\ cache'[c].keys = u /\ cache'[c].pins = p \cup {j}
      /\ cache'[c].nPage = r.nPage /\ cache'[c].nRecyclable = r.nRecyclable
      /\ cache'[c].iMaxKey = IF j > r.iMaxKey THEN j ELSE r.iMaxKey
  <2>1. cache'[c] = [r2 EXCEPT !.pins = r2.pins \cup {j},
                               !.iMaxKey = IF j > r2.iMaxKey THEN j ELSE r2.iMaxKey]
    BY <1>7, <1>8 DEF IsPinned
  <2>2. /\ cache'[c].keys = r2.keys /\ cache'[c].pins = r2.pins \cup {j}
        /\ cache'[c].nPage = r2.nPage /\ cache'[c].nRecyclable = r2.nRecyclable
        /\ cache'[c].iMaxKey = IF j > r2.iMaxKey THEN j ELSE r2.iMaxKey
    BY <1>6, <2>1 DEF IsPCache
  <2> QED
    BY <1>6, <1>8, <2>2 DEF IsPinned
<1>10. \A d \in Slot : d # c => cache'[d] = cache[d]
  BY <1>7, <1>8 DEF IsPinned
<1>11. OthersKeep(cache', cache, c)
  BY <1>2, <1>10 DEF OthersKeep, Accounted
<1>12. Accounted(cache', grp.nCurrentPage, grp.lru)
  BY <1>2, <1>4, <1>9, <1>11, RekeyAccounted
<1>13. GroupOK(cache', grp')
  BY <1>2, <1>4, <1>9, <1>12 DEF GroupOK
<1>14. FetchOK(cache', fetch')
  <2>1. fetch'[c].at = "out"
    BY <1>1, <1>4, ReadyFacts
  <2> QED
    BY <1>1, <1>4, <1>10, <2>1 DEF FetchOK
<1>15. Budget(grp', fetch')
  BY <1>1, <1>4
<1> QED
  BY <1>13, <1>14, <1>15 DEF PcInv

\* The keys and the pins are the same; the other counters are right.
LEMMA KeysAccounted ==
  ASSUME NEW cs, NEW n, NEW q, Accounted(cs, n, q), NEW cs2,
         \A c \in Slot : Counts(cs2[c]) /\ cs2[c].keys = cs[c].keys /\ cs2[c].pins = cs[c].pins
  PROVE  Accounted(cs2, n, q)
<1>1. PagesOf(cs2) = PagesOf(cs)
  BY DEF PagesOf
<1>2. ListOK(cs2, q)
  BY DEF Accounted, ListOK
<1> QED
  BY <1>1, <1>2 DEF Accounted

\* pcache1TruncateUnsafe(): c keeps the keys below the limit.
IsTruncated(cs2, g2, c, limit) ==
  /\ GroupOK(cs2, g2)
  /\ g2.nMaxPage = grp.nMaxPage
  /\ g2.lru # <<>> => grp.lru # <<>>
  /\ g2.nCurrentPage <= grp.nCurrentPage
  /\ cs2[c].keys = {k \in cache[c].keys : k < limit}
  /\ \A d \in Slot : cs2[d].keys \in SUBSET cache[d].keys

LEMMA TruncateFacts ==
  ASSUME GroupOK(cache, grp), NEW c \in Slot, NEW limit \in Int,
         NEW t, t = P1!TruncateUnsafe(cache, grp, c, limit)
  PROVE  IsTruncated(t.cs, t.g, c, limit)
<1> DEFINE pages == {x \in P1!Pages(c) : x[2] >= limit}
           rs == P1!Removed(cache, grp, pages)
           low == {k \in rs[c].pins : k < limit}
           r == rs[c]
           r2 == [r EXCEPT !.pins = low]
           cs2 == t.cs
           g2 == t.g
<1>1. cs2 = [rs EXCEPT ![c].pins = {k \in @ : k < limit}] /\ g2 = P1!Freed(grp, pages)
  BY DEF P1!TruncateUnsafe
<1>2. AllCaches(cache) /\ IsPGroup(grp) /\ Accounted(cache, grp.nCurrentPage, grp.lru)
      /\ grp.nMaxPage \in Int
  BY DEF GroupOK
<1>3. /\ cache[c].keys \in SUBSET P1!Key /\ cache[c].pins \in SUBSET cache[c].keys
      /\ \A d \in Slot : cache[d].iMaxKey \in Int /\ \A j \in cache[d].keys : j <= cache[d].iMaxKey
  BY GroupTypes
<1>4. cache[c].keys \in SUBSET Int
  BY <1>3, KeysFinite
<1>5. pages \in SUBSET PagesOf(cache) /\ pages \in SUBSET (Slot \X P1!Key)
  BY <1>3 DEF P1!Pages, PagesOf
<1>6. Gone(c, pages) = {k \in cache[c].keys : k >= limit} /\ \A d \in Slot : d # c => Gone(d, pages) = {}
  BY <1>3 DEF Gone, P1!Pages
<1>7. /\ IsPGroup(g2) /\ g2.lru = P1!Without(grp.lru, pages) /\ g2.nMaxPage = grp.nMaxPage
      /\ g2.nCurrentPage = grp.nCurrentPage - Cardinality(pages)
  BY <1>1, <1>2, GroupFacts
<1> HIDE DEF pages
<1>8. IsRemoved(rs, cache, grp.lru, pages)
  BY <1>2, <1>5, RemovedFacts
<1> HIDE DEF rs, cs2, g2
<1>9. /\ AllCaches(rs)
      /\ \A d \in Slot : /\ Loses(rs[d], cache[d], Gone(d, pages), ListedGone(d, grp.lru, pages))
                         /\ Kept(rs[d], cache[d])
  BY <1>8 DEF IsRemoved
<1>10. IsPCache(r) /\ r.nMax \in Int
  BY <1>9 DEF AllCaches
<1>11. cs2 = [rs EXCEPT ![c] = r2]
  BY <1>1, <1>9 DEF AllCaches
<1>12. /\ IsPCache(r2) /\ r2.nMax = r.nMax /\ r2.pins = low /\ r2.keys = r.keys
       /\ r2.nPage = r.nPage /\ r2.nRecyclable = r.nRecyclable /\ r2.iMaxKey = r.iMaxKey
  <2> HIDE DEF r, low
  <2>1. PICK y : y = [r EXCEPT !.pins = low]
    OBVIOUS
  <2>2. /\ IsPCache(y) /\ y.nMax = r.nMax /\ y.pins = low /\ y.keys = r.keys
        /\ y.nPage = r.nPage /\ y.nRecyclable = r.nRecyclable /\ y.iMaxKey = r.iMaxKey
    BY <1>10, <2>1 DEF IsPCache
  <2> QED
    BY <2>1, <2>2
<1>13. low = cache[c].pins \ Gone(c, pages)
  <2>1. rs[c].pins = cache[c].pins
    BY <1>9 DEF Kept
  <2> QED
    BY <1>3, <1>4, <1>6, <2>1
<1> HIDE DEF r2, low
<1>14. IsPut(cs2, rs, c, r2)
  <2>1. r2.nMax \in Int
    BY <1>10, <1>12
  <2> QED
    BY <1>9, <1>11, <1>12, <2>1, PutCache
<1>15. ASSUME NEW d \in Slot
       PROVE  /\ Loses(cs2[d], cache[d], Gone(d, pages), ListedGone(d, grp.lru, pages))
              /\ cs2[d].pins = cache[d].pins \ Gone(d, pages)
              /\ cs2[d].iMaxKey \in Int
              /\ \A j \in cs2[d].keys : j <= cs2[d].iMaxKey
  <2>1. /\ Loses(rs[d], cache[d], Gone(d, pages), ListedGone(d, grp.lru, pages))
        /\ Kept(rs[d], cache[d])
    BY <1>9
  <2>2. /\ cs2[d].keys = rs[d].keys /\ cs2[d].nPage = rs[d].nPage
        /\ cs2[d].nRecyclable = rs[d].nRecyclable /\ cs2[d].iMaxKey = rs[d].iMaxKey
    BY <1>12, <1>14 DEF IsPut
  <2>3. cs2[d].pins = cache[d].pins \ Gone(d, pages)
    <3>1. CASE d = c
      BY <1>12, <1>13, <1>14, <3>1 DEF IsPut
    <3>2. CASE d # c
      BY <1>6, <1>14, <2>1, <3>2 DEF IsPut, Kept
    <3> QED
      BY <3>1, <3>2
  <2>4. Loses(cs2[d], cache[d], Gone(d, pages), ListedGone(d, grp.lru, pages))
    BY <2>1, <2>2 DEF Loses
  <2>5. cs2[d].iMaxKey = cache[d].iMaxKey /\ cs2[d].keys \in SUBSET cache[d].keys
    BY <2>1, <2>2 DEF Kept, Loses
  <2> QED
    BY <1>3, <2>3, <2>4, <2>5
<1>16. Accounted(cs2, grp.nCurrentPage - Cardinality(pages), P1!Without(grp.lru, pages))
  BY <1>2, <1>5, <1>15, RemoveAccounted
<1>17. GroupOK(cs2, g2)
  BY <1>2, <1>7, <1>14, <1>16 DEF GroupOK, IsPut
<1>18. cs2[c].keys = {k \in cache[c].keys : k < limit}
  <2>1. cs2[c].keys = cache[c].keys \ Gone(c, pages)
    BY <1>15 DEF Loses
  <2> QED
    BY <1>4, <1>6, <2>1
<1>19. \A d \in Slot : cs2[d].keys \in SUBSET cache[d].keys
  BY <1>15 DEF Loses
<1>20. g2.lru # <<>> => grp.lru # <<>>
  BY <1>7, WithoutShrinks
<1>21. g2.nCurrentPage <= grp.nCurrentPage
  <2>1. Cardinality(pages) \in Nat /\ grp.nCurrentPage \in Nat
    BY <1>5, PagesFinite, GroupTypes
  <2> QED
    BY <1>7, <2>1
<1> QED
  BY <1>7, <1>17, <1>18, <1>19, <1>20, <1>21 DEF IsTruncated, cs2, g2

LEMMA TruncateOK ==
  ASSUME PageInv, NEW c \in Slot, NEW limit \in P1!Key, P1!pcache1Truncate(c, limit)
  PROVE  PcInv(cache', grp', fetch')
<1> DEFINE t == P1!TruncateUnsafe(cache, grp, c, limit)
           ts == t.cs
           r == ts[c]
           m == limit - 1
           r2 == [r EXCEPT !.iMaxKey = m]
<1>1. GroupOK(cache, grp) /\ FetchOK(cache, fetch) /\ Budget(grp, fetch)
  BY DEF PageInv, PcInv
<1>2. cache' = [ts EXCEPT ![c].iMaxKey = m] /\ grp' = t.g /\ fetch' = fetch
  BY Zenon DEF P1!pcache1Truncate
<1>3. limit \in Int
  BY KeysFinite
<1> HIDE DEF t
<1>4. IsTruncated(ts, t.g, c, limit)
  BY <1>1, <1>3, TruncateFacts DEF t
<1> HIDE DEF ts
<1>5. /\ GroupOK(ts, grp') /\ AllCaches(ts) /\ IsPGroup(grp') /\ grp'.nMaxPage \in Int
      /\ Accounted(ts, grp'.nCurrentPage, grp'.lru)
  BY <1>2, <1>4 DEF IsTruncated, GroupOK
<1>6. IsPCache(r) /\ r.nMax \in Int /\ Counts(r)
  BY <1>5 DEF AllCaches, Accounted
<1>7. cache' = [ts EXCEPT ![c] = r2]
  BY <1>2, <1>5 DEF AllCaches
<1>8. /\ IsPCache(r2) /\ r2.nMax = r.nMax /\ r2.pins = r.pins /\ r2.keys = r.keys
      /\ r2.nPage = r.nPage /\ r2.nRecyclable = r.nRecyclable /\ r2.iMaxKey = m
  <2> HIDE DEF r, m
  <2>1. PICK y : y = [r EXCEPT !.iMaxKey = m]
    OBVIOUS
  <2>2. /\ IsPCache(y) /\ y.nMax = r.nMax /\ y.pins = r.pins /\ y.keys = r.keys
        /\ y.nPage = r.nPage /\ y.nRecyclable = r.nRecyclable /\ y.iMaxKey = m
    BY <1>6, <2>1 DEF IsPCache
  <2> QED
    BY <2>1, <2>2
<1> HIDE DEF r2
<1>9. IsPut(cache', ts, c, r2)
  <2>1. r2.nMax \in Int
    BY <1>6, <1>8
  <2> QED
    BY <1>5, <1>7, <1>8, <2>1, PutCache
<1>10. Counts(r2)
  <2>1. r.keys = {k \in cache[c].keys : k < limit}
    BY <1>4 DEF IsTruncated
  <2>2. \A k \in r.keys : k \in Int
    BY <1>6, KeysFinite DEF Counts
  <2>3. m \in Int /\ \A k \in r.keys : k <= m
    BY <1>3, <2>1, <2>2
  <2> HIDE DEF r, m
  <2> QED
    BY <1>6, <1>8, <2>3 DEF Counts
<1>11. \A d \in Slot : Counts(cache'[d]) /\ cache'[d].keys = ts[d].keys /\ cache'[d].pins = ts[d].pins
  BY <1>5, <1>8, <1>9, <1>10 DEF IsPut, Accounted
<1>12. Accounted(cache', grp'.nCurrentPage, grp'.lru)
  BY <1>5, <1>11, KeysAccounted
<1>13. GroupOK(cache', grp')
  BY <1>5, <1>9, <1>12 DEF GroupOK, IsPut
<1>14. FetchOK(cache', fetch')
  <2>1. \A d \in Slot : cache'[d].keys \in SUBSET cache[d].keys
    BY <1>4, <1>11 DEF IsTruncated
  <2> QED
    BY <1>1, <1>2, <2>1, FetchKept
<1>15. Budget(grp', fetch')
  <2>1. /\ grp'.nMaxPage = grp.nMaxPage /\ (grp'.lru # <<>> => grp.lru # <<>>)
        /\ grp'.nCurrentPage <= grp.nCurrentPage
    BY <1>2, <1>4 DEF IsTruncated
  <2>2. /\ grp.nCurrentPage \in Nat /\ grp'.nCurrentPage \in Nat
        /\ Cardinality(Allocating(fetch)) \in Nat
    BY <1>1, <1>13, GroupTypes, AllocFacts
  <2>3. grp'.nCurrentPage + Cardinality(Allocating(fetch')) <=
          grp.nCurrentPage + Cardinality(Allocating(fetch))
    BY <1>2, <2>1, <2>2
  <2> QED
    BY <1>1, <1>13, <2>1, <2>3, BudgetLess
<1> QED
  BY <1>13, <1>14, <1>15 DEF PcInv

LEMMA DestroyOK ==
  ASSUME PageInv, NEW c \in Slot, P1!pcache1Destroy(c)
  PROVE  PcInv(cache', grp', fetch')
<1> DEFINE t == P1!TruncateUnsafe(cache, grp, c, 0)
           ts == t.cs
           h == t.g
           cs == [ts EXCEPT ![c] = P1!Closed]
           a == grp.nMaxPage - cache[c].nMax
           b == grp.nMinPage - MinPages
           g == P1!Limits(h, a, b)
<1>1. GroupOK(cache, grp) /\ FetchOK(cache, fetch) /\ Budget(grp, fetch)
  BY DEF PageInv, PcInv
<1>2. P1!Ready(c) /\ P1!pcache1EnforceMaxPage(cs, g) /\ fetch' = fetch
  BY Zenon DEF P1!pcache1Destroy
<1> HIDE DEF t
<1>3. IsTruncated(ts, h, c, 0)
  BY <1>1, TruncateFacts DEF t
<1> HIDE DEF ts, h
<1>4. /\ GroupOK(ts, h) /\ AllCaches(ts) /\ IsPGroup(h)
      /\ Accounted(ts, h.nCurrentPage, h.lru)
  BY <1>3 DEF IsTruncated, GroupOK
<1>5. ts[c].keys = {} /\ ts[c].pins = {}
  <2>1. ts[c].keys = {k \in cache[c].keys : k < 0}
    BY <1>3 DEF IsTruncated
  <2>2. \A k \in cache[c].keys : k \in Nat
    BY <1>1, GroupTypes, KeysFinite
  <2>3. ts[c].pins \in SUBSET ts[c].keys
    BY <1>4, GroupTypes
  <2> QED
    BY <2>1, <2>2, <2>3
<1>6. IsPCache(P1!Closed) /\ P1!Closed.nMax \in Int
  BY DEF P1!Closed, IsPCache
<1>7. Counts(P1!Closed) /\ P1!Closed.keys = {} /\ P1!Closed.pins = {}
  <2>1. /\ P1!Closed.keys = {} /\ P1!Closed.pins = {} /\ P1!Closed.nPage = 0
        /\ P1!Closed.nRecyclable = 0 /\ P1!Closed.iMaxKey = 0
    BY DEF P1!Closed
  <2>2. Cardinality({}) = 0 /\ {} \ {} = {}
    BY FS_EmptySet
  <2> QED
    BY <2>1, <2>2 DEF Counts
<1>8. IsPut(cs, ts, c, P1!Closed)
  BY <1>4, <1>6, PutCache
<1> HIDE DEF cs
<1>9. \A d \in Slot : Counts(cs[d]) /\ cs[d].keys = ts[d].keys /\ cs[d].pins = ts[d].pins
  BY <1>4, <1>5, <1>7, <1>8 DEF IsPut, Accounted
<1>10. Accounted(cs, h.nCurrentPage, h.lru)
  BY <1>4, <1>9, KeysAccounted
<1>11. a \in Int
  BY <1>1 DEF GroupOK, AllCaches
<1> HIDE DEF a, b
<1>12. IsPGroup(g) /\ g.lru = h.lru /\ g.nMaxPage = a /\ g.nCurrentPage = h.nCurrentPage
  BY <1>4, GroupFacts
<1> HIDE DEF g
<1>13. GroupOK(cs, g)
  BY <1>8, <1>10, <1>11, <1>12 DEF GroupOK, IsPut
<1>14. /\ GroupOK(cache', grp')
       /\ grp'.lru # <<>> => grp'.nCurrentPage <= grp'.nMaxPage
       /\ \A d \in Slot : cache'[d].keys \in SUBSET cs[d].keys
  BY <1>2, <1>13, EnforceFacts
<1>15. FetchOK(cache', fetch')
  <2>1. \A d \in Slot : cache'[d].keys \in SUBSET cache[d].keys
    BY <1>3, <1>9, <1>14 DEF IsTruncated
  <2> QED
    BY <1>1, <1>2, <2>1, FetchKept
<1>16. fetch'[c].at # "alloc"
  BY <1>1, <1>2, ReadyFacts
<1>17. Budget(grp', fetch')
  BY <1>14, <1>16, BudgetTested
<1> QED
  BY <1>14, <1>15, <1>17 DEF PcInv

LEMMA PageInit ==
  ASSUME P1!Init
  PROVE  PageInv
<1>1. /\ cache = [c \in Slot |-> P1!Closed] /\ fetch = [c \in Slot |-> P1!NoFetch]
      /\ grp = [nMaxPage |-> 0, nMinPage |-> 0, mxPinned |-> MinPages, nCurrentPage |-> 0,
                lru |-> <<>>]
  BY DEF P1!Init
<1>2. AllCaches(cache)
  <2>1. IsPCache(P1!Closed) /\ P1!Closed.nMax \in Int
    BY DEF P1!Closed, IsPCache
  <2> QED
    BY <1>1, <2>1 DEF AllCaches
<1>3. IsPGroup(grp) /\ grp.nMaxPage = 0 /\ grp.lru = <<>> /\ grp.nCurrentPage = 0
  BY <1>1 DEF IsPGroup
<1>4. \A c \in Slot : Counts(cache[c]) /\ cache[c].keys = {} /\ cache[c].pins = {}
  <2>1. /\ P1!Closed.keys = {} /\ P1!Closed.pins = {} /\ P1!Closed.nPage = 0
        /\ P1!Closed.nRecyclable = 0 /\ P1!Closed.iMaxKey = 0
    BY DEF P1!Closed
  <2>2. Cardinality({}) = 0 /\ {} \ {} = {}
    BY FS_EmptySet
  <2>3. Counts(P1!Closed)
    BY <2>1, <2>2 DEF Counts
  <2> QED
    BY <1>1, <2>1, <2>3
<1>5. ListOK(cache, <<>>)
  <2>1. <<>> \in Seq(Slot \X P1!Key) /\ DOMAIN <<>> = {}
    OBVIOUS
  <2> QED
    BY <1>4, <2>1 DEF ListOK, Injective, Listed
<1>6. PagesOf(cache) = {} /\ Cardinality({}) = 0
  BY <1>4, FS_EmptySet DEF PagesOf
<1>7. GroupOK(cache, grp)
  BY <1>2, <1>3, <1>4, <1>5, <1>6 DEF GroupOK, Accounted
<1>8. FetchOK(cache, fetch)
  BY <1>1 DEF FetchOK, P1!NoFetch, FetchType
<1>9. Budget(grp, fetch)
  BY <1>3 DEF Budget
<1> QED
  BY <1>7, <1>8, <1>9 DEF PageInv, PcInv

LEMMA PageStep ==
  ASSUME PageInv, P1!Next
  PROVE  PcInv(cache', grp', fetch')
<1>1. ASSUME NEW c \in Slot, NEW sz \in PageSizes, P1!pcache1Create(c, sz)
      PROVE  PcInv(cache', grp', fetch')
  BY <1>1, CreateOK
<1>2. ASSUME NEW c \in Slot, P1!pcache1Shrink(c) PROVE PcInv(cache', grp', fetch')
  BY <1>2, ShrinkOK
<1>3. ASSUME NEW c \in Slot, P1!pcache1Destroy(c) PROVE PcInv(cache', grp', fetch')
  BY <1>3, DestroyOK
<1>4. ASSUME NEW c \in Slot, NEW n \in Sizes, P1!pcache1Cachesize(c, n)
      PROVE  PcInv(cache', grp', fetch')
  BY <1>4, CachesizeOK
<1>5. ASSUME NEW c \in Slot, NEW k \in P1!Key, NEW flag \in 0 .. 2, P1!pcache1Fetch(c, k, flag)
      PROVE  PcInv(cache', grp', fetch')
  BY <1>5, pcache1FetchOK
<1>6. ASSUME NEW c \in Slot, NEW k \in P1!Key, NEW unlikely \in BOOLEAN,
             P1!pcache1Unpin(c, k, unlikely)
      PROVE  PcInv(cache', grp', fetch')
  BY <1>6, UnpinOK
<1>7. ASSUME NEW c \in Slot, NEW k \in P1!Key, NEW new \in P1!Key, P1!pcache1Rekey(c, k, new)
      PROVE  PcInv(cache', grp', fetch')
  BY <1>7, RekeyOK
<1>8. ASSUME NEW c \in Slot, NEW k \in P1!Key, P1!pcache1Truncate(c, k)
      PROVE  PcInv(cache', grp', fetch')
  BY <1>8, TruncateOK
<1>9. ASSUME NEW c \in Slot, P1!FetchResized(c) PROVE PcInv(cache', grp', fetch')
  BY <1>9, FetchResizedOK
<1>10. ASSUME NEW c \in Slot, P1!FetchAllocated(c) PROVE PcInv(cache', grp', fetch')
  BY <1>10, FetchAllocatedOK
<1>11. ASSUME NEW c \in Slot, P1!FetchNoMem(c) PROVE PcInv(cache', grp', fetch')
  BY <1>11, FetchNoMemOK
<1>12. CASE P1!sqlite3PcacheReleaseMemory
  BY <1>12, ReleaseMemoryOK
<1> QED
  BY <1>1, <1>2, <1>3, <1>4, <1>5, <1>6, <1>7, <1>8, <1>9, <1>10, <1>11, <1>12 DEF P1!Next

\* An injective list is as long as the set of its elements is large.
LEMMA ListLength ==
  ASSUME NEW S, NEW q \in Seq(S), Injective(q)
  PROVE  Len(q) = Cardinality({q[i] : i \in DOMAIN q})
<1> DEFINE R == {q[i] : i \in DOMAIN q}
           D == 1 .. Len(q)
           f == [i \in D |-> q[i]]
<1>1. Len(q) \in Nat /\ DOMAIN q = D
  OBVIOUS
<1>2. IsFiniteSet(D) /\ Cardinality(D) = Len(q)
  BY <1>1, FS_Interval
<1> HIDE DEF D
<1>3. f \in [D -> R] /\ (\A i, j \in D : f[i] = f[j] => i = j) /\ \A x \in R : \E i \in D : f[i] = x
  BY <1>1 DEF Injective
<1> HIDE DEF f, R
<1>4. f \in Injection(D, R) /\ f \in Surjection(D, R)
  BY <1>3 DEF Injection, IsInjective, Surjection
<1>5. ExistsBijection(D, R)
  BY <1>4 DEF ExistsBijection, Bijection
<1>6. Cardinality(R) = Cardinality(D)
  BY <1>2, <1>5, FS_Bijection
<1> QED
  BY <1>2, <1>6 DEF R

LEMMA PageInvAccounts ==
  ASSUME PageInv
  PROVE  PagesAccounted
<1>1. GroupOK(cache, grp)
  BY DEF PageInv, PcInv
<1>2. Accounted(cache, grp.nCurrentPage, grp.lru)
  BY <1>1 DEF GroupOK
<1>3. /\ grp.lru \in Seq(Slot \X P1!Key) /\ Injective(grp.lru)
      /\ \A c \in Slot, k \in P1!Key :
           Listed(grp.lru, <<c, k>>) <=> k \in cache[c].keys \ cache[c].pins
  BY <1>2 DEF Accounted, ListOK
<1>4. grp.nCurrentPage = P1!Cardinality(UNION {P1!Pages(c) : c \in Slot})
  <2>1. \A c \in Slot : cache[c].keys \in SUBSET P1!Key
    BY <1>1, GroupTypes
  <2>2. UNION {P1!Pages(c) : c \in Slot} = PagesOf(cache)
    <3>1. ASSUME NEW x \in UNION {P1!Pages(c) : c \in Slot} PROVE x \in PagesOf(cache)
      BY <2>1 DEF P1!Pages, PagesOf
    <3>2. ASSUME NEW x \in PagesOf(cache) PROVE x \in UNION {P1!Pages(c) : c \in Slot}
      <4>1. x[1] \in Slot /\ x \in P1!Pages(x[1])
        BY DEF P1!Pages, PagesOf
      <4> QED
        BY <4>1
    <3> QED
      BY <3>1, <3>2
  <2> QED
    BY <1>2, <2>2, SameCardinality DEF Accounted
<1>5. Len(grp.lru) = P1!Cardinality(P1!Lru)
  BY <1>3, ListLength, SameCardinality DEF P1!Lru
<1>6. ASSUME NEW c \in Slot
      PROVE  /\ cache[c].pins \subseteq cache[c].keys
             /\ {x[2] : x \in {y \in P1!Lru : y[1] = c}} = cache[c].keys \ cache[c].pins
             /\ cache[c].nPage = P1!Cardinality(cache[c].keys)
             /\ cache[c].nRecyclable = P1!Cardinality(cache[c].keys \ cache[c].pins)
             /\ \A k \in cache[c].keys : k <= cache[c].iMaxKey
  <2>1. Counts(cache[c])
    BY <1>2 DEF Accounted
  <2>2. \A x : x \in P1!Lru <=> Listed(grp.lru, x)
    BY DEF P1!Lru, Listed
  <2>3. P1!Lru \in SUBSET (Slot \X P1!Key)
    BY <1>3 DEF P1!Lru
  <2>4. ASSUME NEW x \in P1!Lru, x[1] = c PROVE x[2] \in cache[c].keys \ cache[c].pins
    <3>1. x = <<c, x[2]>> /\ x[2] \in P1!Key
      BY <2>3, <2>4
    <3> QED
      BY <1>3, <2>2, <3>1
  <2>5. ASSUME NEW k \in cache[c].keys \ cache[c].pins
        PROVE  <<c, k>> \in P1!Lru /\ <<c, k>>[1] = c /\ <<c, k>>[2] = k
    <3>1. k \in P1!Key
      BY <2>1 DEF Counts
    <3> QED
      BY <1>3, <2>2, <3>1
  <2>6. {x[2] : x \in {y \in P1!Lru : y[1] = c}} = cache[c].keys \ cache[c].pins
    BY <2>4, <2>5
  <2> QED
    BY <2>1, <2>6, SameCardinality DEF Counts
<1> QED
  BY <1>4, <1>5, <1>6 DEF PagesAccounted, P1!PagesAccounted

LEMMA PageInvBudget ==
  ASSUME PageInv
  PROVE  OverBudgetOnlyPinned
<1>1. GroupOK(cache, grp) /\ Budget(grp, fetch)
  BY DEF PageInv, PcInv
<1>2. grp.nCurrentPage \in Nat /\ grp.nMaxPage \in Int
  BY <1>1, GroupTypes
<1>3. Cardinality(Allocating(fetch)) \in Nat /\ Cardinality(Slot) \in Nat
  BY AllocFacts
<1>4. P1!Cardinality(Slot) = Cardinality(Slot)
  BY SameCardinality
<1> HIDE DEF Budget
<1>5. grp.lru # <<>> => grp.nCurrentPage <= grp.nMaxPage + (Cardinality(Slot) - 1)
  BY <1>1, <1>2, <1>3 DEF Budget
<1>6. grp.lru # <<>> => grp.nCurrentPage <= grp.nMaxPage + P1!Cardinality(Slot) - 1
  BY <1>2, <1>3, <1>4, <1>5
<1> QED
  BY <1>6 DEF OverBudgetOnlyPinned, P1!OverBudgetOnlyPinned

\* PCache1: the inductive invariant holds in every state.
THEOREM PageInvariance == MCSpec => []PageInv
<1> DEFINE w == <<part, posix, inode, file, call, p1Vars>>
<1>1. MCInit => PageInv
  BY PageInit DEF MCInit
<1>2. PageInv /\ [MCNext]_w => PageInv'
  <2> SUFFICES ASSUME PageInv, [MCNext]_w PROVE PageInv'
    OBVIOUS
  <2>1. CASE part = "PCache1" /\ P1!Next
    BY <2>1, PageStep DEF PageInv
  <2>2. CASE UNCHANGED p1Vars
    BY <2>2 DEF p1Vars, PageInv
  <2> QED
    BY <2>1, <2>2 DEF MCNext
<1> QED
  BY <1>1, <1>2, PTL DEF MCSpec

(***************************************************************************)
(* pcache1.c: the counters that decide when a page may be allocated,       *)
(* recycled or freed agree with the pages there are, and the list of       *)
(* unpinned pages holds each page nobody points to, once, and no other,    *)
(* for every number of caches and pages, page sizes and cache sizes.       *)
(***************************************************************************)
THEOREM PagesAlwaysAccounted == MCSpec => []PagesAccounted
BY PageInvariance, PageInvAccounts, PTL

(***************************************************************************)
(* pcache1.c: while an unpinned page is kept, the group exceeds its budget *)
(* by at most one page for every cache but one.                            *)
(***************************************************************************)
THEOREM BudgetAlwaysKept == MCSpec => []OverBudgetOnlyPinned
BY PageInvariance, PageInvBudget, PTL
=============================================================================
