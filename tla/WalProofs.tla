------------------------------- MODULE WalProofs -------------------------------
(***************************************************************************)
(* Proofs about the write-ahead log (module Wal): nBackfill never passes   *)
(* the end of the log, for every number of connections, pages, read marks  *)
(* and frames, through crashes, power losses and I/O errors.               *)
(***************************************************************************)
EXTENDS Wal, FiniteSetTheorems, WellFoundedInduction, TLAPS

-----------------------------------------------------------------------------
(* A WalIndexHdr and the locals of a checkpoint, of which only the frame   *)
(* numbers and the salt count here.                                        *)
IsHdr(h) ==
  h \in [isInit : {h.isInit}, mxFrame : Nat, nPage : {h.nPage}, salt : Nat,
         last : {h.last}]

IsJob(j) ==
  j \in [mode : {j.mode}, changed : {j.changed}, mxSafe : Nat, i : Nat \ {0},
         iter : {j.iter}, pages : {j.pages}]

Types ==
  /\ aHdr = <<aHdr[1], aHdr[2]>> /\ IsHdr(aHdr[1]) /\ IsHdr(aHdr[2])
  /\ nBackfill \in Nat /\ aReadMark \in [0..NReader - 1 -> Nat]
  /\ pc \in [Conn -> PCs] /\ nTxn \in Nat \ {0}
  /\ hdr = [c \in Conn |-> hdr[c]] /\ \A c \in Conn : IsHdr(hdr[c])
  /\ readLock = [c \in Conn |-> readLock[c]] /\ nCkpt = [c \in Conn |-> nCkpt[c]]
  /\ writeLock \in [Conn -> BOOLEAN] /\ ckptLock \in [Conn -> BOOLEAN]
  /\ iFrame \in [Conn -> Nat] /\ slot = [c \in Conn |-> slot[c]]
  /\ job = [c \in Conn |-> job[c]] /\ \A c \in Conn : IsJob(job[c])
  /\ wal = [i \in 0..MaxFrame |-> wal[i]]
  /\ walDisk = [i \in 0..MaxFrame |-> walDisk[i]]

-----------------------------------------------------------------------------
(* No salt is of a transaction still to come.                              *)
LogSalts ==
  /\ wal[0].salt \in 0..nTxn
  /\ \A f \in walDisk[0] : f.salt \in 0..nTxn

Salts == LogSalts /\ aHdr[1].salt <= nTxn /\ \A c \in Conn : hdr[c].salt <= nTxn

(* The locks WRITE and CKPT go with the place a connection is at, and so   *)
(* does READ(0), which a checkpoint excludes while it copies.              *)
WritePCs == {"write", "restart", "restart2", "reopen", "header", "frames",
             "commit", "failed"}
CkptPCs == {"ckpt", "marks", "copy", "full"}

LocksOK(c) ==
  /\ pc[c] \in WritePCs => writeLock[c]
  /\ writeLock[c] => pc[c] \in WritePCs \cup CkptPCs \cup {"lock"}
  /\ ckptLock[c] <=> pc[c] \in CkptPCs
  /\ readLock[c] = 0 => pc[c] \in {"read", "write", "restart", "restart2"}
  /\ readLock[c] = 0 => \A d \in Conn : pc[d] # "copy"
  /\ pc[c] = "lock" => slot[c][1] # 0

OneWriter == \A c, d \in Conn : writeLock[c] /\ writeLock[d] => c = d
OneCheckpoint == \A c, d \in Conn : ckptLock[c] /\ ckptLock[d] => c = d

(* A writer's header is at or past the one in shared memory.               *)
WriterOK(c) ==
  /\ writeLock[c] /\ pc[c] \in (WritePCs \ {"restart"}) \cup {"lock"}
       => aHdr[1].mxFrame <= hdr[c].mxFrame
  /\ pc[c] \in {"header", "frames"} => hdr[c].mxFrame <= iFrame[c]

(* The salt a writer has drawn is its own until it is in the header.       *)
Alone(c) ==
  aHdr[1].salt < nTxn /\ \A d \in Conn \ {c} : hdr[d].salt < nTxn

SaltOK(c) ==
  writeLock[c] /\ pc[c] \in WritePCs \cup {"lock"} =>
    /\ hdr[c].salt = aHdr[1].salt \/ (hdr[c].salt = nTxn /\ Alone(c))
    /\ pc[c] = "restart" \/ nCkpt[c] = 0 => Alone(c)
    /\ pc[c] = "write" /\ readLock[c] = 0 => Alone(c)

(* Who reads the file alone misses nothing that its own header counts, as  *)
(* long as the log is the one of that header; a writer's is the latest.    *)
FileOK(c) ==
  /\ readLock[c] = 0 /\ pc[c] \in {"read", "write"} /\ hdr[c].salt = aHdr[1].salt
       => hdr[c].mxFrame <= nBackfill /\ hdr[c].mxFrame <= aHdr[1].mxFrame
  /\ readLock[c] = 0 /\ pc[c] = "write" => hdr[c] = aHdr[1]

(* The log is given up when all of it is in the file.                      *)
RestartOK(c) ==
  /\ pc[c] = "restart" =>
       /\ hdr[c].mxFrame = 0 /\ hdr[c].salt = nTxn /\ nCkpt[c] # 0
       /\ aHdr[1].mxFrame <= nBackfill
  /\ pc[c] = "restart2" => aHdr[1].mxFrame = 0

(* A checkpoint works on frames that are committed, and stops at the first *)
(* one that a reader may still need.  Before it reads nBackfill its header *)
(* may be of the log before the one that is just begun.                    *)
CheckpointOK(c) ==
  /\ pc[c] = "ckpt" =>
       \/ hdr[c].mxFrame <= aHdr[1].mxFrame
       \/ hdr[c].mxFrame <= nBackfill /\ \E d \in Conn : pc[d] = "restart2"
  /\ pc[c] \in {"marks", "copy"} =>
       /\ hdr[c].mxFrame <= aHdr[1].mxFrame /\ nBackfill < hdr[c].mxFrame
       /\ job[c].mxSafe <= hdr[c].mxFrame

ConnOK(c) ==
  /\ LocksOK(c) /\ WriterOK(c) /\ SaltOK(c) /\ FileOK(c)
  /\ RestartOK(c) /\ CheckpointOK(c)

(* Also when the header copies differ; only between the two last steps of  *)
(* a restart nBackfill counts the frames of the log before.                *)
Backfilled ==
  Opened # {} /\ (\A c \in Conn : pc[c] # "restart2")
    => nBackfill <= aHdr[1].mxFrame

(* The inductive invariant, as long as no restart is torn.                 *)
IInv ==
  /\ Types /\ Salts /\ OneWriter /\ OneCheckpoint /\ Backfilled
  /\ \A c \in Conn : ConnOK(c)

-----------------------------------------------------------------------------
(* What a step of connection c leaves alone.                               *)
Others(c) ==
  \A d \in Conn \ {c} :
    /\ pc'[d] = pc[d] /\ hdr'[d] = hdr[d] /\ iFrame'[d] = iFrame[d]
    /\ writeLock'[d] <=> writeLock[d]
    /\ ckptLock'[d] <=> ckptLock[d]
    /\ readLock'[d] = readLock[d] /\ nCkpt'[d] = nCkpt[d]
    /\ slot'[d] = slot[d] /\ job'[d] = job[d]

(* A step of one connection that leaves nBackfill and the first copy of    *)
(* the header alone, and takes only locks that are free.  A salt it loads  *)
(* is the header's, unless it is the writer and draws one.                 *)
Local(c) ==
  /\ nBackfill' = nBackfill /\ aHdr'[1] = aHdr[1] /\ nTxn' = nTxn
  /\ pc[c] # "closed" /\ pc[c] # "restart2"
  /\ writeLock'[c] => writeLock[c] \/ WriteFree(c)
  /\ ckptLock'[c] => ckptLock[c] \/ CkptFree(c)
  /\ pc'[c] = "copy" => pc[c] = "copy" \/ ExclusiveFree(c, 0)
  /\ \/ hdr'[c].salt \in {0, hdr[c].salt, aHdr[1].salt}
     \/ pc[c] \in WritePCs /\ hdr'[c].salt = nTxn

LEMMA LocalStep ==
  ASSUME IInv, Types', NEW c \in Conn, Others(c), Local(c), LogSalts', ConnOK(c)'
  PROVE  IInv'
<1>0. nTxn \in Nat \ {0} /\ \A d \in Conn : hdr[d].salt \in Nat /\ hdr'[d].salt \in Nat
  BY DEF IInv, Types, IsHdr
<1>1. OneWriter'
  BY DEF IInv, OneWriter, Others, Local, WriteFree
<1>2. OneCheckpoint'
  BY DEF IInv, OneCheckpoint, Others, Local, CkptFree
<1>3. Backfilled'
  BY DEF IInv, Backfilled, Opened, Others, Local
<1>4. Salts'
  <2>1. hdr'[c].salt <= nTxn
    BY <1>0 DEF IInv, Salts, Local
  <2> QED
    BY <2>1 DEF IInv, Salts, Others, Local
<1>5. ASSUME NEW d \in Conn, d # c PROVE ConnOK(d)'
  <2>1. ConnOK(d) /\ LocksOK(c)
    BY DEF IInv, ConnOK
  <2>2. LocksOK(d)'
    <3>1. readLock[d] = 0 => \A e \in Conn : pc'[e] # "copy"
      BY <1>5, <2>1 DEF ConnOK, LocksOK, Others, Local, ExclusiveFree
    <3> QED
      BY <1>5, <2>1, <3>1 DEF ConnOK, LocksOK, Others
  <2>3. WriterOK(d)' /\ FileOK(d)' /\ RestartOK(d)'
    BY <1>5, <2>1 DEF ConnOK, WriterOK, FileOK, RestartOK, Others, Local
  <2>4. SaltOK(d)'
    <3> SUFFICES ASSUME writeLock[d], pc[d] \in WritePCs \cup {"lock"} PROVE SaltOK(d)'
      BY <1>5 DEF SaltOK, Others
    <3>1. pc[c] \notin WritePCs
      BY <1>5, <2>1 DEF IInv, OneWriter, LocksOK
    <3>2. Alone(d) => Alone(d)'
      BY <1>0, <1>5, <3>1 DEF Alone, Others, Local
    <3> QED
      BY <1>5, <2>1, <3>2 DEF ConnOK, SaltOK, Others, Local
  <2>5. CheckpointOK(d)'
    <3>1. ASSUME NEW e \in Conn, pc[e] = "restart2" PROVE pc'[e] = "restart2"
      BY <3>1 DEF Others, Local
    <3> QED
      BY <1>5, <2>1, <3>1 DEF ConnOK, CheckpointOK, Others, Local
  <2> QED
    BY <2>2, <2>3, <2>4, <2>5 DEF ConnOK
<1> QED
  BY <1>1, <1>2, <1>3, <1>4, <1>5 DEF IInv

(* A recovery: every lock is free.                                         *)
LEMMA RecoverStep ==
  ASSUME IInv, Types', NEW c \in Conn, Others(c), AllFree(c), Salts',
         nBackfill' = 0, pc'[c] \in {"choose", "ckpt"}, ConnOK(c)'
  PROVE  IInv'
<1>1. \A d \in Conn \ {c} : ~writeLock'[d] /\ ~ckptLock'[d] /\ readLock'[d] # 0
  BY DEF AllFree, Others
<1>2. OneWriter' /\ OneCheckpoint'
  BY <1>1 DEF OneWriter, OneCheckpoint
<1>3. Backfilled'
  BY DEF Backfilled, Types, IsHdr
<1>4. ASSUME NEW d \in Conn PROVE ConnOK(d)'
  <2>1. CASE d = c
    BY <2>1
  <2> SUFFICES ASSUME d # c PROVE ConnOK(d)'
    BY <2>1
  <2>2. LocksOK(d)
    BY DEF IInv, ConnOK
  <2>3. LocksOK(d)' /\ ~writeLock'[d] /\ ~ckptLock'[d] /\ readLock'[d] # 0
    BY <1>1, <2>2 DEF LocksOK, Others
  <2> QED
    BY <2>3 DEF ConnOK, LocksOK, WriterOK, SaltOK, FileOK, RestartOK,
       CheckpointOK, WritePCs, CkptPCs
<1> QED
  BY <1>2, <1>3, <1>4 DEF IInv
-----------------------------------------------------------------------------
(* Updates of the tables of headers and of the locals of checkpoints.      *)
LEMMA PutAt ==
  ASSUME NEW S, NEW f, f = [d \in S |-> f[d]], NEW c \in S, NEW v
  PROVE  LET g == [f EXCEPT ![c] = v]
         IN  /\ g = [d \in S |-> g[d]] /\ g[c] = v
             /\ \A d \in S \ {c} : g[d] = f[d]
OBVIOUS

LEMMA PairPut ==
  ASSUME NEW a, NEW b, NEW v
  PROVE  /\ [<<a, b>> EXCEPT ![1] = v] = <<v, b>>
         /\ [<<a, b>> EXCEPT ![2] = v] = <<a, v>>
OBVIOUS

LEMMA LeastNatural ==
  ASSUME NEW s \in SUBSET Nat, s # {}
  PROVE  \E n \in s : \A m \in s : n <= m
<1> DEFINE R == OpToRel(<, Nat)
<1>1. IsWellFoundedOn(R, Nat)
  BY NatLessThanWellFounded, Zenon
<1>2. \A x, y \in Nat : x < y => <<x, y>> \in R
  BY DEF OpToRel
<1> HIDE DEF R
<1>3. PICK n \in s : \A m \in s : ~ (<<m, n>> \in R)
  BY <1>1, WFMin
<1>4. \A m \in s : ~ (m < n)
  BY <1>2, <1>3
<1> QED
  BY <1>4

(* The salt of the header that a writer puts in front of its first frame.  *)
LEMMA NewSaltOK ==
  ASSUME IInv, NEW c \in Conn, pc[c] \in {"header", "frames"}
  PROVE  /\ NewSalt(c) \in 0..nTxn
         /\ \/ NewSalt(c) = hdr[c].salt
            \/ NewSalt(c) = nTxn /\ Alone(c)
<1>1. ConnOK(c) /\ Salts /\ hdr[c].salt \in Nat /\ nTxn \in Nat
  BY DEF IInv, Types, IsHdr
<1> QED
  BY <1>1 DEF NewSalt, Salts, ConnOK, LocksOK, SaltOK, WritePCs

LEMMA HdrPut ==
  ASSUME Types, NEW c \in Conn, NEW h, IsHdr(h), hdr' = [hdr EXCEPT ![c] = h]
  PROVE  /\ hdr' = [d \in Conn |-> hdr'[d]] /\ \A d \in Conn : IsHdr(hdr'[d])
         /\ hdr'[c] = h /\ \A d \in Conn \ {c} : hdr'[d] = hdr[d]
<1>1. hdr = [d \in Conn |-> hdr[d]] /\ \A d \in Conn : IsHdr(hdr[d])
  BY DEF Types
<1>2. /\ hdr' = [d \in Conn |-> hdr'[d]] /\ hdr'[c] = h
      /\ \A d \in Conn \ {c} : hdr'[d] = hdr[d]
  BY <1>1, PutAt
<1> QED
  BY <1>1, <1>2

LEMMA JobPut ==
  ASSUME Types, NEW c \in Conn, NEW j, IsJob(j), job' = [job EXCEPT ![c] = j]
  PROVE  /\ job' = [d \in Conn |-> job'[d]] /\ \A d \in Conn : IsJob(job'[d])
         /\ job'[c] = j /\ \A d \in Conn \ {c} : job'[d] = job[d]
<1>1. job = [d \in Conn |-> job[d]] /\ \A d \in Conn : IsJob(job[d])
  BY DEF Types
<1>2. /\ job' = [d \in Conn |-> job'[d]] /\ job'[c] = j
      /\ \A d \in Conn \ {c} : job'[d] = job[d]
  BY <1>1, PutAt
<1> QED
  BY <1>1, <1>2

-----------------------------------------------------------------------------
(* One lemma per action.                                                   *)
Numbers(c) ==
  /\ hdr[c].mxFrame \in Nat /\ aHdr[1].mxFrame \in Nat /\ iFrame[c] \in Nat
  /\ hdr[c].salt \in Nat /\ aHdr[1].salt \in Nat /\ nTxn \in Nat \ {0}
  /\ nBackfill \in Nat

LEMMA LockFileStep ==
  ASSUME IInv, NEW c \in Conn, LockFile(c)
  PROVE  IInv'
<1> USE DEF files, shm, locks, frame, faults
<1>1. /\ Types /\ Salts /\ ConnOK(c) /\ IsHdr(hdr[c]) /\ Numbers(c)
  BY DEF IInv, Types, IsHdr, Numbers
<1>3. Types'
  BY <1>1 DEF LockFile, Types, PCs
<1>4. Others(c)
  BY <1>1 DEF LockFile, Types, Others
<1>5. ConnOK(c)'
  <2>1. /\ pc[c] = "choose" /\ ~writeLock[c] /\ ~ckptLock[c] /\ readLock[c] # 0
        /\ nBackfill = hdr[c].mxFrame /\ \A d \in Conn : pc[d] # "copy"
        /\ UNCHANGED <<aHdr, nBackfill, hdr, writeLock, ckptLock>>
    BY <1>1 DEF LockFile, AllCopied, SharedFree, HoldsExclusive, ConnOK, LocksOK, WritePCs, CkptPCs
  <2>2. \/ pc' = [pc EXCEPT ![c] = "idle"] /\ readLock' = readLock
        \/ pc' = [pc EXCEPT ![c] = "read"] /\ hdr[c] = aHdr[1]
    BY DEF LockFile, StillCurrent
  <2>3. /\ pc'[c] = "read" => hdr[c] = aHdr[1]
        /\ pc'[c] \in {"read", "idle"}
        /\ pc'[c] = "idle" => readLock'[c] # 0
        /\ \A d \in Conn : pc'[d] # "copy"
    BY <1>1, <2>1, <2>2 DEF Types
  <2> QED
    BY <1>1, <2>1, <2>3 DEF Numbers, ConnOK, LocksOK, WriterOK, SaltOK, FileOK,
       RestartOK, CheckpointOK, WritePCs, CkptPCs
<1>6. LogSalts'
  BY <1>1 DEF LockFile, Salts, LogSalts
<1>7. Local(c)
  BY <1>1 DEF LockFile, Types, Local, ConnOK, LocksOK, WritePCs, CkptPCs
<1> QED
  BY <1>1, <1>3, <1>4, <1>5, <1>6, <1>7, LocalStep

LEMMA ChooseMarkStep ==
  ASSUME IInv, NEW c \in Conn, ChooseMark(c)
  PROVE  IInv'
<1> USE DEF files, shm, locks, frame, faults
<1>1. /\ Types /\ Salts /\ ConnOK(c) /\ IsHdr(hdr[c]) /\ Numbers(c)
  BY DEF IInv, Types, IsHdr, Numbers
<1> DEFINE U == {i \in 1..NReader - 1 : ExclusiveFree(c, i)}
           b == Max({aReadMark[i] : i \in UsableMarks(c)} \cup {0})
           m == Max({i \in UsableMarks(c) : aReadMark[i] = b} \cup {0})
<1>2. /\ pc[c] \in {"choose", "reopen"}
      /\ pc[c] = "choose" => ~writeLock[c]
      /\ \/ /\ U # {} /\ aReadMark' = [aReadMark EXCEPT ![Min(U)] = hdr[c].mxFrame]
            /\ slot' = [slot EXCEPT ![c] = <<Min(U), hdr[c].mxFrame>>]
            /\ pc' = [pc EXCEPT ![c] = "lock"]
         \/ /\ slot' = [slot EXCEPT ![c] = <<m, b>>] /\ aReadMark' = aReadMark
            /\ pc' = [pc EXCEPT ![c] = IF m = 0 THEN Retry(c) ELSE "lock"]
      /\ UNCHANGED <<wal, walDisk, aHdr, nBackfill, hdr, nCkpt, readLock, writeLock,
                     ckptLock, iFrame, job, nTxn>>
  BY <1>1 DEF ChooseMark, ConnOK, LocksOK, WritePCs, CkptPCs
<1> HIDE DEF m, b
<1>3. U # {} => Min(U) \in 1..NReader - 1
  <2>1. NReader \in Nat
    BY WalAssumption
  <2>2. U \in SUBSET Nat
    BY <2>1
  <2>3. U # {} => Min(U) \in U
    <3> HIDE DEF U
    <3> QED
      BY <2>2, LeastNatural DEF Min
  <2> QED
    BY <2>3
<1> HIDE DEF U
<1>4. aReadMark' \in [0..NReader - 1 -> Nat]
  BY <1>1, <1>2, <1>3 DEF Types, Numbers
<1>5. /\ slot' = [d \in Conn |-> slot'[d]] /\ \A d \in Conn \ {c} : slot'[d] = slot[d]
      /\ pc'[c] = "lock" => slot'[c][1] # 0
      /\ pc'[c] \in {"lock", Retry(c)} /\ pc' \in [Conn -> PCs]
      /\ \A d \in Conn \ {c} : pc'[d] = pc[d]
  <2>1. \E v : /\ slot' = [slot EXCEPT ![c] = v]
               /\ \/ v[1] # 0 /\ pc' = [pc EXCEPT ![c] = "lock"]
                  \/ pc' = [pc EXCEPT ![c] = Retry(c)]
    <3>1. CASE U # {} /\ slot' = [slot EXCEPT ![c] = <<Min(U), hdr[c].mxFrame>>]
                     /\ pc' = [pc EXCEPT ![c] = "lock"]
      <4> WITNESS <<Min(U), hdr[c].mxFrame>>
      <4>1. Min(U) # 0
        BY <1>3, <3>1, WalAssumption
      <4> QED
        BY <3>1, <4>1
    <3>2. CASE slot' = [slot EXCEPT ![c] = <<m, b>>]
               /\ pc' = [pc EXCEPT ![c] = IF m = 0 THEN Retry(c) ELSE "lock"]
      <4> WITNESS <<m, b>>
      <4> QED
        BY <3>2
    <3> QED
      BY <1>2, <3>1, <3>2
  <2>2. Retry(c) \in PCs \ {"lock"}
    BY DEF Retry, PCs
  <2>3. slot = [d \in Conn |-> slot[d]] /\ pc \in [Conn -> PCs] /\ "lock" \in PCs
    BY <1>1 DEF Types, PCs
  <2> QED
    BY <2>1, <2>2, <2>3, PutAt
<1>6. Types'
  BY <1>1, <1>2, <1>4, <1>5 DEF Types
<1>7. Others(c)
  BY <1>1, <1>2, <1>5 DEF Others
<1>8. /\ pc'[c] = "lock" \/ (writeLock[c] /\ pc'[c] = "reopen")
         \/ (~writeLock[c] /\ pc'[c] = "idle")
      /\ pc[c] = "choose" \/ (pc[c] = "reopen" /\ writeLock[c])
      /\ readLock[c] # 0 /\ ~ckptLock[c]
  BY <1>1, <1>2, <1>5 DEF Retry, ConnOK, LocksOK, WritePCs, CkptPCs
<1>9. LogSalts' /\ Local(c)
  BY <1>1, <1>2, <1>8 DEF Salts, LogSalts, Local
<1>10. ConnOK(c)'
  <2>1. LocksOK(c)'
    BY <1>1, <1>2, <1>5, <1>8 DEF LocksOK, WritePCs, CkptPCs
  <2>2. WriterOK(c)' /\ FileOK(c)' /\ RestartOK(c)' /\ CheckpointOK(c)'
    BY <1>1, <1>2, <1>8
    DEF Numbers, ConnOK, WriterOK, FileOK, RestartOK, CheckpointOK, WritePCs
  <2>3. SaltOK(c)'
    BY <1>1, <1>2, <1>8 DEF ConnOK, SaltOK, Alone, WritePCs
  <2> QED
    BY <2>1, <2>2, <2>3 DEF ConnOK
<1> QED
  BY <1>6, <1>7, <1>9, <1>10, LocalStep

LEMMA LockMarkStep ==
  ASSUME IInv, NEW c \in Conn, LockMark(c)
  PROVE  IInv'
<1> USE DEF files, shm, locks, frame, faults
<1>1. /\ Types /\ Salts /\ ConnOK(c) /\ IsHdr(hdr[c]) /\ Numbers(c)
  BY DEF IInv, Types, IsHdr, Numbers
<1>2. pc' \in [Conn -> PCs]
  BY <1>1 DEF LockMark, Types, PCs, Retry, Writing
<1>a. iFrame' \in [Conn -> Nat]
  <2> DEFINE n == IF writeLock[c] THEN hdr[c].mxFrame ELSE 0
  <2>1. n \in Nat
    BY <1>1 DEF Numbers
  <2>2. iFrame' = [iFrame EXCEPT ![c] = n] \/ iFrame' = iFrame
    BY DEF LockMark
  <2> HIDE DEF n
  <2> QED
    BY <1>1, <2>1, <2>2 DEF Types
<1>3. Types'
  BY <1>1, <1>2, <1>a DEF LockMark, Types
<1>4. Others(c)
  BY <1>1 DEF LockMark, Types, Others
<1>5. ConnOK(c)'
  BY <1>1, <1>4 DEF LockMark, Types, Retry, Writing, Numbers, Others, ConnOK, LocksOK, WriterOK,
     SaltOK, Alone, FileOK, RestartOK, CheckpointOK, WritePCs, CkptPCs
<1>6. LogSalts'
  BY <1>1 DEF LockMark, Salts, LogSalts
<1>7. Local(c)
  BY <1>1 DEF LockMark, Types, Retry, Writing, Local, ConnOK, LocksOK, WritePCs, CkptPCs
<1> QED
  BY <1>1, <1>3, <1>4, <1>5, <1>6, <1>7, LocalStep

LEMMA EndReadTransactionStep ==
  ASSUME IInv, NEW c \in Conn, EndReadTransaction(c)
  PROVE  IInv'
<1> USE DEF files, shm, locks, frame, faults
<1>1. /\ Types /\ Salts /\ ConnOK(c) /\ IsHdr(hdr[c]) /\ Numbers(c)
  BY DEF IInv, Types, IsHdr, Numbers
<1>3. Types'
  BY <1>1 DEF EndReadTransaction, Types, PCs
<1>4. Others(c)
  BY <1>1 DEF EndReadTransaction, Types, Others
<1>5. ConnOK(c)'
  BY <1>1, <1>4 DEF EndReadTransaction, Types, Numbers, Others, ConnOK, LocksOK, WriterOK,
     SaltOK, Alone, FileOK, RestartOK, CheckpointOK, WritePCs, CkptPCs
<1>6. LogSalts'
  BY <1>1 DEF EndReadTransaction, Salts, LogSalts
<1>7. Local(c)
  BY <1>1 DEF EndReadTransaction, Types, Local, ConnOK, LocksOK, WritePCs, CkptPCs
<1> QED
  BY <1>1, <1>3, <1>4, <1>5, <1>6, <1>7, LocalStep

LEMMA BeginWriteTransactionStep ==
  ASSUME IInv, NEW c \in Conn, BeginWriteTransaction(c)
  PROVE  IInv'
<1> USE DEF files, shm, frame, faults
<1>1. /\ Types /\ Salts /\ Backfilled /\ (\A d \in Conn : ConnOK(d)) /\ Numbers(c)
  BY DEF IInv, Types, IsHdr, Numbers
<1>2. /\ pc[c] = "read" /\ pc' = [pc EXCEPT ![c] = "write"] /\ hdr[c] = aHdr[1]
      /\ writeLock' = [writeLock EXCEPT ![c] = TRUE] /\ nTxn' = nTxn + 1
      /\ UNCHANGED <<wal, walDisk, aHdr, nBackfill, aReadMark, hdr, nCkpt, readLock,
                     ckptLock, iFrame, slot, job>>
  BY DEF BeginWriteTransaction, Latest
<1>3. \A d \in Conn \ {c} : ~writeLock[d] /\ pc[d] \notin WritePCs
  BY <1>1 DEF BeginWriteTransaction, WriteFree, ConnOK, LocksOK
<1>4. \A d \in Conn : /\ pc'[d] = IF d = c THEN "write" ELSE pc[d]
                      /\ writeLock'[d] <=> d = c
  BY <1>1, <1>2, <1>3 DEF Types
<1>5. Types'
  BY <1>1, <1>2 DEF Types, PCs
<1>6. Salts' /\ Alone(c)'
  <2>1. /\ wal[0].salt \in 0..nTxn' /\ aHdr[1].salt < nTxn'
        /\ \A f \in walDisk[0] : f.salt \in 0..nTxn'
    BY <1>1, <1>2 DEF Salts, LogSalts, Numbers
  <2>2. \A d \in Conn : hdr[d].salt < nTxn' /\ hdr[d].salt <= nTxn'
    BY <1>1, <1>2 DEF Salts, Numbers, Types, IsHdr
  <2>3. aHdr[1].salt <= nTxn'
    BY <1>1, <1>2 DEF Salts, Numbers
  <2> QED
    BY <1>2, <2>1, <2>2, <2>3 DEF Salts, LogSalts, Alone
<1>7. OneWriter' /\ OneCheckpoint' /\ Backfilled'
  BY <1>1, <1>2, <1>4 DEF IInv, OneWriter, OneCheckpoint, Backfilled, Opened
<1>8. ASSUME NEW d \in Conn PROVE ConnOK(d)'
  <2>1. LocksOK(d)'
    BY <1>1, <1>2, <1>4 DEF ConnOK, LocksOK, WritePCs, CkptPCs
  <2>2. WriterOK(d)' /\ FileOK(d)' /\ RestartOK(d)'
    BY <1>1, <1>2, <1>3, <1>4
    DEF Numbers, ConnOK, WriterOK, FileOK, RestartOK, WritePCs
  <2>3. SaltOK(d)'
    BY <1>2, <1>4, <1>6 DEF SaltOK
  <2>4. CheckpointOK(d)'
    BY <1>1, <1>2, <1>4 DEF ConnOK, CheckpointOK
  <2> QED
    BY <2>1, <2>2, <2>3, <2>4 DEF ConnOK
<1> QED
  BY <1>5, <1>6, <1>7, <1>8 DEF IInv

LEMMA WriteHeaderStep ==
  ASSUME IInv, NEW c \in Conn, WriteHeader(c)
  PROVE  IInv'
<1> USE DEF files, shm, locks, frame, faults
<1>1. /\ Types /\ Salts /\ ConnOK(c) /\ IsHdr(hdr[c]) /\ Numbers(c)
  BY DEF IInv, Types, IsHdr, Numbers
<1>s. /\ pc[c] = "header" /\ NewSalt(c) \in 0..nTxn /\ NewSalt(c) \in Nat
      /\ NewSalt(c) = hdr[c].salt \/ (NewSalt(c) = nTxn /\ Alone(c))
  BY <1>1, NewSaltOK DEF WriteHeader, Numbers
<1> DEFINE h == [hdr[c] EXCEPT !.salt = NewSalt(c), !.last = 0]
<1>2. /\ hdr' = [d \in Conn |-> hdr'[d]] /\ \A d \in Conn : IsHdr(hdr'[d])
      /\ hdr'[c] = h /\ h.mxFrame = hdr[c].mxFrame /\ h.salt = NewSalt(c)
      /\ \A d \in Conn \ {c} : hdr'[d] = hdr[d]
  <2>1. IsHdr(h) /\ h.mxFrame = hdr[c].mxFrame /\ h.salt = NewSalt(c)
    BY <1>1, <1>s DEF IsHdr, Numbers
  <2>2. hdr' = [hdr EXCEPT ![c] = h]
    BY <1>1 DEF Types, WriteHeader
  <2> HIDE DEF h
  <2> QED
    BY <1>1, <2>1, <2>2, HdrPut
<1> HIDE DEF h
<1>3. /\ pc' = [pc EXCEPT ![c] = "frames"] /\ wal' = [wal EXCEPT ![0] = NewHeader(c)]
      /\ walDisk' = [i \in 0..MaxFrame |-> {wal'[i]}]
      /\ UNCHANGED <<aHdr, nBackfill, aReadMark, nCkpt, readLock, writeLock, ckptLock,
                     slot, iFrame, job, nTxn>>
  BY DEF WriteHeader, SyncWal
<1>4. /\ wal' = [i \in 0..MaxFrame |-> wal'[i]] /\ wal'[0] = NewHeader(c)
      /\ walDisk'[0] = {wal'[0]}
  <2>1. MaxFrame \in Nat /\ 0 \in 0..MaxFrame
    BY WalAssumption
  <2> QED
    BY <1>1, <1>3, <2>1, PutAt DEF Types
<1>5. Types'
  BY <1>1, <1>2, <1>3, <1>4 DEF Types, PCs
<1>6. Others(c)
  BY <1>1, <1>2, <1>3 DEF Types, Others
<1>7. ConnOK(c)'
  BY <1>1, <1>s, <1>2, <1>3, <1>6 DEF Types, Numbers, Others, ConnOK, LocksOK, WriterOK,
     SaltOK, Alone, FileOK, RestartOK, CheckpointOK, WritePCs, CkptPCs
<1>8. LogSalts'
  <2>1. NewHeader(c).salt = NewSalt(c)
    BY DEF NewHeader, WalHeader, NoFrame
  <2> QED
    BY <1>s, <1>3, <1>4, <2>1 DEF LogSalts
<1>9. Local(c)
  BY <1>1, <1>s, <1>2, <1>3 DEF Types, Local, WritePCs
<1> QED
  BY <1>5, <1>6, <1>7, <1>8, <1>9, LocalStep

(* The log as it is, perhaps synced.                                       *)
LEMMA LogSync ==
  ASSUME Types, LogSalts, nTxn' = nTxn, wal' = wal, SyncWal \/ walDisk' = walDisk
  PROVE  /\ wal' = [i \in 0..MaxFrame |-> wal'[i]]
         /\ walDisk' = [i \in 0..MaxFrame |-> walDisk'[i]] /\ LogSalts'
<1>1. MaxFrame \in Nat /\ 0 \in 0..MaxFrame
  BY WalAssumption
<1>2. CASE SyncWal
  <2>1. walDisk' = [i \in 0..MaxFrame |-> {wal[i]}]
    BY <1>2 DEF SyncWal
  <2>2. walDisk'[0] = {wal[0]} /\ walDisk' = [i \in 0..MaxFrame |-> walDisk'[i]]
    BY <1>1, <2>1
  <2> QED
    BY <2>2 DEF Types, LogSalts
<1>3. CASE walDisk' = walDisk
  BY <1>3 DEF Types, LogSalts
<1> QED
  BY <1>2, <1>3

(* A write behind the header of the log.                                   *)
UpdatedLog ==
  /\ wal' = [i \in 0..MaxFrame |-> wal'[i]] /\ wal'[0] = wal[0]
  /\ walDisk' = [i \in 0..MaxFrame |-> walDisk'[i]] /\ walDisk'[0] = walDisk[0]

LEMMA LogPut ==
  ASSUME Types, NEW n \in Nat, NEW f, NEW D, wal' = [wal EXCEPT ![n + 1] = f],
         walDisk' = [walDisk EXCEPT ![n + 1] = D]
  PROVE  UpdatedLog
<1>1. MaxFrame \in Nat /\ 0 \in 0..MaxFrame /\ n + 1 # 0
  BY WalAssumption
<1> DEFINE k == n + 1
<1>2. k # 0 /\ wal' = [wal EXCEPT ![k] = f] /\ walDisk' = [walDisk EXCEPT ![k] = D]
  BY <1>1
<1> HIDE DEF k
<1>3. /\ wal = [i \in 0..MaxFrame |-> wal[i]]
      /\ walDisk = [i \in 0..MaxFrame |-> walDisk[i]]
  BY DEF Types
<1> QED
  BY <1>1, <1>2, <1>3 DEF UpdatedLog

LEMMA walWriteOneFrameStep ==
  ASSUME IInv, NEW c \in Conn, walWriteOneFrame(c)
  PROVE  IInv'
<1> USE DEF files, shm, locks, frame, faults
<1>1. /\ Types /\ Salts /\ ConnOK(c) /\ IsHdr(hdr[c]) /\ Numbers(c)
  BY DEF IInv, Types, IsHdr, Numbers
<1>2. /\ pc[c] = "frames" /\ iFrame' = [iFrame EXCEPT ![c] = @ + 1]
      /\ wal' = [wal EXCEPT ![iFrame[c] + 1] = NewFrame(c)]
      /\ walDisk' = [walDisk EXCEPT ![iFrame[c] + 1] = @ \cup {NewFrame(c)}]
      /\ UNCHANGED <<pc, hdr, aHdr, nBackfill, aReadMark, nCkpt, readLock, writeLock,
                     ckptLock, slot, job, nTxn>>
  BY <1>1 DEF walWriteOneFrame, WriteWal, Types
<1>3. UpdatedLog
  BY <1>1, <1>2, LogPut DEF Numbers
<1>4. Types'
  BY <1>1, <1>2, <1>3 DEF Types, UpdatedLog
<1>5. Others(c)
  BY <1>1, <1>2 DEF Types, Others
<1>6. ConnOK(c)'
  BY <1>1, <1>2, <1>5 DEF Types, Numbers, Others, ConnOK, LocksOK, WriterOK,
     SaltOK, Alone, FileOK, RestartOK, CheckpointOK, WritePCs, CkptPCs
<1>7. LogSalts' /\ Local(c)
  BY <1>1, <1>2, <1>3 DEF Salts, LogSalts, UpdatedLog, Local
<1> QED
  BY <1>4, <1>5, <1>6, <1>7, LocalStep

LEMMA SpillDoneStep ==
  ASSUME IInv, NEW c \in Conn, SpillDone(c)
  PROVE  IInv'
<1> USE DEF files, shm, locks, frame, faults
<1>1. /\ Types /\ Salts /\ ConnOK(c) /\ IsHdr(hdr[c]) /\ Numbers(c)
  BY DEF IInv, Types, IsHdr, Numbers
<1> DEFINE h == [hdr[c] EXCEPT !.mxFrame = iFrame[c], !.last = nTxn]
<1>2. /\ hdr' = [d \in Conn |-> hdr'[d]] /\ \A d \in Conn : IsHdr(hdr'[d])
      /\ hdr'[c] = h /\ h.mxFrame = iFrame[c] /\ h.salt = hdr[c].salt
      /\ \A d \in Conn \ {c} : hdr'[d] = hdr[d]
  <2>1. IsHdr(h) /\ h.mxFrame = iFrame[c] /\ h.salt = hdr[c].salt
    BY <1>1 DEF IsHdr, Numbers
  <2>2. hdr' = [hdr EXCEPT ![c] = h]
    BY <1>1 DEF Types, SpillDone, FramesDone
  <2> HIDE DEF h
  <2> QED
    BY <1>1, <2>1, <2>2, HdrPut
<1> HIDE DEF h
<1>3. Types'
  BY <1>1, <1>2 DEF SpillDone, FramesDone, Types, PCs
<1>4. Others(c)
  BY <1>1, <1>2 DEF SpillDone, FramesDone, Types, Others
<1>5. ConnOK(c)'
  BY <1>1, <1>2, <1>4 DEF SpillDone, FramesDone, Types, Numbers, Others, ConnOK, LocksOK, WriterOK,
     SaltOK, Alone, FileOK, RestartOK, CheckpointOK, WritePCs, CkptPCs
<1>6. LogSalts'
  BY <1>1 DEF SpillDone, Salts, LogSalts
<1>7. Local(c)
  BY <1>1, <1>2 DEF SpillDone, FramesDone, Types, Local, ConnOK, LocksOK, WritePCs, CkptPCs
<1> QED
  BY <1>1, <1>3, <1>4, <1>5, <1>6, <1>7, LocalStep

LEMMA CommitDoneStep ==
  ASSUME IInv, NEW c \in Conn, CommitDone(c)
  PROVE  IInv'
<1> USE DEF files, shm, locks, frame, faults
<1>1. /\ Types /\ Salts /\ ConnOK(c) /\ IsHdr(hdr[c]) /\ Numbers(c)
  BY DEF IInv, Types, IsHdr, Numbers
<1> DEFINE h == [hdr[c] EXCEPT !.mxFrame = iFrame[c], !.last = nTxn, !.nPage = newSize[c]]
<1>2. /\ hdr' = [d \in Conn |-> hdr'[d]] /\ \A d \in Conn : IsHdr(hdr'[d])
      /\ hdr'[c] = h /\ h.mxFrame = iFrame[c] /\ h.salt = hdr[c].salt
      /\ \A d \in Conn \ {c} : hdr'[d] = hdr[d]
  <2>1. IsHdr(h) /\ h.mxFrame = iFrame[c] /\ h.salt = hdr[c].salt
    BY <1>1 DEF IsHdr, Numbers
  <2>2. hdr' = [hdr EXCEPT ![c] = h]
    BY <1>1 DEF Types, CommitDone, FramesDone
  <2> HIDE DEF h
  <2> QED
    BY <1>1, <2>1, <2>2, HdrPut
<1> HIDE DEF h
<1>a. aHdr'[1] = aHdr[1] /\ aHdr'[2] = h /\ aHdr' = <<aHdr'[1], aHdr'[2]>>
  <2>1. aHdr' = [aHdr EXCEPT ![2] = h]
    BY <1>2 DEF CommitDone
  <2>2. aHdr = <<aHdr[1], aHdr[2]>>
    BY <1>1 DEF Types
  <2> QED
    BY ONLY <2>1, <2>2
<1>l. /\ wal' = [i \in 0..MaxFrame |-> wal'[i]]
      /\ walDisk' = [i \in 0..MaxFrame |-> walDisk'[i]] /\ LogSalts'
  <2>1. nTxn' = nTxn /\ wal' = wal /\ (SyncWal \/ walDisk' = walDisk)
    BY DEF CommitDone
  <2> QED
    BY <1>1, <2>1, LogSync DEF Salts
<1>3. Types'
  <2>1. /\ UNCHANGED <<nBackfill, aReadMark, job, nTxn, readLock, nCkpt, slot, writeLock, ckptLock>>
        /\ pc' = [pc EXCEPT ![c] = "commit"] /\ iFrame' = [iFrame EXCEPT ![c] = 0]
    BY DEF CommitDone
  <2>2. IsHdr(aHdr'[1]) /\ IsHdr(aHdr'[2])
    BY <1>1, <1>2, <1>a DEF Types
  <2> QED
    BY <1>1, <1>2, <1>a, <1>l, <2>1, <2>2 DEF Types, PCs
<1>4. Others(c)
  BY <1>1, <1>2, <1>a DEF CommitDone, FramesDone, Types, Others
<1>5. ConnOK(c)'
  BY <1>1, <1>2, <1>a, <1>4 DEF CommitDone, FramesDone, Types, Numbers, Others, ConnOK, LocksOK, WriterOK,
     SaltOK, Alone, FileOK, RestartOK, CheckpointOK, WritePCs, CkptPCs
<1>6. LogSalts'
  BY <1>l
<1>7. Local(c)
  BY <1>1, <1>2, <1>a DEF CommitDone, FramesDone, Types, Local, ConnOK, LocksOK, WritePCs, CkptPCs
<1> QED
  BY <1>1, <1>a, <1>3, <1>4, <1>5, <1>6, <1>7, LocalStep

LEMMA UndoStep ==
  ASSUME IInv, NEW c \in Conn, Undo(c)
  PROVE  IInv'
<1> USE DEF files, shm, locks, frame, faults
<1>1. /\ Types /\ Salts /\ ConnOK(c) /\ IsHdr(hdr[c]) /\ Numbers(c)
  BY DEF IInv, Types, IsHdr, Numbers
<1>3. Types'
  BY <1>1 DEF Undo, sqlite3WalUndo, Types, PCs
<1>4. Others(c)
  BY <1>1 DEF Undo, sqlite3WalUndo, Types, Others
<1>5. ConnOK(c)'
  BY <1>1, <1>4 DEF Undo, sqlite3WalUndo, Types, Numbers, Others, ConnOK, LocksOK, WriterOK,
     SaltOK, Alone, FileOK, RestartOK, CheckpointOK, WritePCs, CkptPCs
<1>6. LogSalts'
  BY <1>1 DEF Undo, Salts, LogSalts
<1>7. Local(c)
  BY <1>1 DEF Undo, sqlite3WalUndo, Types, Local, ConnOK, LocksOK, WritePCs, CkptPCs
<1> QED
  BY <1>1, <1>3, <1>4, <1>5, <1>6, <1>7, LocalStep

LEMMA LogWriteErrorStep ==
  ASSUME IInv, NEW c \in Conn, LogWriteError(c)
  PROVE  IInv'
<1> USE DEF files, shm, locks, frame, faults
<1>1. /\ Types /\ Salts /\ ConnOK(c) /\ IsHdr(hdr[c]) /\ Numbers(c)
  BY DEF IInv, Types, IsHdr, Numbers
<1>s. /\ pc[c] \in {"header", "frames"} /\ NewSalt(c) \in 0..nTxn /\ NewSalt(c) \in Nat
      /\ NewSalt(c) = hdr[c].salt \/ (NewSalt(c) = nTxn /\ Alone(c))
  BY <1>1, NewSaltOK DEF LogWriteError, Numbers
<1>2. /\ hdr' = [d \in Conn |-> hdr'[d]] /\ \A d \in Conn : IsHdr(hdr'[d])
      /\ hdr'[c].mxFrame = hdr[c].mxFrame /\ hdr'[c].salt \in {hdr[c].salt, NewSalt(c)}
      /\ \A d \in Conn \ {c} : hdr'[d] = hdr[d]
  <2> DEFINE h1 == [hdr[c] EXCEPT !.salt = NewSalt(c), !.last = 0]
             h2 == [hdr[c] EXCEPT !.last = nTxn]
  <2>1. /\ IsHdr(h1) /\ h1.mxFrame = hdr[c].mxFrame /\ h1.salt = NewSalt(c)
        /\ IsHdr(h2) /\ h2.mxFrame = hdr[c].mxFrame /\ h2.salt = hdr[c].salt
    BY <1>1, <1>s DEF IsHdr, Numbers
  <2>2. hdr' = [hdr EXCEPT ![c] = h1] \/ hdr' = [hdr EXCEPT ![c] = h2]
    BY <1>1 DEF Types, LogWriteError
  <2> HIDE DEF h1, h2
  <2> QED
    BY <1>1, <2>1, <2>2, HdrPut
<1>3. /\ wal' = [i \in 0..MaxFrame |-> wal'[i]]
      /\ walDisk' = [i \in 0..MaxFrame |-> walDisk'[i]] /\ LogSalts'
  <2>0. nTxn' = nTxn
    BY DEF LogWriteError
  <2>1. CASE pc[c] = "header"
    <3>1. PICK f \in {wal[0], NoFrame, NewHeader(c)} : WriteWal(0, f)
      BY <2>1 DEF LogWriteError
    <3>2. f.salt \in 0..nTxn
      <4>1. NewHeader(c).salt = NewSalt(c) /\ NoFrame.salt = 0
        BY DEF NewHeader, WalHeader, NoFrame
      <4> QED
        BY <1>1, <1>s, <3>1, <4>1 DEF Salts, LogSalts, Numbers
    <3>3. 0 \in 0..MaxFrame
      BY WalAssumption
    <3>4. /\ wal' = [i \in 0..MaxFrame |-> wal'[i]] /\ wal'[0] = f
          /\ walDisk' = [i \in 0..MaxFrame |-> walDisk'[i]]
          /\ walDisk'[0] = walDisk[0] \cup {f}
      BY <1>1, <3>1, <3>3, PutAt DEF WriteWal, Types
    <3> QED
      BY <1>1, <2>0, <3>2, <3>4 DEF Salts, LogSalts
  <2>2. CASE pc[c] = "frames"
    <3>1. PICK f : WriteWal(iFrame[c] + 1, f)
      BY <2>2 DEF LogWriteError
    <3>2. UpdatedLog
      BY <1>1, <3>1, LogPut DEF WriteWal, Numbers
    <3> QED
      BY <1>1, <2>0, <3>2 DEF UpdatedLog, Salts, LogSalts
  <2> QED
    BY <1>s, <2>1, <2>2
<1>4. /\ pc' = [pc EXCEPT ![c] = "failed"]
      /\ UNCHANGED <<aHdr, nBackfill, aReadMark, nCkpt, readLock, writeLock, ckptLock,
                     slot, iFrame, job, nTxn>>
  BY DEF LogWriteError
<1>5. Types'
  BY <1>1, <1>2, <1>3, <1>4 DEF Types, PCs
<1>6. Others(c)
  BY <1>1, <1>2, <1>4 DEF Types, Others
<1>7. ConnOK(c)'
  BY <1>1, <1>s, <1>2, <1>4, <1>6 DEF Types, Numbers, Others, ConnOK, LocksOK, WriterOK,
     SaltOK, Alone, FileOK, RestartOK, CheckpointOK, WritePCs, CkptPCs
<1>8. Local(c)
  BY <1>1, <1>s, <1>2, <1>4 DEF Types, Local, WritePCs
<1> QED
  BY <1>3, <1>5, <1>6, <1>7, <1>8, LocalStep

LEMMA CommitFailedStep ==
  ASSUME IInv, NEW c \in Conn, CommitFailed(c)
  PROVE  IInv'
<1> USE DEF files, shm, locks, frame, faults
<1>1. /\ Types /\ Salts /\ ConnOK(c) /\ IsHdr(hdr[c]) /\ Numbers(c)
  BY DEF IInv, Types, IsHdr, Numbers
<1>3. Types'
  BY <1>1 DEF CommitFailed, sqlite3WalUndo, Types, PCs
<1>4. Others(c)
  BY <1>1 DEF CommitFailed, sqlite3WalUndo, Types, Others
<1>5. ConnOK(c)'
  BY <1>1, <1>4 DEF CommitFailed, sqlite3WalUndo, Types, Numbers, Others, ConnOK, LocksOK, WriterOK,
     SaltOK, Alone, FileOK, RestartOK, CheckpointOK, WritePCs, CkptPCs
<1>6. LogSalts'
  BY <1>1 DEF CommitFailed, Salts, LogSalts
<1>7. Local(c)
  BY <1>1 DEF CommitFailed, sqlite3WalUndo, Types, Local, ConnOK, LocksOK, WritePCs, CkptPCs
<1> QED
  BY <1>1, <1>3, <1>4, <1>5, <1>6, <1>7, LocalStep

LEMMA SpillFailedStep ==
  ASSUME IInv, NEW c \in Conn, SpillFailed(c)
  PROVE  IInv'
<1> USE DEF files, shm, locks, frame, faults
<1>1. /\ Types /\ Salts /\ ConnOK(c) /\ IsHdr(hdr[c]) /\ Numbers(c)
  BY DEF IInv, Types, IsHdr, Numbers
<1>3. Types'
  BY <1>1 DEF SpillFailed, Types, PCs
<1>4. Others(c)
  BY <1>1 DEF SpillFailed, Types, Others
<1>5. ConnOK(c)'
  BY <1>1, <1>4 DEF SpillFailed, Types, Numbers, Others, ConnOK, LocksOK, WriterOK,
     SaltOK, Alone, FileOK, RestartOK, CheckpointOK, WritePCs, CkptPCs
<1>6. LogSalts'
  BY <1>1 DEF SpillFailed, Salts, LogSalts
<1>7. Local(c)
  BY <1>1 DEF SpillFailed, Types, Local, ConnOK, LocksOK, WritePCs, CkptPCs
<1> QED
  BY <1>1, <1>3, <1>4, <1>5, <1>6, <1>7, LocalStep

LEMMA CkptIteratorStep ==
  ASSUME IInv, NEW c \in Conn, CkptIterator(c)
  PROVE  IInv'
<1> USE DEF files, shm, locks, frame, faults
<1>1. /\ Types /\ Salts /\ ConnOK(c) /\ IsHdr(hdr[c]) /\ Numbers(c)
  BY DEF IInv, Types, IsHdr, Numbers
<1>j. IsJob(job[c]) /\ job[c].mxSafe \in Nat /\ job[c].i \in Nat \ {0}
  BY <1>1 DEF Types, IsJob
<1> DEFINE j == [job[c] EXCEPT !.mxSafe = hdr[c].mxFrame,
                       !.iter = [p \in Page |-> LastFrame(aPgno, p, hdr[c].mxFrame)]]
<1>2. /\ job' = [d \in Conn |-> job'[d]] /\ \A d \in Conn : IsJob(job'[d])
      /\ pc'[c] # "full" => job'[c].mxSafe = hdr[c].mxFrame
      /\ \A d \in Conn \ {c} : job'[d] = job[d]
  <2>1. IsJob(j) /\ j.mxSafe = hdr[c].mxFrame
    BY <1>1, <1>j DEF IsJob, Numbers
  <2>2. job' = [job EXCEPT ![c] = j] \/ (job' = job /\ pc'[c] = "full")
    BY <1>1 DEF Types, CkptIterator
  <2> HIDE DEF j
  <2>3. CASE job' = [job EXCEPT ![c] = j]
    BY <1>1, <2>1, <2>3, JobPut
  <2>4. CASE job' = job /\ pc'[c] = "full"
    BY <1>1, <2>4 DEF Types
  <2> QED
    BY <2>2, <2>3, <2>4
<1> HIDE DEF j
<1>3. Types'
  BY <1>1, <1>2 DEF CkptIterator, Types, PCs
<1>4. Others(c)
  BY <1>1, <1>2 DEF CkptIterator, Types, Others
<1>5. ConnOK(c)'
  BY <1>1, <1>2, <1>4 DEF CkptIterator, Types, Numbers, Others, ConnOK, LocksOK, WriterOK,
     SaltOK, Alone, FileOK, RestartOK, CheckpointOK, WritePCs, CkptPCs
<1>6. LogSalts'
  BY <1>1 DEF CkptIterator, Salts, LogSalts
<1>7. Local(c)
  BY <1>1, <1>2 DEF CkptIterator, Types, Local, ConnOK, LocksOK, WritePCs, CkptPCs
<1> QED
  BY <1>1, <1>3, <1>4, <1>5, <1>6, <1>7, LocalStep

LEMMA CkptMarkStep ==
  ASSUME IInv, NEW c \in Conn, CkptMark(c)
  PROVE  IInv'
<1> USE DEF files, shm, locks, frame, faults
<1>1. /\ Types /\ Salts /\ ConnOK(c) /\ IsHdr(hdr[c]) /\ Numbers(c)
  BY DEF IInv, Types, IsHdr, Numbers
<1>j. IsJob(job[c]) /\ job[c].mxSafe \in Nat /\ job[c].i \in Nat \ {0}
  BY <1>1 DEF Types, IsJob
<1> DEFINE y == aReadMark[job[c].i]
           m == IF job[c].mxSafe > y /\ ~ExclusiveFree(c, job[c].i) THEN y ELSE job[c].mxSafe
           k == job[c].i + 1
<1>r. y \in Nat /\ NotUsed \in Nat
  <2>1. MaxFrame \in Nat /\ NReader \in Nat
    BY WalAssumption
  <2>2. job[c].i < NReader
    BY DEF CkptMark
  <2>3. aReadMark \in [0..NReader - 1 -> Nat]
    BY <1>1 DEF Types
  <2> QED
    BY ONLY <1>j, <2>1, <2>2, <2>3 DEF NotUsed
<1>m. k \in Nat \ {0} /\ m \in Nat /\ m <= job[c].mxSafe
  BY <1>j, <1>r
<1>n. /\ job' = [job EXCEPT ![c].i = k, ![c].mxSafe = m]
      /\ pc[c] = "marks"
  BY <1>1 DEF CkptMark, Types
<1> HIDE DEF m, k
<1> DEFINE j == [job[c] EXCEPT !.i = k, !.mxSafe = m]
<1>2. /\ job' = [d \in Conn |-> job'[d]] /\ \A d \in Conn : IsJob(job'[d])
      /\ job'[c].mxSafe <= job[c].mxSafe
      /\ \A d \in Conn \ {c} : job'[d] = job[d]
  <2>1. IsJob(j) /\ j.mxSafe = m
    BY <1>1, <1>j, <1>m DEF IsJob
  <2>2. job' = [job EXCEPT ![c] = j]
    BY <1>1, <1>n DEF Types
  <2> HIDE DEF j
  <2>3. CASE job' = [job EXCEPT ![c] = j]
    BY <1>1, <2>1, <2>3, JobPut, <1>m
  <2> QED
    BY <2>2, <2>3
<1> HIDE DEF j
<1>3. /\ pc[c] = "marks" /\ aReadMark' \in [0..NReader - 1 -> Nat]
      /\ UNCHANGED <<wal, walDisk, aHdr, nBackfill, pc, hdr, nCkpt, readLock, writeLock,
                     ckptLock, slot, iFrame, nTxn>>
  BY <1>1, <1>j, <1>r DEF CkptMark, Types
<1>4. Types'
  BY <1>1, <1>2, <1>3 DEF Types
<1>5. Others(c)
  BY <1>1, <1>2, <1>3 DEF Others
<1>6. job[c].mxSafe \in Nat /\ job'[c].mxSafe \in Nat
  BY <1>2, <1>j DEF IsJob
<1>7. ConnOK(c)'
  BY <1>1, <1>2, <1>3, <1>5, <1>6 DEF Numbers, Others, ConnOK, LocksOK, WriterOK,
     SaltOK, Alone, FileOK, RestartOK, CheckpointOK, WritePCs, CkptPCs
<1>8. LogSalts' /\ Local(c)
  BY <1>1, <1>3 DEF Salts, LogSalts, Local
<1> QED
  BY <1>4, <1>5, <1>7, <1>8, LocalStep

LEMMA CkptLockStep ==
  ASSUME IInv, NEW c \in Conn, CkptLock(c)
  PROVE  IInv'
<1> USE DEF files, shm, locks, frame, faults
<1>1. /\ Types /\ Salts /\ ConnOK(c) /\ IsHdr(hdr[c]) /\ Numbers(c)
  BY DEF IInv, Types, IsHdr, Numbers
<1>j. IsJob(job[c]) /\ job[c].mxSafe \in Nat /\ job[c].i \in Nat \ {0}
  BY <1>1 DEF Types, IsJob
<1> DEFINE j == [job[c] EXCEPT !.pages = {p \in 1..hdr[c].nPage :
                        nBackfill < job[c].iter[p] /\ job[c].iter[p] <= job[c].mxSafe}]
<1>2. /\ job' = [d \in Conn |-> job'[d]] /\ \A d \in Conn : IsJob(job'[d])
      /\ job'[c].mxSafe = job[c].mxSafe
      /\ \A d \in Conn \ {c} : job'[d] = job[d]
  <2>1. IsJob(j) /\ j.mxSafe = job[c].mxSafe
    BY <1>1, <1>j DEF IsJob
  <2>2. job' = [job EXCEPT ![c] = j] \/ (job' = job /\ pc'[c] = "full")
    BY <1>1 DEF Types, CkptLock
  <2> HIDE DEF j
  <2>3. CASE job' = [job EXCEPT ![c] = j]
    BY <1>1, <2>1, <2>3, JobPut
  <2>4. CASE job' = job /\ pc'[c] = "full"
    BY <1>1, <2>4 DEF Types
  <2> QED
    BY <2>2, <2>3, <2>4
<1> HIDE DEF j
<1>3. /\ pc[c] = "marks"
      /\ \/ pc' = [pc EXCEPT ![c] = "copy"] /\ ExclusiveFree(c, 0)
         \/ pc' = [pc EXCEPT ![c] = "full"]
      /\ wal' = wal /\ (SyncWal \/ walDisk' = walDisk)
      /\ UNCHANGED <<aHdr, nBackfill, aReadMark, hdr, nCkpt, readLock, writeLock,
                     ckptLock, slot, iFrame, nTxn>>
  BY DEF CkptLock
<1>l. /\ wal' = [i \in 0..MaxFrame |-> wal'[i]]
      /\ walDisk' = [i \in 0..MaxFrame |-> walDisk'[i]] /\ LogSalts'
  BY <1>1, <1>3, LogSync DEF Salts
<1>4. Types'
  BY <1>1, <1>2, <1>3, <1>l DEF Types, PCs
<1>5. Others(c)
  BY <1>1, <1>2, <1>3 DEF Types, Others
<1>6. ConnOK(c)'
  BY <1>1, <1>j, <1>2, <1>3, <1>5 DEF Types, Numbers, Others, ConnOK, LocksOK, WriterOK,
     SaltOK, Alone, FileOK, RestartOK, CheckpointOK, WritePCs, CkptPCs
<1>7. Local(c)
  BY <1>1, <1>3 DEF Types, Local
<1> QED
  BY <1>l, <1>4, <1>5, <1>6, <1>7, LocalStep

LEMMA CkptCopyStep ==
  ASSUME IInv, NEW c \in Conn, CkptCopy(c)
  PROVE  IInv'
<1> USE DEF files, shm, locks, frame, faults
<1>1. /\ Types /\ Salts /\ ConnOK(c) /\ IsHdr(hdr[c]) /\ Numbers(c)
  BY DEF IInv, Types, IsHdr, Numbers
<1>j. IsJob(job[c]) /\ job[c].mxSafe \in Nat /\ job[c].i \in Nat \ {0}
  BY <1>1 DEF Types, IsJob
<1> DEFINE j == [job[c] EXCEPT !.pages = @ \ {Min(job[c].pages)}]
<1>2. /\ job' = [d \in Conn |-> job'[d]] /\ \A d \in Conn : IsJob(job'[d])
      /\ job'[c].mxSafe = job[c].mxSafe
      /\ \A d \in Conn \ {c} : job'[d] = job[d]
  <2>1. IsJob(j) /\ j.mxSafe = job[c].mxSafe
    BY <1>1, <1>j DEF IsJob
  <2>2. job' = [job EXCEPT ![c] = j]
    BY <1>1 DEF Types, CkptCopy
  <2> HIDE DEF j
  <2>3. CASE job' = [job EXCEPT ![c] = j]
    BY <1>1, <2>1, <2>3, JobPut
  <2> QED
    BY <2>2, <2>3
<1> HIDE DEF j
<1>3. Types'
  BY <1>1, <1>2 DEF CkptCopy, Types, PCs
<1>4. Others(c)
  BY <1>1, <1>2 DEF CkptCopy, Types, Others
<1>5. ConnOK(c)'
  BY <1>1, <1>2, <1>4 DEF CkptCopy, Types, Numbers, Others, ConnOK, LocksOK, WriterOK,
     SaltOK, Alone, FileOK, RestartOK, CheckpointOK, WritePCs, CkptPCs
<1>6. LogSalts'
  BY <1>1 DEF CkptCopy, Salts, LogSalts
<1>7. Local(c)
  BY <1>1, <1>2 DEF CkptCopy, Types, Local, ConnOK, LocksOK, WritePCs, CkptPCs
<1> QED
  BY <1>1, <1>3, <1>4, <1>5, <1>6, <1>7, LocalStep

-----------------------------------------------------------------------------
(* A connection that goes away, or comes back from a checkpoint.           *)
LEMMA GoneStep ==
  ASSUME IInv, NEW c \in Conn, pc[c] # "closed", pc[c] # "restart2", Gone({c}),
         LogSalts', wal' = [i \in 0..MaxFrame |-> wal'[i]],
         walDisk' = [i \in 0..MaxFrame |-> walDisk'[i]], UNCHANGED <<shm, nTxn>>
  PROVE  IInv'
<1> USE DEF shm
<1>1. Types
  BY DEF IInv
<1>2. IsHdr(ZeroHdr) /\ ZeroHdr.salt = 0
  BY DEF IsHdr, ZeroHdr
<1>3. IsJob(NoJob)
  BY DEF IsJob, NoJob
<1>4. Types'
  BY <1>1, <1>2, <1>3 DEF Gone, Types, PCs
<1>5. Others(c)
  BY <1>1 DEF Gone, Others, Types
<1>6. /\ pc'[c] = "closed" /\ ~writeLock'[c] /\ ~ckptLock'[c] /\ readLock'[c] = -1
      /\ hdr'[c] = ZeroHdr
  BY DEF Gone
<1>7. ConnOK(c)'
  BY <1>6 DEF ConnOK, LocksOK, WriterOK, SaltOK, FileOK, RestartOK,
     CheckpointOK, WritePCs, CkptPCs
<1>8. Local(c)
  BY <1>2, <1>6 DEF Local
<1> QED
  BY <1>4, <1>5, <1>7, <1>8, LocalStep

LEMMA ReturnStep ==
  ASSUME IInv, NEW c \in Conn, pc[c] \in CkptPCs, CkptReturn(c),
         UNCHANGED <<shm, wal, walDisk, nTxn>>
  PROVE  IInv'
<1> USE DEF shm, frame
<1>1. Types /\ Salts /\ LocksOK(c)
  BY DEF IInv, ConnOK
<1>2. IsHdr(ZeroHdr) /\ ZeroHdr.salt = 0
  BY DEF IsHdr, ZeroHdr
<1>3. IsJob(NoJob)
  BY DEF IsJob, NoJob
<1>4. IsHdr(HdrAfterCkpt(c)) /\ HdrAfterCkpt(c).salt \in {0, hdr[c].salt}
  BY <1>1, <1>2 DEF HdrAfterCkpt, Types
<1>5. /\ hdr' = [d \in Conn |-> hdr'[d]] /\ \A d \in Conn : IsHdr(hdr'[d])
      /\ hdr'[c] = HdrAfterCkpt(c) /\ \A d \in Conn \ {c} : hdr'[d] = hdr[d]
  BY <1>1, <1>4, HdrPut DEF CkptReturn
<1>6. /\ job' = [d \in Conn |-> job'[d]] /\ \A d \in Conn : IsJob(job'[d])
      /\ \A d \in Conn \ {c} : job'[d] = job[d]
  BY <1>1, <1>3, JobPut DEF CkptReturn
<1>7. Types'
  BY <1>1, <1>5, <1>6 DEF CkptReturn, Types, PCs
<1>8. Others(c)
  BY <1>1, <1>5, <1>6 DEF CkptReturn, Others, Types
<1>9. pc'[c] = "idle" /\ ~writeLock'[c] /\ ~ckptLock'[c] /\ readLock'[c] # 0
  BY <1>1 DEF CkptReturn, Types, LocksOK, CkptPCs
<1>10. ConnOK(c)'
  BY <1>9 DEF ConnOK, LocksOK, WriterOK, SaltOK, FileOK, RestartOK,
     CheckpointOK, WritePCs, CkptPCs
<1>11. LogSalts' /\ Local(c)
  BY <1>1, <1>4, <1>5, <1>9 DEF Salts, LogSalts, Local, CkptPCs
<1> QED
  BY <1>7, <1>8, <1>10, <1>11, LocalStep

LEMMA EndCheckpointStep ==
  ASSUME IInv, NEW c \in Conn, EndCheckpoint(c)
  PROVE  IInv'
BY ReturnStep DEF EndCheckpoint, CkptPCs, shm, files

LEMMA DeleteLogStep ==
  ASSUME IInv, NEW c \in Conn, DeleteLog(c)
  PROVE  IInv'
<1>1. /\ pc[c] = "full" /\ Gone({c}) /\ UNCHANGED <<shm, nTxn>>
      /\ wal' = [i \in 0..MaxFrame |-> NoFrame]
      /\ walDisk' = [i \in 0..MaxFrame |-> {wal'[i]}]
  BY DEF DeleteLog, SyncWal
<1>2. 0 \in 0..MaxFrame /\ nTxn \in Nat
  BY WalAssumption DEF IInv, Types
<1>3. NoFrame.salt = 0
  BY DEF NoFrame
<1>4. LogSalts'
  BY <1>1, <1>2, <1>3 DEF LogSalts
<1>5. /\ wal' = [i \in 0..MaxFrame |-> wal'[i]]
      /\ walDisk' = [i \in 0..MaxFrame |-> walDisk'[i]]
  BY <1>1
<1> QED
  BY <1>1, <1>4, <1>5, GoneStep

LEMMA SameLog ==
  ASSUME IInv, UNCHANGED <<wal, walDisk, nTxn>>
  PROVE  /\ LogSalts' /\ wal' = [i \in 0..MaxFrame |-> wal'[i]]
         /\ walDisk' = [i \in 0..MaxFrame |-> walDisk'[i]]
BY DEF IInv, Salts, LogSalts, Types

LEMMA CkptErrorStep ==
  ASSUME IInv, NEW c \in Conn, CkptError(c)
  PROVE  IInv'
<1>1. /\ pc[c] \in {"marks", "copy"} /\ UNCHANGED <<shm, wal, walDisk, nTxn>>
      /\ Gone({c}) \/ CkptReturn(c)
  BY DEF CkptError
<1> QED
  BY <1>1, SameLog, GoneStep, ReturnStep DEF CkptPCs

(* The crash of a restart between its two last steps tears it.             *)
LEMMA CrashStep ==
  ASSUME IInv, NEW c \in Conn, Crash(c), ~tornReset'
  PROVE  IInv'
<1>1. /\ pc[c] # "closed" /\ pc[c] # "restart2" /\ Gone({c})
      /\ UNCHANGED <<shm, wal, walDisk, nTxn>>
  BY DEF Crash, files
<1> QED
  BY <1>1, SameLog, GoneStep

LEMMA PowerLossStep ==
  ASSUME IInv, PowerLoss
  PROVE  IInv'
<1> USE DEF shm
<1>1. Types /\ Salts /\ nTxn \in Nat \ {0}
  BY DEF IInv, Types
<1>2. IsHdr(ZeroHdr) /\ ZeroHdr.salt = 0
  BY DEF IsHdr, ZeroHdr
<1>3. IsJob(NoJob)
  BY DEF IsJob, NoJob
<1>4. Gone(Conn) /\ UNCHANGED <<shm, nTxn>>
  BY DEF PowerLoss
<1>5. /\ wal' = [i \in 0..MaxFrame |-> wal'[i]] /\ wal'[0].salt \in 0..nTxn
      /\ walDisk' = [i \in 0..MaxFrame |-> {wal'[i]}]
  <2>1. DOMAIN wal = 0..MaxFrame /\ 0 \in 0..MaxFrame
    BY <1>1, WalAssumption DEF Types
  <2>2. wal' \in Outcomes(wal, walDisk, {NoFrame})
    BY DEF PowerLoss
  <2> DEFINE U == {i \in DOMAIN wal : walDisk[i] # {wal[i]}}
             L == {f \in [U -> {NoFrame} \cup UNION {walDisk[i] : i \in U}] :
                     \A i \in U : f[i] \in walDisk[i] \cup {NoFrame}}
  <2>3. PICK f \in L : wal' = [i \in DOMAIN wal |-> IF i \in U THEN f[i] ELSE wal[i]]
    BY <2>2 DEF Outcomes
  <2>4. \A i \in U : f[i] \in walDisk[i] \cup {NoFrame}
    BY <2>3
  <2> HIDE DEF U, L
  <2>5. wal' = [i \in 0..MaxFrame |-> wal'[i]]
    BY <2>1, <2>3
  <2>6. wal'[0] \in walDisk[0] \cup {NoFrame, wal[0]}
    BY <2>1, <2>3, <2>4
  <2>7. NoFrame.salt = 0
    BY DEF NoFrame
  <2> QED
    BY <1>1, <2>5, <2>6, <2>7 DEF Salts, LogSalts, PowerLoss
<1>6. Types'
  BY <1>1, <1>2, <1>3, <1>4, <1>5 DEF Gone, Types, PCs
<1>7. \A c \in Conn : /\ pc'[c] = "closed" /\ ~writeLock'[c] /\ ~ckptLock'[c]
                      /\ readLock'[c] = -1 /\ hdr'[c] = ZeroHdr
  BY <1>4 DEF Gone
<1>8. OneWriter' /\ OneCheckpoint' /\ Backfilled'
  BY <1>7 DEF OneWriter, OneCheckpoint, Backfilled, Opened
<1>9. Salts'
  <2>1. 0 \in 0..MaxFrame
    BY WalAssumption
  <2> QED
    BY <1>1, <1>2, <1>4, <1>5, <1>7, <2>1 DEF Salts, LogSalts
<1>10. \A c \in Conn : ConnOK(c)'
  BY <1>7 DEF ConnOK, LocksOK, WriterOK, SaltOK, FileOK, RestartOK,
     CheckpointOK, WritePCs, CkptPCs
<1> QED
  BY <1>6, <1>8, <1>9, <1>10 DEF IInv

(* The first connection truncates the wal-index.                           *)
LEMMA OpenStep ==
  ASSUME IInv, NEW c \in Conn, Open(c)
  PROVE  IInv'
<1> USE DEF shm, locks, frame, files
<1>1. /\ Types /\ Salts /\ OneWriter /\ OneCheckpoint /\ Backfilled
      /\ nTxn \in Nat \ {0} /\ \A d \in Conn : ConnOK(d)
  BY DEF IInv, Types
<1>2. IsHdr(ZeroHdr) /\ ZeroHdr.mxFrame = 0 /\ ZeroHdr.salt = 0
  BY DEF IsHdr, ZeroHdr
<1>3. /\ pc[c] = "closed" /\ pc' = [pc EXCEPT ![c] = "idle"]
      /\ UNCHANGED <<hdr, writeLock, ckptLock, readLock, nCkpt, slot, iFrame, job, wal,
                     walDisk, nTxn>>
  BY DEF Open
<1>4. \A d \in Conn : pc'[d] = IF d = c THEN "idle" ELSE pc[d]
  BY <1>1, <1>3 DEF Types
<1>5. OneWriter' /\ OneCheckpoint'
  BY <1>1, <1>3 DEF OneWriter, OneCheckpoint
<1>6. CASE Opened = {}
  <2>1. aHdr' = <<ZeroHdr, ZeroHdr>> /\ nBackfill' = 0 /\ aReadMark' = [i \in 0..NReader - 1 |-> 0]
    BY <1>6 DEF Open
  <2>2. Types'
    BY <1>1, <1>2, <1>3, <2>1 DEF Types, PCs
  <2>3. \A d \in Conn : pc[d] = "closed" /\ pc'[d] \in {"closed", "idle"}
    BY <1>6, <1>4 DEF Opened
  <2>4. \A d \in Conn : ~writeLock'[d] /\ ~ckptLock'[d] /\ readLock'[d] # 0
    BY <1>1, <1>3, <2>3 DEF ConnOK, LocksOK, WritePCs, CkptPCs
  <2>5. \A d \in Conn : ConnOK(d)'
    BY <2>3, <2>4 DEF ConnOK, LocksOK, WriterOK, SaltOK, FileOK, RestartOK,
     CheckpointOK, WritePCs, CkptPCs
  <2>6. Backfilled' /\ Salts'
    BY <1>1, <1>2, <1>3, <2>1 DEF Backfilled, Salts, LogSalts
  <2> QED
    BY <1>5, <2>2, <2>5, <2>6 DEF IInv
<1>7. CASE Opened # {}
  <2>1. UNCHANGED <<aHdr, nBackfill, aReadMark>>
    BY <1>7 DEF Open
  <2>2. Types'
    BY <1>1, <1>3, <2>1 DEF Types, PCs
  <2>3. Backfilled' /\ Salts'
    BY <1>1, <1>3, <1>4, <1>7, <2>1 DEF Backfilled, Salts, LogSalts
  <2>4. ASSUME NEW d \in Conn PROVE ConnOK(d)'
    <3>1. CASE d = c
      <4>1. ~writeLock'[c] /\ ~ckptLock'[c] /\ pc'[c] = "idle" /\ readLock'[c] # 0
        BY <1>1, <1>3, <1>4 DEF ConnOK, LocksOK, WritePCs, CkptPCs
      <4> QED
        BY <3>1, <4>1 DEF ConnOK, LocksOK, WriterOK, SaltOK, FileOK, RestartOK,
     CheckpointOK, WritePCs, CkptPCs
    <3>2. CASE d # c
      <4>1. LocksOK(d)' /\ WriterOK(d)' /\ FileOK(d)' /\ RestartOK(d)'
        BY <1>1, <1>3, <1>4, <2>1, <3>2
        DEF ConnOK, LocksOK, WriterOK, FileOK, RestartOK
      <4>2. SaltOK(d)'
        BY <1>1, <1>3, <1>4, <2>1, <3>2 DEF ConnOK, SaltOK, Alone
      <4>3. CheckpointOK(d)'
        BY <1>1, <1>3, <1>4, <2>1, <3>2 DEF ConnOK, CheckpointOK
      <4> QED
        BY <4>1, <4>2, <4>3 DEF ConnOK
    <3> QED
      BY <3>1, <3>2
  <2> QED
    BY <1>5, <2>2, <2>3, <2>4 DEF IInv
<1> QED
  BY <1>6, <1>7

-----------------------------------------------------------------------------
(* Recovery finds a number of frames.                                      *)
LEMMA MaxBounded ==
  ASSUME NEW n \in Nat, NEW s \in SUBSET (0..n), s # {}
  PROVE  Max(s) \in s /\ \A m \in s : m <= Max(s)
<1> DEFINE t == {n - m : m \in s}
<1>1. t \in SUBSET Nat /\ t # {}
  <2>1. \A m \in s : m \in Int /\ 0 <= m /\ m <= n
    OBVIOUS
  <2>2. \A m \in s : n - m \in Nat
    BY <2>1
  <2> QED
    BY <2>2
<1>2. PICK k \in t : \A m \in t : k <= m
  BY <1>1, LeastNatural
<1>3. PICK x \in s : k = n - x
  BY <1>2
<1>4. ASSUME NEW m \in s PROVE x >= m
  <2>1. k <= n - m
    BY <1>2
  <2> QED
    BY <1>3, <2>1
<1>5. Max(s) \in s /\ \A m \in s : Max(s) >= m
  BY <1>4 DEF Max
<1> QED
  BY <1>5

LEMMA LastCommitType == LastCommit \in 0..MaxFrame
<1> DEFINE v == {n \in 1..MaxFrame : \A i \in 1..n : walDecodeFrame(i)}
           s == {n \in 1..ValidFrames : wal[n].commit # 0} \cup {0}
<1>1. MaxFrame \in Nat
  BY WalAssumption
<1>2. IsFiniteSet(1..MaxFrame) /\ Cardinality(1..MaxFrame) = MaxFrame
  BY <1>1, FS_Interval
<1>3. IsFiniteSet(v) /\ Cardinality(v) <= MaxFrame
  <2>1. v \in SUBSET (1..MaxFrame)
    OBVIOUS
  <2> HIDE DEF v
  <2> QED
    BY <1>2, <2>1, FS_Subset
<1>4. Cardinality(v) \in Nat
  <2> HIDE DEF v
  <2> QED
    BY <1>3, FS_CardinalityType
<1>5. ValidFrames \in 0..MaxFrame
  BY <1>1, <1>3, <1>4 DEF ValidFrames
<1>6. s \in SUBSET (0..MaxFrame) /\ s # {}
  BY <1>1, <1>5
<1>7. LastCommit = Max(s)
  BY DEF LastCommit
<1> HIDE DEF s
<1> QED
  BY <1>1, <1>6, <1>7, MaxBounded

(* What walIndexReadHdr() changes.                                         *)
ReadHdrEffect(c) ==
  /\ aHdr' = <<aHdr'[1], aHdr'[2]>> /\ IsHdr(aHdr'[1]) /\ IsHdr(aHdr'[2])
  /\ nBackfill' \in Nat /\ aReadMark' \in [0..NReader - 1 -> Nat]
  /\ hdr' = [d \in Conn |-> hdr'[d]] /\ \A d \in Conn : IsHdr(hdr'[d])
  /\ hdr'[c] = aHdr'[1] /\ \A d \in Conn \ {c} : hdr'[d] = hdr[d]
  /\ nCkpt' = [d \in Conn |-> nCkpt'[d]] /\ \A d \in Conn \ {c} : nCkpt'[d] = nCkpt[d]
  /\ aHdr'[1].salt <= nTxn
  /\ \/ walIndexTryHdr /\ aHdr' = aHdr /\ nBackfill' = nBackfill
     \/ AllFree(c) /\ nBackfill' = 0

LEMMA ReadHdr ==
  ASSUME IInv, NEW c \in Conn, walIndexReadHdr(c)
  PROVE  ReadHdrEffect(c)
<1>1. Types /\ Salts
  BY DEF IInv
<1>2. CASE walIndexTryHdr /\ UNCHANGED <<shm, nCkpt>>
  <2>1. /\ UNCHANGED <<aHdr, nBackfill, aReadMark, nCkpt>>
        /\ hdr' = [hdr EXCEPT ![c] = aHdr[1]]
    BY <1>2 DEF walIndexReadHdr, shm
  <2>2. /\ hdr' = [d \in Conn |-> hdr'[d]] /\ \A d \in Conn : IsHdr(hdr'[d])
        /\ hdr'[c] = aHdr'[1] /\ \A d \in Conn \ {c} : hdr'[d] = hdr[d]
    BY <1>1, <2>1, HdrPut DEF Types
  <2> QED
    BY <1>1, <1>2, <2>1, <2>2 DEF ReadHdrEffect, Types, Salts
<1>3. CASE ~walIndexTryHdr /\ walIndexRecover(c)
  <2> DEFINE mx == LastCommit
             h == HdrAt[mx]
  <2>1. mx \in 0..MaxFrame
    BY LastCommitType
  <2>2. IsHdr(h) /\ h.salt <= nTxn
    <3>1. h = [isInit |-> TRUE, mxFrame |-> mx, nPage |-> IF mx = 0 THEN 0 ELSE wal[mx].commit,
               salt |-> wal[0].salt, last |-> wal[mx].val]
      BY <2>1 DEF HdrAt
    <3> HIDE DEF h
    <3> QED
      BY <1>1, <2>1, <3>1, WalAssumption DEF IsHdr, Salts, LogSalts, Types
  <2>3. /\ AllFree(c) /\ aHdr' = <<h, h>> /\ nBackfill' = 0
        /\ aReadMark' = [i \in 0..NReader - 1 |->
             IF i = 0 THEN 0 ELSE IF i = 1 /\ mx # 0 THEN mx ELSE NotUsed]
        /\ hdr' = [hdr EXCEPT ![c] = aHdr'[1]]
        /\ nCkpt' = [nCkpt EXCEPT ![c] = wal[0].commit]
    BY <1>3 DEF walIndexReadHdr, walIndexRecover
  <2> HIDE DEF mx, h
  <2>4. NotUsed \in Nat /\ mx \in Nat
    BY <2>1, WalAssumption DEF NotUsed
  <2>5. aReadMark' \in [0..NReader - 1 -> Nat]
    BY <2>3, <2>4
  <2>6. aHdr'[1] = h /\ aHdr'[2] = h
    BY <2>3
  <2>7. /\ hdr' = [d \in Conn |-> hdr'[d]] /\ \A d \in Conn : IsHdr(hdr'[d])
        /\ hdr'[c] = aHdr'[1] /\ \A d \in Conn \ {c} : hdr'[d] = hdr[d]
    BY <1>1, <2>2, <2>3, <2>6, HdrPut
  <2>8. nCkpt' = [d \in Conn |-> nCkpt'[d]] /\ \A d \in Conn \ {c} : nCkpt'[d] = nCkpt[d]
    BY <1>1, <2>3, PutAt DEF Types
  <2> QED
    BY <2>2, <2>3, <2>5, <2>6, <2>7, <2>8 DEF ReadHdrEffect
<1> QED
  BY <1>2, <1>3 DEF walIndexReadHdr

LEMMA BeginReadHdrStep ==
  ASSUME IInv, NEW c \in Conn, BeginReadHdr(c)
  PROVE  IInv'
<1> USE DEF locks, frame, files
<1>1. Types /\ ConnOK(c) /\ Salts
  BY DEF IInv
<1>2. ReadHdrEffect(c)
  BY ReadHdr DEF BeginReadHdr
<1>3. /\ pc[c] = "idle" /\ pc' = [pc EXCEPT ![c] = "choose"]
      /\ UNCHANGED <<writeLock, ckptLock, readLock, slot, iFrame, job, wal, walDisk, nTxn>>
  BY DEF BeginReadHdr
<1>4. Types'
  BY <1>1, <1>2, <1>3 DEF Types, ReadHdrEffect, PCs
<1>5. Others(c)
  BY <1>1, <1>2, <1>3 DEF Types, ReadHdrEffect, Others
<1>6. pc'[c] = "choose" /\ ~writeLock'[c] /\ ~ckptLock'[c] /\ readLock'[c] # 0
  BY <1>1, <1>3 DEF Types, ConnOK, LocksOK, WritePCs, CkptPCs
<1>7. ConnOK(c)'
  BY <1>6 DEF ConnOK, LocksOK, WriterOK, SaltOK, FileOK, RestartOK,
     CheckpointOK, WritePCs, CkptPCs
<1>8. Salts'
  BY <1>1, <1>2, <1>3 DEF Salts, LogSalts, ReadHdrEffect
<1>9. CASE aHdr' = aHdr /\ nBackfill' = nBackfill
  <2>1. Local(c)
    BY <1>2, <1>3, <1>6, <1>9 DEF Local, ReadHdrEffect
  <2> QED
    BY <1>4, <1>5, <1>7, <1>8, <2>1, LocalStep DEF Salts
<1>10. CASE AllFree(c) /\ nBackfill' = 0
  BY <1>4, <1>5, <1>6, <1>7, <1>8, <1>10, RecoverStep
<1> QED
  BY <1>2, <1>9, <1>10 DEF ReadHdrEffect

LEMMA StartCheckpointStep ==
  ASSUME IInv, NEW c \in Conn, NEW mode, StartCheckpoint(c, mode)
  PROVE  IInv'
<1> USE DEF frame, files
<1>1. Types /\ ConnOK(c) /\ Salts
  BY DEF IInv
<1>2. ReadHdrEffect(c)
  BY ReadHdr DEF StartCheckpoint
<1> DEFINE blocking == mode \in {"FULL", "RESTART"} /\ WriteFree(c)
           m == IF blocking \/ mode = "CLOSE" THEN mode ELSE "PASSIVE"
           j == [NoJob EXCEPT !.mode = m, !.changed = Changed(c)]
<1>3. IsJob(j)
  <2> HIDE DEF m
  <2>1. IsJob(NoJob)
    BY DEF IsJob, NoJob
  <2> QED
    BY <2>1 DEF IsJob
<1>4. /\ pc[c] = "idle" /\ CkptFree(c) /\ pc' = [pc EXCEPT ![c] = "ckpt"]
      /\ ckptLock' = [ckptLock EXCEPT ![c] = TRUE]
      /\ writeLock' = [writeLock EXCEPT ![c] = blocking]
      /\ job' = [job EXCEPT ![c] = j]
      /\ UNCHANGED <<readLock, slot, iFrame, wal, walDisk, nTxn>>
  BY DEF StartCheckpoint
<1> HIDE DEF j
<1>5. /\ job' = [d \in Conn |-> job'[d]] /\ \A d \in Conn : IsJob(job'[d])
      /\ \A d \in Conn \ {c} : job'[d] = job[d]
  BY <1>1, <1>3, <1>4, JobPut
<1>6. blocking \in BOOLEAN
  BY DEF WriteFree
<1>7. blocking => WriteFree(c)
  OBVIOUS
<1> HIDE DEF blocking
<1>8. Types'
  BY <1>1, <1>2, <1>4, <1>5, <1>6 DEF Types, ReadHdrEffect, PCs
<1>9. Others(c)
  BY <1>1, <1>2, <1>4, <1>5 DEF Types, ReadHdrEffect, Others
<1>10. /\ pc'[c] = "ckpt" /\ (writeLock'[c] <=> blocking) /\ ckptLock'[c]
       /\ hdr'[c] = aHdr'[1] /\ readLock'[c] # 0
  BY <1>1, <1>2, <1>4, <1>6 DEF Types, ReadHdrEffect, ConnOK, LocksOK
<1>11. ConnOK(c)'
  <2>1. aHdr'[1].mxFrame \in Nat
    BY <1>2 DEF ReadHdrEffect, IsHdr
  <2> QED
    BY <1>10, <2>1 DEF ConnOK, LocksOK, WriterOK, SaltOK, FileOK, RestartOK,
     CheckpointOK, WritePCs, CkptPCs
<1>12. Salts'
  BY <1>1, <1>2, <1>4 DEF Salts, LogSalts, ReadHdrEffect
<1>13. CASE walIndexTryHdr /\ aHdr' = aHdr /\ nBackfill' = nBackfill
  <2>1. Local(c)
    BY <1>2, <1>4, <1>7, <1>10, <1>13 DEF Local, ReadHdrEffect
  <2> QED
    BY <1>8, <1>9, <1>11, <1>12, <2>1, LocalStep DEF Salts
<1>14. CASE AllFree(c) /\ nBackfill' = 0
  BY <1>8, <1>9, <1>10, <1>11, <1>12, <1>14, RecoverStep
<1> QED
  BY <1>2, <1>13, <1>14 DEF ReadHdrEffect

LEMMA CloseStep ==
  ASSUME IInv, NEW c \in Conn, Close(c)
  PROVE  IInv'
<1>1. CASE StartCheckpoint(c, "CLOSE")
  BY <1>1, StartCheckpointStep
<1>2. CASE Gone({c}) /\ UNCHANGED <<shm, wal, walDisk, nTxn>>
  BY <1>2, SameLog, GoneStep DEF Close
<1> QED
  BY <1>1, <1>2 DEF Close, files

-----------------------------------------------------------------------------
(* The steps of a writer that starts the log over.  All that its header    *)
(* counts is in the file; the new header goes to the second copy ...       *)
LEMMA WriteFramesStep ==
  ASSUME IInv, NEW c \in Conn, NEW D, NEW n, WriteFrames(c, D, n)
  PROVE  IInv'
<1> USE DEF files, shm, faults
<1>1. /\ Types /\ Salts /\ ConnOK(c) /\ IsHdr(hdr[c]) /\ Numbers(c)
      /\ pc[c] = "write" /\ writeLock[c] /\ ~ckptLock[c]
  BY DEF IInv, Types, IsHdr, Numbers, WriteFrames, ConnOK, LocksOK, WritePCs, CkptPCs
<1>2. UNCHANGED <<writeLock, ckptLock, slot, job, nBackfill, aReadMark, wal, walDisk, nTxn>>
  BY DEF WriteFrames
<1>3. CASE readLock[c] # 0
  <2>1. /\ pc' = [pc EXCEPT ![c] = Writing(c)] /\ iFrame' = [iFrame EXCEPT ![c] = hdr[c].mxFrame]
        /\ UNCHANGED <<aHdr, hdr, nCkpt, readLock>>
    BY <1>3 DEF WriteFrames
  <2>2. Writing(c) \in {"header", "frames"}
    BY DEF Writing
  <2>3. Types'
    BY <1>1, <1>2, <2>1, <2>2 DEF Types, PCs, Numbers
  <2>4. Others(c)
    BY <1>1, <1>2, <2>1 DEF Types, Others
  <2>5. ConnOK(c)'
    BY <1>1, <1>2, <1>3, <2>1, <2>2, <2>4
    DEF Types, Numbers, Others, Alone, ConnOK, LocksOK, WriterOK, SaltOK, FileOK, RestartOK,
     CheckpointOK, WritePCs, CkptPCs
  <2>6. LogSalts' /\ Local(c)
    BY <1>1, <1>2, <2>1, <2>2 DEF Types, Salts, LogSalts, Local
  <2> QED
    BY <2>3, <2>4, <2>5, <2>6, LocalStep
<1>4. CASE readLock[c] = 0 /\ pc' = [pc EXCEPT ![c] = "reopen"]
  <2>1. UNCHANGED <<iFrame, aHdr, hdr, nCkpt>> /\ readLock' = [readLock EXCEPT ![c] = -1]
    <3>1. pc'[c] # "restart"
      BY <1>1, <1>4 DEF Types
    <3> QED
      BY <1>1, <1>4, <3>1 DEF WriteFrames, Types
  <2>2. Types'
    BY <1>1, <1>2, <1>4, <2>1 DEF Types, PCs
  <2>3. Others(c)
    BY <1>1, <1>2, <1>4, <2>1 DEF Types, Others
  <2>4. ConnOK(c)'
    BY <1>1, <1>2, <1>4, <2>1, <2>3
    DEF Types, Numbers, Others, Alone, ConnOK, LocksOK, WriterOK, SaltOK, FileOK, RestartOK,
     CheckpointOK, WritePCs, CkptPCs
  <2>5. LogSalts' /\ Local(c)
    BY <1>1, <1>2, <1>4, <2>1 DEF Types, Salts, LogSalts, Local
  <2> QED
    BY <2>2, <2>3, <2>4, <2>5, LocalStep
<1>5. CASE /\ readLock[c] = 0
           /\ hdr' = [hdr EXCEPT ![c].mxFrame = 0, ![c].salt = nTxn]
           /\ nCkpt' = [nCkpt EXCEPT ![c] = 1]
           /\ aHdr' = [aHdr EXCEPT ![2] = hdr'[c]]
           /\ pc' = [pc EXCEPT ![c] = "restart"] /\ readLock' = readLock
  <2> DEFINE h == [hdr[c] EXCEPT !.mxFrame = 0, !.salt = nTxn]
  <2>1. IsHdr(h) /\ h.mxFrame = 0 /\ h.salt = nTxn
    BY <1>1 DEF IsHdr, Numbers
  <2>2. hdr' = [hdr EXCEPT ![c] = h]
    BY <1>1, <1>5 DEF Types
  <2> HIDE DEF h
  <2>3. /\ hdr' = [d \in Conn |-> hdr'[d]] /\ \A d \in Conn : IsHdr(hdr'[d])
        /\ hdr'[c] = h /\ \A d \in Conn \ {c} : hdr'[d] = hdr[d]
    BY <1>1, <2>1, <2>2, HdrPut
  <2>4. aHdr'[1] = aHdr[1] /\ aHdr'[2] = h /\ aHdr' = <<aHdr'[1], aHdr'[2]>>
    <3> DEFINE a == aHdr[1]
               b == aHdr[2]
    <3>1. aHdr = <<a, b>>
      BY <1>1 DEF Types
    <3>2. aHdr' = [aHdr EXCEPT ![2] = h]
      BY <1>5, <2>3
    <3>3. aHdr' = [<<a, b>> EXCEPT ![2] = h]
      BY <3>1, <3>2, Zenon
    <3> HIDE DEF a, b
    <3>4. aHdr' = <<a, h>>
      BY <3>3, PairPut
    <3>5. aHdr' = <<aHdr[1], h>>
      BY <3>4 DEF a
    <3> QED
      BY <3>5
  <2>5. iFrame' = iFrame
    BY <1>5 DEF WriteFrames
  <2>6. Types'
    <3>1. IsHdr(aHdr'[1]) /\ IsHdr(aHdr'[2])
      BY <1>1, <2>1, <2>4 DEF Types
    <3> QED
      BY <1>1, <1>2, <1>5, <2>3, <2>4, <2>5, <3>1 DEF Types, PCs
  <2>7. Others(c)
    BY <1>1, <1>2, <1>5, <2>3, <2>5 DEF Types, Others
  <2>8. aHdr[1].mxFrame <= nBackfill /\ Alone(c)
    BY <1>1, <1>5 DEF ConnOK, FileOK, SaltOK, WritePCs
  <2>9. /\ pc'[c] = "restart" /\ writeLock'[c] /\ ~ckptLock'[c] /\ Alone(c)' /\ nCkpt'[c] = 1
        /\ \A d \in Conn : pc[d] # "copy" /\ pc'[d] # "copy"
    BY <1>1, <1>2, <1>5, <2>4, <2>7, <2>8 DEF Types, Alone, Others, ConnOK, LocksOK
  <2>10. ConnOK(c)'
    BY <1>1, <1>2, <2>1, <2>3, <2>4, <2>8, <2>9
    DEF Numbers, ConnOK, LocksOK, WriterOK, SaltOK, FileOK, RestartOK,
     CheckpointOK, WritePCs, CkptPCs
  <2>11. LogSalts' /\ Local(c)
    BY <1>1, <1>2, <2>1, <2>3, <2>4, <2>9 DEF Types, Salts, LogSalts, Local, WritePCs
  <2> QED
    BY <2>6, <2>7, <2>10, <2>11, LocalStep
<1> QED
  BY <1>3, <1>4, <1>5 DEF WriteFrames

(* ... then to the first.  A checkpoint that has not read nBackfill yet    *)
(* will find that all is done; none is past that, as nothing is left to do.*)
LEMMA RestartHdrStep ==
  ASSUME IInv, NEW c \in Conn, RestartHdr(c)
  PROVE  IInv'
<1> USE DEF locks, frame, files
<1>1. /\ Types /\ Salts /\ OneWriter /\ OneCheckpoint /\ Numbers(c)
      /\ \A d \in Conn : ConnOK(d)
  BY DEF IInv, Types, IsHdr, Numbers
<1>2. /\ pc[c] = "restart" /\ pc' = [pc EXCEPT ![c] = "restart2"]
      /\ aHdr' = [aHdr EXCEPT ![1] = hdr[c]]
      /\ UNCHANGED <<nBackfill, aReadMark, hdr, nCkpt, readLock, writeLock, ckptLock,
                     slot, iFrame, job, wal, walDisk, nTxn>>
  BY DEF RestartHdr
<1>3. aHdr'[1] = hdr[c] /\ aHdr'[2] = aHdr[2] /\ aHdr' = <<aHdr'[1], aHdr'[2]>>
  <2>1. aHdr' = <<hdr[c], aHdr[2]>>
    <3> DEFINE a == aHdr[1]
               b == aHdr[2]
    <3>1. aHdr = <<a, b>>
      BY <1>1 DEF Types
    <3>2. aHdr' = [<<a, b>> EXCEPT ![1] = hdr[c]]
      BY <1>2, <3>1, Zenon
    <3> HIDE DEF a, b
    <3>3. aHdr' = <<hdr[c], b>>
      BY <3>2, PairPut
    <3> QED
      BY <3>3 DEF b
  <2> QED
    BY <2>1
<1>4. Types'
  BY <1>1, <1>2, <1>3 DEF Types, PCs
<1>5. OneWriter' /\ OneCheckpoint'
  BY <1>1, <1>2 DEF OneWriter, OneCheckpoint
<1>6. \A d \in Conn : pc'[d] = IF d = c THEN "restart2" ELSE pc[d]
  BY <1>1, <1>2 DEF Types
<1>7. Backfilled'
  BY <1>6 DEF Backfilled
<1>8. /\ writeLock[c] /\ hdr[c].mxFrame = 0 /\ hdr[c].salt = nTxn
      /\ aHdr[1].mxFrame <= nBackfill /\ Alone(c)
      /\ \A d \in Conn : d # c => ~writeLock[d] /\ pc[d] \notin WritePCs
  BY <1>1, <1>2 DEF OneWriter, ConnOK, LocksOK, SaltOK, RestartOK, WritePCs
<1>9. Salts'
  BY <1>1, <1>2, <1>3 DEF Salts, LogSalts
<1>10. ASSUME NEW d \in Conn PROVE ConnOK(d)'
  <2>1. CASE d = c
    <3>1. LocksOK(c)' /\ WriterOK(c)' /\ FileOK(c)' /\ RestartOK(c)' /\ CheckpointOK(c)'
      BY <1>1, <1>2, <1>3, <1>6, <1>8
      DEF Numbers, ConnOK, LocksOK, WriterOK, FileOK, RestartOK, CheckpointOK, WritePCs, CkptPCs
    <3>2. nCkpt[c] # 0 => SaltOK(c)'
      BY <1>2, <1>3, <1>6 DEF SaltOK
    <3>3. nCkpt[c] # 0
      BY <1>1, <1>2 DEF ConnOK, SaltOK, RestartOK
    <3> QED
      BY <2>1, <3>1, <3>2, <3>3 DEF ConnOK
  <2>2. CASE d # c
    <3>1. /\ pc'[d] = pc[d] /\ ~writeLock'[d] /\ pc[d] \notin WritePCs
          /\ hdr[d].salt < nTxn /\ hdr[d].salt # hdr[c].salt
      BY <1>1, <1>2, <1>6, <1>8, <2>2 DEF Alone, Types, IsHdr
    <3>2. LocksOK(d)'
      BY <1>1, <1>2, <1>6, <1>8, <2>2 DEF ConnOK, LocksOK
    <3>3. WriterOK(d)' /\ SaltOK(d)' /\ FileOK(d)' /\ RestartOK(d)'
      BY <1>2, <1>3, <3>1 DEF WriterOK, SaltOK, FileOK, RestartOK, WritePCs
    <3>4. CheckpointOK(d)'
      <4>1. hdr[d].mxFrame \in Nat /\ CheckpointOK(d)
        BY <1>1 DEF Types, IsHdr, ConnOK
      <4>2. ~ \E e \in Conn : pc[e] = "restart2"
        BY <1>2, <1>8 DEF WritePCs
      <4> QED
        BY <1>1, <1>2, <1>3, <1>6, <1>8, <3>1, <4>1, <4>2 DEF Numbers, CheckpointOK
    <3> QED
      BY <3>2, <3>3, <3>4 DEF ConnOK
  <2> QED
    BY <2>1, <2>2
<1> QED
  BY <1>4, <1>5, <1>7, <1>9, <1>10 DEF IInv

(* ... and nBackfill at last, unless that tears the restart.               *)
LEMMA RestartInfoStep ==
  ASSUME IInv, NEW c \in Conn, RestartInfo(c), ~tornReset'
  PROVE  IInv'
<1> USE DEF frame, files
<1>1. /\ Types /\ Salts /\ OneWriter /\ OneCheckpoint /\ Numbers(c)
      /\ \A d \in Conn : ConnOK(d)
  BY DEF IInv, Types, IsHdr, Numbers
<1>2. /\ pc[c] = "restart2" /\ pc' = [pc EXCEPT ![c] = "reopen"]
      /\ nBackfill' = 0 /\ readLock' = [readLock EXCEPT ![c] = -1]
      /\ aReadMark' = [i \in 0..NReader - 1 |-> IF i <= 1 THEN 0 ELSE NotUsed]
      /\ UNCHANGED <<aHdr, hdr, nCkpt, writeLock, ckptLock, slot, iFrame, job, wal,
                     walDisk, nTxn>>
  BY DEF RestartInfo, BackfillReset
<1>3. \A d \in Conn \ {c} : pc[d] = "ckpt" => ~(hdr[d].mxFrame > 0)
  BY DEF RestartInfo, Overtaken
<1>4. NotUsed \in Nat
  BY WalAssumption DEF NotUsed
<1>5. Types'
  BY <1>1, <1>2, <1>4 DEF Types, PCs
<1>6. OneWriter' /\ OneCheckpoint' /\ Salts'
  BY <1>1, <1>2 DEF OneWriter, OneCheckpoint, Salts, LogSalts
<1>7. Backfilled'
  BY <1>1, <1>2 DEF Backfilled, Numbers
<1>8. \A d \in Conn : /\ pc'[d] = IF d = c THEN "reopen" ELSE pc[d]
                      /\ readLock'[d] = IF d = c THEN -1 ELSE readLock[d]
  BY <1>1, <1>2 DEF Types
<1>9. /\ writeLock[c] /\ aHdr[1].mxFrame = 0
      /\ \A d \in Conn : d # c => ~writeLock[d] /\ pc[d] \notin WritePCs
  BY <1>1, <1>2 DEF OneWriter, ConnOK, LocksOK, RestartOK, WritePCs
<1>10. ASSUME NEW d \in Conn PROVE ConnOK(d)'
  <2>0. ConnOK(d) /\ hdr[d].mxFrame \in Nat
    BY <1>1 DEF Types, IsHdr
  <2>1. LocksOK(d)'
    BY <1>2, <1>8, <2>0 DEF ConnOK, LocksOK, WritePCs, CkptPCs
  <2>2. WriterOK(d)'
    BY <1>2, <1>8, <2>0 DEF ConnOK, WriterOK, WritePCs
  <2>3. SaltOK(d)'
    BY <1>2, <1>8, <1>9, <2>0 DEF ConnOK, SaltOK, Alone, WritePCs
  <2>4. FileOK(d)' /\ RestartOK(d)'
    BY <1>1, <1>2, <1>8, <1>9, <2>0 DEF Numbers, ConnOK, FileOK, RestartOK, WritePCs
  <2>5. CheckpointOK(d)'
    BY <1>1, <1>2, <1>3, <1>8, <1>9, <2>0 DEF Numbers, ConnOK, CheckpointOK
  <2> QED
    BY <2>1, <2>2, <2>3, <2>4, <2>5 DEF ConnOK
<1> QED
  BY <1>5, <1>6, <1>7, <1>10 DEF IInv

(* A commit only moves the end of the log forward, or begins a log with a  *)
(* salt that nobody has seen.                                              *)
LEMMA CommitHdrStep ==
  ASSUME IInv, NEW c \in Conn, CommitHdr(c)
  PROVE  IInv'
<1> USE DEF frame, files
<1>1. /\ Types /\ Salts /\ OneWriter /\ OneCheckpoint /\ Backfilled /\ Numbers(c)
      /\ \A d \in Conn : ConnOK(d)
  BY DEF IInv, Types, IsHdr, Numbers
<1>2. /\ pc[c] = "commit" /\ pc' = [pc EXCEPT ![c] = "read"]
      /\ aHdr' = [aHdr EXCEPT ![1] = hdr[c]]
      /\ writeLock' = [writeLock EXCEPT ![c] = FALSE]
      /\ UNCHANGED <<nBackfill, aReadMark, hdr, nCkpt, readLock, ckptLock, slot, iFrame,
                     job, wal, walDisk, nTxn>>
  BY DEF CommitHdr
<1>3. aHdr'[1] = hdr[c] /\ aHdr'[2] = aHdr[2] /\ aHdr' = <<aHdr'[1], aHdr'[2]>>
  <2>1. aHdr' = <<hdr[c], aHdr[2]>>
    <3> DEFINE a == aHdr[1]
               b == aHdr[2]
    <3>1. aHdr = <<a, b>>
      BY <1>1 DEF Types
    <3>2. aHdr' = [<<a, b>> EXCEPT ![1] = hdr[c]]
      BY <1>2, <3>1, Zenon
    <3> HIDE DEF a, b
    <3>3. aHdr' = <<hdr[c], b>>
      BY <3>2, PairPut
    <3> QED
      BY <3>3 DEF b
  <2> QED
    BY <2>1
<1>4. Types'
  BY <1>1, <1>2, <1>3 DEF Types, PCs
<1>5. /\ writeLock[c] /\ ~ckptLock[c] /\ readLock[c] # 0
      /\ \A d \in Conn : d # c => ~writeLock[d] /\ pc[d] \notin WritePCs
  BY <1>1, <1>2 DEF OneWriter, ConnOK, LocksOK, WritePCs, CkptPCs
<1>6. /\ aHdr[1].mxFrame <= aHdr'[1].mxFrame
      /\ hdr[c].salt = aHdr[1].salt \/ (hdr[c].salt = nTxn /\ Alone(c))
  BY <1>1, <1>2, <1>3, <1>5 DEF ConnOK, WriterOK, SaltOK, WritePCs
<1>7. OneWriter' /\ OneCheckpoint' /\ Salts'
  BY <1>1, <1>2, <1>3 DEF OneWriter, OneCheckpoint, Types, Salts, LogSalts
<1>8. \A d \in Conn : /\ pc'[d] = IF d = c THEN "read" ELSE pc[d]
                      /\ ~writeLock'[d]
  BY <1>1, <1>2, <1>5 DEF Types
<1>9. Backfilled'
  <2>1. aHdr'[1].mxFrame \in Nat
    BY <1>1, <1>3 DEF Numbers
  <2> QED
    BY <1>1, <1>2, <1>6, <1>8, <2>1 DEF Numbers, Backfilled, Opened
<1>10. ASSUME NEW d \in Conn PROVE ConnOK(d)'
  <2>1. ConnOK(d) /\ hdr[d].mxFrame \in Nat /\ hdr[d].salt \in Nat /\ hdr[c].mxFrame \in Nat
    BY <1>1 DEF Types, IsHdr
  <2>2. LocksOK(d)'
    BY <1>2, <1>5, <1>8, <2>1 DEF ConnOK, LocksOK, WritePCs, CkptPCs
  <2>3. WriterOK(d)' /\ SaltOK(d)' /\ RestartOK(d)'
    BY <1>5, <1>8 DEF WriterOK, SaltOK, RestartOK, WritePCs
  <2>4. FileOK(d)'
    <3>1. CASE d = c
      BY <1>2, <1>5, <3>1 DEF FileOK
    <3>2. CASE d # c
      <4>1. hdr[d].salt = hdr[c].salt => hdr[d].salt = aHdr[1].salt
        BY <1>1, <1>6, <2>1, <3>2 DEF Alone, Numbers
      <4> QED
        BY <1>1, <1>2, <1>3, <1>5, <1>6, <1>8, <2>1, <3>2, <4>1
        DEF Numbers, ConnOK, FileOK, WritePCs
    <3> QED
      BY <3>1, <3>2
  <2>5. CheckpointOK(d)'
    <3>1. \A e \in Conn : pc[e] = "restart2" => pc'[e] = "restart2"
      BY <1>2, <1>8
    <3> QED
      BY <1>1, <1>2, <1>3, <1>6, <1>8, <2>1, <3>1 DEF Numbers, ConnOK, CheckpointOK
  <2> QED
    BY <2>2, <2>3, <2>4, <2>5 DEF ConnOK
<1> QED
  BY <1>4, <1>7, <1>9, <1>10 DEF IInv

(* A checkpoint has copied frames that the header counts.                  *)
LEMMA CkptBackfillStep ==
  ASSUME IInv, NEW c \in Conn, CkptBackfill(c)
  PROVE  IInv'
<1> USE DEF locks, frame
<1>1. /\ Types /\ Salts /\ OneWriter /\ OneCheckpoint /\ Numbers(c)
      /\ \A d \in Conn : ConnOK(d)
  BY DEF IInv, Types, IsHdr, Numbers
<1>2. /\ pc[c] = "copy" /\ pc' = [pc EXCEPT ![c] = "full"]
      /\ nBackfill' = job[c].mxSafe
      /\ UNCHANGED <<aHdr, aReadMark, hdr, nCkpt, readLock, writeLock, ckptLock, slot,
                     iFrame, job, wal, walDisk, nTxn>>
  BY DEF CkptBackfill
<1>3. job[c].mxSafe \in Nat
  BY <1>1 DEF Types, IsJob
<1>4. Types'
  BY <1>1, <1>2, <1>3 DEF Types, PCs
<1>5. OneWriter' /\ OneCheckpoint' /\ Salts'
  BY <1>1, <1>2 DEF OneWriter, OneCheckpoint, Salts, LogSalts
<1>6. /\ job[c].mxSafe <= aHdr[1].mxFrame /\ ckptLock[c]
      /\ hdr[c].mxFrame <= aHdr[1].mxFrame /\ nBackfill < hdr[c].mxFrame
  BY <1>1, <1>2, <1>3 DEF Numbers, ConnOK, CheckpointOK, LocksOK, CkptPCs
<1>7. Backfilled'
  BY <1>2, <1>6 DEF Backfilled
<1>8. ASSUME NEW d \in Conn PROVE ConnOK(d)'
  <2>0. /\ ConnOK(d) /\ pc'[d] = IF d = c THEN "full" ELSE pc[d]
    BY <1>1, <1>2 DEF Types
  <2>1. LocksOK(d)'
    BY <1>1, <1>2, <2>0 DEF Types, ConnOK, LocksOK, WritePCs, CkptPCs
  <2>2. WriterOK(d)'
    BY <1>2, <2>0 DEF ConnOK, WriterOK, WritePCs
  <2>3. SaltOK(d)'
    BY <1>2, <2>0 DEF ConnOK, SaltOK, Alone, WritePCs
  <2>4. FileOK(d)'
    BY <1>2, <2>0 DEF ConnOK, LocksOK, FileOK
  <2>5. RestartOK(d)'
    BY <1>1, <1>2, <1>6, <2>0 DEF Numbers, ConnOK, RestartOK
  <2>6. CheckpointOK(d)'
    BY <1>1, <1>2, <1>6, <2>0 DEF OneCheckpoint, ConnOK, LocksOK, CheckpointOK, CkptPCs
  <2> QED
    BY <2>1, <2>2, <2>3, <2>4, <2>5, <2>6 DEF ConnOK
<1> QED
  BY <1>4, <1>5, <1>7, <1>8 DEF IInv

-----------------------------------------------------------------------------
LEMMA InitOK == Init => IInv
<1> SUFFICES ASSUME Init PROVE IInv
  OBVIOUS
<1>1. IsHdr(ZeroHdr) /\ ZeroHdr.mxFrame = 0 /\ ZeroHdr.salt = 0
  BY DEF IsHdr, ZeroHdr
<1>2. IsJob(NoJob)
  BY DEF IsJob, NoJob
<1>3. Types
  BY <1>1, <1>2 DEF Init, Types, PCs
<1>4. OneWriter /\ OneCheckpoint /\ Backfilled
  BY DEF Init, OneWriter, OneCheckpoint, Backfilled, Opened
<1>5. Salts
  <2>1. NoFrame.salt = 0 /\ 0 \in 0..MaxFrame
    BY WalAssumption DEF NoFrame
  <2> QED
    BY <1>1, <2>1 DEF Init, Salts, LogSalts
<1>6. \A c \in Conn : pc[c] = "closed" /\ ~writeLock[c] /\ ~ckptLock[c] /\ readLock[c] = -1
  BY DEF Init
<1>7. \A c \in Conn : ConnOK(c)
  BY <1>6 DEF ConnOK, LocksOK, WriterOK, SaltOK, FileOK, RestartOK,
     CheckpointOK, WritePCs, CkptPCs
<1> QED
  BY <1>3, <1>4, <1>5, <1>7 DEF IInv

LEMMA NextOK ==
  ASSUME IInv, [Next]_vars, ~tornReset'
  PROVE  IInv'
<1>1. CASE UNCHANGED vars
  <2>1. UNCHANGED <<wal, walDisk, aHdr, nBackfill, aReadMark, pc, hdr, nCkpt, readLock,
                    writeLock, ckptLock, slot, iFrame, job, nTxn>>
    BY <1>1 DEF vars, shm, locks, frame, files
  <2>2. Types'
    BY <2>1 DEF IInv, Types
  <2>3. OneWriter' /\ OneCheckpoint' /\ Backfilled' /\ Salts'
    BY <2>1 DEF IInv, OneWriter, OneCheckpoint, Backfilled, Opened, Salts, LogSalts
  <2>4. \A c \in Conn : ConnOK(c)'
    BY <2>1 DEF IInv, ConnOK, LocksOK, WriterOK, SaltOK, Alone, FileOK, RestartOK,
       CheckpointOK
  <2> QED
    BY <2>2, <2>3, <2>4 DEF IInv
<1>2. ASSUME NEW c \in Conn, Spill(c) \/ Commit(c) PROVE IInv'
  BY <1>2, WriteFramesStep DEF Spill, Commit
<1>3. ASSUME NEW c \in Conn, Checkpoint(c) PROVE IInv'
  BY <1>3, StartCheckpointStep DEF Checkpoint
<1>4. ASSUME NEW c \in Conn,
             \/ Open(c) \/ Close(c) \/ DeleteLog(c) \/ BeginReadHdr(c) \/ LockFile(c)
             \/ ChooseMark(c) \/ LockMark(c) \/ EndReadTransaction(c)
             \/ BeginWriteTransaction(c) \/ Undo(c)
      PROVE  IInv'
  BY <1>4, OpenStep, CloseStep, DeleteLogStep, BeginReadHdrStep, LockFileStep,
     ChooseMarkStep, LockMarkStep, EndReadTransactionStep,
     BeginWriteTransactionStep, UndoStep
<1>5. ASSUME NEW c \in Conn,
             \/ RestartHdr(c) \/ RestartInfo(c) \/ WriteHeader(c)
             \/ walWriteOneFrame(c) \/ SpillDone(c) \/ CommitDone(c) \/ CommitHdr(c)
             \/ LogWriteError(c) \/ CommitFailed(c) \/ SpillFailed(c)
      PROVE  IInv'
  BY <1>5, RestartHdrStep, RestartInfoStep, WriteHeaderStep, walWriteOneFrameStep,
     SpillDoneStep, CommitDoneStep, CommitHdrStep, LogWriteErrorStep,
     CommitFailedStep, SpillFailedStep
<1>6. ASSUME NEW c \in Conn,
             \/ CkptIterator(c) \/ CkptMark(c) \/ CkptLock(c) \/ CkptCopy(c)
             \/ CkptBackfill(c) \/ EndCheckpoint(c) \/ CkptError(c) \/ Crash(c)
      PROVE  IInv'
  BY <1>6, CkptIteratorStep, CkptMarkStep, CkptLockStep, CkptCopyStep,
     CkptBackfillStep, EndCheckpointStep, CkptErrorStep, CrashStep
<1> QED
  BY <1>1, <1>2, <1>3, <1>4, <1>5, <1>6, PowerLossStep DEF Next

-----------------------------------------------------------------------------
(* A restart once torn stays torn.                                         *)
LEMMA TornStays ==
  ASSUME tornReset, [Next]_vars
  PROVE  tornReset'
<1>1. CASE UNCHANGED vars
  BY <1>1 DEF vars, faults
<1> USE DEF faults
<1>2. ASSUME NEW c \in Conn,
             \/ Open(c) \/ Close(c) \/ DeleteLog(c) \/ BeginReadHdr(c) \/ LockFile(c)
             \/ ChooseMark(c) \/ LockMark(c) \/ EndReadTransaction(c)
             \/ BeginWriteTransaction(c) \/ Spill(c) \/ Commit(c) \/ Undo(c)
      PROVE  tornReset'
  BY <1>2 DEF Open, Close, StartCheckpoint, DeleteLog, BeginReadHdr, LockFile, ChooseMark,
     LockMark, EndReadTransaction, BeginWriteTransaction, Spill, Commit, WriteFrames, Undo
<1>3. ASSUME NEW c \in Conn,
             \/ RestartHdr(c) \/ WriteHeader(c) \/ walWriteOneFrame(c) \/ SpillDone(c)
             \/ CommitDone(c) \/ CommitHdr(c)
      PROVE  tornReset'
  BY <1>3, Zenon DEF RestartHdr, WriteHeader, walWriteOneFrame, SpillDone, CommitDone, CommitHdr
<1>4. ASSUME NEW c \in Conn,
             \/ LogWriteError(c) \/ CommitFailed(c) \/ SpillFailed(c) \/ Checkpoint(c)
             \/ CkptIterator(c) \/ CkptMark(c) \/ CkptLock(c) \/ CkptCopy(c)
             \/ CkptBackfill(c) \/ EndCheckpoint(c) \/ CkptError(c)
      PROVE  tornReset'
  BY <1>4, Zenon DEF LogWriteError, CommitFailed, SpillFailed, Checkpoint, StartCheckpoint,
     CkptIterator, CkptMark, CkptLock, CkptCopy, CkptBackfill, EndCheckpoint, CkptError
<1>5. ASSUME NEW c \in Conn, RestartInfo(c)
      PROVE  tornReset'
  BY <1>5 DEF RestartInfo
<1>6. ASSUME NEW c \in Conn, Crash(c)
      PROVE  tornReset'
  BY <1>6 DEF Crash
<1>7. CASE PowerLoss
  BY <1>7 DEF PowerLoss
<1> QED
  BY <1>1, <1>2, <1>3, <1>4, <1>5, <1>6, <1>7 DEF Next

(* In every state of every execution the invariant holds, or a restart of  *)
(* the log has been torn: its process died between the new header and      *)
(* nBackfill = 0, or nBackfill was set to 0 under a checkpoint that had    *)
(* read the old header and not yet nBackfill (walRestartLog, walCheckpoint).*)
THEOREM Invariance == Spec => [](tornReset \/ IInv)
<1>1. Init => IInv
  BY InitOK
<1>2. (tornReset \/ IInv) /\ [Next]_vars => (tornReset \/ IInv)'
  BY NextOK, TornStays
<1> QED
  BY <1>1, <1>2, PTL DEF Spec

(* wal.c:320-323: nBackfill is never greater than the mxFrame of a header  *)
(* that a reader or a checkpoint accepts, as long as no restart is torn,   *)
(* whatever the number of connections, frames and read marks, through      *)
(* crashes, power losses, recoveries, I/O errors, and restarts of the log  *)
(* beside a checkpoint.                                                    *)
THEOREM BackfillSoundHolds == Spec => []BackfillSound
<1>1. (tornReset \/ IInv) => BackfillSound
  BY DEF IInv, Backfilled, BackfillSound, BackfillWithinLog, Restarting
<1> QED
  BY <1>1, Invariance, PTL

(* The assertion of walRestartLog(), wal.c:2596: a writer that reads only  *)
(* the file finds nBackfill equal to the mxFrame of its header, so that no *)
(* frame is given up before it is in the file.                             *)
THEOREM RestartAssertHolds == Spec => []RestartAssert
<1>1. (tornReset \/ IInv) => RestartAssert
  <2> SUFFICES ASSUME IInv, NEW c \in Conn, pc[c] = "write", readLock[c] = 0
               PROVE  nBackfill = hdr[c].mxFrame
    BY DEF RestartAssert
  <2>1. Types /\ ConnOK(c) /\ Numbers(c)
    BY DEF IInv, Types, IsHdr, Numbers
  <2>2. hdr[c] = aHdr[1] /\ hdr[c].mxFrame <= nBackfill
    BY <2>1 DEF ConnOK, FileOK
  <2>3. c \in Opened /\ \A d \in Conn : pc[d] # "restart2"
    BY <2>1 DEF IInv, OneWriter, Opened, ConnOK, LocksOK, WritePCs
  <2>4. nBackfill <= aHdr[1].mxFrame
    BY <2>3 DEF IInv, Backfilled
  <2> QED
    BY <2>1, <2>2, <2>4 DEF Numbers
<1> QED
  BY <1>1, Invariance, PTL
=============================================================================
