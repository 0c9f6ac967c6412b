---------------------------------- MODULE Wal ----------------------------------
(***************************************************************************)
(* The write-ahead log (wal.c): the log file, the wal-index in shared      *)
(* memory, and the connections that read, write, checkpoint and recover    *)
(* through them, each a process of its own.                                *)
(*                                                                         *)
(* A page content is the number of the transaction that wrote it, 0 past   *)
(* the end of the file.  A frame's cumulative checksum is abstracted to    *)
(* `prev', the transaction of the frame it was computed on top of: with    *)
(* its index that names the frame, and so by induction all before it.      *)
(* Salts are fresh values: the number of the transaction that drew them.   *)
(* The hash tables of the wal-index are the array aPgno they index.        *)
(* A lock taken, used and released with nothing but memory accesses in     *)
(* between is one step; whoever meets it gets SQLITE_BUSY and retries.     *)
(* Reading both header copies is one step too: an overlap with a writer    *)
(* makes them differ, which is the case of a header half written.          *)
(***************************************************************************)
EXTENDS Integers, Sequences, FiniteSets, FiniteSetsExt

CONSTANTS
  Conn,                \* connections, each in a process of its own
  NPage,               \* bound: pages of the database
  NReader,             \* WAL_NREADER: read marks, the first for the file
  MaxFrame,            \* bound: frames of the log
  MaxTxn,              \* bound: the last transaction number
  MaxShared,           \* bound: the last while two connections are open,
                       \* one less if there is an I/O error
  MaxFault,            \* bound: crashes and power losses
  MaxError,            \* bound: I/O errors
  FullSync,            \* synchronous=FULL: a commit syncs the log
  Commits, Spills,     \* pages and sizes of commits; pages spilled (not 1)
  CkptModes            \* the checkpoints that are asked for

ASSUME WalAssumption ==
  /\ NPage \in Nat \ {0} /\ NReader \in Nat \ {0, 1} /\ MaxFrame \in Nat
  /\ MaxTxn \in Nat /\ MaxShared \in Nat /\ MaxFault \in Nat
  /\ MaxError \in Nat /\ FullSync \in BOOLEAN
  /\ Commits \subseteq [dirty : SUBSET (1..NPage) \ {{}}, size : 1..NPage]
  /\ Spills \subseteq 2..NPage
  /\ CkptModes \subseteq {"PASSIVE", "FULL", "RESTART"}

VARIABLES
  wal, walDisk,        \* log file; what the medium may hold of each frame
  db, dbDisk,          \* database file, likewise by page
  aHdr, aPgno,         \* wal-index: the two header copies, pages of frames
  nBackfill, aReadMark,\* wal-index: WalCkptInfo
  pc,                  \* where each connection is
  hdr, nCkpt,          \* Wal.hdr, Wal.nCkpt
  readLock, writeLock, ckptLock,
  slot,                \* the read mark chosen by walTryBeginRead()
  dirty, newSize, iFrame,  \* sqlite3WalFrames(): pages, nTruncate, last frame
  job,                 \* locals of walCheckpoint()
  cache,               \* the content the pager's cache is of, or NoView
  nTxn, nFault, nError,\* counters
  recent,              \* history: what a power loss may leave
  tornReset            \* history: a restart of the log has not set mxFrame
                       \* and nBackfill to 0 as one, see RestartInfo, Crash

files == <<wal, walDisk, db, dbDisk>>
shm   == <<aHdr, aPgno, nBackfill, aReadMark>>
locks == <<readLock, writeLock, ckptLock>>
frame == <<dirty, newSize, iFrame>>
faults == <<nFault, nError, tornReset>>
vars  == <<files, shm, pc, hdr, nCkpt, locks, slot, frame, job, cache,
           nTxn, faults, recent>>

Page == 1..NPage
Txn  == 0..MaxTxn
NotUsed == MaxFrame + 1                          \* READMARK_NOT_USED
NoView == <<>>
Torn == MaxTxn + 1                               \* a page half written

Frame == [pg : 0..NPage, val : Txn, commit : 0..NPage + 1, salt : Txn, prev : Txn]
NoFrame == [pg |-> 0, val |-> 0, commit |-> 0, salt |-> 0, prev |-> 0]
(* Frame 0 of the file is the header: its salt and its checkpoint number.  *)
WalHeader(salt, n) == [NoFrame EXCEPT !.salt = salt, !.commit = n]

ZeroHdr == [isInit |-> FALSE, mxFrame |-> 0, nPage |-> 0, salt |-> 0, last |-> 0]
NoJob == [mode |-> "PASSIVE", changed |-> FALSE, mxSafe |-> 0, i |-> 1,
          iter |-> [p \in Page |-> 0], pages |-> {}]

SizeOf(content) == Max({p \in Page : content[p] # 0} \cup {0})

Init ==
  /\ wal = [i \in 0..MaxFrame |-> NoFrame]
  /\ walDisk = [i \in 0..MaxFrame |-> {NoFrame}]
  /\ db = [p \in Page |-> 1] /\ dbDisk = [p \in Page |-> {1}]
  /\ aHdr = <<ZeroHdr, ZeroHdr>> /\ aPgno = [i \in 1..MaxFrame |-> 0]
  /\ nBackfill = 0 /\ aReadMark = [i \in 0..NReader - 1 |-> 0]
  /\ pc = [c \in Conn |-> "closed"]
  /\ hdr = [c \in Conn |-> ZeroHdr] /\ nCkpt = [c \in Conn |-> 0]
  /\ readLock = [c \in Conn |-> -1]
  /\ writeLock = [c \in Conn |-> FALSE] /\ ckptLock = [c \in Conn |-> FALSE]
  /\ slot = [c \in Conn |-> <<0, 0>>]
  /\ dirty = [c \in Conn |-> {}] /\ newSize = [c \in Conn |-> 0]
  /\ iFrame = [c \in Conn |-> 0]
  /\ job = [c \in Conn |-> NoJob] /\ cache = [c \in Conn |-> NoView]
  /\ nTxn = 1 /\ nFault = 0 /\ nError = 0 /\ recent = {db}
  /\ tornReset = FALSE

(* The bounds of transactions and of I/O errors while two are open.        *)
Opened == {c \in Conn : pc[c] # "closed"}
LastShared == MaxShared - nError
MayFail(c) == nError < MaxError /\ (Opened = {c} \/ nTxn < MaxShared)

-----------------------------------------------------------------------------
(* Locks.  A checkpoint holds READ(0) exclusively while it copies, a       *)
(* restart holds all the others.                                           *)
Restarting(c) == pc[c] \in {"restart", "restart2"}
HoldsExclusive(c, i) == IF i = 0 THEN pc[c] = "copy" ELSE Restarting(c)
SharedFree(c, i) == \A d \in Conn \ {c} : ~HoldsExclusive(d, i)
ExclusiveFree(c, i) ==
  \A d \in Conn \ {c} : readLock[d] # i /\ ~HoldsExclusive(d, i)
WriteFree(c) == \A d \in Conn \ {c} : ~writeLock[d]
CkptFree(c)  == \A d \in Conn \ {c} : ~ckptLock[d]
AllFree(c) ==
  \A d \in Conn \ {c} : readLock[d] = -1 /\ ~writeLock[d] /\ ~ckptLock[d]

(* A write reaches the medium at the next sync at the latest.              *)
WriteWal(i, f) ==
  /\ wal' = [wal EXCEPT ![i] = f]
  /\ walDisk' = [walDisk EXCEPT ![i] = @ \cup {f}]
WriteDb(S, v) ==
  /\ db' = [p \in Page |-> IF p \in S THEN v ELSE db[p]]
  /\ dbDisk' = [p \in Page |-> dbDisk[p] \cup {db'[p]}]
SyncWal == walDisk' = [i \in 0..MaxFrame |-> {wal'[i]}]

(* The last frame up to mx that holds page p, 0 if there is none.          *)
LastFrame(pgno, p, mx) == Max({n \in 1..mx : pgno[n] = p} \cup {0})

(* sqlite3PagerGet() in WAL mode: sqlite3WalDbsize(), sqlite3WalFindFrame()*)
(* and sqlite3WalReadFrame() of every page, for a database of nPage pages  *)
(* (0: as the file is), of whose log the first mx frames count.            *)
Snapshot(nPage, pgno, mx) ==
  [p \in Page |->
     IF p > (IF nPage = 0 THEN SizeOf(db) ELSE nPage) THEN 0
     ELSE LET f == LastFrame(pgno, p, mx)
          IN  IF f = 0 THEN db[p] ELSE wal[f].val]

FindFrames(c) ==
  Snapshot(hdr[c].nPage, aPgno, IF readLock[c] = 0 THEN 0 ELSE hdr[c].mxFrame)

-----------------------------------------------------------------------------
(* walDecodeFrame(): the salt is the header's, the checksum goes on from   *)
(* the frame before.                                                       *)
walDecodeFrame(i) ==
  /\ wal[i].pg # 0 /\ wal[i].salt = wal[0].salt
  /\ wal[i].prev = IF i = 1 THEN 0 ELSE wal[i - 1].val

(* What a scan of the log file finds: the valid frames, the last commit    *)
(* among them, the header and the page numbers made of them.               *)
ValidFrames ==
  IF wal[0].salt = 0 THEN 0
  ELSE Cardinality({n \in 1..MaxFrame : \A i \in 1..n : walDecodeFrame(i)})
LastCommit == Max({n \in 1..ValidFrames : wal[n].commit # 0} \cup {0})
HdrAt[mx \in 0..MaxFrame] ==
  [isInit |-> TRUE, mxFrame |-> mx, nPage |-> IF mx = 0 THEN 0 ELSE wal[mx].commit,
   salt |-> wal[0].salt, last |-> wal[mx].val]
LogPgno == [i \in 1..MaxFrame |-> wal[i].pg]

(* Every lock is exclusively held, so that no other connection can use the *)
(* wal-index before all of it is written.                                  *)
walIndexRecover(c) ==
  \E mx \in {LastCommit}, n \in {ValidFrames} :
    /\ AllFree(c)
    /\ aHdr' = <<HdrAt[mx], HdrAt[mx]>>
    /\ aPgno' = [i \in 1..MaxFrame |-> IF i <= n THEN wal[i].pg ELSE 0]
    /\ nBackfill' = 0
    /\ aReadMark' = [i \in 0..NReader - 1 |->
         IF i = 0 THEN 0 ELSE IF i = 1 /\ mx # 0 THEN mx ELSE NotUsed]
    /\ nCkpt' = [nCkpt EXCEPT ![c] = wal[0].commit]

walIndexTryHdr == aHdr[1] = aHdr[2] /\ aHdr[1].isInit

(* walIndexReadHdr(): a header that cannot be used is recovered, unless    *)
(* somebody holds a lock (SQLITE_BUSY).  The pager is told to drop its     *)
(* cache when the header is not the one it had.                            *)
walIndexReadHdr(c) ==
  /\ \/ walIndexTryHdr /\ UNCHANGED <<shm, nCkpt>>
     \/ ~walIndexTryHdr /\ walIndexRecover(c)
  /\ hdr' = [hdr EXCEPT ![c] = aHdr'[1]]

Changed(c) == ~walIndexTryHdr \/ hdr[c] # aHdr[1]

(* What the next reader finds: the snapshot of the header's first copy, or *)
(* what a recovery makes of the files when there is no header.             *)
ContentAt[mx \in 0..MaxFrame] == Snapshot(HdrAt[mx].nPage, LogPgno, mx)
FileContent == ContentAt[LastCommit]
Content ==
  IF Opened # {} /\ aHdr[1].isInit
  THEN Snapshot(aHdr[1].nPage, aPgno, aHdr[1].mxFrame)
  ELSE FileContent

-----------------------------------------------------------------------------
(* sqlite3WalOpen() and unixOpenSharedMemory(): who comes when nobody has  *)
(* the wal-index open truncates it.  A connection closing as the last one  *)
(* holds an EXCLUSIVE lock of the database file.                           *)
Open(c) ==
  /\ pc[c] = "closed" /\ (Opened # {} => nTxn <= LastShared)
  /\ \A d \in Conn : job[d].mode # "CLOSE"
  /\ pc' = [pc EXCEPT ![c] = "idle"]
  /\ IF Opened = {}
     THEN /\ aHdr' = <<ZeroHdr, ZeroHdr>> /\ aPgno' = [i \in 1..MaxFrame |-> 0]
          /\ nBackfill' = 0 /\ aReadMark' = [i \in 0..NReader - 1 |-> 0]
     ELSE UNCHANGED shm
  /\ UNCHANGED <<files, hdr, nCkpt, locks, slot, frame, job, cache, nTxn,
                 faults, recent>>

(* walTryBeginRead(), in three steps: read the header, choose a read mark, *)
(* lock it and see that nothing has changed.                               *)
BeginReadHdr(c) ==
  /\ pc[c] = "idle"
  /\ walIndexReadHdr(c)
  /\ cache' = [cache EXCEPT ![c] = IF Changed(c) THEN NoView ELSE @]
  /\ pc' = [pc EXCEPT ![c] = "choose"]
  /\ UNCHANGED <<files, locks, slot, frame, job, nTxn, faults, recent>>

(* The pc of a connection that has to retry, or is done.                   *)
Retry(c)  == IF writeLock[c] THEN "reopen" ELSE "idle"
Writing(c) == IF hdr[c].mxFrame = 0 THEN "header" ELSE "frames"

(* Mutant: the header is not looked at again once the lock is held.        *)
Unchecked(c) == TRUE
StillCurrent(c) == aHdr[1] = hdr[c]

(* The pager's cache is as good as full of what the transaction reads.     *)
LoadCache(c, mx) ==
  cache' = [cache EXCEPT ![c] =
              IF @ = NoView THEN Snapshot(hdr[c].nPage, aPgno, mx) ELSE @]

(* Mutant: a log that is only in part in the file will do.                 *)
PartlyCopied(c) == nBackfill <= hdr[c].mxFrame
AllCopied(c) == nBackfill = hdr[c].mxFrame

(* When all of the log is in the file, the file alone is read.  (nBackfill *)
(* can only have been reset since together with the header.)               *)
LockFile(c) ==
  /\ pc[c] = "choose" /\ AllCopied(c) /\ SharedFree(c, 0)
  /\ IF StillCurrent(c)
     THEN /\ pc' = [pc EXCEPT ![c] = "read"]
          /\ readLock' = [readLock EXCEPT ![c] = 0]
          /\ LoadCache(c, 0)
     ELSE pc' = [pc EXCEPT ![c] = "idle"] /\ UNCHANGED <<readLock, cache>>
  /\ UNCHANGED <<files, shm, hdr, nCkpt, writeLock, ckptLock, slot, frame, job,
                 nTxn, faults, recent>>

UsableMarks(c) == {i \in 1..NReader - 1 : aReadMark[i] <= hdr[c].mxFrame}

(* The highest mark that is not past the header, or a mark that nobody     *)
(* uses moved there.                                                       *)
ChooseMark(c) ==
  LET h == hdr[c].mxFrame
      usable == UsableMarks(c)
      best == Max({aReadMark[i] : i \in usable} \cup {0})
      mxI == Max({i \in usable : aReadMark[i] = best} \cup {0})
      unused == {i \in 1..NReader - 1 : ExclusiveFree(c, i)}
  IN
  /\ \/ pc[c] = "choose" /\ (~AllCopied(c) \/ ~SharedFree(c, 0))
     \/ pc[c] = "reopen"
  /\ IF (best < h \/ mxI = 0) /\ unused # {}
     THEN /\ aReadMark' = [aReadMark EXCEPT ![Min(unused)] = h]
          /\ slot' = [slot EXCEPT ![c] = <<Min(unused), h>>]
          /\ pc' = [pc EXCEPT ![c] = "lock"]
     ELSE /\ slot' = [slot EXCEPT ![c] = <<mxI, best>>]
          /\ pc' = [pc EXCEPT ![c] = IF mxI = 0 THEN Retry(c) ELSE "lock"]
          /\ UNCHANGED aReadMark
  /\ UNCHANGED <<files, aHdr, aPgno, nBackfill, hdr, nCkpt, locks, frame, job,
                 cache, nTxn, faults, recent>>

LockMark(c) ==
  LET i == slot[c][1] IN
  /\ pc[c] = "lock"
  /\ IF SharedFree(c, i) /\ aReadMark[i] = slot[c][2] /\ StillCurrent(c)
     THEN /\ pc' = [pc EXCEPT ![c] = IF writeLock[c] THEN Writing(c) ELSE "read"]
          /\ readLock' = [readLock EXCEPT ![c] = i]
          /\ iFrame' = [iFrame EXCEPT ![c] = IF writeLock[c] THEN hdr[c].mxFrame ELSE 0]
          /\ LoadCache(c, hdr[c].mxFrame)
     ELSE pc' = [pc EXCEPT ![c] = Retry(c)] /\ UNCHANGED <<readLock, iFrame, cache>>
  /\ slot' = [slot EXCEPT ![c] = <<0, 0>>]
  /\ UNCHANGED <<files, shm, hdr, nCkpt, writeLock, ckptLock, dirty, newSize,
                 job, nTxn, faults, recent>>

EndReadTransaction(c) ==
  /\ pc[c] = "read"
  /\ pc' = [pc EXCEPT ![c] = "idle"]
  /\ readLock' = [readLock EXCEPT ![c] = -1]
  /\ UNCHANGED <<files, shm, hdr, nCkpt, writeLock, ckptLock, slot, frame, job,
                 cache, nTxn, faults, recent>>

-----------------------------------------------------------------------------
(* Nobody can write on top of a snapshot that is not the latest.           *)
Latest(c) == hdr[c] = aHdr[1]

BeginWriteTransaction(c) ==
  /\ pc[c] = "read" /\ WriteFree(c)
  /\ nTxn < IF Opened = {c} THEN MaxTxn ELSE LastShared
  /\ Latest(c)
  /\ writeLock' = [writeLock EXCEPT ![c] = TRUE]
  /\ pc' = [pc EXCEPT ![c] = "write"]
  /\ nTxn' = nTxn + 1
  /\ UNCHANGED <<files, shm, hdr, nCkpt, readLock, ckptLock, slot, frame, job,
                 cache, faults, recent>>

FitsLog(mx, D) == mx + Cardinality(D) <= MaxFrame            \* bound

(* sqlite3WalFrames() is entered with pages to write: by pagerStress()     *)
(* with one page and no commit (n = 0), or to commit at size n.  When the  *)
(* connection reads only the file, walRestartLog() comes first: the log    *)
(* starts over if nobody else reads it.                                    *)
WriteFrames(c, D, n) ==
  /\ pc[c] = "write"
  /\ dirty' = [dirty EXCEPT ![c] = D] /\ newSize' = [newSize EXCEPT ![c] = n]
  /\ IF readLock[c] # 0
     THEN /\ FitsLog(hdr[c].mxFrame, D)
          /\ pc' = [pc EXCEPT ![c] = Writing(c)]
          /\ iFrame' = [iFrame EXCEPT ![c] = hdr[c].mxFrame]
          /\ UNCHANGED <<shm, hdr, nCkpt, readLock>>
     ELSE /\ \/ /\ nBackfill > 0 /\ FitsLog(0, D)
                /\ \A i \in 1..NReader - 1 : ExclusiveFree(c, i)
                /\ hdr' = [hdr EXCEPT ![c].mxFrame = 0, ![c].salt = nTxn]
                /\ nCkpt' = [nCkpt EXCEPT ![c] = 1]
                /\ aHdr' = [aHdr EXCEPT ![2] = hdr'[c]]
                /\ pc' = [pc EXCEPT ![c] = "restart"]
                /\ UNCHANGED readLock
             \/ /\ nBackfill = 0 \/ \E i \in 1..NReader - 1 : ~ExclusiveFree(c, i)
                /\ FitsLog(hdr[c].mxFrame, D)
                /\ pc' = [pc EXCEPT ![c] = "reopen"]
                /\ readLock' = [readLock EXCEPT ![c] = -1]
                /\ UNCHANGED <<aHdr, hdr, nCkpt>>
          /\ UNCHANGED <<aPgno, nBackfill, aReadMark, iFrame>>
  /\ UNCHANGED <<files, writeLock, ckptLock, slot, job, cache, nTxn, faults,
                 recent>>

Spill(c) == \E p \in Spills : WriteFrames(c, {p}, 0)

(* Pages the transaction has in its cache, and those past the old end.     *)
Commit(c) ==
  \E w \in Commits :
    /\ \A p \in 1..w.size : FindFrames(c)[p] = 0 => p \in w.dirty
    /\ WriteFrames(c, w.dirty, w.size)

RestartHdr(c) ==
  /\ pc[c] = "restart"
  /\ aHdr' = [aHdr EXCEPT ![1] = hdr[c]]
  /\ pc' = [pc EXCEPT ![c] = "restart2"]
  /\ UNCHANGED <<files, aPgno, nBackfill, aReadMark, hdr, nCkpt, locks, slot,
                 frame, job, cache, nTxn, faults, recent>>

(* Mutant: the frames of the old log count as backfilled.                  *)
BackfillKept == nBackfill
BackfillReset == 0

(* A checkpoint that has loaded the header of the log before, but not yet  *)
(* nBackfill, will take the frames of that log for not copied.             *)
Overtaken(c) == \E d \in Conn \ {c} : pc[d] = "ckpt" /\ hdr[d].mxFrame > 0

RestartInfo(c) ==
  /\ pc[c] = "restart2"
  /\ tornReset' = (tornReset \/ Overtaken(c))
  /\ nBackfill' = BackfillReset
  /\ aReadMark' = [i \in 0..NReader - 1 |-> IF i <= 1 THEN 0 ELSE NotUsed]
  /\ readLock' = [readLock EXCEPT ![c] = -1]
  /\ pc' = [pc EXCEPT ![c] = "reopen"]
  /\ UNCHANGED <<files, aHdr, aPgno, hdr, nCkpt, writeLock, ckptLock, slot,
                 frame, job, cache, nTxn, nFault, nError, recent>>

(* The log's first frame is preceded by its header, synced for itself.     *)
NewSalt(c) == IF nCkpt[c] = 0 THEN nTxn ELSE hdr[c].salt
NewHeader(c) == WalHeader(NewSalt(c), nCkpt[c])

WriteHeader(c) ==
  /\ pc[c] = "header"
  /\ wal' = [wal EXCEPT ![0] = NewHeader(c)] /\ SyncWal
  /\ hdr' = [hdr EXCEPT ![c].salt = NewSalt(c), ![c].last = 0]
  /\ pc' = [pc EXCEPT ![c] = "frames"]
  /\ UNCHANGED <<db, dbDisk, shm, nCkpt, locks, slot, frame, job, cache, nTxn,
                 faults, recent>>

Written(c) == {wal[i].pg : i \in hdr[c].mxFrame + 1..iFrame[c]}

Unwritten(c) == dirty[c] \ Written(c)

NewFrame(c) ==
  [pg |-> Min(Unwritten(c)), val |-> nTxn, salt |-> hdr[c].salt,
   commit |-> IF Cardinality(Unwritten(c)) = 1 THEN newSize[c] ELSE 0,
   prev |-> IF iFrame[c] = hdr[c].mxFrame THEN hdr[c].last ELSE nTxn]

walWriteOneFrame(c) ==
  /\ pc[c] = "frames" /\ Unwritten(c) # {}
  /\ iFrame' = [iFrame EXCEPT ![c] = @ + 1]
  /\ WriteWal(iFrame'[c], NewFrame(c))
  /\ UNCHANGED <<db, dbDisk, shm, pc, hdr, nCkpt, locks, slot, dirty, newSize,
                 job, cache, nTxn, faults, recent>>

(* walIndexAppend() of every frame; frames past the last are a dead        *)
(* writer's remnants and are removed.                                      *)
AppendIndex(c) ==
  aPgno' = [i \in 1..MaxFrame |->
    CASE i <= hdr[c].mxFrame -> aPgno[i]
      [] i > hdr[c].mxFrame /\ i <= iFrame[c] -> wal[i].pg
      [] OTHER -> 0]

FramesDone(c) == pc[c] = "frames" /\ Unwritten(c) = {}

SpillDone(c) ==
  /\ FramesDone(c) /\ newSize[c] = 0
  /\ AppendIndex(c)
  /\ hdr' = [hdr EXCEPT ![c].mxFrame = iFrame[c], ![c].last = nTxn]
  /\ dirty' = [dirty EXCEPT ![c] = {}] /\ iFrame' = [iFrame EXCEPT ![c] = 0]
  /\ pc' = [pc EXCEPT ![c] = "write"]
  /\ UNCHANGED <<files, aHdr, nBackfill, aReadMark, nCkpt, locks, slot, newSize,
                 job, cache, nTxn, faults, recent>>

(* The commit: sync, index, then the header copies, the second one first   *)
(* (walIndexWriteHdr).                                                     *)
CommitDone(c) ==
  /\ FramesDone(c) /\ newSize[c] # 0
  /\ IF FullSync THEN wal' = wal /\ SyncWal ELSE UNCHANGED <<wal, walDisk>>
  /\ AppendIndex(c)
  /\ hdr' = [hdr EXCEPT ![c].mxFrame = iFrame[c], ![c].last = nTxn,
                        ![c].nPage = newSize[c]]
  /\ aHdr' = [aHdr EXCEPT ![2] = hdr'[c]]
  /\ dirty' = [dirty EXCEPT ![c] = {}] /\ newSize' = [newSize EXCEPT ![c] = 0]
  /\ iFrame' = [iFrame EXCEPT ![c] = 0]
  /\ pc' = [pc EXCEPT ![c] = "commit"]
  /\ UNCHANGED <<db, dbDisk, nBackfill, aReadMark, nCkpt, locks, slot, job,
                 cache, nTxn, faults, recent>>

(* The other copy; then sqlite3WalEndWriteTransaction().                   *)
CommitHdr(c) ==
  /\ pc[c] = "commit"
  /\ aHdr' = [aHdr EXCEPT ![1] = hdr[c]]
  /\ writeLock' = [writeLock EXCEPT ![c] = FALSE]
  /\ cache' = [cache EXCEPT ![c] = FindFrames(c)]
  /\ recent' = (IF FullSync THEN {} ELSE recent) \cup {FindFrames(c)}
  /\ pc' = [pc EXCEPT ![c] = "read"]
  /\ UNCHANGED <<files, aPgno, nBackfill, aReadMark, hdr, nCkpt, readLock,
                 ckptLock, slot, frame, job, nTxn, faults>>

(* With sqlite3WalEndWriteTransaction().                                   *)
sqlite3WalUndo(c) ==
  /\ hdr' = [hdr EXCEPT ![c] = aHdr[1]]
  /\ aPgno' = IF hdr[c].mxFrame = aHdr[1].mxFrame THEN aPgno
              ELSE [i \in 1..MaxFrame |-> IF i <= aHdr[1].mxFrame THEN aPgno[i] ELSE 0]
  /\ writeLock' = [writeLock EXCEPT ![c] = FALSE]
  /\ pc' = [pc EXCEPT ![c] = "read"]

Undo(c) ==
  /\ pc[c] = "write"
  /\ sqlite3WalUndo(c)
  /\ UNCHANGED <<files, aHdr, nBackfill, aReadMark, nCkpt, readLock, ckptLock,
                 slot, frame, job, cache, nTxn, faults, recent>>

-----------------------------------------------------------------------------
Reading == {c \in Conn : pc[c] \in {"read", "write", "restart", "restart2", "reopen",
                                    "header", "frames", "commit", "failed"}
                         \/ (pc[c] = "lock" /\ writeLock[c])}

(* What c's transaction reads: its own changes over its snapshot.          *)
View(c) ==
  IF c \notin Reading THEN NoView
  ELSE LET snap == FindFrames(c) IN
       [p \in Page |->
          CASE newSize[c] # 0 /\ p > newSize[c] -> 0
            [] p \in dirty[c] -> nTxn
            [] OTHER -> snap[p]]

Writers == {c \in Reading : writeLock[c]}
Limbo ==
  IF Opened # {} /\ aHdr[1].isInit
  THEN {FileContent} \ ({Content} \cup {View(c) : c \in Writers})
  ELSE {}

-----------------------------------------------------------------------------
(* A write to the log fails: it has had no effect, or half, or all of it,  *)
(* which is also what a sync after it leaves that fails.  The checksum in  *)
(* Wal.hdr has moved on all the same (walEncodeFrame).                     *)
LogWriteError(c) ==
  /\ MayFail(c)
  /\ \/ /\ pc[c] = "header"
        /\ \E f \in {wal[0], NoFrame, NewHeader(c)} : WriteWal(0, f)
        /\ hdr' = [hdr EXCEPT ![c].salt = NewSalt(c), ![c].last = 0]
     \/ /\ pc[c] = "frames" /\ Unwritten(c) # {}
        /\ \E f \in {wal[iFrame[c] + 1], NoFrame, NewFrame(c)} :
             WriteWal(iFrame[c] + 1, f)
        /\ hdr' = [hdr EXCEPT ![c].last = nTxn]
  /\ nError' = nError + 1
  /\ pc' = [pc EXCEPT ![c] = "failed"]
  /\ UNCHANGED <<db, dbDisk, shm, nCkpt, locks, slot, frame, job, cache, nTxn,
                 nFault, tornReset, recent>>

(* A commit that failed is rolled back like any transaction                *)
(* (sqlite3PagerRollback).  Its frames may all be in the log.              *)
CommitFailed(c) ==
  /\ pc[c] = "failed" /\ newSize[c] # 0
  /\ sqlite3WalUndo(c)
  /\ dirty' = [dirty EXCEPT ![c] = {}] /\ newSize' = [newSize EXCEPT ![c] = 0]
  /\ iFrame' = [iFrame EXCEPT ![c] = 0]
  /\ recent' = recent \cup {View(c)}
  /\ UNCHANGED <<files, aHdr, nBackfill, aReadMark, nCkpt, readLock, ckptLock,
                 slot, job, cache, nTxn, faults>>

(* A spill that failed puts the pager into its error state, in which it    *)
(* undoes nothing: pager_unlock() drops the cache and the locks, and the   *)
(* frames stay in the wal-index for the next writer to remove.             *)
SpillFailed(c) ==
  /\ pc[c] = "failed" /\ newSize[c] = 0
  /\ pc' = [pc EXCEPT ![c] = "idle"]
  /\ readLock' = [readLock EXCEPT ![c] = -1]
  /\ writeLock' = [writeLock EXCEPT ![c] = FALSE]
  /\ cache' = [cache EXCEPT ![c] = NoView]
  /\ dirty' = [dirty EXCEPT ![c] = {}] /\ iFrame' = [iFrame EXCEPT ![c] = 0]
  /\ UNCHANGED <<files, shm, hdr, nCkpt, ckptLock, slot, newSize, job, nTxn,
                 faults, recent>>

-----------------------------------------------------------------------------
(* sqlite3WalCheckpoint(): a FULL or RESTART checkpoint that cannot lock   *)
(* the log against writers is a passive one.  "CLOSE" is the passive one   *)
(* of sqlite3WalClose(), with the database file locked exclusively.        *)
StartCheckpoint(c, mode) ==
  /\ pc[c] = "idle" /\ CkptFree(c)
  /\ walIndexReadHdr(c)
  /\ ckptLock' = [ckptLock EXCEPT ![c] = TRUE]
  /\ LET blocking == mode \in {"FULL", "RESTART"} /\ WriteFree(c) IN
     /\ writeLock' = [writeLock EXCEPT ![c] = blocking]
     /\ job' = [job EXCEPT ![c] =
          [NoJob EXCEPT !.mode = IF blocking \/ mode = "CLOSE" THEN mode ELSE "PASSIVE",
                        !.changed = Changed(c)]]
  /\ pc' = [pc EXCEPT ![c] = "ckpt"]
  /\ UNCHANGED <<files, readLock, slot, frame, cache, nTxn, faults, recent>>

Checkpoint(c) == \E mode \in CkptModes : StartCheckpoint(c, mode)

(* walIteratorInit(): the last frame of each page.                         *)
CkptIterator(c) ==
  /\ pc[c] = "ckpt"
  /\ IF nBackfill >= hdr[c].mxFrame
     THEN pc' = [pc EXCEPT ![c] = "full"] /\ UNCHANGED job
     ELSE /\ pc' = [pc EXCEPT ![c] = "marks"]
          /\ job' = [job EXCEPT ![c].mxSafe = hdr[c].mxFrame,
                                ![c].iter = [p \in Page |->
                                   LastFrame(aPgno, p, hdr[c].mxFrame)]]
  /\ UNCHANGED <<files, shm, hdr, nCkpt, locks, slot, frame, cache, nTxn,
                 faults, recent>>

(* A read mark below mxSafeFrame is moved out of the way, or limits it.    *)
CkptMark(c) ==
  LET i == job[c].i
      y == aReadMark[i]
  IN
  /\ pc[c] = "marks" /\ i < NReader
  /\ IF job[c].mxSafe > y /\ ExclusiveFree(c, i)
     THEN aReadMark' = [aReadMark EXCEPT ![i] =
                          IF i = 1 THEN job[c].mxSafe ELSE NotUsed]
     ELSE UNCHANGED aReadMark
  /\ job' = [job EXCEPT ![c].i = i + 1,
                        ![c].mxSafe = IF @ > y /\ ~ExclusiveFree(c, i) THEN y ELSE @]
  /\ UNCHANGED <<files, aHdr, aPgno, nBackfill, pc, hdr, nCkpt, locks, slot,
                 frame, cache, nTxn, faults, recent>>

(* READ(0) is locked against readers of the file alone; the log is synced  *)
(* before any of it is in the file.                                        *)
CkptLock(c) ==
  LET safe == job[c].mxSafe IN
  /\ pc[c] = "marks" /\ job[c].i = NReader
  /\ IF nBackfill < safe /\ ExclusiveFree(c, 0)
     THEN /\ pc' = [pc EXCEPT ![c] = "copy"]
          /\ job' = [job EXCEPT ![c].pages = {p \in 1..hdr[c].nPage :
                       nBackfill < job[c].iter[p] /\ job[c].iter[p] <= safe}]
          /\ wal' = wal /\ SyncWal
          /\ recent' = {Content} \cup Limbo
     ELSE /\ pc' = [pc EXCEPT ![c] = "full"]
          /\ UNCHANGED <<wal, walDisk, job, recent>>
  /\ UNCHANGED <<db, dbDisk, shm, hdr, nCkpt, locks, slot, frame, cache, nTxn,
                 faults>>

CkptCopy(c) ==
  LET p == Min(job[c].pages)
      v == wal[job[c].iter[p]].val
  IN
  /\ pc[c] = "copy" /\ job[c].pages # {}
  /\ WriteDb({p}, v)
  /\ job' = [job EXCEPT ![c].pages = @ \ {p}]
  /\ UNCHANGED <<wal, walDisk, shm, pc, hdr, nCkpt, locks, slot, frame, cache,
                 nTxn, faults, recent>>

(* Mutant: the file is cut, not synced.                                    *)
FileUnsynced == dbDisk' = [p \in Page |-> dbDisk[p] \cup {db'[p]}]
FileSynced == dbDisk' = [p \in Page |-> {db'[p]}]

(* The file is cut to size and synced when all of the log is in it.        *)
CkptBackfill(c) ==
  /\ pc[c] = "copy" /\ job[c].pages = {}
  /\ IF job[c].mxSafe = aHdr[1].mxFrame
     THEN /\ db' = [p \in Page |-> IF p <= hdr[c].nPage THEN db[p] ELSE 0]
          /\ FileSynced
     ELSE UNCHANGED <<db, dbDisk>>
  /\ nBackfill' = job[c].mxSafe
  /\ pc' = [pc EXCEPT ![c] = "full"]
  /\ UNCHANGED <<wal, walDisk, aHdr, aPgno, aReadMark, hdr, nCkpt, locks, slot,
                 frame, job, cache, nTxn, faults, recent>>

(* SQLITE_OK of a blocking checkpoint: everything is backfilled, already   *)
(* at its start or at its end.  (In the second case RESTART also locks the *)
(* read marks for a moment, which changes nothing.)                        *)
CkptOK(c) == nBackfill >= hdr[c].mxFrame

(* Mutant: the header read for the checkpoint stays.                       *)
HdrKept(c) == hdr[c]
HdrAfterCkpt(c) == IF job[c].changed THEN ZeroHdr ELSE hdr[c]

CkptReturn(c) ==
  /\ pc' = [pc EXCEPT ![c] = "idle"]
  /\ hdr' = [hdr EXCEPT ![c] = HdrAfterCkpt(c)]
  /\ job' = [job EXCEPT ![c] = NoJob]
  /\ writeLock' = [writeLock EXCEPT ![c] = FALSE]
  /\ ckptLock' = [ckptLock EXCEPT ![c] = FALSE]
  /\ UNCHANGED <<nCkpt, readLock, slot, frame, cache>>

EndCheckpoint(c) ==
  /\ pc[c] = "full" /\ job[c].mode # "CLOSE"
  /\ CkptReturn(c)
  /\ UNCHANGED <<files, shm, nTxn, faults, recent>>

-----------------------------------------------------------------------------
(* What a connection loses when it is gone.                                *)
Gone(S) ==
  /\ pc' = [c \in Conn |-> IF c \in S THEN "closed" ELSE pc[c]]
  /\ hdr' = [c \in Conn |-> IF c \in S THEN ZeroHdr ELSE hdr[c]]
  /\ nCkpt' = [c \in Conn |-> IF c \in S THEN 0 ELSE nCkpt[c]]
  /\ readLock' = [c \in Conn |-> IF c \in S THEN -1 ELSE readLock[c]]
  /\ writeLock' = [c \in Conn |-> c \notin S /\ writeLock[c]]
  /\ ckptLock' = [c \in Conn |-> c \notin S /\ ckptLock[c]]
  /\ slot' = [c \in Conn |-> IF c \in S THEN <<0, 0>> ELSE slot[c]]
  /\ dirty' = [c \in Conn |-> IF c \in S THEN {} ELSE dirty[c]]
  /\ newSize' = [c \in Conn |-> IF c \in S THEN 0 ELSE newSize[c]]
  /\ iFrame' = [c \in Conn |-> IF c \in S THEN 0 ELSE iFrame[c]]
  /\ job' = [c \in Conn |-> IF c \in S THEN NoJob ELSE job[c]]
  /\ cache' = [c \in Conn |-> IF c \in S THEN NoView ELSE cache[c]]

(* sqlite3WalClose(): the last connection checkpoints and deletes the log. *)
Close(c) ==
  /\ pc[c] = "idle"
  /\ IF Opened = {c}
     THEN StartCheckpoint(c, "CLOSE")
     ELSE Gone({c}) /\ UNCHANGED <<files, shm, nTxn, faults, recent>>

DeleteLog(c) ==
  /\ pc[c] = "full" /\ job[c].mode = "CLOSE"
  /\ wal' = [i \in 0..MaxFrame |-> NoFrame] /\ SyncWal
  /\ Gone({c})
  /\ UNCHANGED <<db, dbDisk, shm, nTxn, faults, recent>>

(* An I/O error in walCheckpoint(): of the sync of the log, of the write   *)
(* of a page, or of the cut or the sync of the file.  nBackfill stays.     *)
(* A connection that was closing leaves the log where it is.               *)
CkptError(c) ==
  /\ MayFail(c)
  /\ \/ /\ pc[c] = "marks" /\ job[c].i = NReader
        /\ nBackfill < job[c].mxSafe /\ ExclusiveFree(c, 0)
        /\ UNCHANGED <<db, dbDisk>>
     \/ /\ pc[c] = "copy" /\ job[c].pages # {}
        /\ LET p == Min(job[c].pages) IN
           \E v \in {db[p], Torn, wal[job[c].iter[p]].val} : WriteDb({p}, v)
     \/ /\ pc[c] = "copy" /\ job[c].pages = {}
        /\ job[c].mxSafe = aHdr[1].mxFrame
        /\ \/ UNCHANGED <<db, dbDisk>>
           \/ WriteDb({p \in Page : p > hdr[c].nPage}, 0)
  /\ nError' = nError + 1
  /\ IF job[c].mode = "CLOSE" THEN Gone({c}) ELSE CkptReturn(c)
  /\ UNCHANGED <<wal, walDisk, shm, nTxn, nFault, tornReset, recent>>

(* A process is killed: the system still holds all that it wrote.  In the  *)
(* middle of walRestartLog() that is the new header and the old nBackfill. *)
Crash(c) ==
  /\ pc[c] # "closed" /\ nFault < MaxFault
  /\ nFault' = nFault + 1
  /\ tornReset' = (tornReset \/ pc[c] = "restart2")
  /\ recent' = recent \cup {View(d) : d \in Writers \cap {c}}
  /\ Gone({c}) /\ UNCHANGED <<files, shm, nTxn, nError>>

(* Of what was written since the last sync any part may be on the medium,  *)
(* and a frame may be torn.                                                *)
Outcomes(file, disk, torn) ==
  LET U == {i \in DOMAIN file : disk[i] # {file[i]}}
      left == {f \in [U -> torn \cup UNION {disk[i] : i \in U}] :
                 \A i \in U : f[i] \in disk[i] \cup torn}
  IN  {[i \in DOMAIN file |-> IF i \in U THEN f[i] ELSE file[i]] : f \in left}

PowerLoss ==
  /\ Opened # {} /\ nFault < MaxFault
  /\ nFault' = nFault + 1
  /\ wal' \in Outcomes(wal, walDisk, {NoFrame})
  /\ db' \in Outcomes(db, dbDisk, {Torn})
  /\ walDisk' = [i \in 0..MaxFrame |-> {wal'[i]}]
  /\ dbDisk' = [p \in Page |-> {db'[p]}]
  /\ recent' = recent \cup {View(c) : c \in Writers}
  /\ Gone(Conn) /\ UNCHANGED <<shm, nTxn, nError, tornReset>>

Next ==
  \/ \E c \in Conn :
       \/ Open(c) \/ Close(c) \/ DeleteLog(c)
       \/ BeginReadHdr(c) \/ LockFile(c) \/ ChooseMark(c)
       \/ LockMark(c) \/ EndReadTransaction(c)
       \/ BeginWriteTransaction(c) \/ Spill(c) \/ Commit(c) \/ Undo(c)
       \/ RestartHdr(c) \/ RestartInfo(c)
       \/ WriteHeader(c) \/ walWriteOneFrame(c) \/ SpillDone(c)
       \/ CommitDone(c) \/ CommitHdr(c)
       \/ LogWriteError(c) \/ CommitFailed(c) \/ SpillFailed(c)
       \/ Checkpoint(c) \/ CkptIterator(c) \/ CkptMark(c) \/ CkptLock(c)
       \/ CkptCopy(c) \/ CkptBackfill(c) \/ EndCheckpoint(c)
       \/ CkptError(c) \/ Crash(c)
  \/ PowerLoss

Spec == Init /\ [][Next]_vars

(* The executions in which no restart is torn.                             *)
WholeSpec == Init /\ [][Next /\ ~tornReset']_vars

-----------------------------------------------------------------------------
PCs == {"closed", "idle", "choose", "lock", "read", "write", "restart",
        "restart2", "reopen", "header", "frames", "commit", "failed", "ckpt",
        "marks", "copy", "full"}
HdrType == [isInit : BOOLEAN, mxFrame : 0..MaxFrame, nPage : 0..NPage,
            salt : Txn, last : Txn]
ContentType == [Page -> 0..Torn]

(* The variables keep their types (declarations of wal.c, 301-366 and the  *)
(* struct Wal).                                                            *)
TypeOK ==
  /\ wal \in [0..MaxFrame -> Frame] /\ walDisk \in [0..MaxFrame -> SUBSET Frame]
  /\ db \in ContentType /\ dbDisk \in [Page -> SUBSET (0..Torn)]
  /\ aHdr \in HdrType \X HdrType /\ aPgno \in [1..MaxFrame -> 0..NPage]
  /\ nBackfill \in 0..MaxFrame
  /\ aReadMark \in [0..NReader - 1 -> 0..NotUsed]
  /\ pc \in [Conn -> PCs] /\ hdr \in [Conn -> HdrType]
  /\ nCkpt \in [Conn -> 0..1] /\ readLock \in [Conn -> -1..NReader - 1]
  /\ writeLock \in [Conn -> BOOLEAN] /\ ckptLock \in [Conn -> BOOLEAN]
  /\ slot \in [Conn -> (0..NReader - 1) \X (0..MaxFrame)]
  /\ dirty \in [Conn -> SUBSET Page] /\ newSize \in [Conn -> 0..NPage]
  /\ iFrame \in [Conn -> 0..MaxFrame]
  /\ cache \in [Conn -> ContentType \cup {NoView}]
  /\ nTxn \in 1..MaxTxn /\ nFault \in 0..MaxFault
  /\ nError \in 0..MaxError /\ recent \subseteq ContentType
  /\ tornReset \in BOOLEAN

(* wal.c:320-323, "The nBackfill number is never greater than              *)
(* WalIndexHdr.mxFrame": so that a reader that finds the two equal reads   *)
(* the file alone and misses nothing.                                      *)
BackfillWithinLog ==
  walIndexTryHdr /\ Opened # {} /\ (\A c \in Conn : ~Restarting(c))
    => nBackfill <= aHdr[1].mxFrame

(* The same, whatever the connections do, until a restart of the log is    *)
(* torn (wal.c:2600-2623): by the death of its process between the header  *)
(* and nBackfill, or by a checkpoint that reads them around the restart.   *)
BackfillSound == ~tornReset => BackfillWithinLog

(* The assertion of walRestartLog() (wal.c:2596): the frames that are      *)
(* given up are all in the database file, no more and no less.             *)
RestartAssert ==
  ~tornReset => \A c \in Conn :
    pc[c] = "write" /\ readLock[c] = 0 => nBackfill = hdr[c].mxFrame

(* A connection that found its header unchanged reads the pages it has in  *)
(* its cache: they are those of the snapshot it opened (sqlite3WalCheckpoint*)
(* clears the header it loads for its own use, walIndexReadHdr compares).  *)
CacheFresh ==
  \A c \in Conn : pc[c] = "read" => cache[c] = FindFrames(c)

(* A FULL or RESTART checkpoint that reports success leaves the database   *)
(* file complete and on the medium (sqlite3_wal_checkpoint_v2).            *)
FullMeansFull ==
  \A c \in Conn :
    pc[c] = "full" /\ job[c].mode \in {"FULL", "RESTART"} /\ CkptOK(c)
      => db = Content /\ \A p \in Page : dbDisk[p] = {db[p]}

-----------------------------------------------------------------------------
Store == INSTANCE SnapshotStore WITH
  content <- Content, limbo <- Limbo,
  view <- [c \in Conn |-> View(c)],
  writers <- Writers

(* The log, the wal-index, checkpoints and recovery give the pager atomic  *)
(* commits and one snapshot per transaction, through crashes and power     *)
(* losses: no reader sees a frame or a page of another commit, no writer   *)
(* forks, and nothing a checkpoint or a commit has synced is lost.         *)
ImplementsSnapshotStore == Store!Spec
=============================================================================
