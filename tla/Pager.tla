-------------------------------- MODULE Pager --------------------------------
(***************************************************************************)
(* The rollback-journal pager, pager.c: connections that share a database  *)
(* file and its journal, each with a cache of its own, coordinated by file *)
(* locks alone.  One step is one access to a file or to a lock, so that    *)
(* connections interleave, processes die and power fails between any two.  *)
(*                                                                         *)
(* Page 1 holds nothing here but the change counter; the other pages hold  *)
(* the identifier of the transaction that wrote them, 0 beyond the end of  *)
(* the file.  The journal is a sequence of slots, a header or a page       *)
(* record, whose checksum nonce is the identifier of its transaction.      *)
(* Offsets count slots.  The journal may keep the slots of earlier         *)
(* transactions, as it does with journal_mode=PERSIST.                     *)
(*                                                                         *)
(* A write reaches the disk when the file is synced; until then a power    *)
(* loss may leave the old content, the new one, or neither.                *)
(***************************************************************************)
EXTENDS Integers, Sequences

CONSTANTS
  Conn,                \* the connections
  NPage,               \* the pages of the largest database file
  InitSizes,           \* the pages that the initial one may have
  Vfs,                 \* "unix" or "vms": the rules of xLock
  OneProcess,          \* the connections are threads of one process
  JournalModes,        \* what PRAGMA journal_mode of a connection may be
  FullSyncs,           \* what Pager.fullSync may be: PRAGMA synchronous=FULL
  AtomicWrite,         \* the device writes a page atomically (IOCAP_ATOMIC)
  Sequential,          \* IOCAP_SEQUENTIAL: writes reach the disk in order
  WriteThrough,        \* a write is on disk when xWrite returns (os_vms.c)
  SectorFull,          \* the records before a header end at a sector boundary
  MaxTxn,              \* bound: write transactions ever begun
  MaxFault,            \* bound: crashes, power losses and I/O errors
  MaxSpill             \* bound: cache spills of one transaction

ASSUME PagerAssumption ==
  /\ NPage \in Nat /\ NPage >= 2 /\ InitSizes \subseteq 0..NPage
  /\ Vfs \in {"unix", "vms"}
  /\ JournalModes \subseteq {"DELETE", "TRUNCATE", "PERSIST"}
  /\ FullSyncs \subseteq BOOLEAN
  /\ {OneProcess, AtomicWrite, Sequential, WriteThrough, SectorFull} \subseteq BOOLEAN
  /\ Sequential => WriteThrough
  /\ MaxTxn \in Nat /\ MaxFault \in Nat /\ MaxSpill \in Nat

VARIABLES
  db,                  \* the database file: db[p] is the content of page p
  dbAlt,               \* dbAlt[p]: what a power loss may leave in page p
  jrnl,                \* the journal file: [exists, slot, alt]
  lock,                \* lock[c]: the level of c's lock on the database file
  pager,               \* pager[c]: the Pager object of c
  txid,                \* ghost: the last transaction identifier used
  faults               \* ghost: crashes, power losses and errors so far

vars == <<db, dbAlt, jrnl, lock, pager, txid, faults>>
disk == <<db, dbAlt, jrnl>>

Page == 1..NPage

FL == INSTANCE FileLock

NO_LOCK        == FL!NO_LOCK
SHARED_LOCK    == FL!SHARED_LOCK
RESERVED_LOCK  == FL!RESERVED_LOCK
PENDING_LOCK   == FL!PENDING_LOCK
EXCLUSIVE_LOCK == FL!EXCLUSIVE_LOCK

Torn      == -1        \* a page whose write was cut off
NotCached == -2        \* the page is not in the cache

FileSize(f) ==
  CHOOSE n \in 0..NPage : (n = 0 \/ f[n] # 0) /\ \A p \in Page : p > n => f[p] = 0

-----------------------------------------------------------------------------
(* Journal slots.  A header counts the records that follow it and keeps    *)
(* the size of the original database; a record keeps a page.               *)

Header(magic, nRec, mxPg, nonce) ==
  [type |-> "hdr", magic |-> magic, n |-> nRec, v |-> mxPg, nonce |-> nonce]
Record(p, v, nonce) ==
  [type |-> "rec", magic |-> FALSE, n |-> p, v |-> v, nonce |-> nonce]
Junk == [type |-> "junk", magic |-> FALSE, n |-> 0, v |-> 0, nonce |-> 0]

NoJournal == [exists |-> FALSE, slot |-> <<>>, alt |-> <<>>]

Put(s, i, x) == IF i <= Len(s) THEN [s EXCEPT ![i] = x] ELSE Append(s, x)

(* Slot i of journal file j is written.  Until the next sync it may also   *)
(* be what it was; a slot that spans sectors may be cut off.               *)
WriteSlot(j, i, x, torn) ==
  LET old == IF i <= Len(j.alt) THEN j.alt[i] ELSE {}
  IN  [exists |-> TRUE, slot |-> Put(j.slot, i, x),
       alt |-> Put(j.alt, i, IF WriteThrough THEN {x} ELSE old \cup {x} \cup torn)]

Synced(j) == [j EXCEPT !.alt = [i \in 1..Len(j.slot) |-> {j.slot[i]}]]

(* Writing and syncing the database file.                                  *)
DbWrite(p, v) ==
  /\ db' = [db EXCEPT ![p] = v]
  /\ dbAlt' = [dbAlt EXCEPT ![p] =
                 IF WriteThrough THEN {v}
                 ELSE @ \cup {v} \cup (IF AtomicWrite THEN {} ELSE {Torn})]

DbTruncate(n) ==
  /\ db' = [p \in Page |-> IF p > n THEN 0 ELSE db[p]]
  /\ dbAlt' = [p \in Page |-> IF p <= n THEN dbAlt[p]
                              ELSE IF WriteThrough THEN {0} ELSE dbAlt[p] \cup {0}]

DbSync == dbAlt' = [p \in Page |-> {db[p]}] /\ UNCHANGED db

-----------------------------------------------------------------------------
(* The Pager object.                                                       *)

EState == {"OPEN", "READER", "WRITER_LOCKED", "WRITER_CACHEMOD",
           "WRITER_DBMOD", "WRITER_FINISHED", "ERROR"}

NoHeader == -1         \* no offset of a journal header

NoCache == [p \in Page |-> NotCached]

(* A connection keeps its modes for as long as it lives, and so does the    *)
(* one that takes its place.                                               *)
NewPager(mode, full) ==
  [journalMode |-> mode, fullSync |-> full, eState |-> "OPEN",
   pc |-> "idle", cache |-> NoCache, dirty |-> {}, dbFileVers |-> 0, dbSize |-> 0,
   dbOrigSize |-> 0, jfd |-> "closed", mem |-> <<>>, journalOff |-> 0, journalHdr |-> 0,
   ownHdr |-> NoHeader, nRec |-> 0, inJournal |-> {}, needSync |-> {}, id |-> 0, pg |-> 0,
   left |-> 0, spills |-> 0]

(* The write-transaction fields, cleared when a transaction ends.          *)
Cleared(P) ==
  [P EXCEPT !.dirty = {}, !.dbOrigSize = 0, !.journalOff = 0, !.journalHdr = 0,
            !.ownHdr = NoHeader, !.nRec = 0, !.inJournal = {}, !.needSync = {}, !.id = 0, !.pg = 0,
            !.left = 0, !.spills = 0]

At(c, pc) == pager[c].pc = pc
In(c, S) == pager[c].eState \in S /\ At(c, "idle")
Goto(c, pc) == pager' = [pager EXCEPT ![c].pc = pc]

Writing == {"WRITER_CACHEMOD", "WRITER_DBMOD"}

(* pager_unlock(): the connection is back in OPEN without a lock.  Its     *)
(* cache is kept, unless an error made it untrustworthy.                   *)
Closed(P, reset) ==
  [Cleared(P) EXCEPT !.eState = "OPEN", !.pc = "idle", !.jfd = "closed", !.mem = <<>>,
                     !.cache = IF reset THEN NoCache ELSE @]

Unlocked(c, reset) ==
  /\ lock' = [lock EXCEPT ![c] = NO_LOCK]
  /\ pager' = [pager EXCEPT ![c] = Closed(@, reset)]

(* The pagers when c turns the journal file into j.  If c deletes it, the   *)
(* others keep what they have open.                                        *)
Unlinked(c, j) ==
  [d \in Conn |-> IF d # c /\ pager[d].jfd = "real" /\ jrnl.exists /\ ~j.exists
                  THEN [pager[d] EXCEPT !.jfd = "gone", !.mem = jrnl.slot]
                  ELSE pager[d]]

(* The RESERVED byte is taken.  On unix the PENDING lock of a recovery     *)
(* that has given up (HotBusy) comes without it: other processes see no    *)
(* lock there, other threads do.                                           *)
HasReserved(d) ==
  \/ lock[d] = RESERVED_LOCK
  \/ lock[d] = PENDING_LOCK /\ (OneProcess \/ ~At(d, "hot6"))

(* xLock.  On OpenVMS a request that cannot be granted waits, and fails    *)
(* only when the lock manager finds a deadlock of upgrading readers.       *)
MayLock(c, l) ==
  IF Vfs = "unix"
    THEN IF l = RESERVED_LOCK THEN \A d \in Conn \ {c} : ~HasReserved(d) ELSE FL!MayHold(c, l)
    ELSE \A d \in Conn \ {c} :
           IF l = SHARED_LOCK THEN lock[d] <= SHARED_LOCK ELSE lock[d] = NO_LOCK

Deadlocked(c) ==
  \E d \in Conn \ {c} :
     /\ lock[d] = SHARED_LOCK
     /\ pager[d].pc \in {"reserve", "hot4"} \/ (pager[d].pc = "hot3" /\ FileSize(db) = 0)

LockFails(c, l) == ~MayLock(c, l) /\ (Vfs = "vms" => Deadlocked(c))

(* The EXCLUSIVE lock cannot be had.  On unix what is left of the request   *)
(* is a PENDING lock, which keeps new readers out.                         *)
ExclusiveBusy(c) ==
  /\ LockFails(c, EXCLUSIVE_LOCK)
  /\ lock' = [lock EXCEPT ![c] = IF Vfs = "unix" /\ FL!MayHold(c, PENDING_LOCK)
                                 THEN PENDING_LOCK ELSE @]

(* xCheckReservedLock.                                                     *)
CheckReservedLock(c) ==
  IF Vfs = "unix" THEN \E d \in Conn : HasReserved(d) ELSE lock[c] = RESERVED_LOCK

-----------------------------------------------------------------------------
(* sqlite3PagerSharedLock(): a read transaction begins.                    *)

SharedLock(c) ==
  /\ In(c, {"OPEN"}) /\ MayLock(c, SHARED_LOCK)
  /\ lock' = [lock EXCEPT ![c] = SHARED_LOCK]
  /\ Goto(c, "hot1")
  /\ UNCHANGED <<disk, txid, faults>>

(* hasHotJournal(): does a journal exist, does a writer own it, and does   *)
(* it begin with a header?  Three accesses, between which others may run.  *)
HotAccess(c) ==
  /\ At(c, "hot1")
  /\ Goto(c, IF jrnl.exists THEN "hot2" ELSE "vers")
  /\ UNCHANGED <<disk, lock, txid, faults>>

HotReserved(c) ==
  /\ At(c, "hot2")
  /\ Goto(c, IF CheckReservedLock(c) THEN "vers" ELSE "hot3")
  /\ UNCHANGED <<disk, lock, txid, faults>>

(* Mutant: no journal is ever found hot.                                   *)
FirstByteZero == {0}

(* The first byte of the journal: zero in a header not yet synced or       *)
(* zeroed, anything where a write was cut off.                             *)
FirstByte ==
  IF jrnl.slot = <<>> THEN {0}
  ELSE IF jrnl.slot[1].type = "junk" THEN {0, 1}
  ELSE {IF jrnl.slot[1].magic THEN 1 ELSE 0}

HotOpen(c) ==
  /\ At(c, "hot3") /\ FileSize(db) > 0
  /\ \E first \in (IF jrnl.exists THEN FirstByte ELSE {1}) :
        Goto(c, IF first # 0 THEN "hot4" ELSE "vers")
  /\ UNCHANGED <<disk, lock, txid, faults>>

(* The journal of an empty database is deleted, under a RESERVED lock if   *)
(* that can be had, and never played back.                                 *)
HotDelete(c) ==
  /\ At(c, "hot3") /\ FileSize(db) = 0
  /\ MayLock(c, RESERVED_LOCK) \/ LockFails(c, RESERVED_LOCK)
  /\ jrnl' = IF MayLock(c, RESERVED_LOCK) THEN NoJournal ELSE jrnl
  /\ pager' = [Unlinked(c, jrnl') EXCEPT ![c].pc = "vers"]
  /\ UNCHANGED <<db, dbAlt, lock, txid, faults>>

(* The size of the file decides: pagerPagecount().                         *)
HotPageCount(c) == At(c, "hot3") /\ (HotOpen(c) \/ HotDelete(c))

(* The EXCLUSIVE lock for the rollback, without passing through RESERVED.  *)
HotExclusive(c) ==
  /\ At(c, "hot4") /\ MayLock(c, EXCLUSIVE_LOCK)
  /\ lock' = [lock EXCEPT ![c] = EXCLUSIVE_LOCK]
  /\ Goto(c, "hot5")
  /\ UNCHANGED <<disk, txid, faults>>

(* Mutant: the reader goes on without the rollback.                        *)
HotBusyReads(c) ==
  /\ At(c, "hot4") /\ LockFails(c, EXCLUSIVE_LOCK)
  /\ Goto(c, "vers")
  /\ UNCHANGED <<disk, lock, txid, faults>>

HotBusy(c) ==
  /\ At(c, "hot4") /\ ExclusiveBusy(c)
  /\ Goto(c, "hot6")
  /\ UNCHANGED <<disk, txid, faults>>

HotGiveUp(c) ==
  /\ At(c, "hot6")
  /\ Unlocked(c, FALSE)
  /\ UNCHANGED <<disk, txid, faults>>

(* Another connection may have rolled the journal back meanwhile.  If not, *)
(* it is synced, and all of it counts as synced (pagerSyncHotJournal).     *)
HotReopen(c) ==
  /\ At(c, "hot5")
  /\ IF ~jrnl.exists
       THEN /\ lock' = [lock EXCEPT ![c] = SHARED_LOCK]
            /\ Goto(c, "vers")
            /\ UNCHANGED jrnl
       ELSE /\ jrnl' = Synced(jrnl)
            /\ pager' = [pager EXCEPT ![c].pc = "playback", ![c].jfd = "real",
                                      ![c].journalHdr = Len(jrnl.slot)]
            /\ UNCHANGED lock
  /\ UNCHANGED <<db, dbAlt, txid, faults>>

(* Mutant: the change counter is not looked at.                            *)
NeverStale(P) == FALSE

(* The change counter is not the one the cache was filled under.           *)
Stale(P) == P.cache # NoCache /\ P.dbFileVers # db[1]

(* A stale cache is flushed; then the b-tree takes page 1 (lockBtree), and *)
(* keeps it.                                                               *)
CheckVersion(c) ==
  /\ At(c, "vers")
  /\ LET P == pager[c]
         kept == IF Stale(P) THEN NoCache ELSE P.cache
     IN  pager' = [pager EXCEPT ![c] =
           [P EXCEPT !.eState = "READER", !.pc = "idle",
                     !.dbSize = FileSize(db),
                     !.cache = [kept EXCEPT ![1] = IF @ = NotCached THEN db[1] ELSE @],
                     !.dbFileVers = IF kept[1] = NotCached /\ FileSize(db) > 0
                                    THEN db[1] ELSE @]]
  /\ UNCHANGED <<disk, lock, txid, faults>>

(* sqlite3PagerAcquire() of a page that is not in the cache.               *)
Acquire(c, p) ==
  /\ In(c, {"READER", "WRITER_LOCKED"} \cup Writing)
  /\ pager[c].cache[p] = NotCached /\ p <= pager[c].dbSize
  /\ pager' = [pager EXCEPT ![c].cache[p] = db[p]]
  /\ UNCHANGED <<disk, lock, txid, faults>>

(* The last page is released: pagerUnlockIfUnused().                       *)
EndRead(c) ==
  /\ In(c, {"READER"})
  /\ Unlocked(c, FALSE)
  /\ UNCHANGED <<disk, txid, faults>>

-----------------------------------------------------------------------------
(* Writing.                                                                *)

(* sqlite3PagerBegin() asks for the RESERVED lock ...                      *)
Begin(c) ==
  /\ In(c, {"READER"})
  /\ Goto(c, "reserve")
  /\ UNCHANGED <<disk, lock, txid, faults>>

(* ... and either gets it or stays a reader.                               *)
Reserve(c) ==
  /\ At(c, "reserve") /\ MayLock(c, RESERVED_LOCK)
  /\ lock' = [lock EXCEPT ![c] = RESERVED_LOCK]
  /\ pager' = [pager EXCEPT ![c].pc = "idle", ![c].eState = "WRITER_LOCKED",
                            ![c].dbOrigSize = pager[c].dbSize]
  /\ UNCHANGED <<disk, txid, faults>>

ReserveBusy(c) ==
  /\ At(c, "reserve") /\ LockFails(c, RESERVED_LOCK)
  /\ Goto(c, "idle")
  /\ UNCHANGED <<disk, lock, txid, faults>>

(* The journal as c sees it: the file, or the buffer of journal.c, which   *)
(* holds a header and one record and is written out when it overflows, or  *)
(* a file that has lost its name, which goes with the last process that    *)
(* has it open.                                                            *)
Jfile(c) == IF pager[c].jfd \in {"mem", "gone"} THEN pager[c].mem ELSE jrnl.slot

createFile(j, mem) ==
  LET hdr == IF Len(mem) >= 1 THEN WriteSlot(j, 1, mem[1], {Junk})
             ELSE [j EXCEPT !.exists = TRUE]
  IN  IF Len(mem) >= 2 THEN WriteSlot(hdr, 2, mem[2], {Junk}) ELSE hdr

(* Slot i of c's journal is written; P is c's pager with its other changes *)
(* and j the journal file.                                                 *)
JournalWrite(c, j, P, i, x, torn) ==
  IF P.jfd = "gone" \/ (P.jfd = "mem" /\ i <= 2)
    THEN /\ pager' = [pager EXCEPT ![c] = [P EXCEPT !.mem = Put(@, i, x)]]
         /\ jrnl' = j
    ELSE /\ pager' = [pager EXCEPT ![c] = [P EXCEPT !.jfd = "real", !.mem = <<>>]]
         /\ jrnl' = WriteSlot(IF P.jfd = "mem" THEN createFile(j, P.mem) ELSE j,
                              i, x, torn)

(* sqlite3PagerWrite() on page p: the journal is opened first if need be.  *)
(* A page is appended only when page 1, which counts the pages, has been   *)
(* made writable (allocateBtreePage).                                      *)
Write(c, p) ==
  /\ In(c, {"WRITER_LOCKED"} \cup Writing)
  /\ p <= pager[c].dbSize + 1
  /\ p <= pager[c].dbSize => pager[c].cache[p] # NotCached
  /\ p > pager[c].dbSize /\ p # 1 => 1 \in pager[c].dirty
  /\ IF pager[c].eState = "WRITER_LOCKED"
       THEN /\ txid <= MaxTxn /\ txid' = txid + 1
            /\ pager' = [pager EXCEPT ![c].pc = "open", ![c].pg = p, ![c].id = txid + 1]
       ELSE /\ UNCHANGED txid
            /\ pager' = [pager EXCEPT ![c].pc = "write", ![c].pg = p]
  /\ UNCHANGED <<disk, lock, faults>>

(* pager_open_journal() and the first header, with no magic yet.           *)
OpenJournal(c) ==
  /\ At(c, "open")
  /\ LET P == pager[c]
         opened == IF P.jfd # "closed" THEN P.jfd ELSE IF AtomicWrite THEN "mem" ELSE "real"
     IN  JournalWrite(c, jrnl, [P EXCEPT !.jfd = opened, !.pc = "write",
                                   !.eState = "WRITER_CACHEMOD", !.nRec = 0,
                                   !.journalHdr = 0, !.ownHdr = 0, !.journalOff = 1],
                      1, Header(FALSE, 0, P.dbOrigSize, P.id), {Junk})
  /\ UNCHANGED <<db, dbAlt, lock, txid, faults>>

(* pager_write(): the original of the page goes to the journal, once, then *)
(* the caller changes the page (page 1 changes no more than its counter).  *)
NeedsRecord(P, p) == p \notin P.inJournal /\ p <= P.dbOrigSize

Journalled(P, p) ==
  [P EXCEPT !.journalOff = @ + 1, !.nRec = @ + 1, !.inJournal = @ \cup {p},
            !.needSync = @ \cup {p}]

pager_write(c) ==
  /\ At(c, "write")
  /\ LET P == pager[c]
         p == P.pg
         Q == [P EXCEPT !.pc = "idle", !.pg = 0, !.dirty = @ \cup {p},
                        !.cache[p] = IF p = 1 THEN @ ELSE P.id,
                        !.dbSize = IF p > @ THEN p ELSE @]
     IN  IF NeedsRecord(P, p)
           THEN JournalWrite(c, jrnl, Journalled(Q, p), P.journalOff + 1,
                             Record(p, P.cache[p], P.id), {Junk})
           ELSE /\ pager' = [pager EXCEPT ![c] =
                     [Q EXCEPT !.needSync = IF P.eState = "WRITER_DBMOD"
                                            \/ p \in P.inJournal
                                            THEN @ ELSE @ \cup {p}]]
                /\ UNCHANGED jrnl
  /\ UNCHANGED <<db, dbAlt, lock, txid, faults>>

-----------------------------------------------------------------------------
(* syncJournal(), for a spill (pg is the page) or a commit (pg is 0).      *)

(* pagerStress(): the cache needs the memory of dirty page p.  Page 1 is   *)
(* referenced for as long as the transaction lasts.                        *)
Spill(c, p) ==
  /\ In(c, Writing) /\ p \in pager[c].dirty \ {1}
  /\ pager[c].spills < MaxSpill
  /\ pager' = [pager EXCEPT ![c].pg = p, ![c].spills = @ + 1,
                 ![c].pc = IF p \in pager[c].needSync
                              \/ pager[c].eState = "WRITER_CACHEMOD"
                           THEN "sync1" ELSE "spill"]
  /\ UNCHANGED <<disk, lock, txid, faults>>

(* Mutant: the EXCLUSIVE lock is not asked for.                            *)
SyncWithoutLock(c) ==
  /\ At(c, "sync1")
  /\ Goto(c, "sync2")
  /\ UNCHANGED <<disk, lock, txid, faults>>

SyncLock(c) ==
  /\ At(c, "sync1") /\ MayLock(c, EXCLUSIVE_LOCK)
  /\ lock' = [lock EXCEPT ![c] = EXCLUSIVE_LOCK]
  /\ Goto(c, "sync2")
  /\ UNCHANGED <<disk, txid, faults>>

SyncBusy(c) ==
  /\ At(c, "sync1") /\ ExclusiveBusy(c)
  /\ pager' = [pager EXCEPT ![c].pc = "idle", ![c].pg = 0]
  /\ UNCHANGED <<disk, txid, faults>>

(* Mutant: the stale header is left alone.                                 *)
StaleLeft(s, i) == s

(* A header that an earlier transaction left where the next one would be   *)
(* loses its magic ...                                                     *)
StaleZeroed(s, i) ==
  IF i <= Len(s) /\ s[i].magic THEN [s EXCEPT ![i].magic = FALSE] ELSE s

(* ... then, with synchronous=FULL, the records are synced.                *)
SyncRecords(c) ==
  /\ At(c, "sync2")
  /\ LET P == pager[c]
         next == P.journalOff + 1
         zeroed == StaleZeroed(Jfile(c), next)
         file == IF P.jfd = "real" /\ zeroed # jrnl.slot
                 THEN WriteSlot(jrnl, next, zeroed[next], {}) ELSE jrnl
     IN  /\ jrnl' = IF P.jfd = "real" /\ P.fullSync /\ ~Sequential THEN Synced(file) ELSE file
         /\ pager' = [pager EXCEPT ![c].pc = "sync3",
                                   ![c].mem = IF P.jfd = "real" THEN @ ELSE zeroed]
  /\ UNCHANGED <<db, dbAlt, lock, txid, faults>>

(* The header gets its magic and the number of its records.                *)
SyncHeader(c) ==
  /\ At(c, "sync3")
  /\ LET P == pager[c]
     IN  JournalWrite(c, jrnl, [P EXCEPT !.pc = "sync4"], P.journalHdr + 1,
                      Header(TRUE, P.nRec, P.dbOrigSize, P.id), {})
  /\ UNCHANGED <<db, dbAlt, lock, txid, faults>>

(* Mutant: the sync after the header is missing.                           *)
HeaderNotSynced(P) == jrnl

HeaderSynced(P) == IF P.jfd = "real" /\ ~Sequential THEN Synced(jrnl) ELSE jrnl

(* The header is synced.  After a spill the records to come get a new one, *)
(* at the next sector boundary.  After a commit there is none, but where   *)
(* one would be may still be the offset kept in journalHdr.                *)
SyncDone(c) ==
  /\ At(c, "sync4")
  /\ LET P == pager[c]
         Q == [P EXCEPT !.journalHdr = P.journalOff, !.needSync = {},
                        !.ownHdr = IF P.pg # 0 \/ SectorFull THEN P.journalOff ELSE NoHeader,
                        !.eState = "WRITER_DBMOD",
                        !.pc = IF P.pg = 0 THEN "pages" ELSE "spill"]
     IN  IF P.pg = 0
           THEN /\ pager' = [pager EXCEPT ![c] = Q]
                /\ jrnl' = HeaderSynced(P)
           ELSE JournalWrite(c, HeaderSynced(P), [Q EXCEPT !.nRec = 0, !.journalOff = @ + 1],
                             P.journalOff + 1,
                             Header(FALSE, 0, P.dbOrigSize, P.id), {Junk})
  /\ UNCHANGED <<db, dbAlt, lock, txid, faults>>

(* pager_write_pagelist() of one page, which then leaves the cache.        *)
SpillWrite(c) ==
  /\ At(c, "spill")
  /\ DbWrite(pager[c].pg, pager[c].cache[pager[c].pg])
  /\ pager' = [pager EXCEPT ![c].pc = "idle", ![c].pg = 0,
                            ![c].cache[pager[c].pg] = NotCached,
                            ![c].dirty = @ \ {pager[c].pg}]
  /\ UNCHANGED <<jrnl, lock, txid, faults>>

-----------------------------------------------------------------------------
(* Commit.  vdbeCommit() takes the EXCLUSIVE lock before the first phase.  *)

Commit(c) ==
  /\ In(c, {"WRITER_LOCKED"} \cup Writing)
  /\ MayLock(c, EXCLUSIVE_LOCK)
  /\ lock' = [lock EXCEPT ![c] = EXCLUSIVE_LOCK]
  /\ Goto(c, IF pager[c].eState = "WRITER_LOCKED" THEN "final" ELSE "count")
  /\ UNCHANGED <<disk, txid, faults>>

CommitBusy(c) ==
  /\ In(c, {"WRITER_LOCKED"} \cup Writing) /\ ExclusiveBusy(c)
  /\ UNCHANGED <<disk, pager, txid, faults>>

(* Mutant: more than one page may be dirty.                                *)
IsDirectAny(P) == AtomicWrite /\ P.journalOff = 2

(* The one page that changed can be written without a journal: the         *)
(* condition of sqlite3PagerCommitPhaseOne().                              *)
IsDirect(P) ==
  AtomicWrite /\ P.journalOff = 2 /\ \A p, q \in P.dirty : p = q

(* pager_incr_changecounter().                                             *)
CountDirect(c) ==
  /\ At(c, "count") /\ IsDirect(pager[c])
  /\ DbWrite(1, pager[c].dbFileVers + 1)
  /\ pager' = [pager EXCEPT ![c].pc = "sync2", ![c].dbFileVers = @ + 1,
                            ![c].cache[1] = pager[c].dbFileVers + 1]
  /\ UNCHANGED <<jrnl, lock, txid, faults>>

Created(P) == IF P.jfd = "mem" THEN [P EXCEPT !.jfd = "real", !.mem = <<>>] ELSE P

CountJournalled(c) ==
  /\ At(c, "count") /\ ~IsDirect(pager[c])
  /\ LET P == pager[c]
         Q == [Created(P) EXCEPT !.pc = "sync2", !.dirty = @ \cup {1},
                                 !.cache[1] = P.dbFileVers + 1]
         file == IF P.jfd = "mem" THEN createFile(jrnl, P.mem) ELSE jrnl
     IN  IF NeedsRecord(P, 1)
           THEN JournalWrite(c, file, Journalled(Q, 1), P.journalOff + 1,
                             Record(1, P.cache[1], P.id), {Junk})
           ELSE /\ pager' = [pager EXCEPT ![c] = Q]
                /\ jrnl' = file
  /\ UNCHANGED <<db, dbAlt, lock, txid, faults>>

(* pager_write_pagelist(): the dirty pages in page order.                  *)
First(S) == CHOOSE p \in S : \A q \in S : p <= q

(* Mutant: the change counter is not updated.                              *)
UncountedPage(P, p) == IF p = 1 THEN P.dbFileVers ELSE P.cache[p]

(* Writing page 1 writes the counter of dbFileVers plus one.               *)
PageImage(P, p) == IF p = 1 THEN P.dbFileVers + 1 ELSE P.cache[p]

WritePages(c) ==
  /\ At(c, "pages") /\ pager[c].dirty # {}
  /\ LET p == First(pager[c].dirty)
         v == PageImage(pager[c], p)
     IN  /\ DbWrite(p, v)
         /\ pager' = [pager EXCEPT ![c].dirty = @ \ {p}, ![c].cache[p] = v,
                                   ![c].dbFileVers = IF p = 1 THEN v ELSE @]
  /\ UNCHANGED <<jrnl, lock, txid, faults>>

(* All pages are written: the database file is synced, phase one ends.     *)
SyncDatabase(c) ==
  /\ At(c, "pages") /\ pager[c].dirty = {}
  /\ DbSync
  /\ pager' = [pager EXCEPT ![c].pc = "idle", ![c].eState = "WRITER_FINISHED"]
  /\ UNCHANGED <<jrnl, lock, txid, faults>>

CommitPhaseTwo(c) ==
  /\ In(c, {"WRITER_FINISHED"})
  /\ Goto(c, "final")
  /\ UNCHANGED <<disk, lock, txid, faults>>

(* pager_end_transaction(): the journal is finalized, the point of commit  *)
(* of a journalled transaction and the end of every rollback ...           *)
Finalized(c) ==
  LET P == pager[c]
  IN  CASE P.jfd # "real" -> jrnl
        [] P.jfd = "real" /\ P.journalMode = "DELETE" -> NoJournal
        [] P.jfd = "real" /\ P.journalMode # "DELETE" /\ P.journalOff = 0 -> jrnl
        [] P.jfd = "real" /\ P.journalMode = "TRUNCATE" /\ P.journalOff # 0 ->
             [exists |-> TRUE, slot |-> <<>>, alt |-> <<>>]
        [] OTHER -> Synced(WriteSlot(jrnl, 1, Header(FALSE, 0, 0, 0), {}))

(* The same for a journal that is no file, or none that can be found.      *)
FinalizedMem(P) ==
  CASE P.journalMode # "DELETE" /\ P.journalOff = 0 -> P.mem
    [] P.journalMode = "PERSIST" /\ P.journalOff # 0 /\ P.mem # <<>> ->
         [P.mem EXCEPT ![1] = Header(FALSE, 0, 0, 0)]
    [] OTHER -> <<>>

Finalize(c) ==
  /\ At(c, "final")
  /\ jrnl' = Finalized(c)
  /\ pager' = [Unlinked(c, jrnl') EXCEPT ![c].pc = "unlock",
                                         ![c].mem = FinalizedMem(pager[c])]
  /\ UNCHANGED <<db, dbAlt, lock, txid, faults>>

(* sqlite3PcacheTruncate(): the pages beyond the end are dropped, but page *)
(* 1, which is in use, is only zeroed.                                     *)
Truncated(cache, n) ==
  [p \in Page |-> CASE p <= n -> cache[p]
                    [] p > n /\ p = 1 /\ cache[1] # NotCached -> 0
                    [] OTHER -> NotCached]

(* ... then the cache is cut to the database size and the lock lowered.    *)
EndTransaction(c) ==
  /\ At(c, "unlock")
  /\ lock' = [lock EXCEPT ![c] = SHARED_LOCK]
  /\ LET P == pager[c]
         hot == P.eState = "OPEN"
     IN  pager' = [pager EXCEPT ![c] =
           [Cleared(P) EXCEPT
              !.eState = IF hot THEN "OPEN" ELSE "READER",
              !.pc = IF hot THEN "vers" ELSE "idle",
              !.jfd = IF P.journalMode = "DELETE" THEN "closed" ELSE @,
              !.cache = Truncated(@, P.dbSize)]]
  /\ UNCHANGED <<disk, txid, faults>>

-----------------------------------------------------------------------------
(* Rollback: sqlite3PagerRollback() and pager_playback().                  *)

Rollback(c) ==
  /\ \/ In(c, {"WRITER_LOCKED", "WRITER_FINISHED"} \cup Writing)
     \/ At(c, "abort")
  /\ pager' = [pager EXCEPT ![c].pg = 0, ![c].left = 0,
                 ![c].pc = IF pager[c].eState = "WRITER_LOCKED" THEN "final" ELSE "playback",
                 ![c].journalOff = IF pager[c].eState = "WRITER_LOCKED" THEN @ ELSE 0]
  /\ UNCHANGED <<disk, lock, txid, faults>>

(* Mutant: a transaction that has finished phase one is left out.          *)
RestoresUnfinished(P) == P.eState \in {"OPEN", "WRITER_DBMOD"}

(* The database file is restored, not the cache alone.                     *)
RestoresFile(P) == P.eState \in {"OPEN", "WRITER_DBMOD", "WRITER_FINISHED"}

(* readJournalHdr(): a header with its magic, or the last one of a         *)
(* connection's own journal, not yet synced.                               *)
HeaderAt(c, i) ==
  LET P == pager[c]
  IN  /\ i <= Len(Jfile(c))
      /\ \/ Jfile(c)[i].magic
         \/ Jfile(c)[i].type = "hdr" /\ P.journalOff = P.ownHdr

PlaybackHeader(c) ==
  /\ At(c, "playback") /\ pager[c].left = 0
  /\ HeaderAt(c, pager[c].journalOff + 1)
  /\ LET P == pager[c]
         h == Jfile(c)[P.journalOff + 1]
         rest == Len(Jfile(c)) - (P.journalOff + 1)
         unsynced == h.n = 0 /\ P.journalOff = P.ownHdr
         first == P.journalOff = 0
     IN  /\ IF first /\ RestoresFile(P) THEN DbTruncate(h.v) ELSE UNCHANGED <<db, dbAlt>>
         /\ pager' = [pager EXCEPT ![c] =
              [P EXCEPT !.journalOff = @ + 1, !.id = h.nonce,
                        !.left = IF unsynced THEN rest ELSE h.n,
                        !.pc = IF (IF unsynced THEN rest ELSE h.n) = 0
                               THEN "playback" ELSE "record",
                        !.dbSize = IF first THEN h.v ELSE @]]
  /\ UNCHANGED <<jrnl, lock, txid, faults>>

PlaybackStop(c) ==
  /\ At(c, "playback") /\ ~HeaderAt(c, pager[c].journalOff + 1)
  /\ Goto(c, "restored")
  /\ UNCHANGED <<disk, lock, txid, faults>>

(* pager_playback_one_page(), with r the next record of the journal.  A    *)
(* page number beyond the end is skipped before its checksum is looked at; *)
(* bytes that are no record may have such a number, or a bad checksum.     *)
Beyond(c, r) == r.type # "rec" \/ r.n > pager[c].dbSize

(* Mutant: the checksum does not depend on the nonce of the header.        *)
ChecksumAnyNonce(c, r) == r.type = "rec"

ChecksumOK(c, r) == r.type = "rec" /\ r.nonce = pager[c].id

(* Only what is known to be synced in the journal is written to the file.  *)
PlaybackRecord(c) ==
  /\ At(c, "record") /\ pager[c].journalOff + 1 <= Len(Jfile(c))
  /\ LET P == pager[c]
         r == Jfile(c)[P.journalOff + 1]
         hot == P.eState = "OPEN"
         apply == ~Beyond(c, r)
         isSynced == P.journalOff + 1 <= P.journalHdr
         cached == apply /\ ~hot /\ P.cache[r.n] # NotCached
     IN  /\ Beyond(c, r) \/ ChecksumOK(c, r)
         /\ IF apply /\ RestoresFile(P) /\ isSynced
              THEN DbWrite(r.n, r.v) ELSE UNCHANGED <<db, dbAlt>>
         /\ pager' = [pager EXCEPT ![c] =
              [P EXCEPT !.journalOff = @ + 1, !.left = @ - 1,
                        !.pc = IF P.left = 1 THEN "playback" ELSE "record",
                        !.cache = IF hot THEN NoCache
                                  ELSE IF cached THEN [@ EXCEPT ![r.n] = r.v] ELSE @,
                        !.dirty = IF cached THEN @ \ {r.n} ELSE @,
                        !.dbFileVers = IF cached /\ r.n = 1 THEN r.v ELSE @]]
  /\ UNCHANGED <<jrnl, lock, txid, faults>>

(* The end of the file, or a bad record: the rollback is complete.         *)
PlaybackBadRecord(c) ==
  /\ At(c, "record")
  /\ pager[c].journalOff + 1 <= Len(Jfile(c)) =>
       LET r == Jfile(c)[pager[c].journalOff + 1]
       IN  ~ChecksumOK(c, r) /\ (r.type = "rec" => ~Beyond(c, r))
  /\ pager' = [pager EXCEPT ![c].pc = "restored", ![c].left = 0,
                            ![c].cache = IF pager[c].eState = "OPEN" THEN NoCache ELSE @]
  /\ UNCHANGED <<disk, lock, txid, faults>>

(* The end of pager_playback(): the restored file is synced.               *)
PlaybackDone(c) ==
  /\ At(c, "restored")
  /\ IF RestoresFile(pager[c]) THEN DbSync ELSE UNCHANGED <<db, dbAlt>>
  /\ pager' = [pager EXCEPT ![c].pc = "final"]
  /\ UNCHANGED <<jrnl, lock, txid, faults>>

-----------------------------------------------------------------------------
(* I/O errors: a call to the VFS returns SQLITE_IOERR.  A write that fails *)
(* may have happened, or not, or in part.                                  *)

Fault == faults < MaxFault /\ faults' = faults + 1

(* The write of a commit or of a statement failed: the statement ends and  *)
(* its transaction is rolled back (sqlite3VdbeHalt).  An error in a spill  *)
(* or in a rollback makes the pager useless: pager_error().                *)
Failed(P) == [P EXCEPT !.pc = "abort"]
InError(P) == [P EXCEPT !.eState = "ERROR", !.pc = "idle"]
WriteFailed(P) == IF P.pg # 0 THEN InError(P) ELSE Failed(P)

(* An error while a read transaction begins.                               *)
SharedLockError(c) ==
  /\ pager[c].pc \in {"hot1", "hot2", "hot3", "hot5", "vers"}
  /\ Unlocked(c, At(c, "hot5"))
  /\ Fault /\ UNCHANGED <<disk, txid>>

(* JournalWrite() that fails.  When it is the journal file that cannot be  *)
(* created, createFile() goes back to the buffer.                          *)
JournalWriteFails(c, j, P, i) ==
  /\ ~(P.jfd = "mem" /\ i <= 2)
  /\ \/ /\ P.jfd = "gone"
        /\ pager' = [pager EXCEPT ![c] = [P EXCEPT !.mem = Put(@, i, Junk)]]
        /\ UNCHANGED jrnl
     \/ /\ P.jfd # "gone"
        /\ pager' = [pager EXCEPT ![c] = [P EXCEPT !.jfd = "real", !.mem = <<>>]]
        /\ jrnl' = WriteSlot(IF P.jfd = "mem" THEN createFile(j, P.mem) ELSE j,
                             i, Junk, {})
     \/ /\ P.jfd = "mem"
        /\ pager' = [pager EXCEPT ![c] = P]
        /\ jrnl' = WriteSlot(j, 1, Junk, {})

(* pager_open_journal() cannot open the file, or cannot write the header.  *)
OpenError(c) ==
  /\ At(c, "open")
  /\ LET P == pager[c]
         Q == [Failed(P) EXCEPT !.nRec = 0, !.journalHdr = 0, !.journalOff = 1]
     IN  \/ /\ P.jfd = "closed" /\ ~AtomicWrite
            /\ pager' = [pager EXCEPT ![c] = Failed(P)]
            /\ UNCHANGED jrnl
         \/ /\ P.jfd \in {"real", "gone"} \/ (P.jfd = "closed" /\ ~AtomicWrite)
            /\ JournalWriteFails(c, jrnl, [Q EXCEPT !.jfd = IF @ = "closed" THEN "real"
                                                                     ELSE @], 1)
  /\ Fault /\ UNCHANGED <<db, dbAlt, lock, txid>>

(* pager_write() cannot write the record: the page is dirty by then.       *)
RecordError(c) ==
  /\ At(c, "write") /\ NeedsRecord(pager[c], pager[c].pg)
  /\ LET P == pager[c]
     IN  JournalWriteFails(c, jrnl, [Failed(P) EXCEPT !.dirty = @ \cup {P.pg},
                                                      !.needSync = @ \cup {P.pg}],
                           P.journalOff + 1)
  /\ Fault /\ UNCHANGED <<db, dbAlt, lock, txid>>

(* A sync of the journal fails, or the write of its header.                *)
SyncError(c) ==
  /\ pager[c].pc \in {"sync2", "sync3", "sync4"} /\ pager[c].jfd # "mem"
  /\ LET P == pager[c]
     IN  \/ /\ pager' = [pager EXCEPT ![c] = WriteFailed(P)]
            /\ UNCHANGED jrnl
         \/ /\ At(c, "sync3")
            /\ JournalWrite(c, jrnl, WriteFailed(P), P.journalHdr + 1,
                            Header(TRUE, P.nRec, P.dbOrigSize, P.id), {})
  /\ Fault /\ UNCHANGED <<db, dbAlt, lock, txid>>

(* The new header that follows a sync for a spill cannot be written.       *)
NewHeaderError(c) ==
  /\ At(c, "sync4") /\ pager[c].pg # 0
  /\ JournalWriteFails(c, jrnl, [InError(pager[c]) EXCEPT !.journalHdr = pager[c].journalOff],
                       pager[c].journalOff + 1)
  /\ Fault /\ UNCHANGED <<db, dbAlt, lock, txid>>

(* The journal file cannot be created for the commit, or page 1 cannot be  *)
(* journalled by pager_incr_changecounter().                               *)
CountError(c) ==
  /\ At(c, "count") /\ ~IsDirect(pager[c])
  /\ LET P == pager[c]
         file == IF P.jfd = "mem" THEN createFile(jrnl, P.mem) ELSE jrnl
     IN  \/ /\ P.jfd = "mem"
            /\ pager' = [pager EXCEPT ![c] = Failed(P)]
            /\ jrnl' = WriteSlot(jrnl, 1, Junk, {})
         \/ /\ NeedsRecord(P, 1)
            /\ JournalWriteFails(c, file, [Failed(Created(P)) EXCEPT !.dirty = @ \cup {1},
                                                                     !.needSync = @ \cup {1}],
                                 P.journalOff + 1)
  /\ Fault /\ UNCHANGED <<db, dbAlt, lock, txid>>

(* A write of page p to the database file fails.                           *)
DbWriteFails(p, v) ==
  \/ UNCHANGED <<db, dbAlt>>
  \/ DbWrite(p, v)
  \/ ~AtomicWrite /\ DbWrite(p, Torn)

CountDirectError(c) ==
  /\ At(c, "count") /\ IsDirect(pager[c])
  /\ DbWriteFails(1, pager[c].dbFileVers + 1)
  /\ pager' = [pager EXCEPT ![c] =
                 [Failed(@) EXCEPT !.cache[1] = pager[c].dbFileVers + 1]]
  /\ Fault /\ UNCHANGED <<jrnl, lock, txid>>

SpillError(c) ==
  /\ At(c, "spill")
  /\ DbWriteFails(pager[c].pg, pager[c].cache[pager[c].pg])
  /\ pager' = [pager EXCEPT ![c] = InError(@)]
  /\ Fault /\ UNCHANGED <<jrnl, lock, txid>>

WritePagesError(c) ==
  /\ At(c, "pages") /\ pager[c].dirty # {}
  /\ LET p == First(pager[c].dirty)
         v == PageImage(pager[c], p)
     IN  /\ DbWriteFails(p, v)
         /\ pager' = [pager EXCEPT ![c] =
              [Failed(pager[c]) EXCEPT !.cache[p] = v,
                                       !.dbFileVers = IF p = 1 THEN v ELSE @]]
  /\ Fault /\ UNCHANGED <<jrnl, lock, txid>>

SyncDatabaseError(c) ==
  /\ At(c, "pages") /\ pager[c].dirty = {}
  /\ pager' = [pager EXCEPT ![c] = Failed(@)]
  /\ Fault /\ UNCHANGED <<disk, lock, txid>>

(* A rollback cannot read the journal, or write or sync the database file. *)
PlaybackError(c) ==
  /\ pager[c].pc \in {"playback", "record", "restored"}
  /\ IF pager[c].eState = "OPEN" THEN Unlocked(c, TRUE)
     ELSE pager' = [pager EXCEPT ![c] = InError(@)] /\ UNCHANGED lock
  /\ Fault /\ UNCHANGED <<disk, txid>>

(* The journal cannot be finalized: the lock is lowered all the same, and  *)
(* the pager is in the error state.                                        *)
FinalizeError(c) ==
  /\ At(c, "final") /\ pager[c].jfd \in {"real", "gone"}
  /\ jrnl' \in {jrnl, Finalized(c)}
  /\ lock' = [lock EXCEPT ![c] = IF pager[c].eState = "OPEN" THEN NO_LOCK ELSE SHARED_LOCK]
  /\ pager' = [Unlinked(c, jrnl') EXCEPT
                 ![c] = IF pager[c].eState = "OPEN" THEN Closed(@, TRUE) ELSE InError(@)]
  /\ Fault /\ UNCHANGED <<db, dbAlt, txid>>

(* In the error state every call fails until the last page is released.    *)
ErrorUnlock(c) ==
  /\ In(c, {"ERROR"})
  /\ Unlocked(c, TRUE)
  /\ UNCHANGED <<disk, txid, faults>>

-----------------------------------------------------------------------------
Restarted(P) == NewPager(P.journalMode, P.fullSync)

(* The process of a connection dies: its locks and its cache are gone.     *)
Crash(c) ==
  /\ pager[c] # Restarted(pager[c])
  /\ LET dead == IF OneProcess THEN Conn ELSE {c}
     IN  /\ lock' = [d \in Conn |-> IF d \in dead THEN NO_LOCK ELSE lock[d]]
         /\ pager' = [d \in Conn |-> IF d \in dead THEN Restarted(pager[d]) ELSE pager[d]]
  /\ Fault /\ UNCHANGED <<disk, txid>>

(* Power fails: of every write that was not synced, anything may be left.  *)
Unsynced(alt) == {i \in DOMAIN alt : \E x, y \in alt[i] : x # y}
Choices(alt, U) ==
  {f \in [U -> UNION {alt[i] : i \in U}] : \A i \in U : f[i] \in alt[i]}
Left(f, file) == [i \in DOMAIN file |-> IF i \in DOMAIN f THEN f[i] ELSE file[i]]

PowerLoss ==
  /\ lock' = [c \in Conn |-> NO_LOCK]
  /\ pager' = [c \in Conn |-> Restarted(pager[c])]
  /\ \E f \in Choices(dbAlt, Unsynced(dbAlt)) :
        /\ db' = Left(f, db)
        /\ dbAlt' = [p \in Page |-> {db'[p]}]
  /\ \E f \in Choices(jrnl.alt, Unsynced(jrnl.alt)) :
        jrnl' = Synced([jrnl EXCEPT !.slot = Left(f, jrnl.slot)])
  /\ Fault /\ UNCHANGED txid

-----------------------------------------------------------------------------

Init ==
  /\ \E n \in InitSizes : db = [p \in Page |-> IF p <= n THEN 1 ELSE 0]
  /\ dbAlt = [p \in Page |-> {db[p]}]
  /\ jrnl = NoJournal
  /\ lock = [c \in Conn |-> NO_LOCK]
  /\ \E mode \in [Conn -> JournalModes], full \in [Conn -> FullSyncs] :
        pager = [c \in Conn |-> NewPager(mode[c], full[c])]
  /\ txid = 1 /\ faults = 0

Read(c) ==
  \/ SharedLock(c) \/ HotAccess(c) \/ HotReserved(c) \/ HotPageCount(c)
  \/ HotExclusive(c) \/ HotBusy(c) \/ HotGiveUp(c) \/ HotReopen(c) \/ CheckVersion(c)
  \/ EndRead(c) \/ \E p \in Page : Acquire(c, p)

Modify(c) ==
  \/ Begin(c) \/ Reserve(c) \/ ReserveBusy(c) \/ OpenJournal(c) \/ pager_write(c)
  \/ \E p \in Page : Write(c, p) \/ Spill(c, p)

Sync(c) ==
  \/ SyncLock(c) \/ SyncBusy(c) \/ SyncRecords(c) \/ SyncHeader(c) \/ SyncDone(c)
  \/ SpillWrite(c)

EndWrite(c) ==
  \/ Commit(c) \/ CommitBusy(c) \/ CountDirect(c) \/ CountJournalled(c)
  \/ WritePages(c) \/ SyncDatabase(c) \/ CommitPhaseTwo(c)
  \/ Finalize(c) \/ EndTransaction(c)

Undo(c) ==
  \/ Rollback(c) \/ PlaybackHeader(c) \/ PlaybackStop(c) \/ PlaybackRecord(c)
  \/ PlaybackBadRecord(c) \/ PlaybackDone(c)

IoError(c) ==
  \/ SharedLockError(c) \/ OpenError(c) \/ RecordError(c) \/ SyncError(c)
  \/ NewHeaderError(c) \/ CountError(c) \/ CountDirectError(c) \/ SpillError(c)
  \/ WritePagesError(c) \/ SyncDatabaseError(c) \/ PlaybackError(c)
  \/ FinalizeError(c) \/ ErrorUnlock(c)

Next ==
  \/ \E c \in Conn : \/ Read(c) \/ Modify(c) \/ Sync(c) \/ EndWrite(c) \/ Undo(c)
                     \/ IoError(c) \/ Crash(c)
  \/ PowerLoss

Spec == Init /\ [][Next]_vars

(* A connection that has begun to read goes on, and begins again: somebody *)
(* keeps using the database.  HotExclusive is strongly fair where the lock *)
(* manager queues a request that it cannot grant (os_vms.c).               *)
Recovery(c) ==
  \/ HotAccess(c) \/ HotReserved(c) \/ HotPageCount(c) \/ HotBusy(c)
  \/ HotGiveUp(c) \/ HotReopen(c) \/ CheckVersion(c) \/ PlaybackHeader(c) \/ PlaybackStop(c)
  \/ PlaybackRecord(c) \/ PlaybackBadRecord(c) \/ PlaybackDone(c)
  \/ Finalize(c) \/ EndTransaction(c) \/ ErrorUnlock(c)

Fairness ==
  \A c \in Conn : /\ WF_vars(SharedLock(c)) /\ WF_vars(Recovery(c))
                 /\ SF_vars(HotExclusive(c))

LiveSpec == Spec /\ Fairness

-----------------------------------------------------------------------------
(* What the files stand for: the database as the next rollback leaves it.  *)

(* Slot i of a journal s is a header that the playback gets to: the one    *)
(* before it has its magic and all of its records are intact.              *)
Reached(s) ==
  LET f[i \in 1..(Len(s) + 1)] ==
        \/ i = 1
        \/ \E h \in 1..(i - 1) :
             /\ f[h] /\ s[h].magic /\ i = h + s[h].n + 1
             /\ \A k \in (h + 1)..(i - 1) : s[k].type = "rec" /\ s[k].nonce = s[h].nonce
  IN  {i \in 1..Len(s) : f[i] /\ s[i].magic}

(* The records that are played back.                                       *)
Live(s) ==
  {k \in 1..Len(s) :
     \E h \in Reached(s) :
        /\ k \in (h + 1)..(h + s[h].n)
        /\ \A j \in (h + 1)..k : s[j].type = "rec" /\ s[j].nonce = s[h].nonce}

DataPage == 2..NPage

WriterStates == {"WRITER_LOCKED", "WRITER_CACHEMOD", "WRITER_DBMOD", "WRITER_FINISHED"}

(* File f rolled back with journal s: the last record of a page wins.      *)
Restored(f, s) ==
  [p \in DataPage |->
     LET recs == {k \in Live(s) : s[k].n = p}
     IN  IF p > s[1].v THEN 0
         ELSE IF recs = {} THEN f[p]
         ELSE s[CHOOSE k \in recs : \A j \in recs : j <= k].v]

IsHot(s) == s # <<>> /\ s[1].magic

HotJournal == jrnl.exists /\ IsHot(jrnl.slot) /\ FileSize(db) > 0

Content ==
  LET mem == {c \in Conn : pager[c].eState \in WriterStates /\ IsHot(pager[c].mem)}
  IN  CASE mem # {} -> Restored(db, pager[CHOOSE c \in mem : TRUE].mem)
        [] mem = {} /\ HotJournal -> Restored(db, jrnl.slot)
        [] OTHER -> [p \in DataPage |-> db[p]]

NoView == [p \in DataPage |-> NotCached]

(* What c's transaction would read.                                        *)
View ==
  [c \in Conn |->
     LET P == pager[c]
     IN  IF P.eState \notin {"READER"} \cup WriterStates THEN NoView
         ELSE [p \in DataPage |-> CASE p > P.dbSize -> 0
                                    [] p <= P.dbSize /\ P.cache[p] # NotCached -> P.cache[p]
                                    [] OTHER -> db[p]]]

Writers == {c \in Conn : pager[c].eState \in WriterStates /\ ~At(c, "unlock")}

Store == INSTANCE AtomicStore WITH content <- Content, view <- View, writers <- Writers

-----------------------------------------------------------------------------
(* Properties.                                                             *)

Value == Torn..(2 * MaxTxn + MaxFault + 1)

(* The variables have their types; the file system may leave any page as   *)
(* it is now; the pager's sizes stay within the file's.                    *)
TypeOK ==
  /\ db \in [Page -> Value]
  /\ \A p \in Page : db[p] \in dbAlt[p]
  /\ Len(jrnl.alt) = Len(jrnl.slot)
  /\ \A i \in 1..Len(jrnl.slot) : jrnl.slot[i] \in jrnl.alt[i]
  /\ lock \in [Conn -> FL!Level]
  /\ \A c \in Conn :
        /\ pager[c].eState \in EState
        /\ pager[c].jfd \in {"closed", "mem", "real", "gone"}
        /\ pager[c].dbSize \in 0..NPage /\ pager[c].dbOrigSize \in 0..NPage
        /\ pager[c].cache \in [Page -> Value \cup {NotCached}]

(* assert_pager_state(): every state of the pager has the lock, the open   *)
(* journal and the file size that the state diagram of pager.c gives it.   *)
AssertPagerState ==
  \A c \in Conn :
     LET P == pager[c]
     IN  CASE P.eState = "READER" -> lock[c] = SHARED_LOCK
           [] P.eState = "WRITER_LOCKED" ->
                /\ lock[c] >= RESERVED_LOCK
                /\ P.dbSize = P.dbOrigSize /\ P.dbOrigSize = FileSize(db)
           [] P.eState = "WRITER_CACHEMOD" ->
                /\ lock[c] >= RESERVED_LOCK /\ P.jfd # "closed"
                /\ P.dbOrigSize = FileSize(db)
           [] P.eState \in {"WRITER_DBMOD", "WRITER_FINISHED"} ->
                lock[c] = EXCLUSIVE_LOCK /\ P.jfd # "closed"
           [] OTHER -> TRUE

(* The database is an atomic store: whatever interleaves, fails, crashes   *)
(* or loses power, a reader sees one committed content for as long as it   *)
(* reads, and a transaction is in the content as a whole or not at all.    *)
ImplementsAtomicStore == Store!Spec

(* Requirement (9) of pager.c is what lets sqlite3PagerSharedLock() keep   *)
(* a cache: whenever the file has changed, so has its change counter.  A   *)
(* reader whose counter is the file's has no cached page that differs from *)
(* the file's.  Of page 1, whose counter is rewritten with every commit,   *)
(* this means that it is blank or not as it is in the file.                *)
CacheFresh ==
  \A c \in Conn : In(c, {"READER"}) /\ pager[c].dbFileVers = db[1] =>
     /\ \A p \in DataPage : pager[c].cache[p] \in {NotCached, db[p]}
     /\ pager[c].cache[1] = 0 <=> db[1] = 0

(* What pager.c says of WRITER_DBMOD, the state in which the database file *)
(* may be modified: the first header of the journal has been written and   *)
(* synced to disk.                                                         *)
JournalSyncedFirst ==
  \A c \in Conn : In(c, {"WRITER_DBMOD"}) =>
     /\ pager[c].jfd = "real"
     /\ \A h \in jrnl.alt[1] : h.magic /\ h.nonce = pager[c].id

(* What syncJournal() says of the journal that journal_mode=PERSIST left:  *)
(* the header that follows is made unrecognizable.  All that a rollback    *)
(* plays back belongs to the transaction at the head of the journal.       *)
StaleRecordsIgnored ==
  \A c \in Conn : At(c, "record") => pager[c].id = Jfile(c)[1].nonce

(* What pager.c says of READER: no hot journal is in the file system while *)
(* a connection reads, but for the journal of a live writer.               *)
NoHotJournalWhileReading ==
  \A c \in Conn : pager[c].eState = "READER" /\ HotJournal =>
     \E d \in Conn : lock[d] >= RESERVED_LOCK

(* A hot journal left behind by a writer that died or gave up is rolled    *)
(* back in the end, even if recoveries fail and the connections that want  *)
(* to recover get in each other's way.                                     *)
Recovers ==
  (HotJournal /\ \A c \in Conn : lock[c] < RESERVED_LOCK) ~> ~HotJournal
=============================================================================
