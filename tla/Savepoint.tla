----------------------------- MODULE Savepoint -----------------------------
(***************************************************************************)
(* pager.c: savepoints within a write transaction of a rollback-journal    *)
(* pager.  The content a page had when a savepoint was opened is in the    *)
(* main journal, if the page was first changed later, or in the            *)
(* sub-journal, or still in the cache or in the file; ROLLBACK TO has to   *)
(* find it, and must not put at risk what the main journal protects.       *)
(*                                                                         *)
(* The caller is the b-tree: it changes page 1 along with every page it    *)
(* allocates or frees, does not care for the content of a free page, and   *)
(* moves the last page of the file in an incremental vacuum.  One          *)
(* connection, no I/O errors: those are the subject of module Pager.       *)
(***************************************************************************)
EXTENDS Integers, SequencesExt

CONSTANTS MaxPage,       \* bound: pages of the file
          InitFiles,     \* the initial files tried: their size and their free pages
          MaxOps,        \* bound: operations of the b-tree
          MaxSavepoint,  \* bound: open savepoints
          MaxSpill,      \* bound: pages spilled in a transaction
          Sectors        \* pages per sector that are tried

VARIABLES perSector,     \* sectorSize/pageSize
          bt,            \* what the b-tree takes the pages to hold, and BtShared
          pager,         \* struct Pager, its page cache and its journals
          file,          \* the database file
          txn            \* the transaction: what it found, what it wrote

vars == <<perSector, bt, pager, file, txn>>

Page == 1 .. MaxPage
Free == 0        \* content of a free page, which nobody reads
Zero == 0        \* content of a page the file does not have

NoPage == [in |-> FALSE, data |-> 0, dirty |-> FALSE, needSync |-> FALSE, dontWrite |-> FALSE]
Clean(data) == [NoPage EXCEPT !.in = TRUE, !.data = data]

\* Slots of the main journal.
Hdr(n) == [hdr |-> TRUE, nRec |-> n, pgno |-> 0, data |-> 0]
Rec(p, data) == [hdr |-> FALSE, nRec |-> 0, pgno |-> p, data |-> data]

Idle(cache, size) ==
  [eState |-> "locked", dbSize |-> size, dbOrigSize |-> size, cache |-> cache,
   inJournal |-> {}, journal |-> <<>>, journalHdr |-> 0, nRec |-> 0,
   sub |-> <<>>, savepoint |-> <<>>]

Found(image, size, ended) ==
  [image |-> image, nPage |-> size, wrote |-> {}, spills |-> 0, ended |-> ended]

\* Page 1 is in use throughout, the others are in use or free.
Init ==
  /\ perSector \in Sectors
  /\ \E init \in InitFiles :
       LET image == [p \in Page |-> IF p \in init.free \/ p > init.size THEN Free ELSE 1]
       IN  /\ bt = [image |-> image, nPage |-> init.size, ops |-> 1, bDoTruncate |-> FALSE,
                    hasContent |-> [size |-> 0, bits |-> {}]]
           /\ file = [p \in Page |-> IF p > init.size THEN Zero ELSE 1]
           /\ pager = Idle([p \in Page |-> IF p = 1 THEN Clean(1) ELSE NoPage], init.size)
           /\ txn = Found(image, init.size, FALSE)

-----------------------------------------------------------------------------
\* The pager's functions take a pager s, and write to the file where f is part of the result.

subjRequiresPage(s, p) ==
  \E i \in DOMAIN s.savepoint : s.savepoint[i].nOrig >= p /\ p \notin s.savepoint[i].inSavepoint

addToSavepointBitvecs(s, p) ==
  [s EXCEPT !.savepoint = [i \in DOMAIN @ |->
     IF p <= @[i].nOrig THEN [@[i] EXCEPT !.inSavepoint = @ \cup {p}] ELSE @[i]]]

subjournalPage(s, p) ==
  addToSavepointBitvecs([s EXCEPT !.sub = Append(@, Rec(p, s.cache[p].data))], p)

SubjournalIfRequired(s, p) == IF subjRequiresPage(s, p) THEN subjournalPage(s, p) ELSE s

\* A page the caller will overwrite counts as journaled although no journal has it.
PassOver(s, p) ==
  LET marked == p <= s.dbOrigSize /\ s.eState # "locked"
  IN  addToSavepointBitvecs([s EXCEPT !.inJournal = IF marked THEN @ \cup {p} ELSE @], p)

sqlite3PagerAcquire(s, f, p, noContent) ==
  CASE s.cache[p].in /\ ~noContent -> s
    [] noContent -> [PassOver(s, p) EXCEPT !.cache[p].in = TRUE, !.cache[p].data = Zero]
    [] OTHER -> [s EXCEPT !.cache[p] = Clean(IF s.dbSize < p THEN Zero ELSE f[p])]

sqlite3PcacheMakeDirty(s, p) ==
  [s EXCEPT !.cache[p].dirty = TRUE, !.cache[p].dontWrite = FALSE]

\* A savepoint opened since the last header learns where its first segment ends.
writeJournalHdr(s) ==
  [s EXCEPT !.savepoint = [i \in DOMAIN @ |->
               IF @[i].iHdrOffset = 0 THEN [@[i] EXCEPT !.iHdrOffset = Len(s.journal)] ELSE @[i]],
            !.journalHdr = Len(s.journal),
            !.journal = Append(@, Hdr(0)),
            !.nRec = 0]

pager_open_journal(s) ==
  IF s.eState = "locked" THEN [writeJournalHdr(s) EXCEPT !.eState = "cachemod", !.inJournal = {}]
  ELSE s

\* The page goes to the main journal if the transaction found it, else it is an appended one.
JournalPage(s, p) ==
  CASE p \in s.inJournal -> s
    [] p <= s.dbOrigSize ->
         addToSavepointBitvecs(
           [s EXCEPT !.journal = Append(@, Rec(p, s.cache[p].data)), !.nRec = @ + 1,
                     !.inJournal = @ \cup {p}, !.cache[p].needSync = TRUE], p)
    [] OTHER -> IF s.eState # "dbmod" THEN [s EXCEPT !.cache[p].needSync = TRUE] ELSE s

pager_write(s, p) ==
  LET journaled == JournalPage(sqlite3PcacheMakeDirty(pager_open_journal(s), p), p)
      saved == SubjournalIfRequired(journaled, p)
  IN  [saved EXCEPT !.dbSize = IF @ < p THEN p ELSE @]

SectorOf(p) ==
  LET pg1 == ((p - 1) \div perSector) * perSector + 1
  IN  pg1 .. pg1 + perSector - 1

\* The pages of the sector up to the end of the file, or up to an appended page.
CoResident(s, p) == {q \in SectorOf(p) : q <= IF p > s.dbSize THEN p ELSE s.dbSize}

sqlite3PagerWrite(s, f, p) ==
  LET pages == CoResident(s, p)
      one(t, q) == IF q = p \/ q \notin t.inJournal
                   THEN pager_write(sqlite3PagerAcquire(t, f, q, FALSE), q) ELSE t
      all == FoldLeft(one, s, SetToSortSeq(pages, <))
      needSync == \E q \in pages : all.cache[q].in /\ all.cache[q].needSync
  IN  IF perSector = 1 THEN pager_write(s, p)
      ELSE [all EXCEPT !.cache = [q \in Page |->
              IF needSync /\ q \in pages /\ @[q].in THEN [@[q] EXCEPT !.needSync = TRUE] ELSE @[q]]]

sqlite3PagerDontWrite(s, p) ==
  IF s.cache[p].dirty /\ s.savepoint = <<>> THEN [s EXCEPT !.cache[p].dontWrite = TRUE] ELSE s

sqlite3PcacheClearSyncFlags(s) ==
  [s EXCEPT !.cache = [p \in Page |-> IF @[p].dirty THEN [@[p] EXCEPT !.needSync = FALSE] ELSE @[p]]]

syncJournal(s, newHdr) ==
  LET counted == [s EXCEPT !.journal[s.journalHdr + 1].nRec = s.nRec]
      synced == IF newHdr THEN writeJournalHdr(counted)
                ELSE [counted EXCEPT !.journalHdr = Len(s.journal)]
  IN  [sqlite3PcacheClearSyncFlags(synced) EXCEPT !.eState = "dbmod"]

\* The dirty pages of the set that pager_write_pagelist() does not skip.
Stored(s, pages) ==
  {p \in pages : s.cache[p].dirty /\ p <= s.dbSize /\ ~s.cache[p].dontWrite}

pager_write_pagelist(s, f, pages) ==
  [p \in Page |-> IF p \in Stored(s, pages) THEN s.cache[p].data ELSE f[p]]

-----------------------------------------------------------------------------
(***************************************************************************)
(* Rollback to a savepoint.  r holds the pager, the file, the pages that   *)
(* have been played back and those written to the file.                    *)
(***************************************************************************)

\* Mutant: a record of the sub-journal is written to the file at once (ticket #1171).
IsSyncedSub(s, p, end, isMainJrnl) == ~isMainJrnl \/ end <= s.journalHdr

\* What the main journal protects the page with is on disk.
IsSynced(s, p, end, isMainJrnl) ==
  IF isMainJrnl THEN end <= s.journalHdr ELSE ~s.cache[p].in \/ ~s.cache[p].needSync

\* A page restored from an unsynced record stays dirty, and with it its need for a sync.
RestoredClean(s, end, isMainJrnl, isSavepnt) ==
  isMainJrnl /\ (~isSavepnt \/ end <= s.journalHdr)

\* end is the offset after the record; done is empty throughout without a savepoint.
pager_playback_one_page(r, rec, end, isMainJrnl, isSavepnt) ==
  LET s == r.s
      p == rec.pgno
      toFile == s.eState \in {"dbmod", "finished"} /\ IsSynced(s, p, end, isMainJrnl)
      add == ~toFile /\ ~isMainJrnl /\ ~s.cache[p].in
      t == IF add THEN sqlite3PcacheMakeDirty(sqlite3PagerAcquire(s, r.f, p, TRUE), p) ELSE s
      clean == RestoredClean(s, end, isMainJrnl, isSavepnt)
  IN  IF p > s.dbSize \/ p \in r.done THEN r
      ELSE [s |-> IF ~t.cache[p].in THEN t
                  ELSE [t EXCEPT !.cache[p] = IF clean THEN Clean(rec.data)
                                              ELSE [@ EXCEPT !.data = rec.data]],
            f |-> IF toFile THEN [r.f EXCEPT ![p] = rec.data] ELSE r.f,
            done |-> r.done \cup {p},
            wrote |-> IF toFile THEN r.wrote \cup {p} ELSE r.wrote]

\* A header but the last one tells how many records follow it.
InSegment(s, i) ==
  LET h == CHOOSE j \in 1 .. i : s.journal[j].hdr /\ \A k \in j + 1 .. i : ~s.journal[k].hdr
  IN  h - 1 = s.journalHdr \/ i - h <= s.journal[h].nRec

\* Records up to iHdrOffset are read without looking for headers, later ones by segment.
MainRecords(s, iOffset, iHdrOff) ==
  {i \in iOffset + 1 .. Len(s.journal) :
     ~s.journal[i].hdr /\ (i <= iHdrOff \/ InSegment(s, i))}

pagerPlaybackSavepoint(s0, f0, sp, whole) ==
  LET s == [s0 EXCEPT !.dbSize = IF whole THEN s0.dbOrigSize ELSE sp.nOrig]
      iHdrOff == IF sp.iHdrOffset > 0 THEN sp.iHdrOffset ELSE Len(s.journal)
      main == IF whole THEN MainRecords(s, 0, 0) ELSE MainRecords(s, sp.iOffset, iHdrOff)
      r0 == [s |-> s, f |-> f0, done |-> {}, wrote |-> txn.wrote]
      r1 == FoldLeft(LAMBDA r, i : pager_playback_one_page(r, s.journal[i], i, TRUE, TRUE),
                     r0, SetToSortSeq(main, <))
  IN  IF whole THEN r1
      ELSE FoldLeft(LAMBDA r, rec : pager_playback_one_page(r, rec, 0, FALSE, TRUE),
                    r1, SubSeq(s.sub, sp.iSubRec + 1, Len(s.sub)))

-----------------------------------------------------------------------------
\* The operations of the b-tree.  The n-th operation writes n into the pages it changes.

btreeGetHasContent(p) ==
  bt.hasContent.size > 0 /\ (p > bt.hasContent.size \/ p \in bt.hasContent.bits)

HasContentSet(p) ==
  LET size == IF bt.hasContent.size = 0 THEN bt.nPage ELSE bt.hasContent.size
  IN  [size |-> size, bits |-> bt.hasContent.bits \cup ({p} \cap 1 .. size)]

Stamp == bt.ops + 1

Change(s, p) == [sqlite3PagerWrite(s, file, p) EXCEPT !.cache[p].data = Stamp]

\* Page 1 holds the size of the file and the head of the free-list.
HeaderChanged == Change(pager, 1)

Used(p) == p <= bt.nPage /\ bt.image[p] # Free
OnFreeList(p) == p \in 2 .. bt.nPage /\ bt.image[p] = Free

\* Bounds: one transaction of MaxOps - 1 operations.
Busy == pager.eState # "finished" /\ bt.ops < MaxOps /\ ~txn.ended

Write(p) ==
  /\ Busy /\ Used(p)
  /\ pager' = Change(sqlite3PagerAcquire(pager, file, p, FALSE), p)
  /\ bt' = [bt EXCEPT !.image[p] = Stamp, !.ops = Stamp]
  /\ UNCHANGED <<perSector, file, txn>>

\* allocateBtreePage() hands out a leaf of the free-list.
Taken(s, p) == sqlite3PagerWrite(sqlite3PagerAcquire(s, file, p, ~btreeGetHasContent(p)), file, p)

AllocateFree(p) ==
  /\ Busy /\ OnFreeList(p)
  /\ pager' = [Taken(HeaderChanged, p) EXCEPT !.cache[p].data = Stamp]
  /\ bt' = [bt EXCEPT !.image[1] = Stamp, !.image[p] = Stamp, !.ops = Stamp]
  /\ UNCHANGED <<perSector, file, txn>>

\* allocateBtreePage() extends the file.
AllocateNew ==
  /\ Busy /\ bt.nPage < MaxPage
  /\ LET p == bt.nPage + 1
     IN  /\ pager' = Change(sqlite3PagerAcquire(HeaderChanged, file, p, ~bt.bDoTruncate), p)
         /\ bt' = [bt EXCEPT !.image[1] = Stamp, !.image[p] = Stamp, !.ops = Stamp, !.nPage = p]
  /\ UNCHANGED <<perSector, file, txn>>

\* freePage2(): the page becomes a leaf of the free-list.
FreeLeaf(p) ==
  /\ Busy /\ Used(p) /\ p > 1
  /\ pager' = sqlite3PagerDontWrite(HeaderChanged, p)
  /\ bt' = [bt EXCEPT !.image[1] = Stamp, !.image[p] = Free, !.ops = Stamp,
                      !.hasContent = HasContentSet(p)]
  /\ UNCHANGED <<perSector, file, txn>>

\* Mutant: the page moves with its changes.
MovedUnsaved(s, p) == s

\* A page that was changed is saved before it moves.
SavedBeforeMove(s, p) == IF s.cache[p].dirty THEN SubjournalIfRequired(s, p) ELSE s

\* The journal still has to be synced before the old place of the page is written to.
sqlite3PagerMovepage(s, f, p, q) ==
  LET saved == SavedBeforeMove(s, p)
      needSync == saved.cache[p].needSync
      moved == [saved EXCEPT !.cache[p] = NoPage,
                             !.cache[q] = [Clean(s.cache[p].data) EXCEPT
                                             !.dirty = TRUE, !.needSync = s.cache[q].needSync]]
      back == sqlite3PcacheMakeDirty(sqlite3PagerAcquire(moved, f, p, FALSE), p)
  IN  IF needSync THEN [back EXCEPT !.cache[p].needSync = TRUE] ELSE moved

\* incrVacuumStep(): the last page is free, or moves to a free one; page 1 has the pointer to it.
IncrVacuum ==
  /\ Busy /\ bt.nPage > 2
  /\ LET last == bt.nPage
         b == [bt EXCEPT !.image[1] = Stamp, !.image[last] = Free, !.ops = Stamp,
                         !.nPage = last - 1, !.bDoTruncate = TRUE]
     IN  \/ /\ OnFreeList(last)
            /\ pager' = Taken(HeaderChanged, last)
            /\ bt' = b
         \/ /\ Used(last)
            /\ \E q \in 2 .. last - 1 :
                 /\ OnFreeList(q)
                 /\ pager' = sqlite3PagerMovepage(
                               Taken(sqlite3PagerAcquire(HeaderChanged, file, last, FALSE), q),
                               file, last, q)
                 /\ bt' = [b EXCEPT !.image[q] = bt.image[last]]
  /\ UNCHANGED <<perSector, file, txn>>

-----------------------------------------------------------------------------
\* The page cache wants room.  Page 1 is referenced throughout.

Evict(p) ==
  /\ p > 1 /\ pager.cache[p].in /\ ~pager.cache[p].dirty /\ Busy
  /\ pager' = [pager EXCEPT !.cache[p] = NoPage]
  /\ UNCHANGED <<perSector, bt, file, txn>>

pagerStress(p) ==
  /\ p > 1 /\ pager.cache[p].dirty /\ pager.eState # "finished"
  /\ txn.spills < MaxSpill
  /\ LET sync == pager.cache[p].needSync \/ pager.eState = "cachemod"
         s == IF sync THEN syncJournal(pager, TRUE) ELSE pager
     IN  /\ file' = pager_write_pagelist(s, file, {p})
         /\ pager' = [s EXCEPT !.cache[p] = Clean(@.data)]
         /\ txn' = [txn EXCEPT !.wrote = @ \cup Stored(s, {p}), !.spills = @ + 1]
  /\ UNCHANGED <<perSector, bt>>

-----------------------------------------------------------------------------
\* Savepoints.

\* image and nPage are what the b-tree sees now.
sqlite3PagerOpenSavepoint ==
  /\ Busy /\ Len(pager.savepoint) < MaxSavepoint
  /\ LET off == IF pager.journal = <<>> THEN 1 ELSE Len(pager.journal)
         sp == [nOrig |-> pager.dbSize, iOffset |-> off, iHdrOffset |-> 0,
                iSubRec |-> Len(pager.sub), inSavepoint |-> {},
                image |-> bt.image, nPage |-> bt.nPage]
     IN  pager' = [pager EXCEPT !.savepoint = Append(@, sp)]
  /\ bt' = [bt EXCEPT !.ops = Stamp]
  /\ UNCHANGED <<perSector, file, txn>>

\* Savepoint k and those above it are gone; without any, the sub-journal starts anew.
SavepointRelease(k) ==
  /\ Busy
  /\ pager' = [pager EXCEPT !.savepoint = SubSeq(@, 1, k - 1), !.sub = IF k = 1 THEN <<>> ELSE @]
  /\ bt' = [bt EXCEPT !.ops = Stamp]
  /\ UNCHANGED <<perSector, file, txn>>

\* Savepoint k stays open; k = 0 is the savepoint that began the transaction.
SavepointRollback(k) ==
  /\ Busy
  /\ LET kept == [pager EXCEPT !.savepoint = SubSeq(@, 1, k)]
         sp == IF k = 0 THEN [nOrig |-> 0, iHdrOffset |-> 0] ELSE pager.savepoint[k]
         back == IF k = 0 THEN txn ELSE sp
         r == IF kept.eState = "locked"
              THEN [s |-> kept, f |-> file, wrote |-> txn.wrote]
              ELSE pagerPlaybackSavepoint(kept, file, sp, k = 0)
     IN  /\ pager' = r.s
         /\ file' = r.f
         /\ txn' = [txn EXCEPT !.wrote = r.wrote]
         /\ bt' = [bt EXCEPT !.image = back.image, !.nPage = back.nPage, !.ops = Stamp]
  /\ UNCHANGED perSector

-----------------------------------------------------------------------------
\* The end of the transaction.

CommitPhaseOne ==
  /\ pager.eState \in {"cachemod", "dbmod"}
  /\ LET resized == [pager EXCEPT !.dbSize = IF bt.bDoTruncate THEN bt.nPage ELSE @]
         s == syncJournal(sqlite3PagerWrite(resized, file, 1), FALSE)
     IN  /\ file' = pager_write_pagelist(s, file, Page)
         /\ txn' = [txn EXCEPT !.wrote = @ \cup Stored(s, Page)]
         /\ pager' = [s EXCEPT !.eState = "finished",
                               !.cache = [p \in Page |-> IF @[p].in THEN Clean(@[p].data) ELSE NoPage]]
  /\ UNCHANGED <<perSector, bt>>

Truncated(f, size) == [p \in Page |-> IF p <= size THEN f[p] ELSE Zero]

\* pager_end_transaction(), with the b-tree's part of it.
Ended(s, b) ==
  LET kept == [p \in Page |-> IF s.cache[p].in /\ p <= s.dbSize THEN Clean(s.cache[p].data) ELSE NoPage]
  IN  /\ pager' = Idle(kept, s.dbSize)
      /\ bt' = [b EXCEPT !.bDoTruncate = FALSE, !.hasContent = [size |-> 0, bits |-> {}]]
      /\ txn' = Found(b.image, b.nPage, TRUE)

CommitPhaseTwo ==
  /\ pager.eState = "finished"
  /\ Ended(pager, bt)
  /\ file' = Truncated(file, pager.dbSize)
  /\ UNCHANGED perSector

pager_playback ==
  LET s == [pager EXCEPT !.dbSize = pager.dbOrigSize]
  IN  FoldLeft(LAMBDA r, i : [pager_playback_one_page(r, s.journal[i], i, TRUE, FALSE) EXCEPT !.done = {}],
               [s |-> s, f |-> IF s.eState \in {"locked", "cachemod"} THEN file ELSE Truncated(file, s.dbSize),
                done |-> {}, wrote |-> {}],
               SetToSortSeq(MainRecords(s, 0, 0), <))

sqlite3PagerRollback ==
  /\ ~txn.ended
  /\ LET r == pager_playback
     IN  /\ Ended(r.s, [bt EXCEPT !.image = txn.image, !.nPage = txn.nPage])
         /\ file' = r.f
  /\ UNCHANGED perSector

\* The bound of one transaction is reached.
Finished == txn.ended /\ UNCHANGED vars

Next ==
  \/ \E p \in Page : Write(p) \/ AllocateFree(p) \/ FreeLeaf(p) \/ Evict(p) \/ pagerStress(p)
  \/ AllocateNew \/ IncrVacuum
  \/ sqlite3PagerOpenSavepoint
  \/ \E k \in DOMAIN pager.savepoint : SavepointRelease(k)
  \/ \E k \in 0 .. Len(pager.savepoint) : SavepointRollback(k)
  \/ CommitPhaseOne \/ CommitPhaseTwo \/ sqlite3PagerRollback
  \/ Finished

Spec == Init /\ [][Next]_vars

-----------------------------------------------------------------------------

\* A page is read from the cache and, unless it is dirty there, from the file once it is evicted.
Reads(p) ==
  (IF pager.cache[p].in THEN {pager.cache[p].data} ELSE {})
    \cup (IF pager.cache[p].dirty THEN {} ELSE {file[p]})

(***************************************************************************)
(* The b-tree finds in every page what it last wrote there or, after       *)
(* ROLLBACK TO, ROLLBACK and COMMIT, what belongs there then, wherever     *)
(* spills, evictions and moves have left it (pagerPlaybackSavepoint(),     *)
(* subjRequiresPage(), sqlite3PagerMovepage()).                            *)
(***************************************************************************)
SavepointsRestore ==
  \A p \in 1 .. bt.nPage : bt.image[p] # Free => Reads(p) = {bt.image[p]}

(***************************************************************************)
(* A sector of the file that was written to in the transaction, by a spill *)
(* or by a rollback to a savepoint, is protected: what the transaction     *)
(* found in its pages is in the synced part of the main journal (ticket    *)
(* #1171 in pager_playback_one_page()).                                    *)
(***************************************************************************)
OriginalsOnDisk ==
  \A p \in 1 .. txn.nPage :
    txn.image[p] # Free /\ txn.wrote \cap SectorOf(p) # {} =>
      \E i \in 1 .. pager.journalHdr : pager.journal[i] = Rec(p, txn.image[p])
=============================================================================
