-------------------------------- MODULE Backup --------------------------------
(***************************************************************************)
(* backup.c: a copy of a database made a few pages at a time while the     *)
(* source connection and other connections go on writing it.  The pager of *)
(* the source calls sqlite3BackupUpdate() for every page it writes and     *)
(* sqlite3BackupRestart() when it finds that others wrote the file.        *)
(*                                                                         *)
(* A database is the sequence of its pages, a page the number of the       *)
(* transaction that wrote it.  Both databases have the same page size, the *)
(* source is not empty, and neither reaches the pending byte page.         *)
(***************************************************************************)
EXTENDS Naturals, Sequences, FiniteSets

CONSTANTS NPage,      \* bound: pages of the source
          MaxTxn,     \* bound: transactions
          MaxFault    \* bound: failed operations

VARIABLES wal,        \* TRUE: the source is in WAL mode
          file,       \* the source as last committed
          vers,       \* its change counter
          src,        \* the pager of the source connection
          bk,         \* the sqlite3_backup object
          dest,       \* the destination with the open transaction's changes
          destFile,   \* the destination as last committed
          txn, faults

vars == <<wal, file, vers, src, bk, dest, destFile, txn, faults>>

Page == 1 .. NPage

(***************************************************************************)
(* src.trans is the transaction of the source connection, view what its    *)
(* pager reads in it, seen the dbFileVers of its cache, spilled the pages  *)
(* the open transaction already wrote out and orig the pages they had.     *)
(***************************************************************************)
Init ==
  /\ wal \in BOOLEAN
  /\ \E n \in Page : file = [i \in 1 .. n |-> 0]
  /\ vers = 0
  /\ src = [trans |-> "none", seen |-> 0, view |-> file, spilled |-> {}, orig |-> file]
  /\ bk = [iNext |-> 1, isAttached |-> FALSE, rc |-> "OK"]
  /\ dest = <<>>
  /\ destFile = <<>>
  /\ txn = 0
  /\ faults = 0

isFatalError(rc) == rc \notin {"OK", "BUSY"}

-----------------------------------------------------------------------------
\* The callbacks of the source pager.

\* backupOnePage() for a page of the source, growing the destination.
CopyPages(d, from, pages, size) ==
  [i \in 1 .. (IF size > Len(d) THEN size ELSE Len(d)) |->
      IF i \in pages THEN from[i] ELSE IF i \in DOMAIN d THEN d[i] ELSE 0]

\* Mutant: the page copied last is forgotten.
CopiedBefore(pages) == {i \in pages : i + 1 < bk.iNext}
Copied(pages) == {i \in pages : i < bk.iNext}

Highest(s) == IF s = {} THEN 0 ELSE CHOOSE i \in s : \A j \in s : j <= i

(***************************************************************************)
(* sqlite3BackupUpdate() for the pages the source pager writes: those that *)
(* were copied already are copied again.  A failure ends the backup.       *)
(***************************************************************************)
sqlite3BackupUpdate(content, pages) ==
  IF ~bk.isAttached \/ isFatalError(bk.rc) \/ Copied(pages) = {}
  THEN UNCHANGED <<bk, dest, faults>>
  ELSE \/ /\ dest' = CopyPages(dest, content, Copied(pages), Highest(Copied(pages)))
          /\ UNCHANGED <<bk, faults>>
       \/ /\ faults < MaxFault
          /\ faults' = faults + 1
          /\ bk' = [bk EXCEPT !.rc = "ERROR"]
          /\ UNCHANGED dest

sqlite3BackupRestart(b) == IF b.isAttached THEN [b EXCEPT !.iNext = 1] ELSE b

(***************************************************************************)
(* sqlite3PagerSharedLock(): the start of a read transaction compares the  *)
(* change counter with that of the cache and resets the pager, backups     *)
(* included, when another connection has written the file.                 *)
(***************************************************************************)
Stale == src.seen # vers

AfterSharedLock == IF Stale THEN sqlite3BackupRestart(bk) ELSE bk

Opened(trans) ==
  [src EXCEPT !.trans = trans, !.seen = vers, !.view = file, !.orig = file, !.spilled = {}]

-----------------------------------------------------------------------------
\* The source connection and the others.

BeginRead ==
  /\ src.trans = "none"
  /\ src' = Opened("read")
  /\ bk' = AfterSharedLock
  /\ UNCHANGED <<wal, file, vers, dest, destFile, txn, faults>>

\* In WAL mode a reader of an old snapshot may not become a writer.
BeginWrite ==
  /\ txn < MaxTxn
  /\ \/ src.trans = "none"
     \/ src.trans = "read" /\ ~Stale
  /\ txn' = txn + 1
  /\ src' = IF src.trans = "none" THEN Opened("write") ELSE [src EXCEPT !.trans = "write"]
  /\ bk' = IF src.trans = "none" THEN AfterSharedLock ELSE bk
  /\ UNCHANGED <<wal, file, vers, dest, destFile, faults>>

EndRead ==
  /\ src.trans = "read"
  /\ src' = [src EXCEPT !.trans = "none"]
  /\ UNCHANGED <<wal, file, vers, bk, dest, destFile, txn, faults>>

\* pagerStress(): a page of the transaction is written before the commit.
Spill(i) ==
  LET v == IF i \in DOMAIN src.view THEN [src.view EXCEPT ![i] = txn] ELSE Append(src.view, txn)
  IN
  /\ src.trans = "write"
  /\ i \in 1 .. Len(src.view) + 1
  /\ i \notin src.spilled
  /\ src' = [src EXCEPT !.view = v, !.spilled = @ \cup {i}]
  /\ sqlite3BackupUpdate(v, {i})
  /\ UNCHANGED <<wal, file, vers, destFile, txn>>

(***************************************************************************)
(* The commit writes the pages still dirty: page 1 with the change counter *)
(* and every page the transaction adds are among them.  Pages past the new *)
(* end are not written.                                                    *)
(***************************************************************************)
Commit(dirty, n) ==
  LET v == [i \in 1 .. n |-> IF i \in dirty THEN txn ELSE src.view[i]] IN
  /\ src.trans = "write"
  /\ {1} \cup {i \in 1 .. n : i > Len(src.view)} \subseteq dirty
  /\ dirty \subseteq 1 .. n
  /\ file' = v
  /\ vers' = txn
  /\ src' = [src EXCEPT !.trans = "none", !.seen = txn, !.view = v,
                        !.orig = v, !.spilled = {}]
  /\ sqlite3BackupUpdate(v, dirty)
  /\ UNCHANGED <<wal, destFile, txn>>

(***************************************************************************)
(* A rollback plays the spilled pages back from the journal, which updates *)
(* the backups (pager_playback_one_page()); in WAL mode it drops frames    *)
(* and dirty pages and restarts them (pagerUndoCallback()).                *)
(***************************************************************************)
Rollback ==
  /\ src.trans = "write"
  /\ src' = [src EXCEPT !.trans = "none", !.view = src.orig, !.spilled = {}]
  /\ IF wal
     THEN /\ \/ bk' = sqlite3BackupRestart(bk)
             \/ src.spilled = {} /\ UNCHANGED bk
          /\ UNCHANGED <<dest, faults>>
     ELSE sqlite3BackupUpdate(src.orig, src.spilled \cap DOMAIN src.orig)
  /\ UNCHANGED <<wal, file, vers, destFile, txn>>

\* Another connection commits: not while the source holds a lock, except on a log.
ExternalCommit(dirty, n) ==
  /\ txn < MaxTxn
  /\ src.trans = "none" \/ (wal /\ src.trans = "read")
  /\ {1} \cup {i \in 1 .. n : i > Len(file)} \subseteq dirty
  /\ dirty \subseteq 1 .. n
  /\ txn' = txn + 1
  /\ vers' = txn + 1
  /\ file' = [i \in 1 .. n |-> IF i \in dirty THEN txn + 1 ELSE file[i]]
  /\ UNCHANGED <<wal, src, bk, dest, destFile, faults>>

-----------------------------------------------------------------------------
(***************************************************************************)
(* sqlite3_backup_step(), with the locks it takes.  It runs under the      *)
(* mutexes of both connections and of the source b-tree.                   *)
(***************************************************************************)
StepBusy ==
  /\ ~isFatalError(bk.rc)
  /\ bk' = [bk EXCEPT !.rc = "BUSY"]
  /\ UNCHANGED <<wal, file, vers, src, dest, destFile, txn, faults>>

\* After the read transaction is open: copy up to n pages, finish or attach.
sqlite3_backup_step(n) ==
  /\ ~isFatalError(bk.rc)
  /\ src.trans # "write"
  /\ \E s \in {IF src.trans = "none" THEN Opened("read") ELSE src},
        b \in {[(IF src.trans = "none" THEN AfterSharedLock ELSE bk)
                  EXCEPT !.rc = "OK"]} :
        LET size == Len(s.view)
            last == IF b.iNext + n - 1 > size THEN size ELSE b.iNext + n - 1
            next == IF last + 1 > b.iNext THEN last + 1 ELSE b.iNext
            copy == CopyPages(dest, s.view, b.iNext .. last, last)
        IN  /\ src' = [s EXCEPT !.trans = src.trans]
            /\ IF next > size
               THEN /\ dest' = SubSeq(copy, 1, size)
                    /\ destFile' = SubSeq(copy, 1, size)
                    /\ bk' = [b EXCEPT !.iNext = next, !.rc = "DONE"]
               ELSE /\ dest' = copy
                    /\ bk' = [b EXCEPT !.iNext = next, !.isAttached = TRUE]
                    /\ UNCHANGED destFile
  /\ UNCHANGED <<wal, file, vers, txn, faults>>

\* A page cannot be read or written, or the commit of the destination fails.
StepFails ==
  /\ ~isFatalError(bk.rc)
  /\ faults < MaxFault
  /\ faults' = faults + 1
  /\ bk' = [bk EXCEPT !.rc = "ERROR"]
  /\ UNCHANGED <<wal, file, vers, src, dest, destFile, txn>>

(***************************************************************************)
(* sqlite3_backup_finish() detaches the object and rolls the destination   *)
(* back; here the application then starts another backup.                  *)
(***************************************************************************)
sqlite3_backup_finish ==
  /\ bk' = [iNext |-> 1, isAttached |-> FALSE, rc |-> "OK"]
  /\ dest' = destFile
  /\ UNCHANGED <<wal, file, vers, src, destFile, txn, faults>>

-----------------------------------------------------------------------------

Next ==
  \/ BeginRead \/ BeginWrite \/ EndRead \/ Rollback
  \/ \E i \in Page : Spill(i)
  \/ \E dirty \in SUBSET Page, n \in Page : Commit(dirty, n) \/ ExternalCommit(dirty, n)
  \/ \E n \in Page : sqlite3_backup_step(n)
  \/ StepBusy \/ StepFails \/ sqlite3_backup_finish

Spec == Init /\ [][Next]_vars

-----------------------------------------------------------------------------

(***************************************************************************)
(* When sqlite3_backup_step() (backup.c) reports that it is done, the      *)
(* destination holds the source as one read transaction sees it: no page   *)
(* of an older version, of a transaction that was rolled back or past the  *)
(* end, however the source was written between the steps.                  *)
(***************************************************************************)
BackupIsSnapshot ==
  [][bk.rc # "DONE" /\ bk'.rc = "DONE" => destFile' = src'.view]_vars
=============================================================================
