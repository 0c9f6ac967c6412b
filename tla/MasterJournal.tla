---------------------------- MODULE MasterJournal ----------------------------
(***************************************************************************)
(* The commit of one transaction in several database files: vdbeCommit()   *)
(* with its master journal, the two phases of every pager's commit, the    *)
(* rollback when a step fails, and the recovery of each file by whichever  *)
(* process comes next (the master journal part of pager_playback(), and    *)
(* pager_delmaster()).                                                     *)
(*                                                                         *)
(* What one rollback journal does for one file is the business of module   *)
(* Pager.  Here a file holds the number of the transaction it was last     *)
(* written by, or Torn when some of its pages are newer than others; a     *)
(* rollback journal holds the number to go back to and the name of a       *)
(* master journal.  A master journal is named after its transaction: the   *)
(* code takes 32 random bits and retries while the name exists.            *)
(*                                                                         *)
(* disk is what the operating system shows, may the set of states in which *)
(* a power loss could leave each file: a write or a deletion adds to it, a *)
(* sync leaves one state.  A master journal in unsynced was deleted to     *)
(* commit, with no sync of its directory: it may come back as well.        *)
(***************************************************************************)
EXTENDS Integers, FiniteSets

CONSTANTS NFile,      \* database files of the transaction, in aDb[] order
          Proc,       \* the processes
          MaxTxn,     \* bound: transactions begun
          MaxFault    \* bound: crashes, power losses and failed operations

VARIABLES disk,       \* the files as the operating system shows them
          may,        \* the files as a power loss may leave them
          lock,       \* lock[f][p]: the level p holds on database file f
          pc,         \* where each process is
          txn,        \* transactions begun
          done,       \* the last transaction whose commit was reported
          faults,
          unsynced,   \* the commits whose directory sync did not happen
          undone      \* history: a power loss has undone such a commit

commits == <<unsynced, undone>>
vars == <<disk, may, lock, pc, txn, done, faults, commits>>

File == 1 .. NFile
Torn == -1
None == 0                                    \* no master journal

NO_LOCK == 0
SHARED_LOCK == 1
RESERVED_LOCK == 2
EXCLUSIVE_LOCK == 4

Locks(f) == INSTANCE FileLock WITH Conn <- Proc, lock <- lock[f]

NoJournal == [open |-> FALSE, orig |-> 0, master |-> None]
Journal(orig, m) == [open |-> TRUE, orig |-> orig, master |-> m]

Idle == [at |-> "idle", txn |-> 0, f |-> 1, master |-> None, left |-> {}]

Init ==
  /\ disk = [db |-> [f \in File |-> 0],
             journal |-> [f \in File |-> NoJournal],
             master |-> [m \in 1 .. MaxTxn |-> {}]]
  /\ may = [db |-> [f \in File |-> {0}],
            journal |-> [f \in File |-> {NoJournal}],
            master |-> [m \in 1 .. MaxTxn |-> {{}}]]
  /\ lock = [f \in File |-> [p \in Proc |-> NO_LOCK]]
  /\ pc = [p \in Proc |-> Idle]
  /\ txn = 0
  /\ done = 0
  /\ faults = 0
  /\ unsynced = {}
  /\ undone = FALSE

-----------------------------------------------------------------------------
\* Files and locks.

Write(kind, x, v, outcomes) ==
  /\ disk' = [disk EXCEPT ![kind][x] = v]
  /\ may' = [may EXCEPT ![kind][x] = @ \cup outcomes]

\* Pages written over themselves cannot be torn.
WriteDb(f, v) == Write("db", f, v, IF may.db[f] = {v} THEN {} ELSE {v, Torn})
WriteJournal(f, v) == Write("journal", f, v, {v})

Sync(kind, x) ==
  /\ may' = [may EXCEPT ![kind][x] = {disk[kind][x]}]
  /\ UNCHANGED disk

\* A write followed by a sync: only the result can survive.
WriteAndSync(kind, x, v) ==
  /\ disk' = [disk EXCEPT ![kind][x] = v]
  /\ may' = [may EXCEPT ![kind][x] = {v}]

MasterExists(m) == disk.master[m] # {}

SetLock(p, f, l) == lock' = [lock EXCEPT ![f][p] = l]

Goto(p, at) == pc' = [pc EXCEPT ![p].at = at]

Holds(p, l) == \A f \in File : lock[f][p] = l

-----------------------------------------------------------------------------
(***************************************************************************)
(* sqlite3PagerSharedLock(): a journal nobody has reserved the file for is *)
(* played back under an EXCLUSIVE lock, and if that lock is refused the    *)
(* SHARED lock is given up.                                                *)
(***************************************************************************)
Access(p, f) ==
  /\ pc[p].at = "idle"
  /\ lock[f][p] = NO_LOCK
  /\ Locks(f)!MayHold(p, SHARED_LOCK)
  /\ LET hot == /\ disk.journal[f].open
                /\ \A q \in Proc : lock[f][q] < RESERVED_LOCK
     IN  IF hot
         THEN /\ Locks(f)!MayHold(p, EXCLUSIVE_LOCK)
              /\ SetLock(p, f, EXCLUSIVE_LOCK)
              /\ pc' = [pc EXCEPT ![p] = [Idle EXCEPT !.at = "playback", !.f = f]]
              /\ Sync("journal", f)
         ELSE /\ SetLock(p, f, SHARED_LOCK)
              /\ UNCHANGED <<pc, disk, may>>
  /\ UNCHANGED <<txn, done, faults, commits>>

\* The end of a read transaction.
Release(p, f) ==
  /\ pc[p].at = "idle"
  /\ lock[f][p] = SHARED_LOCK
  /\ SetLock(p, f, NO_LOCK)
  /\ UNCHANGED <<disk, may, pc, txn, done, faults, commits>>

-----------------------------------------------------------------------------
\* The playback of the journal of file pc[p].f, hot or of p's own.

\* A journal whose master journal is gone belongs to a committed transaction.
Restores(f) ==
  \/ disk.journal[f].master = None
  \/ MasterExists(disk.journal[f].master)

pager_playback(p) ==
  LET f == pc[p].f IN
  /\ pc[p].at = "playback"
  /\ IF Restores(f)
     THEN /\ WriteDb(f, disk.journal[f].orig)
          /\ pc' = [pc EXCEPT ![p].at = "sync", ![p].master = disk.journal[f].master]
     ELSE /\ UNCHANGED <<disk, may>>
          /\ pc' = [pc EXCEPT ![p].at = "sync", ![p].master = None]
  /\ UNCHANGED <<lock, txn, done, faults, commits>>

PlaybackSync(p) ==
  /\ pc[p].at = "sync"
  /\ Sync("db", pc[p].f)
  /\ Goto(p, "end")
  /\ UNCHANGED <<lock, txn, done, faults, commits>>

(***************************************************************************)
(* Where a process goes once file f is rolled back: to the next file of    *)
(* its own transaction (sqlite3RollbackAll()), or back to its caller.      *)
(***************************************************************************)
RolledBack(p, f) ==
  pc' = [pc EXCEPT ![p] =
           IF pc[p].txn > 0 /\ f < NFile
           THEN [pc[p] EXCEPT !.at = "playback", !.f = f + 1, !.master = None, !.left = {}]
           ELSE Idle]

\* pager_end_transaction(): the journal is finalized, the lock lowered.
EndPlayback(p) ==
  LET f == pc[p].f IN
  /\ pc[p].at = "end"
  /\ WriteJournal(f, NoJournal)
  /\ SetLock(p, f, SHARED_LOCK)
  /\ IF pc[p].master = None THEN RolledBack(p, f) ELSE Goto(p, "delmaster")
  /\ UNCHANGED <<txn, done, faults, commits>>

(***************************************************************************)
(* pager_delmaster(): read the list of journals, look for one that still   *)
(* names this master journal, and delete the master journal if there is    *)
(* none.  Another process may do the same at the same time; a master       *)
(* journal found missing is an error, which unlocks the file.              *)
(***************************************************************************)
pager_delmaster(p) ==
  LET m == pc[p].master IN
  /\ pc[p].at = "delmaster"
  /\ IF MasterExists(m)
     THEN /\ pc' = [pc EXCEPT ![p].at = "children", ![p].left = disk.master[m]]
          /\ UNCHANGED lock
     ELSE /\ RolledBack(p, pc[p].f)
          /\ SetLock(p, pc[p].f, NO_LOCK)
  /\ UNCHANGED <<disk, may, txn, done, faults, commits>>

NamesMaster(f, m) == disk.journal[f].open /\ disk.journal[f].master = m

DelmasterCheck(p) ==
  /\ pc[p].at = "children"
  /\ \E f \in pc[p].left :
        /\ \A g \in pc[p].left : f <= g
        /\ IF NamesMaster(f, pc[p].master)
           THEN RolledBack(p, pc[p].f)
           ELSE pc' = [pc EXCEPT ![p].left = @ \ {f}]
  /\ UNCHANGED <<disk, may, lock, txn, done, faults, commits>>

DelmasterDelete(p) ==
  /\ pc[p].at = "children"
  /\ pc[p].left = {}
  /\ Write("master", pc[p].master, {}, {{}})
  /\ RolledBack(p, pc[p].f)
  /\ IF MasterExists(pc[p].master)
     THEN UNCHANGED lock
     ELSE SetLock(p, pc[p].f, NO_LOCK)
  /\ UNCHANGED <<txn, done, faults, commits>>

-----------------------------------------------------------------------------
\* A transaction on every file, up to its commit.

\* The first write of a file: a RESERVED lock and a journal.
Begin(p, f) ==
  /\ pc[p].at = "idle" \/ (pc[p].at = "write" /\ pc[p].f = f)
  /\ IF pc[p].at = "idle" THEN f = 1 /\ txn < MaxTxn /\ Holds(p, SHARED_LOCK) ELSE f > 1
  /\ Locks(f)!MayHold(p, RESERVED_LOCK)
  /\ SetLock(p, f, RESERVED_LOCK)
  /\ WriteJournal(f, Journal(disk.db[f], None))
  /\ LET t == IF f = 1 THEN txn + 1 ELSE pc[p].txn
     IN  /\ pc' = [pc EXCEPT ![p] = [Idle EXCEPT !.at = IF f < NFile THEN "write" ELSE "commit",
                                                 !.txn = t,
                                                 !.f = IF f < NFile THEN f + 1 ELSE 1]]
         /\ txn' = IF f = 1 THEN t ELSE txn
  /\ UNCHANGED <<done, faults, commits>>

(***************************************************************************)
(* pagerStress(): the cache is full and a page goes to the file before the *)
(* commit, once its journal is synced.                                     *)
(***************************************************************************)
Spill(p, f) ==
  /\ pc[p].at = "commit"
  /\ lock[f][p] = EXCLUSIVE_LOCK
  /\ disk.db[f] # Torn
  /\ disk' = [disk EXCEPT !.db[f] = Torn]
  /\ may' = [may EXCEPT !.db[f] = @ \cup {Torn},
                        !.journal[f] = {disk.journal[f]}]
  /\ UNCHANGED <<lock, pc, txn, done, faults, commits>>

\* vdbeCommit() first takes the EXCLUSIVE lock of every file.
ExclusiveLock(p, f) ==
  /\ pc[p].at = "commit"
  /\ lock[f][p] = RESERVED_LOCK
  /\ \A g \in 1 .. f - 1 : lock[g][p] = EXCLUSIVE_LOCK
  /\ Locks(f)!MayHold(p, EXCLUSIVE_LOCK)
  /\ SetLock(p, f, EXCLUSIVE_LOCK)
  /\ UNCHANGED <<disk, may, pc, txn, done, faults, commits>>

CreateMaster(p) ==
  /\ pc[p].at = "commit"
  /\ Holds(p, EXCLUSIVE_LOCK)
  /\ Write("master", pc[p].txn, File, {File})
  /\ Goto(p, "master")
  /\ UNCHANGED <<lock, txn, done, faults, commits>>

\* Mutant: the master journal is named before it is safe on disk.
MasterUnsynced(p) ==
  /\ pc[p].at = "master"
  /\ Goto(p, "name")
  /\ UNCHANGED <<disk, may, lock, txn, done, faults, commits>>

SyncMaster(p) ==
  /\ pc[p].at = "master"
  /\ Sync("master", pc[p].txn)
  /\ Goto(p, "name")
  /\ UNCHANGED <<lock, txn, done, faults, commits>>

-----------------------------------------------------------------------------
\* sqlite3PagerCommitPhaseOne(), for the files in turn.

writeMasterJournal(p) ==
  LET f == pc[p].f IN
  /\ pc[p].at = "name"
  /\ WriteJournal(f, [disk.journal[f] EXCEPT !.master = pc[p].txn])
  /\ Goto(p, "syncJournal")
  /\ UNCHANGED <<lock, txn, done, faults, commits>>

syncJournal(p) ==
  /\ pc[p].at = "syncJournal"
  /\ Sync("journal", pc[p].f)
  /\ Goto(p, "pages")
  /\ UNCHANGED <<lock, txn, done, faults, commits>>

pager_write_pagelist(p) ==
  /\ pc[p].at = "pages"
  /\ WriteDb(pc[p].f, pc[p].txn)
  /\ Goto(p, "syncDb")
  /\ UNCHANGED <<lock, txn, done, faults, commits>>

PhaseOneEnd(p) ==
  LET f == pc[p].f IN
  /\ pc[p].at = "syncDb"
  /\ Sync("db", f)
  /\ pc' = [pc EXCEPT ![p].at = IF f < NFile THEN "name" ELSE "delete",
                      ![p].f = IF f < NFile THEN f + 1 ELSE 1]
  /\ UNCHANGED <<lock, txn, done, faults, commits>>

-----------------------------------------------------------------------------
(***************************************************************************)
(* The deletion of the master journal, with a sync of its directory,       *)
(* commits the transaction.                                                *)
(***************************************************************************)
DeleteMaster(p) ==
  /\ pc[p].at = "delete"
  /\ WriteAndSync("master", pc[p].txn, {})
  /\ Goto(p, "two")
  /\ UNCHANGED <<lock, txn, done, faults, commits>>

(***************************************************************************)
(* The master journal is deleted, but its directory is not synced.  If     *)
(* unixDelete() cannot open the directory it reports success, and phase    *)
(* two follows; if fsync() fails it reports an error, and the rollback     *)
(* of the files finds the master journal gone.                             *)
(***************************************************************************)
DeleteMasterUnsynced(p) ==
  /\ pc[p].at = "delete"
  /\ faults < MaxFault
  /\ faults' = faults + 1
  /\ WriteAndSync("master", pc[p].txn, {})          \* but for unsynced
  /\ unsynced' = unsynced \cup {pc[p].txn}
  /\ \E at \in {"two", "playback"} : Goto(p, at)
  /\ UNCHANGED <<lock, txn, done, undone>>

(***************************************************************************)
(* sqlite3BtreeCommitPhaseTwo(pBt, 1) finalizes one journal after the      *)
(* other.  It ignores failures: the pager then unlocks its file and leaves *)
(* a cold journal behind.                                                  *)
(***************************************************************************)
PhaseTwo(p) ==
  LET f == pc[p].f IN
  /\ pc[p].at = "two"
  /\ \/ /\ WriteJournal(f, NoJournal)
        /\ SetLock(p, f, SHARED_LOCK)
        /\ UNCHANGED faults
     \/ /\ faults < MaxFault
        /\ faults' = faults + 1
        /\ SetLock(p, f, NO_LOCK)
        /\ UNCHANGED <<disk, may>>
  /\ IF f < NFile
     THEN /\ pc' = [pc EXCEPT ![p].f = f + 1]
          /\ UNCHANGED done
     ELSE /\ pc' = [pc EXCEPT ![p] = Idle]
          /\ done' = pc[p].txn
  /\ UNCHANGED <<txn, commits>>

-----------------------------------------------------------------------------
\* Failures.

(***************************************************************************)
(* An operation of vdbeCommit() fails: sqlite3RollbackAll() rolls every    *)
(* file back.  The master journal is deleted when its own write or sync    *)
(* failed, if that does not fail too, and left alone when a journal may    *)
(* name it already or when it could not be deleted.                        *)
(***************************************************************************)
CommitFails(p) ==
  /\ pc[p].at \in {"commit", "master", "name", "syncJournal", "pages", "syncDb", "delete"}
  /\ faults < MaxFault
  /\ faults' = faults + 1
  /\ pc' = [pc EXCEPT ![p].at = "playback", ![p].f = 1]
  /\ \/ pc[p].at = "master" /\ Write("master", pc[p].txn, {}, {{}})
     \/ UNCHANGED <<disk, may>>
  /\ UNCHANGED <<lock, txn, done, commits>>

\* The application gives up a commit that finds a file locked.
Rollback(p) ==
  /\ pc[p].at = "commit"
  /\ pc' = [pc EXCEPT ![p].at = "playback", ![p].f = 1]
  /\ UNCHANGED <<disk, may, lock, txn, done, faults, commits>>

(***************************************************************************)
(* A playback fails: the pager unlocks the file and leaves the journal     *)
(* hot, unless it failed in pager_delmaster().                             *)
(***************************************************************************)
PlaybackFails(p) ==
  /\ pc[p].at \in {"playback", "sync", "end", "delmaster", "children"}
  /\ faults < MaxFault
  /\ faults' = faults + 1
  /\ SetLock(p, pc[p].f, NO_LOCK)
  /\ RolledBack(p, pc[p].f)
  /\ UNCHANGED <<disk, may, txn, done, commits>>

\* A process dies: what it wrote stays, its locks go.
Kill(p) ==
  /\ pc[p].at # "idle"
  /\ faults < MaxFault
  /\ faults' = faults + 1
  /\ lock' = [f \in File |-> [lock[f] EXCEPT ![p] = NO_LOCK]]
  /\ pc' = [pc EXCEPT ![p] = Idle]
  /\ UNCHANGED <<disk, may, txn, done, commits>>

PowerLoss ==
  /\ faults < MaxFault
  /\ faults' = faults + 1
  /\ \E d \in [File -> UNION {may.db[f] : f \in File}],
        j \in [File -> UNION {may.journal[f] : f \in File}],
        m \in [1 .. MaxTxn -> {{}, File}] :
        /\ \A f \in File : d[f] \in may.db[f] /\ j[f] \in may.journal[f]
        /\ \A t \in 1 .. MaxTxn : m[t] \in may.master[t] \/ (t \in unsynced /\ m[t] = File)
        /\ disk' = [db |-> d, journal |-> j, master |-> m]
        /\ may' = [db |-> [f \in File |-> {d[f]}],
                   journal |-> [f \in File |-> {j[f]}],
                   master |-> [t \in 1 .. MaxTxn |-> {m[t]}]]
        /\ undone' = (undone \/ \E t \in unsynced : m[t] # {})
  /\ unsynced' = {}
  /\ lock' = [f \in File |-> [p \in Proc |-> NO_LOCK]]
  /\ pc' = [p \in Proc |-> Idle]
  /\ UNCHANGED <<txn, done>>

-----------------------------------------------------------------------------

Next ==
  \/ \E p \in Proc, f \in File : Access(p, f) \/ Release(p, f) \/ Begin(p, f)
                                  \/ Spill(p, f) \/ ExclusiveLock(p, f)
  \/ \E p \in Proc : \/ pager_playback(p) \/ PlaybackSync(p) \/ EndPlayback(p)
                     \/ pager_delmaster(p) \/ DelmasterCheck(p) \/ DelmasterDelete(p)
                     \/ CreateMaster(p) \/ SyncMaster(p)
                     \/ writeMasterJournal(p) \/ syncJournal(p)
                     \/ pager_write_pagelist(p) \/ PhaseOneEnd(p)
                     \/ DeleteMaster(p) \/ DeleteMasterUnsynced(p) \/ PhaseTwo(p)
                     \/ Rollback(p) \/ CommitFails(p) \/ PlaybackFails(p) \/ Kill(p)
  \/ PowerLoss

Spec == Init /\ [][Next]_vars

-----------------------------------------------------------------------------

\* What file f holds once everyone who has to has recovered it.
Recovered(f) ==
  IF disk.journal[f].open /\ Restores(f) THEN disk.journal[f].orig ELSE disk.db[f]

(***************************************************************************)
(* A transaction that vdbeCommit() (vdbeaux.c) writes in several files is  *)
(* in all of them or in none, whatever fails and whoever recovers which    *)
(* file first, and a transaction reported as committed stays committed.    *)
(* It rests on the directory being synced after the master journal is      *)
(* deleted and before any journal is (vdbeaux.c:1927).                     *)
(***************************************************************************)
AllOrNothing ==
  \A f \in File : /\ Recovered(f) = Recovered(1)
                  /\ Recovered(f) >= done

(***************************************************************************)
(* The same through every failure, crash and recovery, also when that sync *)
(* does not happen (unixDelete(), os_unix.c:5816-5824), until a power loss *)
(* brings back a master journal whose deletion was not synced.             *)
(***************************************************************************)
AllOrNothingSynced == ~undone => AllOrNothing
=============================================================================
