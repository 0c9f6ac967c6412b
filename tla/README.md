# A verification of the transaction core of SQLite for OpenVMS

The repository is SQLite 3.7.17 with a port to OpenVMS (`os_vms.c`,
`mutex_vms.c`, `memvms.c`, `descrip.mms`). This directory holds TLA+ modules for
the part of it that makes a database file safe to share and safe to crash: the
pager with its rollback journal, savepoints and master journal, the write-ahead
log, the file locks under them on OpenVMS and on unix, the OpenVMS file methods,
the page cache, the allocation of pages in the b-tree file, the online backup,
and above them the connections of one process that share a b-tree. TLC checks the
modules on small instances; TLAPS proves the OpenVMS locking protocol and the
shared cache for every number of connections.

`PROJECT.json` lists the components, the runs, the mutants (a plausible bug
for every property, which the property has to catch), the source lines behind
every definition, the findings and the hazards.

## 1. Inventory

| Component | State | Operations | Hard parts |
|---|---|---|---|
| Pager, `pager.c` | `Pager` object (state, lock, cache, journal handle and offsets), the database file, the journal file | `SharedLock`, `Acquire`, `Begin`, `Write`, `CommitPhaseOne/Two`, `Rollback`, spills | several processes on two files with no other communication than file locks; crash and power loss between any two accesses; I/O errors that leave half of a step done |
| Buffered journal, `journal.c` | a buffer in front of the journal file | `jrnlWrite`, `createFile` | the moment at which the buffer becomes a file |
| OpenVMS locks, `os_vms.c` | one lock of the distributed lock manager per open file | `vmsLock`, `vmsUnLock`, `vmsCheckReservedLock`, `vmsClose` | conversions that wait, deadlocks of upgrading readers |
| OpenVMS file I/O, `os_vms.c` | allocated blocks of a file, chunk size and size hint | `vmsRead`, `vmsWrite`, `vmsTruncate`, `vmsFileSize`, `vmsFileControl` | byte ranges over whole-block transfers, file extension |
| Unix locks, `os_unix.c` (not built) | POSIX locks, `unixInodeInfo`, `unixShmNode` | `unixLock`, `posixUnlock`, `unixClose`, `unixShmLock`, `unixOpenSharedMemory` | the kernel knows processes, not threads; a close drops locks; PENDING; who is the first to open the shared memory |
| Page cache, `pcache.c`, `pcache1.c` | pages, dirty list, LRU list, budget of a group | fetch, unpin, rekey, truncate, resize, spill | limits shared by a group; the mutex is released in the middle of a fetch |
| Savepoints, `pager.c` | savepoints, sub-journal | open, release, rollback to | which of four places holds the content to go back to |
| Multi-file commit, `vdbeaux.c` | master journal | `vdbeCommit`, `pager_delmaster` | crash between the files |
| WAL, `wal.c` (compiled out) | log, wal-index, read marks | read, append, checkpoint, restart, recover | readers, writer and checkpointer at once, on shared memory and without a common lock |
| B-tree, shared cache, `btree.c` | transactions and table locks of several handles | begin, lock table, commit, rollback | one writer, starvation of the writer |
| B-tree, mutexes, `btmutex.c` | a mutex per shared b-tree | enter, leave | entered in any order, waited for in one |
| B-tree, pages, `btree.c` | free-list, pointer map, root pages | allocate, free, relocate, vacuum | every page used once; pages that need not be journaled |
| Unlock notification, `notify.c` (compiled out) | who is blocked by whom, who waits for whom | blocked, unlocked, closed, `sqlite3_unlock_notify` | a blocker that ends before the request, deadlock |
| Statements, `vdbe.c`, `vdbeaux.c` | autocommit flag, counts of active and of writing statements | transaction, table lock, autocommit, halt | several statements of one connection end one transaction |
| Backup, `backup.c` | page cursor of a copy | step, update, restart | the source changes under the copy |
| Memory, mutexes, bit vectors, row sets | | | pure algorithms, limits |
| SQL compiler, VDBE, FTS, R-tree, shells | | | sequential; not modelled |

How they interact. The b-tree calls the pager under the mutex of its connection,
so a connection is one sequential process. The pager reaches its files and locks
only through the VFS. Two connections share nothing but the database file, its
journal and the locks on the database file. That is why one step of the model is
one access to a file or to a lock.

What makes each part correct:

* *locks*: a writer (RESERVED or more) is the only one; an EXCLUSIVE lock
  excludes everybody; nobody waits for ever without a cause;
* *pager*: a transaction is in the database as a whole or not at all, whatever
  crashes; a reader sees one committed content; a cache that is kept is not
  stale; no reader meets a hot journal; the journal is on disk before the
  database is written;
* *file methods*: what was written is read back;
* *write-ahead log*: a transaction reads one snapshot while others commit and
  checkpoint; what is said to be copied into the database is; a power loss takes
  back whole commits only;
* *several files*: a transaction is in all of them or in none;
* *savepoints*: going back finds every page as it was, and does not put at risk
  what the journal protects;
* *pages of the file*: each has one use, and the pointer map knows which;
* *backup*: the finished copy is a content the source has had;
* *page cache*: pages are counted where they are, and a group exceeds its budget
  only for pages in use;
* *shared cache*: a write lock on a table is alone; a writer that waits keeps new
  readers out and no longer than it waits; a connection that asks to be told is
  told, and nobody waits in a circle.

## 2. Modules

| Module | Models | State and actions |
|---|---|---|
| `FileLock` | the promise of `os.h` about lock levels (abstract) | `lock[c]`; `Acquire`, `Release` |
| `VmsLock` | locking methods of `os_vms.c`, over an external lock manager | `held[c]` is the granted mode of `vmsFile.lksb`, `queue` the conversion queue; an action per method, plus `Grant`, `DeadlockVictim`, `Crash` |
| `VmsFile` | file methods of `os_vms.c` | `file` is the bytes of the allocated blocks, `szChunk` and `szHint` the fields; `vmsWrite`, `WriteError`, `vmsTruncate`, `vmsFileControl`; `vmsRead` and `vmsFileSize` are operators |
| `Vms` | `VmsLock` and `VmsFile`, which share no state | `part` says of which of them a behaviour is |
| `VmsProofs` | proofs about `VmsLock` and `VmsFile` | |
| `AtomicStore` | what the pager promises the b-tree (abstract) | `content`, `view[c]`, `writers` |
| `Pager` | `pager.c` with `journal.c` and what it uses of `pcache.c` and `vdbeaux.c` | `db`, `jrnl` with what a power loss may leave of them, `lock`, `pager[c]` |
| `PagerInv` | the inductive invariants of `Pager` | definitions only |
| `PagerProofs` | proofs about `Pager` | |
| `SharedCache` | table locks and transactions of `btree.c`, statement control of `vdbe.c` and `vdbeaux.c`, all of `notify.c` | `bt` is the `BtShared` object with its handles; `autoCommit`, `active`, `writing`, `blocking`, `unlocker` are fields of `sqlite3`; an action per way in which a statement starts, is refused or ends |
| `SharedCacheProofs` | proofs about `SharedCache` | |
| `SnapshotStore` | what `wal.c` promises the pager (abstract) | `content`, `view[c]`, `writers`, what a power loss may bring back |
| `Wal` | `wal.c`, with what the pager does around it | the log, the database, the wal-index, `hdr[c]` and the locks of a connection; an action per access to the shared memory or to a file that another connection could come between |
| `WalProofs` | proofs about `Wal` | |
| `UnixLock` | `unixLock()`, `posixUnlock()`, `unixClose()` of `os_unix.c` | `posix[p]` is what the kernel gave process `p`, `inode[p]` its `unixInodeInfo`, `file[f]` a handle; an action per `fcntl()` |
| `ThreadsProofs` | proofs about `UnixLock` and `PCache1` | |
| `UnixShm` | `unixShmLock()`, the opening and unmapping of the `-shm` file | `posix[p]`, `node[p]`, `conn[f]` |
| `UnixShmProofs` | proofs about `UnixShm` | |
| `BtMutex` | `btmutex.c` | `owner[b]` of a mutex, `wantToLock`, `locked`, and where a thread is in `sqlite3BtreeEnter()` |
| `BtMutexProofs` | proofs about `BtMutex` | |
| `PCache1` | `pcache1.c` | the caches, the group, the fetch in progress on a cache; an action per method of `sqlite3_pcache_methods2` |
| `MasterJournal` | `vdbeCommit()` for several files, `pager_delmaster()`, the master journal in `pager_playback()` | `disk`, and `may`, what a power loss may leave, of databases, journals and master journals; `unsynced`, the master journals deleted without a sync of their directory; `lock`, `pc[p]` |
| `TransactionsProofs` | proofs about `MasterJournal`, `Backup` and `BtreePages` | |
| `Savepoint` | savepoints, the sub-journal, `sqlite3PagerMovepage()` and large sectors of `pager.c` | the `Pager` with its cache and journals, the file, what the b-tree takes the pages to hold |
| `BtreePages` | allocation, freeing, relocation and vacuum of `btree.c` | the free-list, the one pointer to each page, the pointer map, `pHasContent` |
| `Backup` | `backup.c` | the source file and its pager, the `sqlite3_backup` object, the destination |
| `Threads`, `Transactions`, `MCSharedBtree`, `MCProcesses` | several components that share no state in one run | `part` says which of them a behaviour is of |
| other `MC...` | instances for TLC | |

`VmsLock` and `UnixLock` implement `FileLock`, `Pager` implements `AtomicStore`,
and `Wal` implements `SnapshotStore`. `Pager`
takes its lock rules from `FileLock` (`Vfs = "unix"`) or uses the stronger ones
of `VmsLock` (`Vfs = "vms"`): a connection from RESERVED on is alone, a request
that cannot be granted waits, and it fails only in a deadlock of readers that
upgrade. Which of the two it is, is what `WritersExcludeAll` says.

### Pager

`pager[c]` has the fields of `struct Pager` under their own names (`eState`,
`dbSize`, `dbOrigSize`, `dbFileVers`, `journalOff`, `journalHdr`, `nRec`,
`inJournal`), its `journalMode` and `fullSync`, the cache and the flags of its
pages (`cache`, `dirty`, `needSync`), the journal handle (`jfd`: closed, a buffer
of `journal.c`, a file, or a file that another connection has deleted) and `pc`,
the place within a call that makes several accesses:

* `hot1`..`hot6`, `vers`: `sqlite3PagerSharedLock()` and `hasHotJournal()`;
* `reserve`, `open`, `write`: `sqlite3PagerBegin()`, `sqlite3PagerWrite()`;
* `sync1`..`sync4`, `spill`: `syncJournal()` and `pagerStress()`;
* `count`, `pages`, `final`, `unlock`: the two phases of a commit;
* `playback`, `record`, `restored`: `pager_playback()`, of a connection's own
  journal or of a hot one;
* `abort`: a statement failed, its transaction has to be rolled back.

The journal is a sequence of slots, each a header or a record, written in place
over what an earlier transaction left. A slot or a page that is written and not
synced has a set of contents a power loss may leave (`jrnl.alt`, `dbAlt`): any
earlier one, the new one or, where a write is not atomic, garbage. An I/O error
may strike before a write, after it or in the middle. A process may die, and
power may fail, in every state.

Abstractions, all of them about data:

* page 1 is only its change counter (bytes 24..39); other pages hold the
  identifier of the transaction that wrote them;
* the checksum is perfect: a record is good exactly if it is whole and has the
  nonce of its header;
* slots are aligned. The one place where the sector alignment of headers shows
  is the offset at which `syncJournal()` expects the next header; `SectorFull`
  says whether the records end at a sector boundary;
* a connection keeps its journal mode and its synchronous setting; connections
  may differ in them;
* `xDelete` and `xTruncate` of the journal are durable when they return;
* `HotDelete` takes and drops its RESERVED lock in one step (it is taken in the
  part of run `Processes` that begins with a new database: only an empty file has
  its journal deleted, see `HotPageCount`);
* the file is as long as its last page. `vmsFileSize()` rounds up to allocated
  blocks; the difference is part of `VmsFile`, not of `Pager`;
* the OpenVMS runs take the file methods to be correct, which `VmsFile` shows
  only for writes of whole blocks and within one block (see the findings).

Left out of the pager: `locking_mode=EXCLUSIVE`, `BEGIN EXCLUSIVE`, journal modes
MEMORY and OFF, memory-mapped reads, the statement rollback that follows
SQLITE_FULL, and UNKNOWN_LOCK. Savepoints, the shrinking of the file and sectors
of several pages are in `Savepoint`, the master journal is in `MasterJournal`,
both with the rest of the pager reduced to what they depend on.

### VmsLock

The distributed lock manager is external. It is modelled by its mode table for
the modes of `lock_modes`, a first-in first-out conversion queue in which a
conversion that can be granted does not wait, and a deadlock search that ends
one of the waiting calls. `vmsLock()` then returns SQLITE_BUSY and the lock keeps
its mode. A process that dies loses its lock and its place in the queue.
`vmsClose()` calls `sys$deq` with `LCK$M_CANCEL`, which cancels a conversion and
leaves the lock. The pager has unlocked the file before, so the action requires NL
mode: there is no conversion to cancel, and a lock in NL mode is compatible with all.

### VmsFile

A call is one step, since the pager makes it under its locks; each of the
transfers of a call may fail (`WriteError`, `failing` of `vmsRead`). The chunk size of
SQLITE_FCNTL_CHUNK_SIZE is in bytes and used as a count of blocks, as the code does.
The bytes of
a written buffer are numbered, so that a byte in the wrong place shows. `bcnt`,
which `vmsWrite()` reads before it sets it, starts with any value. The field
`fib$l_exvbn` of `vmsTruncate()` is taken as the last block that is kept.

### SharedCache

The connections are those of one process in shared-cache mode, below which the
pager of `Pager` serves them all. A statement runs under the mutex of the shared
b-tree, so its start, its refusal and its end are one step each; `notify.c` works
under the static master mutex, so what it does is another (`pc[c]` is "unlock" or
"close" in between). Since every connection runs on its own thread, others step
in between: between the end of a transaction and the notification, and between
the SQLITE_LOCKED error and `sqlite3_unlock_notify()`. The operators from `query`
to `Concluded` are the functions of `btree.c` on a value `b` of `bt`; an action
applies them in the order of the code.

| Action | Code |
|---|---|
| `TransactionBlocked`, `TransactionBusy` | `OP_Transaction` with SQLITE_LOCKED and SQLITE_BUSY; the first halts the statement, the second leaves it active |
| `LockBlocked`, `Statement` | `OP_TableLock` refused and granted, after the transaction has begun |
| `Finish`, `Abort` | `sqlite3VdbeHalt()`, `Abort` with an error that rolls everything back |
| `Begin`, `Commit`, `CommitBusy`, `Rollback` | `OP_AutoCommit`, `BEGIN` with the transaction it may take |
| `PrepareBlocked` | `sqlite3BtreeSchemaLocked()` |
| `Close`, `ConnectionClosed` | `sqlite3_close()`; a new connection then takes the place of the old |
| `ConnectionUnlocked`, `UnlockNotify`, `Cancel` | `notify.c` |

Abstractions:

* a statement locks one table beside the schema table, whose read lock every
  transaction takes;
* the list of table locks is a function from connection and table; where the code
  names the first lock in the list as the blocker, any holder may be named;
* the list of blocked connections is the set of those with one of the two
  pointers set. How callbacks are grouped into arrays is left out;
* a statement that is stepped again after SQLITE_BUSY is one that is reset and
  started anew;
* the notification of a halted statement may come any time later, the code calls
  it right after the halt: the model has every interleaving of the code and more;
* `Patient` connections make no further call once they wait for a callback;
  `Tidy` ones reset a `ROLLBACK` statement before anything else.

Cursors, savepoints, several b-trees per connection (their mutexes are in
`BtMutex`) and zombie connections of `sqlite3_close_v2()` are left out. `descrip.mms` does not define SQLITE_ENABLE_UNLOCK_NOTIFY: the part about
`notify.c` is about the shared source, not about the OpenVMS image.

### Wal

A connection goes through `walTryBeginRead()` in steps (`BeginReadHdr`,
`LockFile` or `ChooseMark` and `LockMark`), since a writer or a checkpointer may
come between the copy of the header, the choice of a read mark, its lock and the
second look at the header. A commit writes frames one by one, then `aPgno`, then
the two header copies (`CommitHdr`: a process that dies in between leaves a header
that `walIndexTryHdr` rejects, and the next reader recovers). `RestartHdr` and
`RestartInfo` are the two parts of `walRestartLog()`; the checkpoint goes through
`CkptIterator`, `CkptMark`, `CkptLock`, `CkptCopy` (page by page), `CkptBackfill`
and `EndCheckpoint`. `Close` with `DeleteLog` is the last connection's checkpoint.
`LogWriteError` and `CkptError` are a write or a sync that fails with no, half or
all of its effect. What follows differs: a commit is rolled back with
`sqlite3WalUndo()` (`CommitFailed`), a spill puts the pager into its error state,
which drops cache and locks and undoes nothing (`SpillFailed`), a checkpoint
returns without counting what it copied. A failed commit whose frames are all in
the log may take effect when a recovery finds them: `SnapshotStore` allows it
(`Fail`, `limbo`), as a whole, and only while nobody reads what it supersedes.

* A page holds the number of the transaction that wrote it. The checksum of a
  frame is the name of the frame before it, so a frame is valid exactly if it
  follows the one it was written after; salts are fresh.
* `wal[i]` and `db[p]` have a set of contents a power loss may leave (`walDisk`,
  `dbDisk`), among them a torn frame or page.
* `recent` is history: the contents a power loss may bring back. `FullSync` says
  whether a commit syncs.
* Left out: WAL savepoints (`sqlite3WalSavepoint`), exclusive and heap-memory
  modes, several hash tables, read-only shared memory, errors of reads and of the
  shared memory. Savepoints need frames of one transaction that differ, which
  the abstraction of contents to transaction numbers does not have.
* `walRestartLog()` takes no checkpoint lock: a writer may restart the log at any
  step of another connection's checkpoint, and die in the middle of it. `tornReset`
  is history: it becomes true when a process dies between the new header and
  `nBackfill = 0`, and when `nBackfill` is reset under a checkpoint that has loaded
  the header of the old log but not yet `nBackfill` (`Overtaken`; `wal.c:1680`
  then compares the two). What follows contradicts a comment of the source (run
  `WalReset`). `BackfillSound` says that nothing else does, which is proved over all
  executions. Run `Wal` checks the executions without such a restart (`WholeSpec`),
  with every other interleaving of restarts and checkpoints: its states are the
  states of `Spec` in which `tornReset` is false, the ones that `BackfillSound` and
  `RestartAssert` speak of. `CacheFresh`, `FullMeansFull` and
  `ImplementsSnapshotStore` would describe the damage in the others.

### UnixLock and UnixShm

The kernel is external: it gives byte ranges to processes, never refuses a
process what it holds itself, and drops all locks of a process on a file when a
descriptor of the file is closed. `call[p]` is the call that holds the global
mutex of process `p`; other processes step between its `fcntl()` calls. In
`UnixShm` `Siblings` are the connections of one process, for which `unixShmLock()`
has to keep books. The mapping of `-shm` regions is not modelled, nor are the
other locking methods of `os_unix.c`, nor the deletion of the `-shm` file by the last
connection that unmaps it (`deleteFlag`, `os_unix.c:4582`). An `ftruncate()` of the
file that fails (`os_unix.c:4234`) is modelled only as the death of its process.

### BtMutex

A connection is its thread. A step of `sqlite3BtreeEnter()` is one mutex
operation; `sqlite3_mutex_try()` may succeed, the way out is to release the
mutexes of later b-trees, wait for the one that is wanted and take the others
again.

### PCache1

A fetch that has to allocate releases the group mutex twice (to resize the hash
table and to allocate the page): `fetch[c]` is at "resize" or "alloc" in between,
and other caches take pages, shrink or go away. Arithmetic is unsigned, with
`Word` for 2^32. A hash table is the set of its keys; the slots of
`SQLITE_CONFIG_PAGECACHE` and the non-purgeable caches are left out.

### MasterJournal

A file holds the number of the transaction it was last written by, or is `Torn`
between two; its rollback journal the number to go back to and the name of a
master journal. What happens inside one file is left to `Pager`. Locks are those
of `FileLock`, one instance per file. A process may die, power may fail, and each
operation of the commit and of the playback may report an error. A master journal
deleted with `dirSync` is gone, one deleted without it may come back.

`unixDelete()` with `dirSync` may also unlink the file and not sync the directory
(`DeleteMasterUnsynced`): when the directory cannot be opened it returns SQLITE_OK and
`vdbeCommit()` goes on to phase two; when the `fsync()` fails it returns an error and
the files are rolled back, although the master journal is gone and their journals are
cold. Such a master journal is in `unsynced`, and a power loss may bring it back; the
ghost `undone` says that one did. `AllOrNothing` is what the comments of `vdbeCommit()`
promise, `AllOrNothingSynced` what the code keeps: `~undone => AllOrNothing`.

### Savepoint

One connection runs a transaction: the b-tree changes, allocates, frees and moves
pages, pages are spilled, savepoints are opened, released and rolled back to, and
the transaction is committed or rolled back. The main journal is a sequence of
headers and records, the sub-journal one of records. The b-tree side (`bt`) says
what each page should hold, the pager side what it does hold. There are no I/O
errors and no crashes here: `OriginalsOnDisk` states what a crash would need.

### BtreePages

The cells are left out: `par[c]` is the one pointer to page `c`: the
page it is on and its type, `map[c]` what the pointer map says of it. `allocateBtreePage()`,
`freePage2()`, `relocatePage()` and the vacuum functions are operators on a value
`b` of `bt`; where the code returns SQLITE_CORRUPT they set `corrupt`, which
`EveryPageHasOneUse` says never happens. `AddPage` stands for the callers that
need a page (`balance_nonroot`, `balance_deeper`, `fillInCell`), `DropPage` for those
that free one; `clearCell` frees the rest of an overflow chain, of any length, page by
page, and no other operation begins before it is done (`ovflPgno`). How `balance()`
distributes cells over pages is left out. Pointer-map pages hold two entries and trunk
pages two leaves, so that both fill up in a file of seven pages. The lock bytes are on
page 5, where the second pointer-map page would be: it is page 6, the case
`PENDING_BYTE_PAGE+1` of `ptrmapPageno()`.

### Backup

The source connection reads, writes, spills, commits and rolls back; other
processes commit (`ExternalCommit`); the backup copies some pages per step.
Between steps the source pager tells it what it writes to the file
(`sqlite3BackupUpdate`) and that somebody else did (`sqlite3BackupRestart`). In
WAL mode the hook is in another place. Left out: databases of different page sizes
(`backup.c:456-536`), and the page that an empty source is given (`backup.c:425-428`).

## 3. Runs

Passing runs:

| Run | Instance | What it shows |
|---|---|---|
| `Vms` | `VmsLock` with 3 connections, `VmsFile` with blocks of 2 bytes, files of up to 5 bytes, an RMS extension of 2 blocks or a chunk size; with fairness | `WritersExcludeAll`; the methods implement `FileLock`; a waiting reader gets in once the writers let go (`SharedGranted`); `FileHolds` and `ReadCorrect` for writes of whole blocks or within a block, also where the extension is too small and where transfers fail; only the RMS default of the process is ever too small (`ExtendsEnough`) |
| `PagerDelete` | unix, DELETE, synchronous=FULL, 2 connections, 3 pages, 1 transaction, 2 faults, 1 spill | the atomic store, `assert_pager_state()`, the journal before the database, no reader beside a hot journal |
| `PagerVms` | OpenVMS, 2 connections, 1 or 2 of 3 pages, 2 faults, with fairness | the same store with queued locks, a write-through device and the atomic-write optimization; a hot journal is rolled back in the end (`Recovers`) |
| `Wal` | 2 connections, 2 pages, 2 frames, 2 transactions (1 while both connections are open if there is an I/O error), 1 fault, 1 I/O error, PASSIVE and RESTART checkpoints, synchronous=NORMAL | in the executions in which no restart is torn (`WholeSpec`): the snapshot store; caches kept across transactions are fresh; a checkpoint that reports success has copied and synced everything; `nBackfill` is within the log (`BackfillSound`) and the assertion `wal.c:2596` holds (`RestartAssert`) |
| `Processes` | 2 processes with 2 connections each, 3 locks (`UnixShm`); unix, TRUNCATE, synchronous=NORMAL, 2 connections, 2 pages, 2 transactions, 1 fault (`Pager`); PERSIST, synchronous=FULL, 1 connection, 2 pages, a new or an existing database, 2 transactions, 1 fault, 1 spill (`Pager` again) | shared-memory locks exclude, the `-shm` file is emptied only while nobody uses it; one journal sync is enough; caches kept across transactions are fresh; what an earlier transaction left in the journal is never played back, and the creation of a database is atomic |
| `Threads` | 2 processes with 2 handles each (`UnixLock`), 2 caches of 2 keys (`PCache1`) | the unix methods implement `FileLock`; pages are accounted for, and a budget is exceeded only for pages in use |
| `Transactions` | 2 files, 2 processes, 2 transactions, 2 faults (`MasterJournal`); 3 pages, 2 savepoints, 5 operations, 1 spill, sectors of 1 and 4 pages (`Savepoint`); 7 pages, each vacuum mode (`BtreePages`); 3 pages, 2 transactions, 1 fault (`Backup`) | all files or none, until a power loss brings back a master journal deleted without a sync (`AllOrNothingSynced`); going back to a savepoint restores every page and risks none; every page has one use; a rollback finds what it needs; a finished backup is one snapshot |
| `SharedCache` | 3 connections, 2 tables, 1 active statement each | write locks exclude, the writer is known where it is dereferenced, the pending flag goes with the last reader, no notification is lost, nobody waits in a circle |
| `SharedBtree` | 2 threads and 3 b-trees (`BtMutex`); 2 connections, 2 tables, 2 active statements each, one read-uncommitted, one patient, with fairness (`SharedCache`) | no circle of mutex waits, and a thread holds what it entered; a callback that was asked for comes (`Notified`), also with statements that outlive the transaction of another |

Why the bounds are enough for the cases that matter. Three pages with two in the
initial file are the least with a page to overwrite, one to append and page 1,
and with one in it a transaction of one record may change two pages more;
two records are what makes the buffer of `journal.c` overflow. Two connections
are a writer and a reader, a dead writer and a recovery, two recoveries; a dead
writer restarts as a third. Two faults are a crash and a crash of the recovery
that follows. Two transactions are needed where one leaves something behind for
the next: a journal, a cache or a counter. One spill makes a transaction with
two journal headers. Three connections are needed in `VmsLock` for a bystander
beside two deadlocked readers, and in `SharedCache` for a deadlock through a
third and for a writer with two readers in its way. Two statements of one
connection are what makes the end of a transaction a downgrade.

In `Wal` two frames are a log that a commit fills and the next commit restarts,
and a third transaction is one after it. An error and a fault are
a failed commit and the recovery that finds its frames, or a failed checkpoint
and the power loss after it. By hand it was also run with synchronous=FULL, and
with two transactions beside an error, the error before the fault. Two handles in
each of two processes are the least with a sibling and a stranger. Three b-trees
are needed for a thread that waits for one while it has given up two. Two files
suffice for a transaction that is in one and not in the other, and two faults for
a crash and a failed recovery. Three pages, with page 2 free, are what an
incremental vacuum needs to move a page. `Savepoint` was also run by hand with two
spills, with sectors of two pages, with one operation more and with four pages,
`Pager` with PERSIST also with three pages, and `Wal` with a third transaction
(`MaxTxn = 4`, 1.2 million states); all pass.

The runs `Vms`, `Threads`, `SharedBtree`, `Processes` and `Transactions` unite components that share no state:
an initial state chooses one of them, the others stay as they are. Type
invariants are not run any more where they are proved (`VmsLock`, `SharedCache`).
Those of `Pager`, `Wal` and `VmsFile` hold in the same instances (checked by hand).

Symmetry is used in safety runs only. TLC checks deadlock in all of them.

Runs that show a disagreement between the code and what it says:

| Run | Shows |
|---|---|
| `VmsFileJournal` | `vmsWrite()` stores wrong bytes when a range crosses a block boundary and is not whole blocks |
| `MasterDirSync` | when the directory is not synced after the deletion of the master journal, a power loss brings it back and rolls back the files that still have a journal, and only those |
| `WalReset` | a checkpoint that loaded its header before a writer restarted the log stores a count of copied frames that is larger than the new log |

The quotations and lines are under "findings" in `PROJECT.json`. `wal.c` is
compiled out of the OpenVMS build, so `WalReset` is about the shared source, not
about the port.

Further disagreements that the modules reproduce when a run is changed as said
here:

| Change | Property that fails | What it shows |
|---|---|---|
| `Vms` | `ReservedAdmitsReaders` | RESERVED of `os_vms.c` (PW mode) keeps readers out; `os.h:154` says it does not. Safe, less concurrent |
| `Vms` | `CheckReservedSeesAll` | `vmsCheckReservedLock()` (`os_vms.c:490`) sees only its own lock. Harmless: `PagerVms` passes with it |
| `Vms`, `RmsExtend = 2` | `rc = "SQLITE_IOERR_WRITE" => fault` of `VmsFile` | `os_vms.c:264` says of the need and the system default that the file is extended by "whichever is larger"; an RMS default of the process is used as it is (`os_vms.c:286`), and `vmsWrite()` fails where nothing prevents the write |
| `PagerDelete`, 1 connection, `AtomicWrite = TRUE` | `JournalSyncedFirst` | atomic writes without write-through: a spill writes the database before the file that `createFile()` has just made is synced |
| `PagerVms`, 1 connection, `InitSizes = {0}` | `JournalSyncedFirst` | the first transaction of a new database may spill with its journal still in memory |
| `PagerDelete`, `InitSizes = {0}`, `MaxTxn = 2` | `CacheFresh` | a failed creation leaves a zeroed page 1 that passes for that of another connection (`pcache.c:448`) |
| `PagerDelete`, `OneProcess = TRUE`, `NPage = 2` | `NoHotJournalWhileReading` | the PENDING lock of a thread that gave up a recovery hides the hot journal from another thread (`os_unix.c:1673`) |
| `PagerVms`, `InitSizes = {0}`, `NPage = 2`, `MaxTxn = 2`, `MaxFault = 1` | `NoHotJournalWhileReading` | the first transaction of an empty database dies; two readers keep each other from deleting its journal, since on OpenVMS RESERVED is refused beside another SHARED lock (`hasHotJournal()`, `pager.c:4844`); a transaction whose own journal stays in memory then commits, and the old journal is hot for the next reader |
| `PagerDelete`, `InitSizes = {0}` | `ImplementsAtomicStore` | a rollback truncates a new database to nothing, its journal is deleted as that of an empty file (`pager.c:4844`), and a power loss undoes the truncation that nobody synced. It rests on the deletion being durable before the truncation is |
| `Processes`, `SectorFull <- TRUE` of `PP` in `MCProcesses` | `StaleRecordsIgnored` | `pager.c:4084` says a stale header is zeroed "to prevent it from being recognized"; `readJournalHdr()` (`pager.c:1508`) skips the magic of a header at `journalHdr`, where `syncJournal()` (`pager.c:4142`) has left it although a commit writes no header there. Where the records end at a sector boundary, the rollback of a failed commit plays back records of an earlier transaction |
| `Processes`, `JournalModes <- {"DELETE", "TRUNCATE"}`, `MaxTxn <- 3`, `MaxFault <- 0` in `MCProcesses` | `JournalSyncedFirst` | `pager.c:1767` closes the journal so that a connection with `journal_mode=delete` cannot "delete the file out from under us"; a reader that keeps it open between its transactions is not protected (`pager.c:5445`) and journals its next transaction into a file without a name. Not on OpenVMS, where readers exclude RESERVED |
| `PagerVms`, `NPage = 2`, `MaxTxn = 2` | `CacheFresh` | a direct write of page 1 that reports an error after it took effect (`pager.c:5932`) makes the next commit repeat the change counter, which `pager.c:98` says does not repeat |
| `WalReset`, `MaxFault = 1` | `BackfillWithinLog` | a process that dies between the header and `nBackfill = 0` of `walRestartLog()` (`wal.c:2619`) leaves a count of copied frames larger than the log |
| `Threads` | `PendingKeepsReadersOut` | `os_unix.c:1485` says no new SHARED lock is granted while a PENDING lock is held; a thread of a process that has one already gets it without asking the kernel (`os_unix.c:1552`) and can starve a writer of another process |
| `SharedCache` | `ConclusionNotifies` | `sqlite3.h:6763` says the callback is invoked from within the `sqlite3_step()` or `sqlite3_close()` that concludes the transaction. `ROLLBACK` (`vdbe.c:3336`) ends the transaction without `sqlite3VdbeHalt()`: the callback comes when its statement is reset |
| `SharedBtree`, `Tidy <- {}` in `MCSharedBtree` | `Notified` | the same: a connection that begins a transaction again before it resets the `ROLLBACK` can put the callback off for ever |
| `SharedCache`, `Patient = {}` | `CallOverrides` | `notify.c:144` says each call overrides any prior callback; the branches that call back at once or find a deadlock leave an earlier one registered |

Read from the code while modelling, and not reproduced by a run: a RESTART
checkpoint that finds everything copied returns SQLITE_OK at `wal.c:1680` without
waiting for readers; the second of two processes that finish a recovery together
gets an error for the master journal the first has deleted; `mxPinned` of `pcache1.c` wraps around when `nMaxPage + 10 < nMinPage`.

### Fairness

`Vms`, for `VmsLock`: weak fairness of `Grant` and of `DeadlockVictim`. The lock manager
grants what it can and runs its deadlock search; that is its contract. Nothing
is assumed of the connections, which may keep a lock for ever, so
`SharedGranted` has the premise that again and again no other connection is a
writer.

`PagerVms`: weak fairness of `SharedLock` (somebody keeps using the
database) and of the steps of a read transaction that has begun, and strong
fairness of `HotExclusive`, because `vmsLock()` waits in a queue that is served
in order. There is no such fairness on unix, where two recoveries may get in
each other's way for ever. Nothing is assumed of writers.

`SharedBtree`: weak fairness of `ConnectionUnlocked` and
`ConnectionClosed`, the last lines of a call that has begun. Strong fairness of
`Commit` or `Rollback` and of `Finish` is asked of the applications: one that does
not itself wait for a callback ends its transactions and its statements. Without
it nobody would have to be told. Starting statements, asking for callbacks and
closing are not fair. The run has `Tidy` connections only, for the reason in the
table above.

## 4. Proofs

`VmsProofs` proves about `VmsLock`, for every set `Conn`:

| Theorem | Statement |
|---|---|
| `Invariance` | `Spec => []IInv` |
| `TypeCorrect` | `Spec => []TypeOK` |
| `ExclusionHolds` | `Spec => []WritersExcludeAll` |
| `Refinement` | `Spec => ImplementsFileLock` |

The inductive invariant `IInv` is `TypeOK`, `Exclusion` (every two granted modes
are compatible, which is more than `WritersExcludeAll` says) and `Queued`
(each connection has one queued request at most, for a higher mode than it holds),
which the refinement needs: a grant from the queue is never a step down. `Queued`
alone is not inductive: that a queued request is an upgrade depends on an unlock never being queued, which holds
because of `Exclusion`: nobody else holds a lock beside the one that is being
lowered from RESERVED or EXCLUSIVE. Every action has one of three shapes - a
connection gets a mode, is queued, or leaves the queue - with a lemma for each
(`SetKeeps`, `EnqueueKeeps`, `DequeueKeeps`). The refinement follows action by
action: a grant is `Acquire` or `Release`, everything that touches the queue
alone is a stutter. No assumption is made on constants.

`VmsProofs` also proves about `VmsFile`, as it is in `Vms`, for any block size of two
bytes or more, any `MaxByte` (also the chunk size, where there is one) and any extensions
(`VmsFileAssumption`):

| Theorem | Statement |
|---|---|
| `FileHoldsAlways` | `~Crossing` implies `VmsSpec => []FileHolds` |
| `ReadsWhatIsThere` | `VmsSpec => []ReadCorrect` |
| `ExtendsEnoughAlways` | `~Crossing` implies `VmsSpec => []ExtendsEnough` |

Both methods move a range in up to three parts, so each proof follows the call
through them. For `vmsRead()`, `ReadTo` says what holds after each part: what has
been read is what the file has there, and either the file has ended or the next
block begins where the rest of the range does. That is true only because a file is
whole blocks (`Whole`), the one thing the read needs of every write; `MoveWhole` and
`InBuffer` show it of any write, also of one that crosses blocks and stores the
wrong bytes, so `ReadCorrect` needs no condition. For `vmsWrite()`, `WriteFacts`
shows that a range of whole blocks is written by the middle part alone, one within a
block by the head or, at its beginning, by the tail, and that the bytes outside it
stay; `ExtendedFacts` that an extension leaves what is there and reaches the end of
the range, unless it is the RMS default of the process. With `Crossing` the first
theorem is false (run `VmsFileJournal`). Products and quotients by the
block size appear in three lemmas only (`DivFacts`, `MulFacts`, `DivMul`); everything
else takes them as opaque numbers.

`SharedCacheProofs` proves about `SharedCache`, for every finite set of
connections, any tables, any `MaxActive`, and whichever connections are
read-uncommitted, patient or tidy (`SharedCacheAssumption`):

| Theorem | Statement |
|---|---|
| `Invariant` | `Spec => []IInv` |
| `TypeCorrect` | `Spec => []TypeOK` |
| `WriteLocks` | `Spec => []WriteLocksExclude` |
| `Writer` | `Spec => []WriterKnown` |
| `Pending` | `Spec => []PendingHasReaders` |
| `NoLost` | `Spec => []NoLostNotify` |
| `NoCycle` | `Spec => []NoWaitCycle` |

The inductive invariant has a part about the b-tree, `BtInv(bt)`, and one about
notification. `WriteLocksExclude` is not inductive: `querySharedCacheTableLock()`
does not compare two write locks, so `OneWriter` is needed (`pWriter` is the one
handle in a write transaction), and `Covered` (a lock is at most as strong as the
transaction of its handle, an assertion of `btree.c`). `PendingHasReaders`
depends on the test `nTransaction==2`, which is right because `nTransaction` is
the number of handles in a transaction (`Counted`); `CountOfTwo` derives from it
that the writer and one other are all there are. Every function of `btree.c` has
a lemma that says what it leaves in each field and one that it keeps `BtInv`;
an action then is a composition of those. `NoLostNotify` follows since whoever is
named as a blocker is in a transaction at that moment (`QueryInTrans`,
`BlockersInTrans`), and nobody leaves that state without a call that ends in the
notification (`OwesStep`). For `NoWaitCycle`, a connection that begins to wait
adds one edge, and the set of connections its blocker reaches, closed under
waiting and without it, shows that no cycle goes through the edge
(`OneMoreWaits`).

`BtMutexProofs` proves about `BtMutex`, for every set of connections and of
threads and `NBt \in Nat` b-trees (the b-trees are numbered by the addresses of
their `BtShared`):

| Theorem | Statement |
|---|---|
| `Invariance` | `Spec => []IInv` |
| `HoldsWhatItEnteredHolds` | `Spec => []HoldsWhatItEntered` |
| `NoMutexCycleHolds` | `Spec => []NoMutexCycle` |

`IInv` is `TypeOK`, `LockedIsOwner` (the field `locked` of a handle and the owner
of the mutex say the same) and `EnterProgress`: how far `sqlite3BtreeEnter()` has
come, in terms of addresses. Neither property says anything of a thread in the
middle of that function, where it has released the mutexes above the one it wants
and has not got them back; `EnterProgress` is what is true there. From it follows
that a thread waits only for a mutex above all it still holds. For `NoMutexCycle`,
take in a supposed circle of waiting threads the one that waits at the highest
address: whoever owns that mutex waits for a higher one. The highest exists by
`LeastNatural`, a least-counterexample argument from the library's
well-foundedness of the naturals, which needs no induction over data.

`UnixShmProofs` proves about `UnixShm`, for every set of connections and
processes and `NLock \in Nat` locks:

| Theorem | Statement |
|---|---|
| `Invariance` | `Spec => []IInv` |
| `ShmLocksExcludeHolds` | `Spec => []ShmLocksExclude` |
| `TruncatedUnusedHolds` | `Spec => []TruncatedUnused` |

The kernel knows processes and not connections, so exclusion has two halves that
the invariant keeps apart: `KernelExcludes` between processes, `SiblingsExclude`
between the connections of one process, which rests on the masks alone;
`MasksBacked` ties them (a bit in a mask is a lock its process holds in the kernel,
which is where the unlock of one sibling could take away what another still has).
`NodeOK` says what holds at each place of `unixOpenSharedMemory()` and
`Counted` that `nRef` counts the mapped connections, so that the last to unmap is
the last.

`ThreadsProofs` proves about `UnixLock`, for every set of handles and processes:

| Theorem | Statement |
|---|---|
| `Invariance` | `Spec => []IInv` |
| `UnixImplements` | `Spec => UnixImplementsFileLock` |

`IInv` is `TypeOK`, `KernelExcludes`, `ExclusiveAlone` (while a handle is
EXCLUSIVE no other process has the shared range, not even when `posixUnlock()` has
already lowered it to a read lock) and `ProcOK(p)`: for
each place between two `fcntl()` calls, what the inode of the process says, what
the kernel has given it, and how they differ. That difference is why the
refinement needs it: `unixLock()` takes the PENDING byte, then the shared range,
and only then writes `eFileLock`, and the abstract lock of a handle changes at
one of these steps only. Every action has a lemma that gives the next invariant
and the abstract step or stutter together.

About `PCache1`, for every finite set of caches, any number of keys and any sizes
and limits (`PCacheAssumption`), `ThreadsProofs` proves:

| Theorem | Statement |
|---|---|
| `PageInvariance` | `MCSpec => []PageInv` |
| `PagesAlwaysAccounted` | `MCSpec => []PagesAccounted` |
| `BudgetAlwaysKept` | `MCSpec => []OverBudgetOnlyPinned` |

`PageInv` is `GroupOK`, `FetchOK` and `Budget`. `GroupOK` types the records and
holds `Accounted`: the counters of a cache are the cardinalities of its keys and of
its unpinned keys, the LRU list holds each unpinned page once and no other,
`nCurrentPage` is the number of all pages. `FetchOK`: an `xFetch` under way looks
for a key its cache does not have, which is so since one thread uses a cache.
`Budget`: while the list is not empty, `nCurrentPage` and the fetches between the
test of the budget and the new page stay within `nMaxPage` and one page for each
other cache. `OverBudgetOnlyPinned` is not inductive without those fetches: two
caches may both have passed the test before either has its page. There is a lemma
for each way in which the pages change (`RemoveAccounted`, `EnterAccounted`,
`PinAccounted`, `UnpinAccounted`, `RekeyAccounted`); what is left of the list when
some pages leave it is described by the ranks of the others (`RankOnto`), and
cardinalities are compared by injections.

`WalProofs` proves about `Wal`, for any connections, pages, read marks and bounds
(`WalAssumption`), over every execution of `Spec`:

| Theorem | Statement |
|---|---|
| `Invariance` | `Spec => [](tornReset \/ IInv)` |
| `BackfillSoundHolds` | `Spec => []BackfillSound`, where `BackfillSound` is `~tornReset => BackfillWithinLog` |
| `RestartAssertHolds` | `Spec => []RestartAssert`: while `~tornReset`, a writer at `walRestartLog()` that reads the file only has `nBackfill = hdr.mxFrame` |

No interleaving is excluded: a restart may come at any step of a checkpoint and a
process may die at any step of a restart. `tornReset` records the two events after
which run `WalReset` and section 3 show `BackfillWithinLog` to be false; the theorems
say that these two are the only ones. `BackfillWithinLog` relates two words of the
shared memory that different connections write under different locks. It holds
since there is one writer (`OneWriter`) and one checkpointer (`OneCheckpoint`),
since only a writer with READ(0) restarts the log, and a checkpoint that copies
excludes it (`LocksOK`), since such a writer's header is the shared one and all of
it is copied (`FileOK`), and since a checkpoint that has not read `nBackfill` yet
when a restart publishes its header will find everything copied, until
`nBackfill` is reset (`CheckpointOK`, the case that `Overtaken` records). That the
salt of a restarted log differs from every header in use (`Alone`, `SaltOK`) is what
keeps a writer with a header of the old log out (`BeginWriteTransaction`). The proof
that a step keeps `IInv` assumes `~tornReset'`; `TornStays` says that `tornReset`
stays true.

`TransactionsProofs` proves about `MasterJournal`, for every set of processes,
any number `NFile \in Nat \ {0}` of files, `MaxTxn \in Nat` transactions and any
number of faults:

| Theorem | Statement |
|---|---|
| `Invariance` | `Spec => [](undone \/ IInv)` |
| `AllOrNothingHolds` | `Spec => []AllOrNothingSynced` |

`Spec` has every failure of the deletions, those that leave the directory unsynced
too: what is proved is that the return of such a master journal (`undone`) is the only
thing that ever breaks `AllOrNothing`, and run `MasterDirSync` shows that it does. Each
lemma about a step assumes `~undone'`; `UndoneStays` says that `undone` stays true.

`AllOrNothing` speaks of what recovery would show of each file whatever subset of
the unsynced writes a power loss leaves. `IInv` is `\E v : All(v)`: there is one
transaction `v`, the last committed, such that every file is *stable* (it holds
`v` whatever survives, and has no hot journal) or *protected* (its journal is
synced, holds `v`, and names no master journal or one that surely stays, so that
recovery restores `v`). A file that is locked by a reader or by a writer
that has not begun to journal is stable (`LocksOK`), and `ProcOK` says at each
place of `vdbeCommit()` and of the playback which files are which. The value `v`
changes in one action, the deletion of the master journal: every journal that
names it turns cold at that moment, each file is already synced, so all of them
change from protected with the old `v` to stable with the new. Four lemmas on
steps (`QuietStep`, `JournalStep`, `DbStep`, `MasterStep`) say what a step must
leave alone to keep `All(v)`; each action is one of the four.

About `Backup`, for any number of pages, transactions and faults
(`BackupAssumption`), `TransactionsProofs` proves:

| Theorem | Statement |
|---|---|
| `BackupInvariance` | `MCSpec => []BkInv` |
| `BackupSnapshot` | `MCSpec => BackupIsSnapshot` |

`BackupIsSnapshot` is about the step that finishes a backup: what it leaves in the
destination is the source as a read transaction sees it at that moment. `BkInv` says why. `CacheOK`
relates the source's cache to the file: outside a write transaction of its own the
pager sees the file as it last validated it, and the file itself for as long as
the change counter is the one it read; in a write transaction file and cache
differ only in pages that have been spilled. `CopyOK`: as long as `rc` is OK or a busy
error, the first `iNext - 1` pages of the destination are those the pager sees.
A page that the same connection writes below `iNext` is copied again
(`sqlite3BackupUpdate`), and a file that somebody else has changed makes the cache invalid and
the copy begin again (`sqlite3BackupRestart`), before the next page is copied.

About `BtreePages`, for every number of pages, any capacity of a free-list trunk page,
`NEntry >= 2` entries of a pointer-map page and any page of the lock bytes but the first
(`BtreeAssumption`; the code has `NEntry >= 96`), in each vacuum mode,
`TransactionsProofs` proves:

| Theorem | Statement |
|---|---|
| `BtreeInvariance` | `MCSpec => []BtInv` |
| `RollbackAlwaysPossible` | `MCSpec => []RollbackPossible` |

`RollbackPossible` alone is not inductive: whether a page may come from the free-list
unread depends on what `pHasContent` has recorded since the transaction began. `BtInv`
has this in `Recoverable`: a page that the transaction found in use and that is now a
leaf of the free-list is known to `btreeGetHasContent()` (`LeavesKnown`), a file
that no vacuum step has shortened still has all the pages it had, and
`pHasContent` has been made for a file that is not empty. A page enters the list as a leaf in `freePage2()`
alone, which records it (`FreeOK`); a taken trunk page leaves its place
to one of its own leaves and a taken leaf to the last one, so no leaf is new
(`WithoutTrunkOK`, `WithoutLeafOK`). Pages past the end are unread only while the file
has not been shortened, so they are new to the transaction (`FromEndOK`). Where a file
ends involves the pages with a fixed use: never three in a row (`NotThree`), from
which the page after, and the page before, such a run exist.

`PagerProofs` proves about `Pager`, for any connections, pages, journal modes,
transactions, spills and faults, on both file systems (`PagerAssumption`):

| Theorem | Statement |
|---|---|
| `PagerControl` | `Spec => []Control` |
| `NoHotJournal` | `HotHyp` implies `Spec => []NoHotJournalWhileReading` |
| `JournalFirst` | `SyncHyp` implies `Spec => []JournalSyncedFirst` |

`Control` is what everything else about the pager rests on. `Types` types the
state, with integers where the invariant of the run has the bounds of an instance.
`States` is the state diagram of `pager.c` with the places between two calls added:
`StateOK(P, l)` says for each `eState` where in the code the connection can be,
which lock it has there and what its journal handle is; the lock and journal half
of `AssertPagerState` is part of it. `LocksOK` is the exclusion of the file system
carried over every step of every connection, with one thing no lock level says:
a PENDING lock that a failed recovery leaves behind (`hot6`) gives no right to a
transaction, so exclusion is about the `Owner`.

`NoHotJournalWhileReading` is not inductive with `Control` alone: whether a journal
is hot depends on its first header, which a writer, a rollback, a deletion and a
power loss all change. `HotOK` says at which places a connection *knows* that there
is no hot journal (`Checked`: it reads, or has begun a transaction and not yet
written its header, or has finished playing one back) and why a header that is in
the making is not hot yet (`BufferOK`: a buffered journal gets its magic with the
EXCLUSIVE lock only; a transaction that has opened its journal is past its first
header, so that no later write goes there unnoticed). The magic then appears only in
steps of a connection that excludes everyone who knows there is none. `HotHyp` is
the condition: connections of different processes on unix, or OpenVMS without the
atomic-write optimization. Both exceptions are real, section 3 has their
counterexamples; run `PagerDelete` meets the condition.

`JournalSyncedFirst` speaks of what a power loss may leave of the first slot of the
journal. `SyncOK` follows the header through `syncJournal()`: it is at the head of
the file with the magic of this transaction when the function has rewritten it
(`sync4`), nothing else survives there once it is synced, and later headers go
further down (`journalHdr >= 1`), which is why no later unsynced write spoils it.
`SyncHyp` is the condition: no atomic writes, and OpenVMS or `journal_mode=DELETE`
for all, so that the journal is a file that nobody unlinks while it is in use.
Section 3 has the counterexamples without it.

The proof of each invariant has a lemma per action, and each action is reduced
first to what it does to the fields, the lock and the journal (`Kept`, `Frame`,
`LockMove`, `Wrote`, `Cut` in `PagerInv`), so that the three invariants share the
analysis of the code.

Every invariant above was first checked with TLC as an invariant of the instance
of its run.

### Only model-checked

* *Liveness* (`SharedGranted`, `Recovers`, `Notified`): fairness and `ENABLED` are
  out of the prover's reach.
* *Pager*: `AssertPagerState`, `CacheFresh`, `StaleRecordsIgnored`,
  `ImplementsAtomicStore`. The locks and the journal of `AssertPagerState` follow
  from `Control`. What is left of it are the sizes, and they are about data: that
  `dbOrigSize` is the size of the file after a rollback needs to know what playback
  restores, an invariant that relates the file, every record of the journal and the
  cache. The three others need the same one, of the strength of
  the one about `MasterJournal` and over pages as well.
* *Wal*: `CacheFresh`, `FullMeansFull`, `ImplementsSnapshotStore`. These are about
  which frame of the log a reader sees; an invariant would have to describe the
  log together with every earlier header a reader may still use.
* *BtreePages* (`EveryPageHasOneUse`): it compares `finalDbSize()`, a formula, with the
  number of pointer-map pages between two pages, and the free-list with its length
  summed over its trunk pages. Both are counts for every size of the file, which is
  induction over data.
* *Savepoint* (`SavepointsRestore`, `OriginalsOnDisk`): going back to a savepoint is
  a walk over the records of two journals, and what it restores for every number of
  records is induction over data, which the prover cannot do.

## 5. Plan

Done: the modules above, in the order `FileLock`, `VmsLock`, `Pager` with
`AtomicStore`, `VmsFile`, `SharedCache`, `Wal` with `SnapshotStore`,
`MasterJournal`, `BtMutex`, `Backup`, `PCache1`, `UnixLock`, `UnixShm`,
`BtreePages`, `Savepoint`.

1. Proofs: a data invariant of `Pager` (the file, the records of the journal and the
   cache), for the sizes of `AssertPagerState`, then `StaleRecordsIgnored` and
   `ImplementsAtomicStore`; the frames of the log for `CacheFresh` of `Wal`.
2. `Bitvec`, `RowSet` and the pools of `mem3.c` and `mem5.c` as algorithms
   against their reference definitions.
3. WAL savepoints in `Wal`; `locking_mode=EXCLUSIVE` in `Pager`;
   the busy handler with `vmsSleep()`; `mutex_vms.c`; statement transactions of
   `vdbeaux.c`; a journal deletion that power loss undoes; large sectors together
   with the atomic-write optimization (`jrnlBufferSize()`).

## 6. Not modelled

* *SQL compiler, virtual machine, full-text and R-tree extensions, shells*: more
  than four fifths of the source lines. Sequential code on data; what it does to
  shared state it does through the components above.
* *Balancing and cell layout of the b-tree, cursors*: byte arrays; states that
  differ in layout only are beyond what TLC explores.
* *Windows VFS, unix file I/O, the other unix lockings, memory mapping*: not in
  the OpenVMS build, or calls of the system.
* *Mutex and memory implementations*: wrappers of the system's, taken for what
  they promise.
