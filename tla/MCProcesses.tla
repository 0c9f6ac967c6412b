---------------------------- MODULE MCProcesses ----------------------------
(***************************************************************************)
(* What the connections of different processes share: the shared memory of *)
(* a write-ahead log, or the database file and its rollback journal, over  *)
(* which each keeps a cache of its own; or what a connection leaves to the *)
(* next transaction, of its own or of whoever opens the file after it, in  *)
(* a journal that is kept.  A behaviour is of one of the three.            *)
(*                                                                         *)
(* The shared memory has two processes of two connections and three locks: *)
(* siblings and strangers, on the same lock and on different ones.  The    *)
(* database has a connection in each process and two transactions, with    *)
(* journal_mode=TRUNCATE and synchronous=NORMAL, a spill and a fault.  The *)
(* kept journal is that of one connection with journal_mode=PERSIST and    *)
(* synchronous=FULL, on a new and on an existing database.                 *)
(***************************************************************************)
EXTENDS UnixShm, TLC

VARIABLES part, db, dbAlt, jrnl, lock, pager, txid, faults,
          db2, dbAlt2, jrnl2, lock2, pager2, txid2, faults2

PG == INSTANCE Pager WITH Conn <- Proc, NPage <- 2, InitSizes <- {2}, Vfs <- "unix",
                          OneProcess <- FALSE, JournalModes <- {"TRUNCATE"}, FullSyncs <- {FALSE},
                          AtomicWrite <- FALSE, Sequential <- FALSE, WriteThrough <- FALSE,
                          SectorFull <- FALSE, MaxTxn <- 2, MaxFault <- 1, MaxSpill <- 1

pgVars == <<db, dbAlt, jrnl, lock, pager, txid, faults>>

PP == INSTANCE Pager WITH Conn <- {"c"}, NPage <- 2, InitSizes <- {0, 1, 2}, Vfs <- "unix",
                          OneProcess <- FALSE, JournalModes <- {"PERSIST"}, FullSyncs <- {TRUE},
                          AtomicWrite <- FALSE, Sequential <- FALSE, WriteThrough <- FALSE,
                          SectorFull <- FALSE, MaxTxn <- 2, MaxFault <- 1, MaxSpill <- 1,
                          db <- db2, dbAlt <- dbAlt2, jrnl <- jrnl2, lock <- lock2,
                          pager <- pager2, txid <- txid2, faults <- faults2

ppVars == <<db2, dbAlt2, jrnl2, lock2, pager2, txid2, faults2>>

MCInit ==
  /\ part \in {"UnixShm", "Pager", "Persist"} /\ Init /\ PG!Init /\ PP!Init
  /\ part = "Persist" \/ db2 = db                  \* one initial state of the others

MCNext ==
  \/ part = "UnixShm" /\ Next /\ UNCHANGED <<part, pgVars, ppVars>>
  \/ part = "Pager" /\ PG!Next /\ UNCHANGED <<part, vars, ppVars>>
  \/ part = "Persist" /\ PP!Next /\ UNCHANGED <<part, vars, pgVars>>

MCSpec == MCInit /\ [][MCNext]_<<part, vars, pgVars, ppVars>>

Symmetry == Permutations(Proc) \cup Permutations(Slot)

-----------------------------------------------------------------------------

\* Pager: a cache whose change counter is the file's is not stale.
CacheFresh == PG!CacheFresh

\* Pager: the database is an atomic store, also with one sync of the journal.
ConcurrentImplementsAtomicStore == PG!ImplementsAtomicStore

\* Pager: what an earlier transaction left in the journal is never played back.
StaleRecordsIgnored == PP!StaleRecordsIgnored

\* Pager: the database is an atomic store, also with a journal that is kept.
PersistImplementsAtomicStore == PP!ImplementsAtomicStore
=============================================================================
