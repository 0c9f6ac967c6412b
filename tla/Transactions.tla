--------------------------- MODULE Transactions ----------------------------
(***************************************************************************)
(* What one write transaction is made of and what it leaves in the files:  *)
(* the master journal of a transaction over several files, savepoints, the *)
(* pages of the file, and a backup that runs beside transactions.  These   *)
(* components share no state, so a behaviour is one of the component       *)
(* chosen in the initial state.                                            *)
(*                                                                         *)
(* The master journal is of two files and two processes: a recovering      *)
(* process meets one that still writes, and the second fault may be a      *)
(* crash of the recovery.                                                  *)
(***************************************************************************)
EXTENDS MasterJournal, Sequences, TLC

CONSTANTS BkPage, BkTxn, BkFault   \* bounds of Backup: pages, transactions, faults

ASSUME BackupAssumption == BkPage \in Nat /\ BkTxn \in Nat /\ BkFault \in Nat

CONSTANTS AutoVacuum, NEntry, NLeaf, PENDING_BYTE_PAGE, BtPage, MaxUse   \* of BtreePages

\* lockBtree() takes no usableSize below 480, and the lock bytes are not on page 1.
ASSUME BtreeAssumption ==
  /\ NEntry \in Nat /\ NEntry >= 2
  /\ PENDING_BYTE_PAGE \in Nat /\ PENDING_BYTE_PAGE >= 2

VARIABLES part,
          wal, src, vers, dbFile, bk, dest, destFile, bkTxn, bkFaults,   \* Backup
          mode, bt, orig, vac,                                           \* BtreePages
          perSector, svBt, pager, svFile, svTxn                          \* Savepoint

BK == INSTANCE Backup WITH NPage <- BkPage, MaxTxn <- BkTxn, MaxFault <- BkFault,
                           file <- dbFile, txn <- bkTxn, faults <- bkFaults

BP == INSTANCE BtreePages WITH MaxPage <- BtPage

(***************************************************************************)
(* A file with a page to append and one with a page to move.  Five calls   *)
(* are a change, a savepoint, another change, a rollback and a change      *)
(* after it, or two nested savepoints with a change in each.               *)
(***************************************************************************)
SV == INSTANCE Savepoint WITH MaxPage <- 3, MaxOps <- 6, MaxSavepoint <- 2, MaxSpill <- 1,
                              Sectors <- {1, 4},
                              InitFiles <- {[size |-> 2, free |-> {}], [size |-> 3, free |-> {2}]},
                              bt <- svBt, file <- svFile, txn <- svTxn

bkVars == <<wal, src, vers, dbFile, bk, dest, destFile, bkTxn, bkFaults>>
bpVars == <<mode, bt, orig, vac>>
svVars == <<perSector, svBt, pager, svFile, svTxn>>
allVars == <<part, vars, bkVars, bpVars, svVars>>

MCInit ==
  /\ part \in {"MasterJournal", "Backup", "BtreePages", "Savepoint"}
  /\ Init /\ BK!Init /\ BP!Init /\ SV!Init
  /\ part # "Backup" => ~wal /\ Len(dbFile) = 1
  /\ part # "BtreePages" => mode = "none"
  /\ part # "Savepoint" => perSector = 1 /\ svBt.nPage = 2

Others(name) ==
  /\ part = name
  /\ UNCHANGED part
  /\ IF name = "MasterJournal" THEN TRUE ELSE UNCHANGED vars
  /\ IF name = "Backup" THEN TRUE ELSE UNCHANGED bkVars
  /\ IF name = "BtreePages" THEN TRUE ELSE UNCHANGED bpVars
  /\ IF name = "Savepoint" THEN TRUE ELSE UNCHANGED svVars

MCNext ==
  \/ Others("MasterJournal") /\ Next
  \/ Others("Backup") /\ BK!Next
  \/ Others("BtreePages") /\ BP!Next
  \/ Others("Savepoint") /\ SV!Next

MCSpec == MCInit /\ [][MCNext]_allVars

Symmetry == Permutations(Proc)

-----------------------------------------------------------------------------

\* Backup: a finished backup is one snapshot of the source.
BackupIsSnapshot == BK!BackupIsSnapshot

\* BtreePages: after every operation each page has one use.
EveryPageHasOneUse == BP!EveryPageHasOneUse

\* BtreePages: what the transaction found can be restored.
RollbackPossible == BP!RollbackPossible

\* Savepoint: after ROLLBACK TO every page holds what it held when the savepoint was opened.
SavepointsRestore == SV!SavepointsRestore

\* Savepoint: a sector written to in the transaction is protected by the synced journal.
OriginalsOnDisk == SV!OriginalsOnDisk
=============================================================================
