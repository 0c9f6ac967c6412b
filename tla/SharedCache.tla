---------------------------- MODULE SharedCache ----------------------------
(***************************************************************************)
(* Connections of one process that share a b-tree (shared-cache mode): the *)
(* table locks and transactions of btree.c, the statements of vdbe.c and   *)
(* vdbeaux.c that begin and end them, and the unlock notification of       *)
(* notify.c.                                                               *)
(*                                                                         *)
(* A statement runs under the mutex of the shared b-tree, and what         *)
(* notify.c does under the static master mutex; those are the steps.  A    *)
(* statement uses one table beside the schema table, whose read lock every *)
(* transaction has.                                                        *)
(***************************************************************************)
EXTENDS Integers, FiniteSets

CONSTANTS
  Conn,                \* the connections
  NoConn,              \* no connection: a null pointer
  Table,               \* the tables of the database, by root page
  MASTER_ROOT,         \* the schema table
  ReadUncommitted,     \* the connections with PRAGMA read_uncommitted
  Patient,             \* those that wait once they have asked for a callback
  Tidy,                \* those that reset a ROLLBACK as soon as it is done
  MaxActive            \* bound: statements of a connection active at a time

ASSUME SharedCacheAssumption ==
  /\ IsFiniteSet(Conn) /\ NoConn \notin Conn /\ MASTER_ROOT \in Table
  /\ ReadUncommitted \subseteq Conn /\ Patient \subseteq Conn /\ Tidy \subseteq Conn
  /\ MaxActive \in Nat

VARIABLES
  bt,                  \* the BtShared object and the Btree handles on it
  autoCommit,          \* sqlite3.autoCommit: not between BEGIN and COMMIT
  active,              \* sqlite3.activeVdbeCnt, between calls
  writing,             \* sqlite3.writeVdbeCnt, between calls
  pc,                  \* "idle", or a call that has yet to tell the others
  blocking,            \* sqlite3.pBlockingConnection
  unlocker             \* sqlite3.pUnlockConnection: whose end calls back

vars == <<bt, autoCommit, active, writing, pc, blocking, unlocker>>
stmt == <<autoCommit, active, writing>>
notify == <<blocking, unlocker>>

TRANS_NONE  == 0
TRANS_READ  == 1
TRANS_WRITE == 2
READ_LOCK   == 1       \* 0 is no lock
WRITE_LOCK  == 2
BTS_EXCLUSIVE == "exclusive"     \* nobody beside the writer
BTS_PENDING   == "pending"       \* no new transaction: the writer waits

-----------------------------------------------------------------------------
(* The shared b-tree b.                                                    *)

NewBtShared ==
  [inTrans |-> [c \in Conn |-> TRANS_NONE], nTransaction |-> 0,
   inTransaction |-> TRANS_NONE, lock |-> [c \in Conn |-> [t \in Table |-> 0]],
   pWriter |-> NoConn, btsFlags |-> {}]

(* querySharedCacheTableLock(): who keeps c from lock e on table t.        *)
Holders(b, c, t, e) == {d \in Conn \ {c} : b.lock[d][t] \notin {0, e}}

query(b, c, t, e) ==
  IF b.pWriter # c /\ BTS_EXCLUSIVE \in b.btsFlags THEN {b.pWriter} ELSE Holders(b, c, t, e)

(* sqlite3BtreeBeginTrans(): is there something to begin, who is in the    *)
(* way, and what is begun.  wrflag is 0 to read, 1 to write, 2 to write    *)
(* with nobody else in the file.                                           *)
Begins(b, c, wrflag) ==
  ~(b.inTrans[c] = TRANS_WRITE \/ (b.inTrans[c] = TRANS_READ /\ wrflag = 0))

InTheWay(b, c, wrflag) ==
  IF (wrflag # 0 /\ b.inTransaction = TRANS_WRITE) \/ BTS_PENDING \in b.btsFlags
    THEN {b.pWriter}
  ELSE IF wrflag = 2 THEN {d \in Conn \ {c} : \E t \in Table : b.lock[d][t] # 0}
  ELSE {}

Blockers(b, c, wrflag) ==
  IF ~Begins(b, c, wrflag) THEN {}
  ELSE IF InTheWay(b, c, wrflag) # {} THEN InTheWay(b, c, wrflag)
  ELSE query(b, c, MASTER_ROOT, READ_LOCK)

Higher(x, y) == IF x > y THEN x ELSE y

Begun(b, c, wrflag) ==
  IF ~Begins(b, c, wrflag) THEN b
  ELSE LET new == b.inTrans[c] = TRANS_NONE
           trans == IF wrflag = 0 THEN TRANS_READ ELSE TRANS_WRITE
       IN  [b EXCEPT
              !.nTransaction = IF new THEN @ + 1 ELSE @,
              !.lock[c][MASTER_ROOT] = IF new THEN READ_LOCK ELSE @,
              !.inTrans[c] = trans,
              !.inTransaction = Higher(trans, @),
              !.pWriter = IF wrflag = 0 THEN @ ELSE c,
              !.btsFlags = CASE wrflag = 0 -> @
                             [] wrflag = 1 -> @ \ {BTS_EXCLUSIVE}
                             [] wrflag = 2 -> @ \cup {BTS_EXCLUSIVE}]

(* setSharedCacheTableLock().                                              *)
Locked(b, c, t, e) == [b EXCEPT !.lock[c][t] = Higher(e, @)]

(* Mutant: the flags stay when a writer goes on as a reader.               *)
DowngradedFlagsKept(b, c) ==
  IF b.pWriter # c THEN b
  ELSE [b EXCEPT !.pWriter = NoConn,
                 !.lock = [d \in Conn |-> [t \in Table |->
                             IF @[d][t] = 0 THEN 0 ELSE READ_LOCK]]]

(* downgradeAllSharedCacheTableLocks().                                    *)
Downgraded(b, c) ==
  IF b.pWriter # c THEN b
  ELSE [b EXCEPT !.pWriter = NoConn, !.btsFlags = @ \ {BTS_EXCLUSIVE, BTS_PENDING},
                 !.lock = [d \in Conn |-> [t \in Table |->
                             IF @[d][t] = 0 THEN 0 ELSE READ_LOCK]]]

(* Mutant: the flag stays when the last reader beside the writer ends.     *)
PendingKept(b, c) ==
  IF b.pWriter = c THEN b.btsFlags \ {BTS_EXCLUSIVE, BTS_PENDING} ELSE b.btsFlags

(* With two transactions left, none is in the way of the writer now.       *)
FlagsLeft(b, c) ==
  IF b.pWriter = c THEN b.btsFlags \ {BTS_EXCLUSIVE, BTS_PENDING}
  ELSE IF b.nTransaction = 2 THEN b.btsFlags \ {BTS_PENDING}
  ELSE b.btsFlags

(* clearAllSharedCacheTableLocks().                                        *)
ClearedLocks(b, c) ==
  [b EXCEPT !.lock[c] = [t \in Table |-> 0],
            !.pWriter = IF @ = c THEN NoConn ELSE @,
            !.btsFlags = FlagsLeft(b, c)]

(* sqlite3BtreeCommitPhaseTwo() and sqlite3BtreeRollback(), which end in   *)
(* btreeEndTransaction(): with n statements active, other statements of c  *)
(* may go on reading.                                                      *)
Concluded(b, c, n) ==
  LET over == [b EXCEPT !.inTransaction = IF b.inTrans[c] = TRANS_WRITE THEN TRANS_READ ELSE @]
  IN  IF b.inTrans[c] = TRANS_NONE THEN b
      ELSE IF n > 1 THEN [Downgraded(over, c) EXCEPT !.inTrans[c] = TRANS_READ]
      ELSE [ClearedLocks(over, c) EXCEPT
              !.inTrans[c] = TRANS_NONE, !.nTransaction = @ - 1,
              !.inTransaction = IF b.nTransaction = 1 THEN TRANS_NONE ELSE @]

-----------------------------------------------------------------------------
(* Who may run.                                                            *)

Waits(c) == c \in Patient /\ unlocker[c] # NoConn
Ready(c) == pc[c] = "idle" /\ ~Waits(c)

(* sqlite3ConnectionBlocked().                                             *)
Blocked(c, d) == blocking' = [blocking EXCEPT ![c] = d] /\ UNCHANGED unlocker

(* A statement ends, with n active: sqlite3VdbeHalt().  If it is the last  *)
(* writer outside of BEGIN, so does the transaction; and outside of BEGIN  *)
(* the others are told, whether or not it did.                             *)
Halted(b, c, n, others) == IF autoCommit[c] /\ others = 0 THEN Concluded(b, c, n) ELSE b

Tell(c) == pc' = [pc EXCEPT ![c] = IF autoCommit[c] THEN "unlock" ELSE "idle"]

Flag == {0, 1}

(* A statement starts: OP_Transaction and OP_TableLock.  In autocommit     *)
(* mode an error rolls back whatever the statement has begun.              *)
TransactionBlocked(c, wrflag) ==
  /\ Ready(c)
  /\ \E d \in Blockers(bt, c, wrflag) : Blocked(c, d)
  /\ bt' = Halted(bt, c, active[c] + 1, writing[c])
  /\ Tell(c)
  /\ UNCHANGED stmt

(* The pager's file lock cannot be had: SQLITE_BUSY does not halt the      *)
(* statement, which stays active until it is reset.  (If it is stepped     *)
(* again instead, that is to the model a reset and another start.)         *)
TransactionBusy(c, wrflag) ==
  /\ Ready(c) /\ active[c] < MaxActive
  /\ Begins(bt, c, wrflag) /\ Blockers(bt, c, wrflag) = {}
  /\ active' = [active EXCEPT ![c] = @ + 1]
  /\ writing' = [writing EXCEPT ![c] = IF wrflag = 0 THEN @ ELSE @ + 1]
  /\ UNCHANGED <<bt, autoCommit, pc, notify>>

NeedsLock(c, wrflag) == wrflag = 1 \/ c \notin ReadUncommitted

(* A writer that finds the table locked keeps new transactions out.        *)
Refused(b, c, wrflag, t) ==
  IF wrflag = 1 /\ Holders(b, c, t, WRITE_LOCK) # {}
    THEN [b EXCEPT !.btsFlags = @ \cup {BTS_PENDING}] ELSE b

LockBlocked(c, wrflag, t) ==
  /\ Ready(c) /\ Blockers(bt, c, wrflag) = {} /\ NeedsLock(c, wrflag)
  /\ LET b == Begun(bt, c, wrflag)
     IN  /\ \E d \in query(b, c, t, READ_LOCK + wrflag) : Blocked(c, d)
         /\ bt' = Halted(Refused(b, c, wrflag, t), c, active[c] + 1, writing[c])
  /\ Tell(c)
  /\ UNCHANGED stmt

(* Mutant: a statement that finds the table locked goes on.                *)
StatementUnchecked(c, wrflag, t) ==
  /\ Ready(c) /\ active[c] < MaxActive /\ Blockers(bt, c, wrflag) = {}
  /\ bt' = IF NeedsLock(c, wrflag)
           THEN Locked(Begun(bt, c, wrflag), c, t, READ_LOCK + wrflag) ELSE Begun(bt, c, wrflag)
  /\ active' = [active EXCEPT ![c] = @ + 1]
  /\ writing' = [writing EXCEPT ![c] = @ + wrflag]
  /\ UNCHANGED <<autoCommit, pc, notify>>

Statement(c, wrflag, t) ==
  /\ Ready(c) /\ active[c] < MaxActive /\ Blockers(bt, c, wrflag) = {}
  /\ LET b == Begun(bt, c, wrflag)
     IN  IF NeedsLock(c, wrflag)
           THEN /\ query(b, c, t, READ_LOCK + wrflag) = {}
                /\ bt' = Locked(b, c, t, READ_LOCK + wrflag)
           ELSE bt' = b
  /\ active' = [active EXCEPT ![c] = @ + 1]
  /\ writing' = [writing EXCEPT ![c] = @ + wrflag]
  /\ UNCHANGED <<autoCommit, pc, notify>>

Active(c, wrflag) == IF wrflag = 1 THEN writing[c] > 0 ELSE active[c] > writing[c]

(* It is reset or runs to its end.                                         *)
Finish(c, wrflag) ==
  /\ Ready(c) /\ Active(c, wrflag)
  /\ bt' = Halted(bt, c, active[c], writing[c] - wrflag)
  /\ active' = [active EXCEPT ![c] = @ - 1]
  /\ writing' = [writing EXCEPT ![c] = @ - wrflag]
  /\ Tell(c)
  /\ UNCHANGED <<autoCommit, notify>>

(* It ends in one of the errors that take the whole transaction with them: *)
(* out of memory, an I/O error, a full disk, ON CONFLICT ROLLBACK.         *)
Abort(c, wrflag) ==
  /\ Ready(c) /\ Active(c, wrflag)
  /\ bt' = Concluded(bt, c, active[c])
  /\ autoCommit' = [autoCommit EXCEPT ![c] = TRUE]
  /\ active' = [active EXCEPT ![c] = @ - 1]
  /\ writing' = [writing EXCEPT ![c] = @ - wrflag]
  /\ pc' = [pc EXCEPT ![c] = "unlock"]
  /\ UNCHANGED notify

(* BEGIN, which takes its transaction at once if it is IMMEDIATE (1) or    *)
(* EXCLUSIVE (2).  Within a transaction that is done too before the error. *)
Begin(c, wrflag) ==
  /\ Ready(c) /\ (wrflag # 0 => Blockers(bt, c, wrflag) = {})
  /\ bt' = IF wrflag = 0 THEN bt ELSE Begun(bt, c, wrflag)
  /\ autoCommit' = [autoCommit EXCEPT ![c] = FALSE]
  /\ UNCHANGED <<active, writing, pc, notify>>

(* COMMIT, refused while another statement writes.                         *)
Commit(c) ==
  /\ Ready(c) /\ ~autoCommit[c] /\ writing[c] = 0
  /\ bt' = Concluded(bt, c, active[c] + 1)
  /\ autoCommit' = [autoCommit EXCEPT ![c] = TRUE]
  /\ pc' = [pc EXCEPT ![c] = "unlock"]
  /\ UNCHANGED <<active, writing, notify>>

(* The pager cannot commit for the readers of another process, or a        *)
(* deferred foreign key is violated: COMMIT stays active, and the          *)
(* transaction open.                                                       *)
CommitBusy(c) ==
  /\ Ready(c) /\ ~autoCommit[c] /\ writing[c] = 0 /\ active[c] < MaxActive
  /\ bt.inTrans[c] = TRANS_WRITE
  /\ active' = [active EXCEPT ![c] = @ + 1]
  /\ UNCHANGED <<bt, autoCommit, writing, pc, notify>>

(* ROLLBACK, which unlike COMMIT does not halt its own statement: that is  *)
(* active, and nobody is told, until it is reset.                          *)
Rollback(c) ==
  /\ Ready(c) /\ ~autoCommit[c]
  /\ bt' = Concluded(bt, c, active[c] + 1)
  /\ autoCommit' = [autoCommit EXCEPT ![c] = TRUE]
  /\ \/ /\ c \in Tidy
        /\ pc' = [pc EXCEPT ![c] = "unlock"]
        /\ UNCHANGED active
     \/ /\ c \notin Tidy /\ active[c] < MaxActive
        /\ active' = [active EXCEPT ![c] = @ + 1]
        /\ UNCHANGED pc
  /\ UNCHANGED <<writing, notify>>

(* sqlite3_prepare() looks at the schema table: sqlite3BtreeSchemaLocked() *)
PrepareBlocked(c) ==
  /\ Ready(c)
  /\ \E d \in query(bt, c, MASTER_ROOT, READ_LOCK) : Blocked(c, d)
  /\ UNCHANGED <<bt, stmt, pc>>

(* sqlite3_close(), possible once no statement is left.                    *)
Close(c) ==
  /\ pc[c] = "idle" /\ active[c] = 0
  /\ bt' = Concluded(bt, c, 0)
  /\ autoCommit' = [autoCommit EXCEPT ![c] = TRUE]
  /\ pc' = [pc EXCEPT ![c] = "close"]
  /\ UNCHANGED <<active, writing, notify>>

-----------------------------------------------------------------------------
(* Unlock notification.                                                    *)

Dropped(f, c) == [d \in Conn |-> IF f[d] = c THEN NoConn ELSE f[d]]

(* sqlite3ConnectionUnlocked(): whoever is blocked by c is so no longer,   *)
(* and whoever waits for it is called back.                                *)
ConnectionUnlocked(c) ==
  /\ pc[c] = "unlock"
  /\ blocking' = Dropped(blocking, c)
  /\ unlocker' = Dropped(unlocker, c)
  /\ pc' = [pc EXCEPT ![c] = "idle"]
  /\ UNCHANGED <<bt, stmt>>

(* Mutant: those who wait for a connection that closes are not told.       *)
ClosedSilently(c) ==
  /\ pc[c] = "close"
  /\ blocking' = [blocking EXCEPT ![c] = NoConn]
  /\ unlocker' = [unlocker EXCEPT ![c] = NoConn]
  /\ pc' = [pc EXCEPT ![c] = "idle"]
  /\ UNCHANGED <<bt, stmt>>

(* sqlite3ConnectionClosed(); then a new connection takes c's place.       *)
ConnectionClosed(c) ==
  /\ pc[c] = "close"
  /\ blocking' = [Dropped(blocking, c) EXCEPT ![c] = NoConn]
  /\ unlocker' = [Dropped(unlocker, c) EXCEPT ![c] = NoConn]
  /\ pc' = [pc EXCEPT ![c] = "idle"]
  /\ UNCHANGED <<bt, stmt>>

(* Who waits for whom, directly or not: the loop of sqlite3_unlock_notify  *)
(* from d along pUnlockConnection gets to c.                               *)
ClosedUnder(S, f) == \A x \in S : f[x] # NoConn => f[x] \in S

Reaches(f, d, c) == \A S \in SUBSET Conn : d \in S /\ ClosedUnder(S, f) => c \in S

(* Mutant: only a connection that waits for c itself is a deadlock.        *)
DeadlockDirect(c) == unlocker[blocking[c]] = c

Deadlock(c) == Reaches(unlocker, blocking[c], c)

(* sqlite3_unlock_notify().  If nobody is in the way any more the callback *)
(* is invoked at once; in a deadlock it is refused.  Neither touches a     *)
(* callback that was asked for before.                                     *)
UnlockNotify(c) ==
  /\ Ready(c)
  /\ unlocker' = IF blocking[c] # NoConn /\ ~Deadlock(c)
                   THEN [unlocker EXCEPT ![c] = blocking[c]] ELSE unlocker
  /\ UNCHANGED <<bt, stmt, pc, blocking>>

(* With a null pointer for the callback.                                   *)
Cancel(c) ==
  /\ pc[c] = "idle"
  /\ blocking' = [blocking EXCEPT ![c] = NoConn]
  /\ unlocker' = [unlocker EXCEPT ![c] = NoConn]
  /\ UNCHANGED <<bt, stmt, pc>>

-----------------------------------------------------------------------------

Init ==
  /\ bt = NewBtShared
  /\ autoCommit = [c \in Conn |-> TRUE]
  /\ active = [c \in Conn |-> 0] /\ writing = [c \in Conn |-> 0]
  /\ pc = [c \in Conn |-> "idle"]
  /\ blocking = [c \in Conn |-> NoConn] /\ unlocker = [c \in Conn |-> NoConn]

Step(c) ==
  \/ \E wrflag \in {0, 1, 2} :
        TransactionBlocked(c, wrflag) \/ TransactionBusy(c, wrflag) \/ Begin(c, wrflag)
  \/ \E wrflag \in Flag : Finish(c, wrflag) \/ Abort(c, wrflag)
  \/ \E wrflag \in Flag, t \in Table : LockBlocked(c, wrflag, t) \/ Statement(c, wrflag, t)
  \/ Commit(c) \/ CommitBusy(c) \/ Rollback(c) \/ PrepareBlocked(c) \/ Close(c)
  \/ ConnectionUnlocked(c) \/ ConnectionClosed(c) \/ UnlockNotify(c) \/ Cancel(c)

Next == \E c \in Conn : Step(c)

Spec == Init /\ [][Next]_vars

(* A call that has begun goes on to its end; an application ends its       *)
(* statements and transactions unless it waits for a callback.             *)
Fairness ==
  \A c \in Conn : /\ WF_vars(ConnectionUnlocked(c)) /\ WF_vars(ConnectionClosed(c))
                 /\ SF_vars(Commit(c) \/ Rollback(c))
                 /\ SF_vars(\E wrflag \in Flag : Finish(c, wrflag))

LiveSpec == Spec /\ Fairness

-----------------------------------------------------------------------------
(* Properties.                                                             *)

BtShared ==
  [inTrans: [Conn -> {TRANS_NONE, TRANS_READ, TRANS_WRITE}], nTransaction: Int,
   inTransaction: {TRANS_NONE, TRANS_READ, TRANS_WRITE},
   lock: [Conn -> [Table -> {0, READ_LOCK, WRITE_LOCK}]],
   pWriter: Conn \cup {NoConn}, btsFlags: SUBSET {BTS_EXCLUSIVE, BTS_PENDING}]

TypeOK ==
  /\ bt \in BtShared
  /\ autoCommit \in [Conn -> BOOLEAN]
  /\ active \in [Conn -> Nat] /\ writing \in [Conn -> Nat]
  /\ pc \in [Conn -> {"idle", "unlock", "close"}]
  /\ blocking \in [Conn -> Conn \cup {NoConn}]
  /\ unlocker \in [Conn -> Conn \cup {NoConn}]

(* A write lock on a table excludes every other lock on it, although the   *)
(* test of querySharedCacheTableLock() lets two write locks pass: it       *)
(* relies on there being one writer.                                       *)
WriteLocksExclude ==
  \A c, d \in Conn, t \in Table :
     c # d /\ bt.lock[c][t] = WRITE_LOCK => bt.lock[d][t] = 0

(* sqlite3BtreeBeginTrans() dereferences BtShared.pWriter whenever the     *)
(* b-tree is in a write transaction or BTS_PENDING is set, and             *)
(* querySharedCacheTableLock() whenever BTS_EXCLUSIVE is: there is a       *)
(* writer then.  With BTS_EXCLUSIVE set every lock is the writer's.        *)
WriterKnown ==
  /\ bt.inTransaction = TRANS_WRITE \/ bt.btsFlags # {} =>
       bt.pWriter \in Conn /\ bt.inTrans[bt.pWriter] = TRANS_WRITE
  /\ BTS_EXCLUSIVE \in bt.btsFlags =>
       \A c \in Conn \ {bt.pWriter}, t \in Table : bt.lock[c][t] = 0

(* BTS_PENDING is set only while the writer has somebody to wait for: if   *)
(* it outlived the readers, nobody could begin a transaction until the     *)
(* writer, which may itself wait for nobody, ends.                         *)
PendingHasReaders ==
  BTS_PENDING \in bt.btsFlags => \E c \in Conn \ {bt.pWriter} : bt.inTrans[c] # TRANS_NONE

(* No callback is lost: whom a connection is blocked by or waits for has   *)
(* yet to make a call that ends in sqlite3ConnectionUnlocked().            *)
Owes(d) ==
  pc[d] # "idle" \/ bt.inTrans[d] # TRANS_NONE \/ active[d] > 0 \/ ~autoCommit[d]

NoLostNotify ==
  \A c, d \in Conn : blocking[c] = d \/ unlocker[c] = d => Owes(d)

(* Nobody waits for itself through others: what deadlock detection is for, *)
(* and what makes the loop of sqlite3_unlock_notify() come to an end.      *)
NoWaitCycle ==
  \A c \in Conn : unlocker[c] # NoConn => ~Reaches(unlocker, unlocker[c], c)

(* Whoever has asked for a callback gets it, if the others reset a         *)
(* ROLLBACK before they go on: an application that begins anew first can   *)
(* put it off for ever.                                                    *)
Notified == \A c \in Conn : unlocker[c] # NoConn ~> unlocker[c] = NoConn

(* What sqlite3.h says of the callback: it is invoked from within the call *)
(* of sqlite3_step() or sqlite3_close() that concludes the transaction of  *)
(* the blocking connection.                                                *)
ConclusionNotifies ==
  \A c, d \in Conn : unlocker[c] = d /\ pc[d] = "idle" => bt.inTrans[d] # TRANS_NONE

(* What notify.c says of sqlite3_unlock_notify(): each call overrides any  *)
(* callback registered before.                                             *)
CallOverrides ==
  \A c \in Conn : Ready(c) /\ unlocker[c] # NoConn => blocking[c] # NoConn /\ ~Deadlock(c)
=============================================================================
