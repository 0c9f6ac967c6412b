------------------------- MODULE SharedCacheProofs -------------------------
(***************************************************************************)
(* Proofs about SharedCache, for any finite number of connections, any     *)
(* tables and any number of active statements: every invariant that its    *)
(* runs check.                                                             *)
(***************************************************************************)
EXTENDS SharedCache, FiniteSetTheorems, TLAPS

USE DEF TRANS_NONE, TRANS_READ, TRANS_WRITE, READ_LOCK, WRITE_LOCK,
        BTS_EXCLUSIVE, BTS_PENDING

-----------------------------------------------------------------------------
(* The invariant of the shared b-tree.                                     *)

TransSet(b) == {c \in Conn : b.inTrans[c] # TRANS_NONE}

(* pWriter is the connection whose handle is in a write transaction, and   *)
(* the b-tree is in one if there is such a connection.                     *)
OneWriter(b) ==
  /\ \A c \in Conn : b.inTrans[c] = TRANS_WRITE <=> b.pWriter = c
  /\ b.inTransaction = TRANS_WRITE <=> b.pWriter # NoConn

Counted(b) == b.nTransaction = Cardinality(TransSet(b))

(* A table is locked at most as strongly as the transaction is: an         *)
(* assertion of clearAllSharedCacheTableLocks().                           *)
Covered(b) == \A c \in Conn, t \in Table : b.lock[c][t] <= b.inTrans[c]

Excludes(b) ==
  \A c, d \in Conn, t \in Table :
     c # d /\ b.lock[c][t] = WRITE_LOCK => b.lock[d][t] = 0

ExclusiveOK(b) ==
  BTS_EXCLUSIVE \in b.btsFlags =>
    /\ b.pWriter \in Conn
    /\ \A c \in Conn \ {b.pWriter}, t \in Table : b.lock[c][t] = 0

PendingOK(b) ==
  BTS_PENDING \in b.btsFlags => b.pWriter \in Conn /\ TransSet(b) \ {b.pWriter} # {}

BtInv(b) ==
  /\ b \in BtShared /\ OneWriter(b) /\ Counted(b) /\ Covered(b)
  /\ Excludes(b) /\ ExclusiveOK(b) /\ PendingOK(b)

-----------------------------------------------------------------------------
(* Counting transactions.                                                  *)

(* The transactions can be counted.                                        *)
LEMMA TransSetFinite ==
  \A b : IsFiniteSet(TransSet(b)) /\ Cardinality(TransSet(b)) \in Nat
<1>1. SUFFICES ASSUME NEW b
               PROVE  IsFiniteSet(TransSet(b)) /\ Cardinality(TransSet(b)) \in Nat
  OBVIOUS
<1>2. IsFiniteSet(TransSet(b))
  BY SharedCacheAssumption, FS_Subset DEF TransSet
<1> QED
  BY <1>2, FS_CardinalityType

(* If the only transaction beside that of c is the writer's, then there    *)
(* are two.                                                                *)
LEMMA CountOfTwo ==
  ASSUME NEW b, NEW c \in TransSet(b), NEW d \in TransSet(b), c # d
  PROVE  /\ Cardinality(TransSet(b)) # 1
         /\ Cardinality(TransSet(b)) # 2 => TransSet(b) \ {c, d} # {}
<1> DEFINE S == TransSet(b)
<1>1. IsFiniteSet(S) /\ Cardinality(S) \in Nat
  BY TransSetFinite
<1>2. IsFiniteSet(S \ {c}) /\ Cardinality(S \ {c}) = Cardinality(S) - 1
  BY <1>1, FS_RemoveElement
<1>3. IsFiniteSet((S \ {c}) \ {d}) /\ Cardinality((S \ {c}) \ {d}) = Cardinality(S) - 2
  <2>1. d \in S \ {c}
    OBVIOUS
  <2> HIDE DEF S
  <2>2. Cardinality((S \ {c}) \ {d}) = Cardinality(S \ {c}) - 1
    BY <2>1, <1>2, FS_RemoveElement
  <2>3. IsFiniteSet((S \ {c}) \ {d})
    BY <1>2, FS_RemoveElement
  <2> QED
    BY <2>2, <2>3, <1>1, <1>2
<1>4. Cardinality((S \ {c}) \ {d}) \in Nat
  BY <1>3, FS_CardinalityType
<1>5. Cardinality(S) # 1
  BY <1>1, <1>3, <1>4
<1>6. ASSUME S \ {c, d} = {} PROVE Cardinality(S) = 2
  <2>1. (S \ {c}) \ {d} = {}
    BY <1>6
  <2>2. Cardinality((S \ {c}) \ {d}) = 0
    BY <2>1, FS_EmptySet
  <2> QED
    BY <2>2, <1>1, <1>3
<1> QED
  BY <1>5, <1>6

(* The set of those in a transaction when only c's changes.                *)
LEMMA TransSetChange ==
  ASSUME NEW b \in BtShared, NEW r \in BtShared, NEW c \in Conn,
         \A d \in Conn \ {c} : r.inTrans[d] = b.inTrans[d]
  PROVE  TransSet(r) = IF r.inTrans[c] = TRANS_NONE
                         THEN TransSet(b) \ {c} ELSE TransSet(b) \cup {c}
BY DEF TransSet

-----------------------------------------------------------------------------
(* What the operations on the b-tree do to its fields.                     *)

(* What sqlite3BtreeBeginTrans() leaves in each field.                     *)
LEMMA BegunFields ==
  ASSUME NEW b \in BtShared, NEW c \in Conn, NEW wrflag \in {0, 1, 2},
         Begins(b, c, wrflag)
  PROVE  LET r == Begun(b, c, wrflag)
             trans == IF wrflag = 0 THEN TRANS_READ ELSE TRANS_WRITE
             new == b.inTrans[c] = TRANS_NONE
         IN  /\ r \in BtShared
             /\ r.inTrans[c] = trans
             /\ \A d \in Conn \ {c} : r.inTrans[d] = b.inTrans[d]
             /\ r.nTransaction = IF new THEN b.nTransaction + 1 ELSE b.nTransaction
             /\ \A d \in Conn, t \in Table :
                  r.lock[d][t] = IF new /\ d = c /\ t = MASTER_ROOT THEN READ_LOCK
                                 ELSE b.lock[d][t]
             /\ r.inTransaction = Higher(trans, b.inTransaction)
             /\ r.pWriter = IF wrflag = 0 THEN b.pWriter ELSE c
             /\ wrflag = 0 => r.btsFlags = b.btsFlags
             /\ wrflag = 1 => r.btsFlags = b.btsFlags \ {BTS_EXCLUSIVE}
             /\ wrflag = 2 => r.btsFlags = b.btsFlags \cup {BTS_EXCLUSIVE}
<1> DEFINE trans == IF wrflag = 0 THEN TRANS_READ ELSE TRANS_WRITE
           new == b.inTrans[c] = TRANS_NONE
           flags == CASE wrflag = 0 -> b.btsFlags
                      [] wrflag = 1 -> b.btsFlags \ {BTS_EXCLUSIVE}
                      [] wrflag = 2 -> b.btsFlags \cup {BTS_EXCLUSIVE}
           r == Begun(b, c, wrflag)
<1>1. r = [inTrans |-> [b.inTrans EXCEPT ![c] = trans],
           nTransaction |-> IF new THEN b.nTransaction + 1 ELSE b.nTransaction,
           inTransaction |-> Higher(trans, b.inTransaction),
           lock |-> [b.lock EXCEPT ![c] = [b.lock[c] EXCEPT ![MASTER_ROOT] =
                       IF new THEN READ_LOCK ELSE @]],
           pWriter |-> IF wrflag = 0 THEN b.pWriter ELSE c,
           btsFlags |-> flags]
  BY DEF Begun, BtShared
<1>2. Higher(trans, b.inTransaction) \in {TRANS_NONE, TRANS_READ, TRANS_WRITE}
  BY DEF Higher, BtShared
<1>3. flags \in SUBSET {BTS_EXCLUSIVE, BTS_PENDING}
  BY DEF BtShared
<1>4. r \in BtShared
  BY <1>1, <1>2, <1>3, SharedCacheAssumption DEF BtShared
<1> QED
  BY <1>1, <1>4, SharedCacheAssumption DEF BtShared

(* What setSharedCacheTableLock() leaves in each field.                    *)
LEMMA LockedFields ==
  ASSUME NEW b \in BtShared, NEW c \in Conn, NEW t \in Table,
         NEW e \in {READ_LOCK, WRITE_LOCK}
  PROVE  LET r == Locked(b, c, t, e)
         IN  /\ r \in BtShared
             /\ r.inTrans = b.inTrans /\ r.nTransaction = b.nTransaction
             /\ r.inTransaction = b.inTransaction /\ r.pWriter = b.pWriter
             /\ r.btsFlags = b.btsFlags
             /\ r.lock[c][t] \in {READ_LOCK, WRITE_LOCK} \cap {e, b.lock[c][t]}
             /\ \A d \in Conn, u \in Table :
                  d # c \/ u # t => r.lock[d][u] = b.lock[d][u]
<1> DEFINE r == Locked(b, c, t, e)
<1>1. PICK v : v = Higher(e, b.lock[c][t])
  OBVIOUS
<1>2. v \in {READ_LOCK, WRITE_LOCK} \cap {e, b.lock[c][t]}
  <2>1. PICK w \in {0, READ_LOCK, WRITE_LOCK} : w = b.lock[c][t]
    BY DEF BtShared
  <2>2. v = IF e > w THEN e ELSE w
    BY <1>1, <2>1 DEF Higher
  <2>3. v \in {READ_LOCK, WRITE_LOCK} /\ v \in {e, w}
    BY <2>2
  <2> QED
    BY <2>1, <2>3
<1>3. r = [b EXCEPT !.lock[c][t] = v]
  BY <1>1 DEF Locked
<1>4. r.lock = [b.lock EXCEPT ![c] = [b.lock[c] EXCEPT ![t] = v]]
  BY <1>3 DEF BtShared
<1>5. r = [inTrans |-> b.inTrans, nTransaction |-> b.nTransaction,
           inTransaction |-> b.inTransaction, lock |-> r.lock,
           pWriter |-> b.pWriter, btsFlags |-> b.btsFlags]
  BY <1>3 DEF BtShared
<1>6. r.lock \in [Conn -> [Table -> {0, READ_LOCK, WRITE_LOCK}]]
  BY <1>2, <1>4 DEF BtShared
<1> HIDE DEF r
<1>7. r \in BtShared
  BY <1>5, <1>6 DEF BtShared
<1>8. /\ r.inTrans = b.inTrans /\ r.nTransaction = b.nTransaction
      /\ r.inTransaction = b.inTransaction /\ r.pWriter = b.pWriter
      /\ r.btsFlags = b.btsFlags
  BY <1>5
<1>9. /\ r.lock[c][t] = v
      /\ \A d \in Conn, u \in Table : d # c \/ u # t => r.lock[d][u] = b.lock[d][u]
  BY <1>4 DEF BtShared
<1> QED
  BY <1>2, <1>7, <1>8, <1>9 DEF r

-----------------------------------------------------------------------------
(* Each of them keeps the invariant.                                       *)

(* Nobody begins a transaction in the way of another one.                  *)
LEMMA BegunInv ==
  ASSUME NEW b, BtInv(b), NEW c \in Conn, NEW wrflag \in {0, 1, 2},
         Blockers(b, c, wrflag) = {}
  PROVE  LET r == Begun(b, c, wrflag)
         IN  /\ BtInv(r)
             /\ \A d \in Conn \ {c} : r.inTrans[d] = b.inTrans[d]
             /\ r.inTrans[c] # TRANS_NONE
             /\ wrflag # 0 => r.pWriter = c
<1> DEFINE r == Begun(b, c, wrflag)
<1>b. b \in BtShared /\ OneWriter(b) /\ Counted(b) /\ Covered(b)
      /\ Excludes(b) /\ ExclusiveOK(b) /\ PendingOK(b)
  BY DEF BtInv
<1>1. CASE ~Begins(b, c, wrflag)
  <2>1. r = b
    BY <1>1 DEF Begun
  <2>2. b.inTrans[c] # TRANS_NONE /\ (wrflag # 0 => b.inTrans[c] = TRANS_WRITE)
    BY <1>1, <1>b DEF Begins, BtShared
  <2> QED
    BY <2>1, <2>2, <1>b DEF OneWriter
<1>2. CASE Begins(b, c, wrflag)
  <2> DEFINE trans == IF wrflag = 0 THEN TRANS_READ ELSE TRANS_WRITE
             new == b.inTrans[c] = TRANS_NONE
  <2>1. /\ r \in BtShared
        /\ r.inTrans[c] = trans
        /\ \A d \in Conn \ {c} : r.inTrans[d] = b.inTrans[d]
        /\ r.nTransaction = IF new THEN b.nTransaction + 1 ELSE b.nTransaction
        /\ \A d \in Conn, t \in Table :
             r.lock[d][t] = IF new /\ d = c /\ t = MASTER_ROOT THEN READ_LOCK
                            ELSE b.lock[d][t]
        /\ r.inTransaction = Higher(trans, b.inTransaction)
        /\ r.pWriter = IF wrflag = 0 THEN b.pWriter ELSE c
        /\ wrflag = 0 => r.btsFlags = b.btsFlags
        /\ wrflag = 1 => r.btsFlags = b.btsFlags \ {BTS_EXCLUSIVE}
        /\ wrflag = 2 => r.btsFlags = b.btsFlags \cup {BTS_EXCLUSIVE}
    BY <1>b, <1>2, BegunFields
  <2> HIDE DEF r
  <2>2. /\ BTS_PENDING \notin b.btsFlags
        /\ wrflag # 0 => b.pWriter = NoConn
        /\ wrflag = 2 => \A d \in Conn \ {c}, t \in Table : b.lock[d][t] = 0
    <3>1. InTheWay(b, c, wrflag) = {}
      BY <1>2 DEF Blockers
    <3> QED
      BY <3>1, <1>b DEF InTheWay, OneWriter
  <2>3. /\ BTS_EXCLUSIVE \in b.btsFlags => b.pWriter = c
        /\ \A d \in Conn \ {c} : b.lock[d][MASTER_ROOT] \in {0, READ_LOCK}
    <3>1. query(b, c, MASTER_ROOT, READ_LOCK) = {}
      BY <1>2 DEF Blockers
    <3>2. BTS_EXCLUSIVE \in b.btsFlags => b.pWriter = c
      BY <3>1 DEF query
    <3>3. Holders(b, c, MASTER_ROOT, READ_LOCK) = {}
      BY <3>1, <3>2 DEF query
    <3> QED
      BY <3>2, <3>3 DEF Holders
  <2>4. b.inTrans[c] # TRANS_WRITE /\ b.pWriter # c
    BY <1>2, <1>b DEF Begins, OneWriter
  <2>5. OneWriter(r)
    BY <2>1, <2>2, <2>4, <1>b, SharedCacheAssumption DEF OneWriter, Higher, BtShared
  <2>6. Counted(r)
    <3>1. TransSet(r) = TransSet(b) \cup {c}
      BY <2>1, <1>b, TransSetChange
    <3>2. Cardinality(TransSet(b) \cup {c}) =
            IF c \in TransSet(b) THEN Cardinality(TransSet(b)) ELSE Cardinality(TransSet(b)) + 1
      BY TransSetFinite, FS_AddElement
    <3>3. c \in TransSet(b) <=> ~new
      BY DEF TransSet
    <3> QED
      BY <3>1, <3>2, <3>3, <2>1, <1>b DEF Counted
  <2>7. Covered(r)
    <3>1. ASSUME NEW t \in Table PROVE r.lock[c][t] <= r.inTrans[c]
      BY <2>1, <2>4, <1>b DEF Covered, BtShared
    <3>2. ASSUME NEW d \in Conn \ {c}, NEW t \in Table
          PROVE  r.lock[d][t] <= r.inTrans[d]
      BY <2>1, <1>b DEF Covered
    <3> QED
      BY <3>1, <3>2 DEF Covered
  <2>8. Excludes(r)
    BY <2>1, <2>3, <1>b, SharedCacheAssumption DEF Excludes, BtShared
  <2>9. ExclusiveOK(r)
    BY <2>1, <2>2, <2>3, <2>4, <1>b DEF ExclusiveOK
  <2>10. PendingOK(r)
    BY <2>1, <2>2 DEF PendingOK
  <2> QED
    BY <2>1, <2>5, <2>6, <2>7, <2>8, <2>9, <2>10 DEF BtInv, r
<1> QED
  BY <1>1, <1>2

(* A table is locked only if nobody has a lock on it that is in the way.   *)
LEMMA LockedInv ==
  ASSUME NEW b, BtInv(b), NEW c \in Conn, NEW t \in Table, NEW wrflag \in {0, 1},
         b.inTrans[c] # TRANS_NONE, wrflag = 1 => b.pWriter = c,
         query(b, c, t, READ_LOCK + wrflag) = {}
  PROVE  LET r == Locked(b, c, t, READ_LOCK + wrflag)
         IN  BtInv(r) /\ r.inTrans = b.inTrans
<1> DEFINE e == READ_LOCK + wrflag
           r == Locked(b, c, t, e)
<1>b. b \in BtShared /\ OneWriter(b) /\ Counted(b) /\ Covered(b)
      /\ Excludes(b) /\ ExclusiveOK(b) /\ PendingOK(b)
  BY DEF BtInv
<1>1. e \in {READ_LOCK, WRITE_LOCK}
  OBVIOUS
<1>3. /\ r \in BtShared
      /\ r.inTrans = b.inTrans /\ r.nTransaction = b.nTransaction
      /\ r.inTransaction = b.inTransaction /\ r.pWriter = b.pWriter
      /\ r.btsFlags = b.btsFlags
      /\ r.lock[c][t] \in {READ_LOCK, WRITE_LOCK} \cap {e, b.lock[c][t]}
      /\ \A d \in Conn, u \in Table : d # c \/ u # t => r.lock[d][u] = b.lock[d][u]
  <2> HIDE DEF e
  <2> QED
    BY <1>1, <1>b, LockedFields
<1> HIDE DEF r
<1>4. BTS_EXCLUSIVE \in b.btsFlags => b.pWriter = c
  BY DEF query
<1>5. \A d \in Conn \ {c} : b.lock[d][t] \in {0, e}
  BY <1>4 DEF query, Holders
<1>6. OneWriter(r)
  BY <1>3, <1>b DEF OneWriter
<1>7. TransSet(r) = TransSet(b)
  BY <1>3 DEF TransSet
<1>8. Covered(r)
  BY <1>1, <1>3, <1>b DEF Covered, OneWriter, BtShared
<1>9. Excludes(r)
  <2>1. ASSUME NEW d \in Conn \ {c}, wrflag = 1 PROVE b.lock[d][t] = 0
    BY <2>1, <1>5, <1>b DEF Covered, OneWriter, BtShared
  <2>2. ASSUME NEW d \in Conn \ {c}, r.lock[d][t] = WRITE_LOCK PROVE FALSE
    BY <2>1, <2>2, <1>3, <1>5, <1>b DEF BtShared
  <2>3. ASSUME NEW d \in Conn \ {c}, r.lock[c][t] = WRITE_LOCK PROVE r.lock[d][t] = 0
    BY <2>1, <2>3, <1>1, <1>3, <1>b DEF Excludes, BtShared
  <2> QED
    BY <2>2, <2>3, <1>3, <1>b DEF Excludes
<1>10. ExclusiveOK(r)
  BY <1>3, <1>4, <1>b DEF ExclusiveOK
<1> QED
  BY <1>3, <1>6, <1>7, <1>8, <1>9, <1>10, <1>b DEF BtInv, Counted, PendingOK, r

(* The flag that keeps others out is set while one of them is in the way.  *)
LEMMA RefusedInv ==
  ASSUME NEW b, BtInv(b), NEW c \in Conn, NEW t \in Table, NEW wrflag \in {0, 1},
         wrflag = 1 => b.pWriter = c
  PROVE  LET r == Refused(b, c, wrflag, t)
         IN  BtInv(r) /\ r.inTrans = b.inTrans
<1> DEFINE r == Refused(b, c, wrflag, t)
<1>b. b \in BtShared /\ OneWriter(b) /\ Counted(b) /\ Covered(b)
      /\ Excludes(b) /\ ExclusiveOK(b) /\ PendingOK(b)
  BY DEF BtInv
<1>1. CASE wrflag = 1 /\ Holders(b, c, t, WRITE_LOCK) # {}
  <2>1. PICK d \in Conn \ {c} : b.lock[d][t] # 0
    BY <1>1 DEF Holders
  <2>2. d \in TransSet(b) \ {b.pWriter}
    BY <2>1, <1>1, <1>b DEF TransSet, Covered, BtShared
  <2>3. r = [b EXCEPT !.btsFlags = b.btsFlags \cup {BTS_PENDING}]
    BY <1>1 DEF Refused
  <2>4. /\ r \in BtShared /\ r.inTrans = b.inTrans /\ r.nTransaction = b.nTransaction
        /\ r.inTransaction = b.inTransaction /\ r.pWriter = b.pWriter
        /\ r.lock = b.lock /\ r.btsFlags = b.btsFlags \cup {BTS_PENDING}
    BY <2>3, <1>b DEF BtShared
  <2> HIDE DEF r
  <2>5. TransSet(r) = TransSet(b)
    BY <2>4 DEF TransSet
  <2>6. PendingOK(r)
    BY <2>2, <2>4, <2>5, <1>1 DEF PendingOK
  <2>7. OneWriter(r) /\ Counted(r)
    BY <2>4, <2>5, <1>b DEF OneWriter, Counted
  <2>8. Covered(r) /\ Excludes(r) /\ ExclusiveOK(r)
    BY <2>4, <1>b DEF Covered, Excludes, ExclusiveOK
  <2> QED
    BY <2>4, <2>6, <2>7, <2>8 DEF BtInv, r
<1>2. CASE ~(wrflag = 1 /\ Holders(b, c, t, WRITE_LOCK) # {})
  BY <1>2 DEF Refused
<1> QED
  BY <1>1, <1>2

(* The end of a transaction, whether or not other statements of c go on.   *)
LEMMA DowngradedFields ==
  ASSUME NEW b \in BtShared, NEW c \in Conn, b.pWriter = c
  PROVE  LET r == Downgraded(b, c)
         IN  /\ r \in BtShared
             /\ r.inTrans = b.inTrans /\ r.nTransaction = b.nTransaction
             /\ r.inTransaction = b.inTransaction /\ r.pWriter = NoConn
             /\ r.btsFlags = {}
             /\ \A d \in Conn, t \in Table :
                  r.lock[d][t] = IF b.lock[d][t] = 0 THEN 0 ELSE READ_LOCK
<1> DEFINE r == Downgraded(b, c)
           lock == [d \in Conn |-> [t \in Table |-> IF b.lock[d][t] = 0 THEN 0 ELSE READ_LOCK]]
<1>1. r = [b EXCEPT !.pWriter = NoConn, !.btsFlags = b.btsFlags \ {BTS_EXCLUSIVE, BTS_PENDING},
                    !.lock = lock]
  BY DEF Downgraded
<1>2. b.btsFlags \ {BTS_EXCLUSIVE, BTS_PENDING} = {}
  BY DEF BtShared
<1>3. lock \in [Conn -> [Table -> {0, READ_LOCK, WRITE_LOCK}]]
  OBVIOUS
<1>4. \A d \in Conn, t \in Table : lock[d][t] = IF b.lock[d][t] = 0 THEN 0 ELSE READ_LOCK
  OBVIOUS
<1> HIDE DEF lock
<1>5. r = [inTrans |-> b.inTrans, nTransaction |-> b.nTransaction,
           inTransaction |-> b.inTransaction, lock |-> lock,
           pWriter |-> NoConn, btsFlags |-> {}]
  BY <1>1, <1>2 DEF BtShared
<1> HIDE DEF r
<1>6. r \in BtShared
  BY <1>3, <1>5 DEF BtShared
<1> QED
  BY <1>4, <1>5, <1>6 DEF r

(* What clearAllSharedCacheTableLocks() leaves in each field.              *)
LEMMA ClearedFields ==
  ASSUME NEW b \in BtShared, NEW c \in Conn
  PROVE  LET r == ClearedLocks(b, c)
         IN  /\ r \in BtShared
             /\ r.inTrans = b.inTrans /\ r.nTransaction = b.nTransaction
             /\ r.inTransaction = b.inTransaction
             /\ r.pWriter = IF b.pWriter = c THEN NoConn ELSE b.pWriter
             /\ r.btsFlags = FlagsLeft(b, c)
             /\ \A d \in Conn, t \in Table :
                  r.lock[d][t] = IF d = c THEN 0 ELSE b.lock[d][t]
<1> DEFINE r == ClearedLocks(b, c)
           lock == [b.lock EXCEPT ![c] = [t \in Table |-> 0]]
           writer == IF b.pWriter = c THEN NoConn ELSE b.pWriter
           flags == FlagsLeft(b, c)
<1>1. r = [b EXCEPT !.lock = lock, !.pWriter = writer, !.btsFlags = flags]
  <2>1. r = [b EXCEPT !.lock[c] = [t \in Table |-> 0], !.pWriter = writer, !.btsFlags = flags]
    BY DEF ClearedLocks, BtShared
  <2> HIDE DEF r, writer, flags
  <2> QED
    BY <2>1
<1>2. FlagsLeft(b, c) \in SUBSET {BTS_EXCLUSIVE, BTS_PENDING}
  BY DEF FlagsLeft, BtShared
<1>3. lock \in [Conn -> [Table -> {0, READ_LOCK, WRITE_LOCK}]]
  BY DEF BtShared
<1>4. \A d \in Conn, t \in Table : lock[d][t] = IF d = c THEN 0 ELSE b.lock[d][t]
  BY DEF BtShared
<1>5. writer \in Conn \cup {NoConn}
  BY DEF BtShared
<1> HIDE DEF r, lock, writer, flags
<1>6. r = [inTrans |-> b.inTrans, nTransaction |-> b.nTransaction,
           inTransaction |-> b.inTransaction, lock |-> lock,
           pWriter |-> writer, btsFlags |-> flags]
  BY <1>1 DEF BtShared
<1>7. r \in BtShared
  BY <1>2, <1>3, <1>5, <1>6 DEF BtShared, flags
<1> QED
  BY <1>4, <1>6, <1>7 DEF r, writer, flags

(* A b-tree whose c has transaction i, with n transactions and state k.    *)
LEMMA TransFields ==
  ASSUME NEW b \in BtShared, NEW c \in Conn,
         NEW i \in {TRANS_NONE, TRANS_READ, TRANS_WRITE}, NEW n \in Int,
         NEW k \in {TRANS_NONE, TRANS_READ, TRANS_WRITE}, NEW r,
         r = [inTrans |-> [b.inTrans EXCEPT ![c] = i], nTransaction |-> n,
              inTransaction |-> k, lock |-> b.lock, pWriter |-> b.pWriter,
              btsFlags |-> b.btsFlags]
  PROVE  /\ r \in BtShared
         /\ r.inTrans[c] = i /\ \A d \in Conn \ {c} : r.inTrans[d] = b.inTrans[d]
         /\ r.nTransaction = n /\ r.inTransaction = k
         /\ r.lock = b.lock /\ r.pWriter = b.pWriter /\ r.btsFlags = b.btsFlags
BY DEF BtShared

(* What btreeEndTransaction() leaves in each field, in its two branches.   *)
LEMMA ConcludedFields ==
  ASSUME NEW b \in BtShared, NEW c \in Conn, NEW n, b.inTrans[c] # TRANS_NONE
  PROVE  LET r == Concluded(b, c, n)
             k == IF b.inTrans[c] = TRANS_WRITE THEN TRANS_READ ELSE b.inTransaction
         IN  /\ r \in BtShared
             /\ \A d \in Conn \ {c} : r.inTrans[d] = b.inTrans[d]
             /\ n > 1 => /\ r.inTrans[c] = TRANS_READ /\ r.nTransaction = b.nTransaction
                         /\ r.inTransaction = k
             /\ n > 1 /\ b.pWriter = c =>
                  /\ r.pWriter = NoConn /\ r.btsFlags = {}
                  /\ \A d \in Conn, t \in Table :
                       r.lock[d][t] = IF b.lock[d][t] = 0 THEN 0 ELSE READ_LOCK
             /\ n > 1 /\ b.pWriter # c =>
                  r.pWriter = b.pWriter /\ r.btsFlags = b.btsFlags /\ r.lock = b.lock
             /\ ~(n > 1) =>
                  /\ r.inTrans[c] = TRANS_NONE /\ r.nTransaction = b.nTransaction - 1
                  /\ r.inTransaction = IF b.nTransaction = 1 THEN TRANS_NONE ELSE k
                  /\ r.pWriter = IF b.pWriter = c THEN NoConn ELSE b.pWriter
                  /\ r.btsFlags = FlagsLeft(b, c)
                  /\ \A d \in Conn, t \in Table :
                       r.lock[d][t] = IF d = c THEN 0 ELSE b.lock[d][t]
<1> DEFINE k == IF b.inTrans[c] = TRANS_WRITE THEN TRANS_READ ELSE b.inTransaction
           over == [b EXCEPT !.inTransaction = k]
           r == Concluded(b, c, n)
<1>1. /\ over \in BtShared
      /\ over.inTrans = b.inTrans /\ over.nTransaction = b.nTransaction
      /\ over.inTransaction = k /\ over.lock = b.lock
      /\ over.pWriter = b.pWriter /\ over.btsFlags = b.btsFlags
  BY DEF BtShared
<1>2. k \in {TRANS_NONE, TRANS_READ, TRANS_WRITE} /\ b.nTransaction \in Int
  BY DEF BtShared
<1>3. r = IF n > 1 THEN [Downgraded(over, c) EXCEPT !.inTrans[c] = TRANS_READ]
          ELSE [ClearedLocks(over, c) EXCEPT
                  !.inTrans[c] = TRANS_NONE, !.nTransaction = @ - 1,
                  !.inTransaction = IF b.nTransaction = 1 THEN TRANS_NONE ELSE @]
  BY DEF Concluded
<1> HIDE DEF k, over, r
<1>4. CASE n > 1
  <2> DEFINE D == Downgraded(over, c)
  <2>1. /\ D \in BtShared
        /\ D.inTrans = b.inTrans /\ D.nTransaction = b.nTransaction /\ D.inTransaction = k
        /\ b.pWriter = c =>
             /\ D.pWriter = NoConn /\ D.btsFlags = {}
             /\ \A d \in Conn, t \in Table :
                  D.lock[d][t] = IF b.lock[d][t] = 0 THEN 0 ELSE READ_LOCK
        /\ b.pWriter # c =>
             D.pWriter = b.pWriter /\ D.btsFlags = b.btsFlags /\ D.lock = b.lock
    <3>1. CASE b.pWriter = c
      BY <3>1, <1>1, DowngradedFields
    <3>2. CASE b.pWriter # c
      <4>1. D = over
        BY <3>2, <1>1 DEF Downgraded
      <4> QED
        BY <4>1, <3>2, <1>1
    <3> QED
      BY <3>1, <3>2
  <2>2. r = [D EXCEPT !.inTrans[c] = TRANS_READ]
    BY <1>3, <1>4
  <2> HIDE DEF D
  <2>3. r = [inTrans |-> [D.inTrans EXCEPT ![c] = TRANS_READ], nTransaction |-> b.nTransaction,
             inTransaction |-> k, lock |-> D.lock, pWriter |-> D.pWriter,
             btsFlags |-> D.btsFlags]
    BY <2>1, <2>2 DEF BtShared
  <2>6. /\ r \in BtShared
        /\ r.inTrans[c] = TRANS_READ /\ \A d \in Conn \ {c} : r.inTrans[d] = D.inTrans[d]
        /\ r.nTransaction = b.nTransaction /\ r.inTransaction = k
        /\ r.lock = D.lock /\ r.pWriter = D.pWriter /\ r.btsFlags = D.btsFlags
    BY <2>3, <2>1, <1>2, TransFields
  <2> QED
    BY <2>1, <2>6, <1>4 DEF k, r
<1>5. CASE ~(n > 1)
  <2> DEFINE C == ClearedLocks(over, c)
             m == b.nTransaction - 1
             j == IF b.nTransaction = 1 THEN TRANS_NONE ELSE k
  <2>1. /\ C \in BtShared
        /\ C.inTrans = b.inTrans /\ C.nTransaction = b.nTransaction /\ C.inTransaction = k
        /\ C.pWriter = IF b.pWriter = c THEN NoConn ELSE b.pWriter
        /\ C.btsFlags = FlagsLeft(over, c)
        /\ \A d \in Conn, t \in Table : C.lock[d][t] = IF d = c THEN 0 ELSE b.lock[d][t]
    BY <1>1, ClearedFields
  <2>2. FlagsLeft(over, c) = FlagsLeft(b, c)
    BY <1>1 DEF FlagsLeft
  <2>3. m \in Int /\ j \in {TRANS_NONE, TRANS_READ, TRANS_WRITE}
    BY <1>2
  <2>4. r = [C EXCEPT !.inTrans[c] = TRANS_NONE, !.nTransaction = @ - 1,
                      !.inTransaction = IF b.nTransaction = 1 THEN TRANS_NONE ELSE @]
    BY <1>3, <1>5
  <2> HIDE DEF C
  <2>5. r = [inTrans |-> [C.inTrans EXCEPT ![c] = TRANS_NONE], nTransaction |-> m,
             inTransaction |-> j, lock |-> C.lock, pWriter |-> C.pWriter,
             btsFlags |-> C.btsFlags]
    BY <2>1, <2>4 DEF BtShared
  <2> HIDE DEF m, j
  <2>6. /\ r \in BtShared
        /\ r.inTrans[c] = TRANS_NONE /\ \A d \in Conn \ {c} : r.inTrans[d] = C.inTrans[d]
        /\ r.nTransaction = m /\ r.inTransaction = j
        /\ r.lock = C.lock /\ r.pWriter = C.pWriter /\ r.btsFlags = C.btsFlags
    BY <2>5, <2>1, <2>3, TransFields
  <2> QED
    BY <2>1, <2>2, <2>6, <1>5 DEF k, r, m, j
<1> QED
  BY <1>4, <1>5

(* The end of a transaction keeps the invariant of the b-tree.             *)
LEMMA ConcludedInv ==
  ASSUME NEW b, BtInv(b), NEW c \in Conn, NEW n
  PROVE  LET r == Concluded(b, c, n)
         IN  BtInv(r) /\ \A d \in Conn \ {c} : r.inTrans[d] = b.inTrans[d]
<1> DEFINE r == Concluded(b, c, n)
           k == IF b.inTrans[c] = TRANS_WRITE THEN TRANS_READ ELSE b.inTransaction
<1>b. b \in BtShared /\ OneWriter(b) /\ Counted(b) /\ Covered(b)
      /\ Excludes(b) /\ ExclusiveOK(b) /\ PendingOK(b)
  BY DEF BtInv
<1>1. CASE b.inTrans[c] = TRANS_NONE
  BY <1>1 DEF Concluded
<1>2. CASE b.inTrans[c] # TRANS_NONE
  <2>1. /\ r \in BtShared
        /\ \A d \in Conn \ {c} : r.inTrans[d] = b.inTrans[d]
        /\ n > 1 => /\ r.inTrans[c] = TRANS_READ /\ r.nTransaction = b.nTransaction
                    /\ r.inTransaction = k
        /\ n > 1 /\ b.pWriter = c =>
             /\ r.pWriter = NoConn /\ r.btsFlags = {}
             /\ \A d \in Conn, t \in Table :
                  r.lock[d][t] = IF b.lock[d][t] = 0 THEN 0 ELSE READ_LOCK
        /\ n > 1 /\ b.pWriter # c =>
             r.pWriter = b.pWriter /\ r.btsFlags = b.btsFlags /\ r.lock = b.lock
        /\ ~(n > 1) =>
             /\ r.inTrans[c] = TRANS_NONE /\ r.nTransaction = b.nTransaction - 1
             /\ r.inTransaction = IF b.nTransaction = 1 THEN TRANS_NONE ELSE k
             /\ r.pWriter = IF b.pWriter = c THEN NoConn ELSE b.pWriter
             /\ r.btsFlags = FlagsLeft(b, c)
             /\ \A d \in Conn, t \in Table :
                  r.lock[d][t] = IF d = c THEN 0 ELSE b.lock[d][t]
    BY <1>b, <1>2, ConcludedFields
  <2> HIDE DEF r
  <2>2. c \in TransSet(b)
    BY <1>2 DEF TransSet
  <2>3. b.pWriter = c => b.inTrans[c] = TRANS_WRITE
    BY <1>b DEF OneWriter
  <2>4. b.pWriter # c => b.inTrans[c] = TRANS_READ /\ k = b.inTransaction
    BY <1>b, <1>2 DEF OneWriter, BtShared
  <2>5. b.pWriter \in Conn => b.pWriter \in TransSet(b)
    BY <1>b DEF OneWriter, TransSet
  <2>6. CASE n > 1
    <3>1. CASE b.pWriter # c
      <4>1. r.inTrans = b.inTrans
        BY <2>1, <2>4, <2>6, <3>1, <1>b DEF BtShared
      <4>2. /\ r.nTransaction = b.nTransaction /\ r.inTransaction = b.inTransaction
            /\ r.pWriter = b.pWriter /\ r.btsFlags = b.btsFlags /\ r.lock = b.lock
        BY <2>1, <2>4, <2>6, <3>1
      <4>3. TransSet(r) = TransSet(b)
        BY <4>1 DEF TransSet
      <4>4. OneWriter(r) /\ Counted(r) /\ PendingOK(r)
        BY <4>1, <4>2, <4>3, <1>b DEF OneWriter, Counted, PendingOK
      <4>5. Covered(r) /\ Excludes(r) /\ ExclusiveOK(r)
        BY <4>1, <4>2, <1>b DEF Covered, Excludes, ExclusiveOK
      <4> QED
        BY <2>1, <4>4, <4>5 DEF BtInv, r
    <3>2. CASE b.pWriter = c
      <4>1. TransSet(r) = TransSet(b)
        BY <2>1, <2>2, <2>6, <1>b, TransSetChange
      <4>2. OneWriter(r)
        <5>1. \A d \in Conn : r.inTrans[d] # TRANS_WRITE
          BY <2>1, <2>6, <3>2, <1>b DEF OneWriter
        <5>2. r.inTransaction = TRANS_READ /\ r.pWriter = NoConn
          BY <2>1, <2>3, <2>6, <3>2
        <5> QED
          BY <5>1, <5>2, SharedCacheAssumption DEF OneWriter
      <4>3. Counted(r)
        BY <4>1, <2>1, <2>6, <1>b DEF Counted
      <4>4. Covered(r)
        <5>1. ASSUME NEW d \in Conn, NEW t \in Table PROVE r.lock[d][t] <= r.inTrans[d]
          <6>1. CASE d = c
            BY <6>1, <2>1, <2>6, <3>2
          <6>2. CASE d # c
            BY <6>2, <2>1, <2>6, <3>2, <1>b DEF Covered, BtShared
          <6> QED
            BY <6>1, <6>2
        <5> QED
          BY <5>1 DEF Covered
      <4>5. Excludes(r) /\ ExclusiveOK(r) /\ PendingOK(r)
        BY <2>1, <2>6, <3>2 DEF Excludes, ExclusiveOK, PendingOK
      <4> QED
        BY <2>1, <4>2, <4>3, <4>4, <4>5 DEF BtInv, r
    <3> QED
      BY <3>1, <3>2
  <2>7. CASE ~(n > 1)
    <3>1. TransSet(r) = TransSet(b) \ {c}
      BY <2>1, <2>7, <1>b, TransSetChange
    <3>2. Counted(r)
      <4>1. Cardinality(TransSet(b) \ {c}) = Cardinality(TransSet(b)) - 1
        BY <2>2, TransSetFinite, FS_RemoveElement
      <4> QED
        BY <4>1, <3>1, <2>1, <2>7, <1>b DEF Counted
    <3>3. b.pWriter \in Conn \ {c} =>
            b.nTransaction # 1 /\ (b.nTransaction # 2 => TransSet(b) \ {c, b.pWriter} # {})
      BY <2>2, <2>5, CountOfTwo, <1>b DEF Counted
    <3>4. OneWriter(r)
      <4>1. CASE b.pWriter = c
        <5>1. \A d \in Conn : r.inTrans[d] # TRANS_WRITE
          BY <2>1, <2>7, <4>1, <1>b DEF OneWriter
        <5>2. r.inTransaction # TRANS_WRITE /\ r.pWriter = NoConn
          BY <2>1, <2>3, <2>7, <4>1
        <5> QED
          BY <5>1, <5>2, SharedCacheAssumption DEF OneWriter
      <4>2. CASE b.pWriter # c
        <5>1. r.pWriter = b.pWriter /\ r.inTrans[c] = TRANS_NONE
          BY <2>1, <2>7, <4>2
        <5>2. r.inTransaction = TRANS_WRITE <=> r.pWriter # NoConn
          BY <2>1, <2>4, <2>7, <3>3, <4>2, <1>b DEF OneWriter, BtShared
        <5> QED
          BY <5>1, <5>2, <2>1, <4>2, <1>b DEF OneWriter
      <4> QED
        BY <4>1, <4>2
    <3>5. Covered(r)
      BY <2>1, <2>7, <1>b DEF Covered
    <3>6. Excludes(r)
      BY <2>1, <2>7, <1>b DEF Excludes
    <3>7. ExclusiveOK(r)
      BY <2>1, <2>7, <1>b DEF ExclusiveOK, FlagsLeft
    <3>8. PendingOK(r)
      <4>1. ASSUME BTS_PENDING \in r.btsFlags
            PROVE  /\ BTS_PENDING \in b.btsFlags /\ b.pWriter # c /\ b.nTransaction # 2
        BY <4>1, <2>1, <2>7 DEF FlagsLeft
      <4> QED
        BY <4>1, <2>1, <2>7, <3>1, <3>3, <1>b DEF PendingOK
    <3> QED
      BY <2>1, <3>2, <3>4, <3>5, <3>6, <3>7, <3>8 DEF BtInv, r
  <2> QED
    BY <2>6, <2>7, <2>1 DEF r
<1> QED
  BY <1>1, <1>2

(* So does the end of a statement.                                         *)
LEMMA HaltedInv ==
  ASSUME NEW b, BtInv(b), NEW c \in Conn, NEW n, NEW others
  PROVE  LET r == Halted(b, c, n, others)
         IN  BtInv(r) /\ \A d \in Conn \ {c} : r.inTrans[d] = b.inTrans[d]
BY ConcludedInv DEF Halted

(* Whoever is in the way has a transaction.                                *)
LEMMA QueryInTrans ==
  ASSUME NEW b, BtInv(b), NEW c \in Conn, NEW t \in Table, NEW e \in {READ_LOCK, WRITE_LOCK},
         NEW d \in query(b, c, t, e)
  PROVE  d \in Conn /\ b.inTrans[d] # TRANS_NONE
<1>b. b \in BtShared /\ OneWriter(b) /\ Covered(b) /\ ExclusiveOK(b)
  BY DEF BtInv
<1>1. CASE b.pWriter # c /\ BTS_EXCLUSIVE \in b.btsFlags
  <2>1. d = b.pWriter
    BY <1>1 DEF query
  <2> QED
    BY <2>1, <1>1, <1>b DEF OneWriter, ExclusiveOK
<1>2. CASE ~(b.pWriter # c /\ BTS_EXCLUSIVE \in b.btsFlags)
  <2>1. d \in Conn /\ b.lock[d][t] # 0
    BY <1>2 DEF query, Holders
  <2> QED
    BY <2>1, <1>b DEF Covered, BtShared
<1> QED
  BY <1>1, <1>2

(* Who keeps a transaction from being begun is in a transaction.           *)
LEMMA BlockersInTrans ==
  ASSUME NEW b, BtInv(b), NEW c \in Conn, NEW wrflag \in {0, 1, 2},
         NEW d \in Blockers(b, c, wrflag)
  PROVE  d \in Conn /\ b.inTrans[d] # TRANS_NONE
<1>b. b \in BtShared /\ OneWriter(b) /\ Covered(b) /\ PendingOK(b)
  BY DEF BtInv
<1>1. CASE d \in InTheWay(b, c, wrflag)
  <2>1. CASE (wrflag # 0 /\ b.inTransaction = TRANS_WRITE) \/ BTS_PENDING \in b.btsFlags
    <3>1. d = b.pWriter
      BY <1>1, <2>1 DEF InTheWay
    <3>2. b.pWriter \in Conn
      BY <2>1, <1>b DEF OneWriter, PendingOK, BtShared
    <3> QED
      BY <3>1, <3>2, <1>b DEF OneWriter
  <2>2. CASE ~((wrflag # 0 /\ b.inTransaction = TRANS_WRITE) \/ BTS_PENDING \in b.btsFlags)
    <3>1. PICK t \in Table : d \in Conn /\ b.lock[d][t] # 0
      BY <1>1, <2>2 DEF InTheWay
    <3> QED
      BY <3>1, <1>b DEF Covered, BtShared
  <2> QED
    BY <2>1, <2>2
<1>2. CASE d \in query(b, c, MASTER_ROOT, READ_LOCK)
  BY <1>2, SharedCacheAssumption, QueryInTrans
<1> QED
  BY <1>1, <1>2 DEF Blockers

-----------------------------------------------------------------------------
(* Who waits for whom.                                                     *)

(* Fewer wait: no cycle appears.                                           *)
LEMMA FewerWait ==
  ASSUME NEW f, NEW g,
         \A x \in Conn : g[x] \in {f[x], NoConn},
         \A x \in Conn : f[x] # NoConn => ~Reaches(f, f[x], x)
  PROVE  \A x \in Conn : g[x] # NoConn => ~Reaches(g, g[x], x)
<1>1. ASSUME NEW x \in Conn, g[x] # NoConn PROVE ~Reaches(g, g[x], x)
  <2>1. g[x] = f[x] /\ f[x] # NoConn
    BY <1>1
  <2>2. PICK S \in SUBSET Conn : f[x] \in S /\ ClosedUnder(S, f) /\ x \notin S
    BY <2>1 DEF Reaches
  <2>3. ClosedUnder(S, g)
    BY <2>2 DEF ClosedUnder
  <2> QED
    BY <2>1, <2>2, <2>3 DEF Reaches
<1> QED
  BY <1>1

(* c waits for d, who does not wait for c: no cycle appears.  S is what d  *)
(* waits for.  If x did not wait for itself, then T shows it, and with c   *)
(* waiting for d one of T, T \cap S and T \cup S does.                     *)
LEMMA OneMoreWaits ==
  ASSUME NEW f \in [Conn -> Conn \cup {NoConn}], NEW c \in Conn, NEW d \in Conn,
         ~Reaches(f, d, c),
         \A x \in Conn : f[x] # NoConn => ~Reaches(f, f[x], x)
  PROVE  LET g == [f EXCEPT ![c] = d]
         IN  \A x \in Conn : g[x] # NoConn => ~Reaches(g, g[x], x)
<1> DEFINE g == [f EXCEPT ![c] = d]
<1>1. g[c] = d /\ \A x \in Conn \ {c} : g[x] = f[x]
  OBVIOUS
<1>2. PICK S \in SUBSET Conn : d \in S /\ ClosedUnder(S, f) /\ c \notin S
  BY DEF Reaches
<1> HIDE DEF g
<1>3. ClosedUnder(S, g)
  BY <1>1, <1>2 DEF ClosedUnder
<1>4. ASSUME NEW x \in Conn, g[x] # NoConn
      PROVE  \E T \in SUBSET Conn : g[x] \in T /\ ClosedUnder(T, g) /\ x \notin T
  <2>1. CASE x = c
    BY <2>1, <1>1, <1>2, <1>3
  <2>2. CASE x # c
    <3>1. g[x] = f[x]
      BY <2>2, <1>1
    <3>2. PICK T \in SUBSET Conn : f[x] \in T /\ ClosedUnder(T, f) /\ x \notin T
      BY <3>1, <1>4 DEF Reaches
    <3>3. CASE c \notin T
      <4>1. ClosedUnder(T, g)
        BY <3>2, <3>3, <1>1 DEF ClosedUnder
      <4> QED
        BY <4>1, <3>1, <3>2
    <3>4. CASE c \in T /\ x \in S
      <4>1. f[x] \in S
        BY <3>1, <3>4, <1>2, <1>4 DEF ClosedUnder
      <4>2. ClosedUnder(T \cap S, g)
        BY <3>2, <1>1, <1>2 DEF ClosedUnder
      <4>3. T \cap S \in SUBSET Conn /\ g[x] \in T \cap S /\ x \notin T \cap S
        BY <3>1, <3>2, <4>1
      <4> QED
        BY <4>2, <4>3
    <3>5. CASE c \in T /\ x \notin S
      <4>1. ClosedUnder(T \cup S, g)
        BY <3>2, <1>1, <1>2 DEF ClosedUnder
      <4>2. T \cup S \in SUBSET Conn /\ g[x] \in T \cup S /\ x \notin T \cup S
        BY <3>1, <3>2, <3>5
      <4> QED
        BY <4>1, <4>2
    <3> QED
      BY <3>3, <3>4, <3>5
  <2> QED
    BY <2>1, <2>2
<1> QED
  BY <1>4 DEF Reaches, g

-----------------------------------------------------------------------------
(* The inductive invariant.                                                *)

StmtOK ==
  /\ autoCommit \in [Conn -> BOOLEAN]
  /\ active \in [Conn -> Nat] /\ writing \in [Conn -> Nat]
  /\ \A c \in Conn : writing[c] <= active[c]
  /\ pc \in [Conn -> {"idle", "unlock", "close"}]

NotifyOK ==
  /\ blocking \in [Conn -> Conn \cup {NoConn}]
  /\ unlocker \in [Conn -> Conn \cup {NoConn}]

(* What the runs check, strengthened by BtInv and by the fact that the     *)
(* statements that write are among those that are active.                  *)
IInv == BtInv(bt) /\ StmtOK /\ NotifyOK /\ NoLostNotify /\ NoWaitCycle

(* The invariant holds of connections that have just been opened.          *)
LEMMA InitInv == Init => IInv
<1> SUFFICES ASSUME Init PROVE IInv
  OBVIOUS
<1> USE DEF Init
<1>1. bt = NewBtShared
  OBVIOUS
<1>2. bt \in BtShared
  BY <1>1 DEF NewBtShared, BtShared
<1>3. /\ \A c \in Conn : bt.inTrans[c] = TRANS_NONE
      /\ \A c \in Conn, t \in Table : bt.lock[c][t] = 0
      /\ bt.nTransaction = 0 /\ bt.inTransaction = TRANS_NONE
      /\ bt.pWriter = NoConn /\ bt.btsFlags = {}
  BY <1>1 DEF NewBtShared
<1>4. TransSet(bt) = {}
  BY <1>3 DEF TransSet
<1>5. Counted(bt)
  BY <1>3, <1>4, FS_EmptySet DEF Counted
<1>6. OneWriter(bt)
  BY <1>3, SharedCacheAssumption DEF OneWriter
<1>7. Covered(bt) /\ Excludes(bt) /\ ExclusiveOK(bt) /\ PendingOK(bt)
  BY <1>3 DEF Covered, Excludes, ExclusiveOK, PendingOK
<1>8. StmtOK /\ NotifyOK
  BY DEF StmtOK, NotifyOK
<1>9. NoLostNotify /\ NoWaitCycle
  BY SharedCacheAssumption DEF NoLostNotify, NoWaitCycle
<1> QED
  BY <1>2, <1>5, <1>6, <1>7, <1>8, <1>9 DEF IInv, BtInv

(* A step of c loses no callback if c still owes one when it did, and      *)
(* nobody comes to depend on a connection that does not.                   *)
LEMMA OwesStep ==
  ASSUME NEW c \in Conn, NoLostNotify,
         \A d \in Conn \ {c} : /\ bt'.inTrans[d] = bt.inTrans[d] /\ pc'[d] = pc[d]
                               /\ active'[d] = active[d] /\ autoCommit'[d] = autoCommit[d],
         Owes(c) => Owes(c)',
         \A x, d \in Conn : blocking'[x] = d \/ unlocker'[x] = d =>
                              blocking[x] = d \/ unlocker[x] = d \/ Owes(d)'
  PROVE  NoLostNotify'
<1>1. \A d \in Conn : Owes(d) => Owes(d)'
  BY DEF Owes
<1> QED
  BY <1>1 DEF NoLostNotify

(* An operation ends in SQLITE_LOCKED: c is blocked by d.                  *)
LEMMA LockedStep ==
  ASSUME IInv, NEW c \in Conn, NEW d \in Conn, NEW b, BtInv(b),
         \A x \in Conn \ {c} : b.inTrans[x] = bt.inTrans[x],
         b.inTrans[d] # TRANS_NONE,
         Blocked(c, d), NEW n, bt' = Halted(b, c, n, writing[c]), Tell(c), UNCHANGED stmt
  PROVE  IInv'
<1>1. BtInv(bt') /\ \A x \in Conn \ {c} : bt'.inTrans[x] = b.inTrans[x]
  BY HaltedInv
<1>2. StmtOK'
  BY DEF IInv, StmtOK, Tell, stmt
<1>3. NotifyOK'
  BY DEF IInv, NotifyOK, Blocked
<1>4. Owes(c)'
  BY DEF IInv, StmtOK, Tell, stmt, Owes
<1>5. Owes(d)'
  BY <1>1, <1>4 DEF Owes
<1>6. NoLostNotify'
  <2>1. \A x \in Conn \ {c} : /\ bt'.inTrans[x] = bt.inTrans[x] /\ pc'[x] = pc[x]
                              /\ active'[x] = active[x] /\ autoCommit'[x] = autoCommit[x]
    BY <1>1 DEF IInv, StmtOK, Tell, stmt
  <2>2. \A x, y \in Conn : blocking'[x] = y \/ unlocker'[x] = y =>
                             blocking[x] = y \/ unlocker[x] = y \/ Owes(y)'
    BY <1>5 DEF IInv, NotifyOK, Blocked
  <2> QED
    BY <2>1, <2>2, <1>4, OwesStep DEF IInv
<1>7. NoWaitCycle'
  BY DEF IInv, NoWaitCycle, Blocked
<1> QED
  BY <1>1, <1>2, <1>3, <1>6, <1>7 DEF IInv

(* Any other step of c before it tells the others.                         *)
LEMMA QuietStep ==
  ASSUME IInv, NEW c \in Conn, BtInv(bt'),
         \A d \in Conn \ {c} : bt'.inTrans[d] = bt.inTrans[d],
         StmtOK',
         \A d \in Conn \ {c} : pc'[d] = pc[d] /\ active'[d] = active[d]
                               /\ autoCommit'[d] = autoCommit[d],
         Owes(c) => Owes(c)', UNCHANGED notify
  PROVE  IInv'
<1>1. NotifyOK' /\ NoWaitCycle'
  BY DEF IInv, NotifyOK, NoWaitCycle, notify
<1>2. NoLostNotify'
  BY OwesStep DEF IInv, notify
<1> QED
  BY <1>1, <1>2 DEF IInv

(* Every step of a connection keeps the invariant.                         *)
LEMMA StepInv ==
  ASSUME IInv, NEW c \in Conn, Step(c)
  PROVE  IInv'
<1>b. BtInv(bt) /\ StmtOK /\ NotifyOK /\ NoLostNotify /\ NoWaitCycle
  BY DEF IInv
<1>1. ASSUME NEW wrflag \in {0, 1, 2}, TransactionBlocked(c, wrflag) PROVE IInv'
  <2>1. PICK d \in Blockers(bt, c, wrflag) : Blocked(c, d)
    BY <1>1 DEF TransactionBlocked
  <2>2. d \in Conn /\ bt.inTrans[d] # TRANS_NONE
    BY <2>1, <1>b, BlockersInTrans
  <2>3. bt' = Halted(bt, c, active[c] + 1, writing[c]) /\ Tell(c) /\ UNCHANGED stmt
    BY <1>1 DEF TransactionBlocked
  <2> QED
    BY <2>1, <2>2, <2>3, <1>b, LockedStep
<1>2. ASSUME NEW wrflag \in {0, 1, 2}, TransactionBusy(c, wrflag) PROVE IInv'
  <2>1. StmtOK'
    BY <1>2, <1>b DEF TransactionBusy, StmtOK
  <2>2. Owes(c)'
    BY <1>2, <1>b DEF TransactionBusy, StmtOK, Owes
  <2> QED
    BY <2>1, <2>2, <1>2, <1>b, QuietStep DEF TransactionBusy, StmtOK
<1>3. ASSUME NEW wrflag \in {0, 1, 2}, Begin(c, wrflag) PROVE IInv'
  <2>1. BtInv(bt') /\ \A d \in Conn \ {c} : bt'.inTrans[d] = bt.inTrans[d]
    BY <1>3, <1>b, BegunInv DEF Begin
  <2>2. StmtOK'
    BY <1>3, <1>b DEF Begin, StmtOK
  <2>3. Owes(c)'
    BY <1>3, <1>b DEF Begin, StmtOK, Owes
  <2> QED
    BY <2>1, <2>2, <2>3, <1>3, <1>b, QuietStep DEF Begin, StmtOK
<1>4. ASSUME NEW wrflag \in Flag, Finish(c, wrflag) PROVE IInv'
  <2>1. BtInv(bt') /\ \A d \in Conn \ {c} : bt'.inTrans[d] = bt.inTrans[d]
    BY <1>4, <1>b, HaltedInv DEF Finish
  <2>2. StmtOK'
    BY <1>4, <1>b DEF Finish, StmtOK, Active, Tell, Flag
  <2>3. Owes(c)'
    BY <1>4, <1>b DEF Finish, StmtOK, Owes, Tell
  <2> QED
    BY <2>1, <2>2, <2>3, <1>4, <1>b, QuietStep DEF Finish, StmtOK, Tell
<1>5. ASSUME NEW wrflag \in Flag, Abort(c, wrflag) PROVE IInv'
  <2>1. BtInv(bt') /\ \A d \in Conn \ {c} : bt'.inTrans[d] = bt.inTrans[d]
    BY <1>5, <1>b, ConcludedInv DEF Abort
  <2>2. StmtOK'
    BY <1>5, <1>b DEF Abort, StmtOK, Active, Flag
  <2>3. Owes(c)'
    BY <1>5, <1>b DEF Abort, StmtOK, Owes
  <2> QED
    BY <2>1, <2>2, <2>3, <1>5, <1>b, QuietStep DEF Abort, StmtOK
<1>6. ASSUME NEW wrflag \in Flag, NEW t \in Table, LockBlocked(c, wrflag, t) PROVE IInv'
  <2> DEFINE b == Begun(bt, c, wrflag)
             e == READ_LOCK + wrflag
             r == Refused(b, c, wrflag, t)
  <2>1. PICK d \in query(b, c, t, e) : Blocked(c, d)
    BY <1>6 DEF LockBlocked
  <2>2. bt' = Halted(r, c, active[c] + 1, writing[c]) /\ Tell(c) /\ UNCHANGED stmt
    BY <1>6 DEF LockBlocked
  <2>3. wrflag \in {0, 1, 2} /\ wrflag \in {0, 1} /\ e \in {READ_LOCK, WRITE_LOCK}
    BY DEF Flag
  <2>4. /\ BtInv(b) /\ \A x \in Conn \ {c} : b.inTrans[x] = bt.inTrans[x]
        /\ wrflag = 1 => b.pWriter = c
    BY <1>6, <1>b, <2>3, BegunInv DEF LockBlocked
  <2> HIDE DEF b, e
  <2>5. d \in Conn /\ b.inTrans[d] # TRANS_NONE
    BY <2>1, <2>3, <2>4, QueryInTrans
  <2>6. BtInv(r) /\ r.inTrans = b.inTrans
    BY <2>3, <2>4, RefusedInv
  <2> HIDE DEF r
  <2> QED
    BY <2>1, <2>2, <2>4, <2>5, <2>6, LockedStep
<1>7. ASSUME NEW wrflag \in Flag, NEW t \in Table, Statement(c, wrflag, t) PROVE IInv'
  <2> DEFINE b == Begun(bt, c, wrflag)
  <2>1. wrflag \in {0, 1, 2} /\ wrflag \in {0, 1}
    BY DEF Flag
  <2>2. /\ BtInv(b) /\ \A x \in Conn \ {c} : b.inTrans[x] = bt.inTrans[x]
        /\ b.inTrans[c] # TRANS_NONE /\ (wrflag = 1 => b.pWriter = c)
    BY <1>7, <1>b, <2>1, BegunInv DEF Statement
  <2>3. BtInv(bt') /\ bt'.inTrans = b.inTrans
    <3>1. CASE NeedsLock(c, wrflag)
      <4>1. query(b, c, t, READ_LOCK + wrflag) = {} /\ bt' = Locked(b, c, t, READ_LOCK + wrflag)
        BY <1>7, <3>1 DEF Statement
      <4> HIDE DEF b
      <4> QED
        BY <4>1, <2>1, <2>2, LockedInv
    <3>2. CASE ~NeedsLock(c, wrflag)
      BY <1>7, <2>2, <3>2 DEF Statement
    <3> QED
      BY <3>1, <3>2
  <2>4. StmtOK'
    BY <1>7, <1>b DEF Statement, StmtOK, Flag
  <2>5. Owes(c)'
    BY <1>7, <1>b DEF Statement, StmtOK, Owes
  <2> QED
    BY <2>2, <2>3, <2>4, <2>5, <1>7, <1>b, QuietStep DEF Statement, StmtOK
<1>8. CASE Commit(c)
  <2>1. BtInv(bt') /\ \A d \in Conn \ {c} : bt'.inTrans[d] = bt.inTrans[d]
    BY <1>8, <1>b, ConcludedInv DEF Commit
  <2>2. StmtOK'
    BY <1>8, <1>b DEF Commit, StmtOK
  <2>3. Owes(c)'
    BY <1>8, <1>b DEF Commit, StmtOK, Owes
  <2> QED
    BY <2>1, <2>2, <2>3, <1>8, <1>b, QuietStep DEF Commit, StmtOK
<1>9. CASE CommitBusy(c)
  <2>1. StmtOK'
    BY <1>9, <1>b DEF CommitBusy, StmtOK
  <2>2. Owes(c)'
    BY <1>9, <1>b DEF CommitBusy, StmtOK, Owes
  <2> QED
    BY <2>1, <2>2, <1>9, <1>b, QuietStep DEF CommitBusy, StmtOK
<1>10. CASE Rollback(c)
  <2>1. BtInv(bt') /\ \A d \in Conn \ {c} : bt'.inTrans[d] = bt.inTrans[d]
    BY <1>10, <1>b, ConcludedInv DEF Rollback
  <2>2. StmtOK'
    BY <1>10, <1>b DEF Rollback, StmtOK
  <2>3. Owes(c)'
    BY <1>10, <1>b DEF Rollback, StmtOK, Owes
  <2> QED
    BY <2>1, <2>2, <2>3, <1>10, <1>b, QuietStep DEF Rollback, StmtOK
<1>11. CASE PrepareBlocked(c)
  <2>1. PICK d \in query(bt, c, MASTER_ROOT, READ_LOCK) : Blocked(c, d)
    BY <1>11 DEF PrepareBlocked
  <2>2. d \in Conn /\ bt.inTrans[d] # TRANS_NONE
    BY <2>1, <1>b, SharedCacheAssumption, QueryInTrans
  <2>3. UNCHANGED <<bt, stmt, pc>>
    BY <1>11 DEF PrepareBlocked
  <2>4. StmtOK' /\ NotifyOK' /\ NoWaitCycle'
    BY <2>1, <2>2, <2>3, <1>b DEF StmtOK, NotifyOK, NoWaitCycle, Blocked, stmt
  <2>5. \A x \in Conn : Owes(x)' <=> Owes(x)
    BY <2>3 DEF Owes, stmt
  <2>6. NoLostNotify'
    BY <2>1, <2>2, <2>5, <1>b DEF NoLostNotify, NotifyOK, Blocked, Owes
  <2> QED
    BY <2>3, <2>4, <2>6, <1>b DEF IInv
<1>12. CASE Close(c)
  <2>1. BtInv(bt') /\ \A d \in Conn \ {c} : bt'.inTrans[d] = bt.inTrans[d]
    BY <1>12, <1>b, ConcludedInv DEF Close
  <2>2. StmtOK'
    BY <1>12, <1>b DEF Close, StmtOK
  <2>3. Owes(c)'
    BY <1>12, <1>b DEF Close, StmtOK, Owes
  <2> QED
    BY <2>1, <2>2, <2>3, <1>12, <1>b, QuietStep DEF Close, StmtOK
<1>13. ASSUME ConnectionUnlocked(c) \/ ConnectionClosed(c) PROVE IInv'
  <2>1. /\ \A x \in Conn : blocking'[x] \in {blocking[x], NoConn} \ {c}
        /\ \A x \in Conn : unlocker'[x] \in {unlocker[x], NoConn} \ {c}
    BY <1>13, <1>b, SharedCacheAssumption
       DEF ConnectionUnlocked, ConnectionClosed, Dropped, NotifyOK
  <2>2. NotifyOK'
    BY <1>13, <1>b DEF ConnectionUnlocked, ConnectionClosed, Dropped, NotifyOK
  <2>3. UNCHANGED <<bt, stmt>> /\ pc' = [pc EXCEPT ![c] = "idle"]
    BY <1>13 DEF ConnectionUnlocked, ConnectionClosed
  <2>4. StmtOK'
    BY <2>3, <1>b DEF StmtOK, stmt
  <2>5. \A x \in Conn \ {c} : Owes(x)' <=> Owes(x)
    BY <2>3, <1>b DEF Owes, StmtOK, stmt
  <2>6. NoLostNotify'
    BY <2>1, <2>5, <1>b, SharedCacheAssumption DEF NoLostNotify
  <2>7. NoWaitCycle'
    BY <2>1, <1>b, FewerWait DEF NoWaitCycle
  <2> QED
    BY <2>2, <2>3, <2>4, <2>6, <2>7, <1>b DEF IInv
<1>14. CASE UnlockNotify(c)
  <2>1. UNCHANGED <<bt, stmt, pc, blocking>>
    BY <1>14 DEF UnlockNotify
  <2>2. StmtOK' /\ BtInv(bt')
    BY <2>1, <1>b DEF StmtOK, stmt
  <2>3. \A x \in Conn : Owes(x)' <=> Owes(x)
    BY <2>1 DEF Owes, stmt
  <2>4. CASE blocking[c] # NoConn /\ ~Deadlock(c)
    <3>1. unlocker' = [unlocker EXCEPT ![c] = blocking[c]]
      BY <1>14, <2>4 DEF UnlockNotify
    <3>2. blocking[c] \in Conn /\ ~Reaches(unlocker, blocking[c], c)
      BY <2>4, <1>b DEF NotifyOK, Deadlock
    <3>3. NotifyOK'
      BY <2>1, <3>1, <3>2, <1>b DEF NotifyOK
    <3>4. NoWaitCycle'
      BY <3>1, <3>2, <1>b, OneMoreWaits DEF NoWaitCycle, NotifyOK
    <3>5. NoLostNotify'
      BY <2>1, <2>3, <3>1, <1>b DEF NoLostNotify, NotifyOK
    <3> QED
      BY <2>2, <3>3, <3>4, <3>5 DEF IInv
  <2>5. CASE ~(blocking[c] # NoConn /\ ~Deadlock(c))
    <3>1. unlocker' = unlocker
      BY <1>14, <2>5 DEF UnlockNotify
    <3>2. NotifyOK' /\ NoWaitCycle' /\ NoLostNotify'
      BY <2>1, <2>3, <3>1, <1>b DEF NotifyOK, NoWaitCycle, NoLostNotify
    <3> QED
      BY <2>2, <3>2 DEF IInv
  <2> QED
    BY <2>4, <2>5
<1>15. CASE Cancel(c)
  <2>1. /\ \A x \in Conn : blocking'[x] \in {blocking[x], NoConn}
        /\ \A x \in Conn : unlocker'[x] \in {unlocker[x], NoConn}
    BY <1>15, <1>b DEF Cancel, NotifyOK
  <2>2. NotifyOK'
    BY <1>15, <1>b DEF Cancel, NotifyOK
  <2>3. UNCHANGED <<bt, stmt, pc>>
    BY <1>15 DEF Cancel
  <2>4. StmtOK' /\ BtInv(bt')
    BY <2>3, <1>b DEF StmtOK, stmt
  <2>5. \A x \in Conn : Owes(x)' <=> Owes(x)
    BY <2>3 DEF Owes, stmt
  <2>6. NoLostNotify'
    BY <2>1, <2>5, <1>b, SharedCacheAssumption DEF NoLostNotify
  <2>7. NoWaitCycle'
    BY <2>1, <1>b, FewerWait DEF NoWaitCycle
  <2> QED
    BY <2>2, <2>4, <2>6, <2>7 DEF IInv
<1> QED
  BY <1>1, <1>2, <1>3, <1>4, <1>5, <1>6, <1>7, <1>8, <1>9, <1>10, <1>11, <1>12, <1>13,
     <1>14, <1>15 DEF Step

(* Every step of the system keeps the invariant.                           *)
LEMMA NextInv == IInv /\ [Next]_vars => IInv'
<1> SUFFICES ASSUME IInv, [Next]_vars PROVE IInv'
  OBVIOUS
<1>1. ASSUME NEW c \in Conn, Step(c) PROVE IInv'
  BY <1>1, StepInv
<1>2. CASE UNCHANGED vars
  BY <1>2 DEF IInv, vars, StmtOK, NotifyOK, NoLostNotify, Owes, NoWaitCycle
<1> QED
  BY <1>1, <1>2 DEF Next

-----------------------------------------------------------------------------
(* The theorems.                                                           *)

(* The strengthened invariant: how transactions, pWriter, the flags of the *)
(* b-tree, table locks and callbacks fit together at every step.           *)
THEOREM Invariant == Spec => []IInv
BY InitInv, NextInv, PTL DEF Spec

(* Every field of the b-tree, of the connections and of notify.c keeps its *)
(* type; in particular the counts of active statements stay natural.       *)
THEOREM TypeCorrect == Spec => []TypeOK
<1>1. IInv => TypeOK
  BY DEF IInv, BtInv, StmtOK, NotifyOK, TypeOK
<1> QED
  BY <1>1, Invariant, PTL

(* However many connections there are, a write lock of one on a table      *)
(* excludes every other lock on it: querySharedCacheTableLock() may ignore *)
(* that two write locks are equal.                                         *)
THEOREM WriteLocks == Spec => []WriteLocksExclude
<1>1. IInv => WriteLocksExclude
  BY DEF IInv, BtInv, Excludes, WriteLocksExclude
<1> QED
  BY <1>1, Invariant, PTL

(* sqlite3BtreeBeginTrans() and querySharedCacheTableLock() never follow a *)
(* null pWriter, and BTS_EXCLUSIVE leaves the writer the only locks.       *)
THEOREM Writer == Spec => []WriterKnown
<1>1. IInv => WriterKnown
  <2> SUFFICES ASSUME BtInv(bt) PROVE WriterKnown
    BY DEF IInv
  <2>b. bt \in BtShared /\ OneWriter(bt) /\ ExclusiveOK(bt) /\ PendingOK(bt)
    BY DEF BtInv
  <2>1. bt.inTransaction = TRANS_WRITE \/ bt.btsFlags # {} => bt.pWriter \in Conn
    BY <2>b DEF OneWriter, ExclusiveOK, PendingOK, BtShared
  <2>2. bt.pWriter \in Conn => bt.inTrans[bt.pWriter] = TRANS_WRITE
    BY <2>b DEF OneWriter
  <2> QED
    BY <2>1, <2>2, <2>b DEF WriterKnown, ExclusiveOK
<1> QED
  BY <1>1, Invariant, PTL

(* clearAllSharedCacheTableLocks() clears BTS_PENDING in time by counting  *)
(* transactions: the flag never outlives the readers the writer waits for. *)
THEOREM Pending == Spec => []PendingHasReaders
<1>1. IInv => PendingHasReaders
  BY DEF IInv, BtInv, PendingOK, TransSet, PendingHasReaders
<1> QED
  BY <1>1, Invariant, PTL

(* pBlockingConnection and pUnlockConnection never name a connection that  *)
(* is closed or that will not call sqlite3ConnectionUnlocked() again.      *)
THEOREM NoLost == Spec => []NoLostNotify
<1>1. IInv => NoLostNotify
  BY DEF IInv
<1> QED
  BY <1>1, Invariant, PTL

(* The check of sqlite3_unlock_notify() keeps every cycle out, of any      *)
(* length, so the chain it follows is finite.                              *)
THEOREM NoCycle == Spec => []NoWaitCycle
<1>1. IInv => NoWaitCycle
  BY DEF IInv
<1> QED
  BY <1>1, Invariant, PTL
=============================================================================
