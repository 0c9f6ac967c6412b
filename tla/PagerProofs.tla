----------------------------- MODULE PagerProofs -----------------------------
(***************************************************************************)
(* Proofs about module Pager, for every number of connections and pages    *)
(* and any faults: the states, the locks and the journals of the pagers    *)
(* agree (PagerControl); no reader meets a hot journal (NoHotJournal); no  *)
(* page of the database file is written before the journal is safe         *)
(* (JournalFirst).  Every action X has a lemma XStep, what it does to the  *)
(* types and the fields of the pager; then XControl, XHot and XSync show   *)
(* that it keeps the three invariants of module PagerInv.                  *)
(***************************************************************************)
EXTENDS PagerInv, WellFoundedInduction, TLAPS

-----------------------------------------------------------------------------
\* Numbers.

LEMMA LeastNatural ==
  ASSUME NEW s \in SUBSET Nat, s # {}
  PROVE  \E n \in s : \A m \in s : n <= m
<1> DEFINE R == OpToRel(<, Nat)
<1>1. IsWellFoundedOn(R, Nat)
  BY NatLessThanWellFounded, Zenon
<1>2. \A x, y \in Nat : x < y => <<x, y>> \in R
  BY DEF OpToRel
<1> HIDE DEF R
<1>3. PICK n \in s : \A m \in s : ~ (<<m, n>> \in R)
  BY <1>1, WFMin
<1>4. \A m \in s : ~ (m < n)
  BY <1>2, <1>3
<1> QED
  BY <1>4

LEMMA LargestNatural ==
  ASSUME NEW n \in Nat, NEW s \in SUBSET (0..n), s # {}
  PROVE  \E x \in s : \A m \in s : m <= x
<1> DEFINE t == {n - m : m \in s}
<1>1. t \in SUBSET Nat /\ t # {}
  <2>1. \A m \in s : m \in Int /\ 0 <= m /\ m <= n
    OBVIOUS
  <2>2. \A m \in s : n - m \in Nat
    BY <2>1
  <2> QED
    BY <2>2
<1>2. PICK k \in t : \A m \in t : k <= m
  BY <1>1, LeastNatural
<1>3. PICK x \in s : k = n - x
  BY <1>2
<1>4. ASSUME NEW m \in s PROVE m <= x
  <2>1. k <= n - m
    BY <1>2
  <2> QED
    BY <1>3, <2>1
<1> QED
  BY <1>4

LEMMA FirstIn ==
  ASSUME NEW s \in SUBSET Page, s # {}
  PROVE  First(s) \in s /\ \A q \in s : First(s) <= q
<1>1. \E p \in s : \A q \in s : p <= q
  BY LeastNatural DEF Page
<1> QED
  BY <1>1 DEF First

\* The size of a file is the number of its last page that is not blank.
LEMMA FileSizeType ==
  ASSUME NEW f
  PROVE  /\ FileSize(f) \in 0..NPage
         /\ FileSize(f) = 0 \/ f[FileSize(f)] # 0
         /\ \A p \in Page : p > FileSize(f) => f[p] = 0
<1> DEFINE s == {n \in 0..NPage : n = 0 \/ f[n] # 0}
<1>1. NPage \in Nat
  BY PagerAssumption
<1>2. s \in SUBSET (0..NPage) /\ 0 \in s
  BY <1>1
<1>3. PICK x \in s : \A m \in s : m <= x
  <2> HIDE DEF s
  <2> QED
    BY <1>1, <1>2, LargestNatural
<1>4. \A p \in Page : p > x => f[p] = 0
  BY <1>1, <1>3 DEF Page
<1>5. \E n \in 0..NPage : (n = 0 \/ f[n] # 0) /\ \A p \in Page : p > n => f[p] = 0
  BY <1>3, <1>4
<1> QED
  BY <1>5 DEF FileSize

LEMMA FileSizeIs ==
  ASSUME NEW f, NEW n \in 0..NPage, n = 0 \/ f[n] # 0, \A p \in Page : p > n => f[p] = 0
  PROVE  FileSize(f) = n
<1>1. NPage \in Nat
  BY PagerAssumption
<1>2. /\ FileSize(f) \in 0..NPage
      /\ FileSize(f) = 0 \/ f[FileSize(f)] # 0
      /\ \A p \in Page : p > FileSize(f) => f[p] = 0
  BY FileSizeType
<1>3. CASE FileSize(f) < n
  BY <1>1, <1>2, <1>3 DEF Page
<1>4. CASE FileSize(f) > n
  BY <1>1, <1>2, <1>4 DEF Page
<1> QED
  BY <1>1, <1>2, <1>3, <1>4

-----------------------------------------------------------------------------
\* Journal files.

LEMMA HeaderType ==
  ASSUME NEW m \in BOOLEAN, NEW n \in Nat, NEW v \in Int, NEW nonce \in Nat
  PROVE  /\ Header(m, n, v, nonce) \in SlotSet
         /\ Header(m, n, v, nonce).type = "hdr" /\ (Header(m, n, v, nonce).magic <=> m)
         /\ Header(m, n, v, nonce).n = n /\ Header(m, n, v, nonce).v = v
         /\ Header(m, n, v, nonce).nonce = nonce
BY DEF Header, SlotSet

LEMMA RecordType ==
  ASSUME NEW p \in Nat, NEW v \in Int, NEW nonce \in Nat
  PROVE  /\ Record(p, v, nonce) \in SlotSet
         /\ Record(p, v, nonce).type = "rec" /\ ~Record(p, v, nonce).magic
         /\ Record(p, v, nonce).n = p /\ Record(p, v, nonce).v = v
         /\ Record(p, v, nonce).nonce = nonce
BY DEF Record, SlotSet

LEMMA JunkType ==
  Junk \in SlotSet /\ Junk.type = "junk" /\ ~Junk.magic /\ Junk.nonce = 0
BY DEF Junk, SlotSet

LEMMA SlotType ==
  ASSUME NEW x \in SlotSet
  PROVE  /\ x.type \in {"hdr", "rec", "junk"} /\ x.magic \in BOOLEAN /\ x.n \in Nat
         /\ x.v \in Int /\ x.nonce \in Nat /\ (x.type # "hdr" => ~x.magic)
BY DEF SlotSet

LEMMA PutType ==
  ASSUME NEW T, NEW s \in Seq(T), NEW i \in Nat \ {0}, NEW x \in T, NEW k,
         k = IF i <= Len(s) THEN i ELSE Len(s) + 1
  PROVE  /\ Put(s, i, x) \in Seq(T)
         /\ Len(Put(s, i, x)) = (IF i <= Len(s) THEN Len(s) ELSE Len(s) + 1)
         /\ Put(s, i, x)[k] = x /\ k \in 1..Len(Put(s, i, x))
         /\ \A m \in 1..Len(Put(s, i, x)) :
              m # k => m \in 1..Len(s) /\ Put(s, i, x)[m] = s[m]
<1>1. CASE i <= Len(s)
  BY <1>1 DEF Put
<1>2. CASE ~(i <= Len(s))
  BY <1>2 DEF Put
<1> QED
  BY <1>1, <1>2

LEMMA JournalType ==
  ASSUME NEW j \in JournalSet
  PROVE  /\ j.exists \in BOOLEAN /\ j.slot \in Seq(SlotSet) /\ j.alt \in Seq(SUBSET SlotSet)
         /\ Len(j.alt) = Len(j.slot) /\ Len(j.slot) \in Nat
         /\ \A i \in 1..Len(j.slot) :
              /\ j.slot[i] \in j.alt[i] /\ j.slot[i] \in SlotSet /\ j.alt[i] \in SUBSET SlotSet
<1>1. /\ j.exists \in BOOLEAN /\ j.slot \in Seq(SlotSet) /\ j.alt \in Seq(SUBSET SlotSet)
      /\ Len(j.alt) = Len(j.slot) /\ \A i \in 1..Len(j.slot) : j.slot[i] \in j.alt[i]
  BY DEF JournalSet
<1>2. Len(j.slot) \in Nat /\ \A i \in 1..Len(j.slot) : j.slot[i] \in SlotSet
  BY <1>1
<1>3. \A i \in 1..Len(j.alt) : j.alt[i] \in SUBSET SlotSet
  BY <1>1
<1> QED
  BY <1>1, <1>2, <1>3

LEMMA JournalIs ==
  ASSUME NEW e \in BOOLEAN, NEW s \in Seq(SlotSet), NEW a \in Seq(SUBSET SlotSet),
         Len(a) = Len(s), \A i \in 1..Len(s) : s[i] \in a[i]
  PROVE  /\ [exists |-> e, slot |-> s, alt |-> a] \in JournalSet
         /\ ([exists |-> e, slot |-> s, alt |-> a].exists <=> e)
         /\ [exists |-> e, slot |-> s, alt |-> a].slot = s
         /\ [exists |-> e, slot |-> s, alt |-> a].alt = a
BY DEF JournalSet

\* What a write may leave in a slot.
LEMMA WriteSlotType ==
  ASSUME NEW j \in JournalSet, NEW i \in Nat \ {0}, NEW x \in SlotSet,
         NEW torn \in SUBSET SlotSet
  PROVE  LET w == WriteSlot(j, i, x, torn)
             k == IF i <= Len(j.slot) THEN i ELSE Len(j.slot) + 1
         IN  /\ w \in JournalSet /\ w.exists /\ w.slot = Put(j.slot, i, x)
             /\ Len(w.slot) = (IF i <= Len(j.slot) THEN Len(j.slot) ELSE Len(j.slot) + 1)
             /\ k \in 1..Len(w.slot) /\ w.slot[k] = x
             /\ \A m \in 1..Len(w.slot) : m # k =>
                  m \in 1..Len(j.slot) /\ w.slot[m] = j.slot[m] /\ w.alt[m] = j.alt[m]
             /\ WriteThrough => w.alt[k] = {x}
             /\ \A y \in w.alt[k] : y = x \/ y \in torn \/ (k <= Len(j.slot) /\ y \in j.alt[k])
<1> DEFINE old == IF i <= Len(j.alt) THEN j.alt[i] ELSE {}
           new == IF WriteThrough THEN {x} ELSE old \cup {x} \cup torn
           s == Put(j.slot, i, x)
           a == Put(j.alt, i, new)
           k == IF i <= Len(j.slot) THEN i ELSE Len(j.slot) + 1
<1>0. /\ j.slot \in Seq(SlotSet) /\ j.alt \in Seq(SUBSET SlotSet)
      /\ Len(j.alt) = Len(j.slot) /\ Len(j.slot) \in Nat
      /\ \A m \in 1..Len(j.slot) : j.slot[m] \in j.alt[m] /\ j.alt[m] \in SUBSET SlotSet
  BY JournalType
<1>1. old \in SUBSET SlotSet
  BY <1>0
<1>2. new \in SUBSET SlotSet /\ x \in new
  BY <1>1
<1>2a. WriteThrough => new = {x}
  OBVIOUS
<1>2b. \A y \in new : y = x \/ y \in torn \/ (k <= Len(j.slot) /\ y \in j.alt[k])
  BY <1>0
<1>3. WriteSlot(j, i, x, torn) = [exists |-> TRUE, slot |-> s, alt |-> a]
  BY DEF WriteSlot
<1> HIDE DEF new, old
<1>4. /\ s \in Seq(SlotSet)
      /\ Len(s) = (IF i <= Len(j.slot) THEN Len(j.slot) ELSE Len(j.slot) + 1)
      /\ s[k] = x /\ k \in 1..Len(s)
      /\ \A m \in 1..Len(s) : m # k => m \in 1..Len(j.slot) /\ s[m] = j.slot[m]
  <2>1. k = IF i <= Len(j.slot) THEN i ELSE Len(j.slot) + 1
    OBVIOUS
  <2> HIDE DEF k
  <2>2. CASE i <= Len(j.slot)
    BY <1>0, <2>1, <2>2 DEF Put
  <2>3. CASE ~(i <= Len(j.slot))
    BY <1>0, <2>1, <2>3 DEF Put
  <2> QED
    BY <2>2, <2>3
<1>5. /\ a \in Seq(SUBSET SlotSet)
      /\ Len(a) = (IF i <= Len(j.alt) THEN Len(j.alt) ELSE Len(j.alt) + 1)
      /\ a[k] = new
      /\ \A m \in 1..Len(a) : m # k => m \in 1..Len(j.alt) /\ a[m] = j.alt[m]
  <2>1. k = IF i <= Len(j.alt) THEN i ELSE Len(j.alt) + 1
    BY <1>0
  <2> HIDE DEF k
  <2>2. CASE i <= Len(j.alt)
    BY <1>0, <1>2, <2>1, <2>2 DEF Put
  <2>3. CASE ~(i <= Len(j.alt))
    BY SMTT(30), <1>0, <1>2, <2>1, <2>3 DEF Put
  <2> QED
    BY <2>2, <2>3
<1> HIDE DEF s, a, k
<1>6. Len(a) = Len(s) /\ \A m \in 1..Len(s) : s[m] \in a[m]
  BY <1>0, <1>2, <1>4, <1>5
<1>7. /\ WriteSlot(j, i, x, torn) \in JournalSet /\ WriteSlot(j, i, x, torn).exists
      /\ WriteSlot(j, i, x, torn).slot = s /\ WriteSlot(j, i, x, torn).alt = a
  BY <1>3, <1>4, <1>5, <1>6 DEF JournalSet
<1>8. s = Put(j.slot, i, x) /\ k = IF i <= Len(j.slot) THEN i ELSE Len(j.slot) + 1
  BY DEF s, k
<1> QED
  BY <1>0, <1>2a, <1>2b, <1>4, <1>5, <1>7, <1>8

LEMMA SyncedType ==
  ASSUME NEW j \in JournalSet
  PROVE  /\ Synced(j) \in JournalSet /\ (Synced(j).exists <=> j.exists)
         /\ Synced(j).slot = j.slot
         /\ \A i \in 1..Len(j.slot) : Synced(j).alt[i] = {j.slot[i]}
<1> DEFINE a == [i \in 1..Len(j.slot) |-> {j.slot[i]}]
<1>1. /\ j.exists \in BOOLEAN /\ j.slot \in Seq(SlotSet) /\ Len(j.slot) \in Nat
      /\ \A i \in 1..Len(j.slot) : j.slot[i] \in SlotSet
  BY JournalType
<1>2. a \in Seq(SUBSET SlotSet) /\ Len(a) = Len(j.slot)
  BY <1>1
<1>3. j = [exists |-> j.exists, slot |-> j.slot, alt |-> j.alt]
  BY DEF JournalSet
<1>3a. Synced(j) = [j EXCEPT !.alt = a]
  BY DEF Synced
<1>4. \A i \in 1..Len(j.slot) : a[i] = {j.slot[i]}
  OBVIOUS
<1> HIDE DEF a
<1>5. Synced(j) = [exists |-> j.exists, slot |-> j.slot, alt |-> a]
  BY <1>3, <1>3a
<1> QED
  BY <1>1, <1>2, <1>4, <1>5 DEF JournalSet

LEMMA NoJournalType ==
  /\ NoJournal \in JournalSet /\ ~NoJournal.exists /\ NoJournal.slot = <<>>
  /\ NoJournal.alt = <<>> /\ Len(NoJournal.slot) = 0
  /\ [exists |-> TRUE, slot |-> <<>>, alt |-> <<>>] \in JournalSet
BY DEF NoJournal, JournalSet

LEMMA CreateFileType ==
  ASSUME NEW j \in JournalSet, NEW mem \in Seq(SlotSet)
  PROVE  /\ createFile(j, mem) \in JournalSet
         /\ createFile(j, mem).exists
<1> DEFINE hdr == IF Len(mem) >= 1 THEN WriteSlot(j, 1, mem[1], {Junk})
                  ELSE [j EXCEPT !.exists = TRUE]
<1>1. Len(mem) \in Nat /\ \A i \in 1..Len(mem) : mem[i] \in SlotSet
  OBVIOUS
<1>2. [j EXCEPT !.exists = TRUE] \in JournalSet /\ [j EXCEPT !.exists = TRUE].exists
  BY DEF JournalSet
<1>3. hdr \in JournalSet /\ hdr.exists
  <2>1. CASE Len(mem) >= 1
    <3>1. mem[1] \in SlotSet /\ hdr = WriteSlot(j, 1, mem[1], {Junk})
      BY <1>1, <2>1
    <3> HIDE DEF hdr
    <3> QED
      BY <3>1, WriteSlotType, JunkType
  <2> QED
    BY <1>1, <1>2, <2>1
<1>4. createFile(j, mem) = IF Len(mem) >= 2 THEN WriteSlot(hdr, 2, mem[2], {Junk}) ELSE hdr
  BY DEF createFile
<1> HIDE DEF hdr
<1>5. CASE Len(mem) >= 2
  <2>1. mem[2] \in SlotSet
    BY <1>1, <1>5
  <2> QED
    BY <1>3, <1>4, <1>5, <2>1, WriteSlotType, JunkType
<1> QED
  BY <1>1, <1>3, <1>4, <1>5

-----------------------------------------------------------------------------
\* Steps.

LEMMA Numbers ==
  /\ NPage \in Nat /\ NPage >= 2 /\ Page = 1..NPage /\ 0 \in 0..NPage /\ 1 \in Page
  /\ NotCached \in Int /\ NotCached = -2 /\ Torn \in Int /\ Torn = -1
  /\ NoHeader \in Int /\ NoHeader = -1 /\ NoCache \in [Page -> Int]
<1>1. NPage \in Nat /\ NPage >= 2
  BY PagerAssumption
<1>2. NotCached \in Int /\ NotCached = -2 /\ Torn \in Int /\ Torn = -1
  BY DEF NotCached, Torn
<1>3. NoHeader \in Int /\ NoHeader = -1
  BY DEF NoHeader
<1>4. NoCache \in [Page -> Int]
  BY <1>2 DEF NoCache
<1> QED
  BY <1>1, <1>2, <1>3, <1>4 DEF Page

LEMMA Levels ==
  /\ NO_LOCK = 0 /\ SHARED_LOCK = 1 /\ RESERVED_LOCK = 2 /\ PENDING_LOCK = 3
  /\ EXCLUSIVE_LOCK = 4
BY DEF NO_LOCK, SHARED_LOCK, RESERVED_LOCK, PENDING_LOCK, EXCLUSIVE_LOCK, FL!NO_LOCK,
       FL!SHARED_LOCK, FL!RESERVED_LOCK, FL!PENDING_LOCK, FL!EXCLUSIVE_LOCK

LEMMA PagerFields ==
  ASSUME Types, NEW c \in Conn
  PROVE  /\ pager = [d \in Conn |-> pager[d]] /\ PagerOK(pager[c]) /\ IsRecord(pager[c])
         /\ FieldsOK(pager[c])
BY DEF Types, PagerOK

LEMMA Offsets ==
  ASSUME Types, NEW c \in Conn
  PROVE  /\ pager[c].journalOff \in Nat /\ pager[c].journalHdr \in Nat /\ pager[c].nRec \in Nat
         /\ pager[c].journalOff + 1 \in Nat \ {0} /\ pager[c].journalHdr + 1 \in Nat \ {0}
<1>1. pager[c].journalOff \in Nat /\ pager[c].journalHdr \in Nat /\ pager[c].nRec \in Nat
  BY PagerFields DEF FieldsOK
<1> QED
  BY <1>1

LEMMA AssignedRest ==
  ASSUME Types, NEW c \in Conn, NEW Q, pager' = [pager EXCEPT ![c] = Q]
  PROVE  Rest(c) /\ pager'[c] = Q
BY DEF Types, Rest

LEMMA ConnTypes ==
  ASSUME Types, NEW c \in Conn, Rest(c), PagerOK(pager'[c]), DbTypes', jrnl' \in JournalSet,
         lock' \in [Conn -> 0..4], txid' \in Nat, faults' \in Nat
  PROVE  Types'
<1>1. \A d \in Conn : PagerOK(pager[d])
  BY DEF Types
<1>2. ASSUME NEW d \in Conn PROVE PagerOK(pager'[d])
  BY <1>1 DEF Rest
<1>3. pager' = [d \in Conn |-> pager'[d]]
  BY DEF Rest
<1> QED
  BY <1>2, <1>3 DEF Types

LEMMA DiskKept ==
  ASSUME Types, UNCHANGED disk
  PROVE  DbTypes' /\ jrnl' \in JournalSet
BY DEF Types, DbTypes, disk

LEMMA DbWriteTypes ==
  ASSUME Types, NEW p \in Page, NEW v \in Int, DbWrite(p, v)
  PROVE  /\ DbTypes'
         /\ db' = [db EXCEPT ![p] = v]
         /\ \A q \in Page \ {p} : db'[q] = db[q] /\ dbAlt'[q] = dbAlt[q]
         /\ db'[p] = v /\ (WriteThrough => dbAlt'[p] = {v})
         /\ \A x \in dbAlt'[p] : x = v \/ x = Torn \/ x \in dbAlt[p]
<1>1. /\ db \in [Page -> Int] /\ dbAlt \in [Page -> SUBSET Int]
      /\ \A q \in Page : db[q] \in dbAlt[q]
  BY DEF Types, DbTypes
<1> DEFINE new == IF WriteThrough THEN {v}
                  ELSE dbAlt[p] \cup {v} \cup (IF AtomicWrite THEN {} ELSE {Torn})
<1>2. /\ new \in SUBSET Int /\ v \in new /\ (WriteThrough => new = {v})
      /\ \A x \in new : x = v \/ x = Torn \/ x \in dbAlt[p]
  BY <1>1, Numbers
<1>3. db' = [db EXCEPT ![p] = v] /\ dbAlt' = [dbAlt EXCEPT ![p] = new]
  BY <1>1 DEF DbWrite
<1> HIDE DEF new
<1> QED
  BY <1>1, <1>2, <1>3 DEF DbTypes

LEMMA DbTruncateTypes ==
  ASSUME Types, NEW n \in Int, DbTruncate(n)
  PROVE  /\ DbTypes'
         /\ \A q \in Page : q <= n => db'[q] = db[q] /\ dbAlt'[q] = dbAlt[q]
         /\ \A q \in Page : q > n => db'[q] = 0 /\ (WriteThrough => dbAlt'[q] = {0})
                                     /\ dbAlt'[q] \subseteq dbAlt[q] \cup {0}
<1>1. /\ db \in [Page -> Int] /\ dbAlt \in [Page -> SUBSET Int]
      /\ \A q \in Page : db[q] \in dbAlt[q] /\ q \in Int
  BY Numbers DEF Types, DbTypes
<1> DEFINE new(q) == IF q <= n THEN dbAlt[q]
                     ELSE IF WriteThrough THEN {0} ELSE dbAlt[q] \cup {0}
           val(q) == IF q > n THEN 0 ELSE db[q]
<1>2. \A q \in Page : /\ new(q) \in SUBSET Int /\ val(q) \in new(q) /\ val(q) \in Int
                      /\ q <= n => new(q) = dbAlt[q] /\ val(q) = db[q]
                      /\ q > n => /\ (WriteThrough => new(q) = {0}) /\ val(q) = 0
                                  /\ new(q) \subseteq dbAlt[q] \cup {0}
  BY <1>1
<1>3. db' = [q \in Page |-> val(q)] /\ dbAlt' = [q \in Page |-> new(q)]
  BY DEF DbTruncate
<1> HIDE DEF new, val
<1> QED
  BY <1>2, <1>3 DEF DbTypes

LEMMA DbSyncTypes ==
  ASSUME Types, DbSync
  PROVE  DbTypes' /\ db' = db /\ \A q \in Page : dbAlt'[q] = {db[q]}
BY DEF Types, DbTypes, DbSync

LEMMA ClosedFields ==
  ASSUME NEW P, PagerOK(P), NEW reset \in BOOLEAN
  PROVE  LET Q == Closed(P, reset)
         IN  /\ PagerOK(Q) /\ Q.eState = "OPEN" /\ Q.pc = "idle" /\ Q.jfd = "closed"
             /\ Q.mem = <<>> /\ Q.cache = (IF reset THEN NoCache ELSE P.cache)
             /\ Q.dbFileVers = P.dbFileVers /\ Q.dbSize = P.dbSize /\ Q.journalOff = 0
             /\ Q.journalMode = P.journalMode /\ Q.fullSync = P.fullSync
<1> DEFINE R == Cleared(P)
           Q == Closed(P, reset)
<1>0. IsRecord(P)
  BY DEF PagerOK
<1>1a. IsRecord(R)
  BY <1>0 DEF Cleared, IsRecord
<1>1b. /\ R.dirty = {} /\ R.dbOrigSize = 0 /\ R.journalOff = 0 /\ R.journalHdr = 0
       /\ R.ownHdr = NoHeader /\ R.nRec = 0 /\ R.inJournal = {} /\ R.needSync = {} /\ R.id = 0
       /\ R.pg = 0 /\ R.left = 0 /\ R.spills = 0
       /\ R.cache = P.cache /\ R.dbFileVers = P.dbFileVers /\ R.dbSize = P.dbSize
       /\ R.journalMode = P.journalMode /\ R.fullSync = P.fullSync
  BY <1>0 DEF Cleared, IsRecord, Fields
<1> DEFINE k == IF reset THEN NoCache ELSE R.cache
<1>1c. Q = [R EXCEPT !.eState = "OPEN", !.pc = "idle", !.jfd = "closed", !.mem = <<>>,
                     !.cache = k]
  BY <1>1a DEF Closed, IsRecord, Fields
<1>1d. k = IF reset THEN NoCache ELSE P.cache
  BY <1>1b
<1> HIDE DEF R, Q, k
<1>1e. IsRecord(Q)
  BY <1>1a, <1>1c DEF IsRecord
<1>1f. /\ Q.eState = "OPEN" /\ Q.pc = "idle" /\ Q.jfd = "closed" /\ Q.mem = <<>> /\ Q.cache = k
       /\ \A f \in Fields \ {"eState", "pc", "jfd", "mem", "cache"} : Q[f] = R[f]
  BY <1>1a, <1>1c DEF IsRecord, Fields
<1>1. /\ IsRecord(Q) /\ Q.eState = "OPEN" /\ Q.pc = "idle" /\ Q.jfd = "closed" /\ Q.mem = <<>>
      /\ Q.cache = (IF reset THEN NoCache ELSE P.cache)
      /\ Q.dirty = {} /\ Q.dbOrigSize = 0 /\ Q.journalOff = 0 /\ Q.journalHdr = 0
      /\ Q.ownHdr = NoHeader /\ Q.nRec = 0 /\ Q.inJournal = {} /\ Q.needSync = {} /\ Q.id = 0
      /\ Q.pg = 0 /\ Q.left = 0 /\ Q.spills = 0
      /\ Q.dbFileVers = P.dbFileVers /\ Q.dbSize = P.dbSize
      /\ Q.journalMode = P.journalMode /\ Q.fullSync = P.fullSync
  BY <1>1b, <1>1d, <1>1e, <1>1f DEF Fields
<1>2. FieldsOK(P)
  BY DEF PagerOK
<1>3. Q.cache \in [Page -> Int] /\ Q.mem \in Seq(SlotSet)
  BY <1>1, <1>2, Numbers DEF FieldsOK
<1>4. FieldsOK(Q)
  BY <1>1, <1>2, <1>3, Numbers DEF FieldsOK, PCs, EState, Jfds
<1> QED
  BY <1>1, <1>4 DEF PagerOK, Q

LEMMA UnlockedStep ==
  ASSUME Types, NEW c \in Conn, NEW reset \in BOOLEAN, Unlocked(c, reset)
  PROVE  /\ Rest(c) /\ PagerOK(pager'[c]) /\ pager'[c] = Closed(pager[c], reset)
         /\ lock' = [lock EXCEPT ![c] = NO_LOCK] /\ lock' \in [Conn -> 0..4]
<1>1. pager' = [pager EXCEPT ![c] = Closed(pager[c], reset)]
  BY DEF Types, Unlocked
<1>2. Rest(c) /\ pager'[c] = Closed(pager[c], reset)
  BY <1>1, AssignedRest
<1>3. PagerOK(pager'[c])
  BY <1>2, PagerFields, ClosedFields
<1> QED
  BY <1>2, <1>3, Levels DEF Unlocked, Types

LEMMA GotoStep ==
  ASSUME Types, NEW c \in Conn, NEW pc \in PCs, Goto(c, pc),
         pc \in {"open", "write", "sync1", "spill"} => pager[c].pg \in Page
  PROVE  /\ Rest(c) /\ PagerOK(pager'[c]) /\ Kept(pager[c], pager'[c], {"pc"})
         /\ pager'[c].pc = pc
<1>1. pager'[c] = [pager[c] EXCEPT !.pc = pc] /\ Rest(c)
  BY DEF Goto, Types, Rest
<1>2. Kept(pager[c], pager'[c], {"pc"}) /\ pager'[c].pc = pc
  BY <1>1, PagerFields DEF IsRecord, Fields, Kept
<1>3. FieldsOK(pager'[c])
  BY <1>2, PagerFields DEF FieldsOK, Kept, Fields
<1> QED
  BY <1>1, <1>2, <1>3 DEF PagerOK, Kept

LEMMA ExclusiveBusyLock ==
  ASSUME Types, NEW c \in Conn, ExclusiveBusy(c)
  PROVE  /\ lock' \in [Conn -> 0..4] /\ lock' = [lock EXCEPT ![c] = lock'[c]]
         /\ lock'[c] \in {lock[c], PENDING_LOCK}
BY Levels DEF ExclusiveBusy, Types

LEMMA PageImageType ==
  ASSUME NEW P, FieldsOK(P), NEW p \in Page
  PROVE  PageImage(P, p) \in Int
<1>1. P.cache \in [Page -> Int] /\ P.dbFileVers \in Int
  BY DEF FieldsOK
<1>2. P.cache[p] \in Int
  BY <1>1
<1> QED
  BY <1>1, <1>2 DEF PageImage

LEMMA CheckVersionStep ==
  ASSUME Types, NEW c \in Conn, CheckVersion(c)
  PROVE  /\ Types' /\ Rest(c) /\ Kept(pager[c], pager'[c], {"eState", "pc", "dbSize", "cache",
            "dbFileVers"})
         /\ pager'[c].eState = "READER"
         /\ pager'[c].pc = "idle"
         /\ pager'[c].dbSize = FileSize(db)
         /\ pager'[c].cache = [(IF Stale(pager[c]) THEN NoCache ELSE pager[c].cache) EXCEPT
                ![1] = IF @ = NotCached THEN db[1] ELSE @]
         /\ pager'[c].dbFileVers = IF (IF Stale(pager[c]) THEN NoCache
            ELSE pager[c].cache)[1] = NotCached
                    /\ FileSize(db) > 0 THEN db[1] ELSE pager[c].dbFileVers
<1> DEFINE v0 == "READER"
           v1 == "idle"
           v2 == FileSize(db)
           v3 == [(IF Stale(pager[c]) THEN NoCache ELSE pager[c].cache) EXCEPT
                ![1] = IF @ = NotCached THEN db[1] ELSE @]
           v4 == IF (IF Stale(pager[c]) THEN NoCache ELSE pager[c].cache)[1] = NotCached
                    /\ FileSize(db) > 0 THEN db[1] ELSE pager[c].dbFileVers
<1>1. pager'[c] = [pager[c] EXCEPT !.eState = v0, !.pc = v1, !.dbSize = v2, !.cache = v3,
        !.dbFileVers = v4] /\ Rest(c)
  BY PagerFields DEF CheckVersion, Rest
<1>2. FieldsOK(pager[c]) /\ IsRecord(pager[c])
  BY PagerFields
<1>t0. v0 \in EState /\ v1 \in PCs /\ v1 = "idle"
  BY DEF EState, PCs
<1>t1. v2 \in Int
  BY FileSizeType, Numbers
<1>t2. db[1] \in Int
  BY Numbers DEF Types, DbTypes
<1>t3. v3 \in [Page -> Int] /\ v4 \in Int
  BY <1>2, <1>t2, Numbers DEF FieldsOK
<1> HIDE DEF v0, v1, v2, v3, v4
<1>3. Kept(pager[c], pager'[c], {"eState", "pc", "dbSize", "cache", "dbFileVers"})
        /\ pager'[c].eState = v0 /\ pager'[c].pc = v1 /\ pager'[c].dbSize = v2
           /\ pager'[c].cache = v3 /\ pager'[c].dbFileVers = v4
  <2>1. IsRecord(pager'[c]) /\ \A f \in Fields \ {"eState", "pc", "dbSize", "cache", "dbFileVers"}
          : pager'[c][f] = pager[c][f]
    BY <1>1, <1>2 DEF IsRecord
  <2>2. pager'[c].eState = v0 /\ pager'[c].pc = v1 /\ pager'[c].dbSize = v2
          /\ pager'[c].cache = v3 /\ pager'[c].dbFileVers = v4
    BY <1>1, <1>2 DEF IsRecord, Fields
  <2> QED
    BY <2>1, <2>2 DEF Kept
<1>4. FieldsOK(pager'[c]) /\ IsRecord(pager'[c])
  BY <1>2, <1>3, <1>t0, <1>t1, <1>t2, <1>t3 DEF FieldsOK, Kept, Fields
<1>5. DbTypes' /\ jrnl' \in JournalSet
  BY DiskKept DEF CheckVersion
<1>6. lock' \in [Conn -> 0..4] /\ txid' \in Nat /\ faults' \in Nat
  BY DEF CheckVersion, Types, Fault
<1>7. Types'
  BY <1>1, <1>4, <1>5, <1>6, ConnTypes DEF PagerOK
<1> QED
  BY <1>1, <1>3, <1>7 DEF v0, v1, v2, v3, v4

LEMMA AcquireStep ==
  ASSUME Types, NEW c \in Conn, NEW p \in Page, Acquire(c, p)
  PROVE  /\ Types' /\ Rest(c) /\ Kept(pager[c], pager'[c], {"cache"})
         /\ pager'[c].cache = [pager[c].cache EXCEPT ![p] = db[p]]
<1> DEFINE v0 == [pager[c].cache EXCEPT ![p] = db[p]]
<1>1. pager'[c] = [pager[c] EXCEPT !.cache = v0] /\ Rest(c)
  BY PagerFields DEF Acquire, Rest
<1>2. FieldsOK(pager[c]) /\ IsRecord(pager[c])
  BY PagerFields
<1>t0. v0 \in [Page -> Int]
  BY <1>2, Numbers DEF Types, DbTypes, FieldsOK
<1> HIDE DEF v0
<1>3. Kept(pager[c], pager'[c], {"cache"}) /\ pager'[c].cache = v0
  <2>1. IsRecord(pager'[c]) /\ \A f \in Fields \ {"cache"} : pager'[c][f] = pager[c][f]
    BY <1>1, <1>2 DEF IsRecord
  <2>2. pager'[c].cache = v0
    BY <1>1, <1>2 DEF IsRecord, Fields
  <2> QED
    BY <2>1, <2>2 DEF Kept
<1>4. FieldsOK(pager'[c]) /\ IsRecord(pager'[c])
  BY <1>2, <1>3, <1>t0 DEF FieldsOK, Kept, Fields
<1>5. DbTypes' /\ jrnl' \in JournalSet
  BY DiskKept DEF Acquire
<1>6. lock' \in [Conn -> 0..4] /\ txid' \in Nat /\ faults' \in Nat
  BY DEF Acquire, Types, Fault
<1>7. Types'
  BY <1>1, <1>4, <1>5, <1>6, ConnTypes DEF PagerOK
<1> QED
  BY <1>1, <1>3, <1>7 DEF v0

LEMMA ReserveStep ==
  ASSUME Types, NEW c \in Conn, Reserve(c)
  PROVE  /\ Types' /\ Rest(c) /\ Kept(pager[c], pager'[c], {"pc", "eState", "dbOrigSize"})
         /\ pager'[c].pc = "idle"
         /\ pager'[c].eState = "WRITER_LOCKED"
         /\ pager'[c].dbOrigSize = pager[c].dbSize
<1> DEFINE v0 == "idle"
           v1 == "WRITER_LOCKED"
           v2 == pager[c].dbSize
<1>1. pager'[c] = [pager[c] EXCEPT !.pc = v0, !.eState = v1, !.dbOrigSize = v2] /\ Rest(c)
  BY PagerFields DEF Reserve, Rest
<1>2. FieldsOK(pager[c]) /\ IsRecord(pager[c])
  BY PagerFields
<1>t0. v0 \in PCs /\ v0 = "idle" /\ v1 \in EState
  BY DEF EState, PCs
<1>t1. v2 \in Int
  BY <1>2 DEF FieldsOK
<1> HIDE DEF v0, v1, v2
<1>3. Kept(pager[c], pager'[c], {"pc", "eState", "dbOrigSize"}) /\ pager'[c].pc = v0
        /\ pager'[c].eState = v1 /\ pager'[c].dbOrigSize = v2
  <2>1. IsRecord(pager'[c]) /\ \A f \in Fields \ {"pc", "eState", "dbOrigSize"}
          : pager'[c][f] = pager[c][f]
    BY <1>1, <1>2 DEF IsRecord
  <2>2. pager'[c].pc = v0 /\ pager'[c].eState = v1 /\ pager'[c].dbOrigSize = v2
    BY <1>1, <1>2 DEF IsRecord, Fields
  <2> QED
    BY <2>1, <2>2 DEF Kept
<1>4. FieldsOK(pager'[c]) /\ IsRecord(pager'[c])
  BY <1>2, <1>3, <1>t0, <1>t1 DEF FieldsOK, Kept, Fields
<1>5. DbTypes' /\ jrnl' \in JournalSet
  BY DiskKept DEF Reserve
<1>6. lock' \in [Conn -> 0..4] /\ txid' \in Nat /\ faults' \in Nat
  BY Levels DEF Reserve, Types, Fault
<1>7. Types'
  BY <1>1, <1>4, <1>5, <1>6, ConnTypes DEF PagerOK
<1> QED
  BY <1>1, <1>3, <1>7 DEF v0, v1, v2

LEMMA SpillStep ==
  ASSUME Types, NEW c \in Conn, NEW p \in Page, Spill(c, p)
  PROVE  /\ Types' /\ Rest(c) /\ Kept(pager[c], pager'[c], {"pg", "spills", "pc"})
         /\ pager'[c].pg = p
         /\ pager'[c].spills = pager[c].spills + 1
         /\ pager'[c].pc = IF p \in pager[c].needSync \/ pager[c].eState = "WRITER_CACHEMOD"
                                THEN "sync1" ELSE "spill"
<1> DEFINE v0 == p
           v1 == pager[c].spills + 1
           v2 == IF p \in pager[c].needSync \/ pager[c].eState = "WRITER_CACHEMOD"
                                THEN "sync1" ELSE "spill"
<1>1. pager'[c] = [pager[c] EXCEPT !.pg = v0, !.spills = v1, !.pc = v2] /\ Rest(c)
  BY PagerFields DEF Spill, Rest
<1>2. FieldsOK(pager[c]) /\ IsRecord(pager[c])
  BY PagerFields
<1>t0. v0 \in 0..NPage /\ v0 \in Page
  BY Numbers
<1>t1. v1 \in Nat
  BY <1>2 DEF FieldsOK
<1>t2. v2 \in PCs
  BY DEF PCs
<1> HIDE DEF v0, v1, v2
<1>3. Kept(pager[c], pager'[c], {"pg", "spills", "pc"}) /\ pager'[c].pg = v0
        /\ pager'[c].spills = v1 /\ pager'[c].pc = v2
  <2>1. IsRecord(pager'[c]) /\ \A f \in Fields \ {"pg", "spills", "pc"}
          : pager'[c][f] = pager[c][f]
    BY <1>1, <1>2 DEF IsRecord
  <2>2. pager'[c].pg = v0 /\ pager'[c].spills = v1 /\ pager'[c].pc = v2
    BY <1>1, <1>2 DEF IsRecord, Fields
  <2> QED
    BY <2>1, <2>2 DEF Kept
<1>4. FieldsOK(pager'[c]) /\ IsRecord(pager'[c])
  BY <1>2, <1>3, <1>t0, <1>t1, <1>t2 DEF FieldsOK, Kept, Fields
<1>5. DbTypes' /\ jrnl' \in JournalSet
  BY DiskKept DEF Spill
<1>6. lock' \in [Conn -> 0..4] /\ txid' \in Nat /\ faults' \in Nat
  BY DEF Spill, Types, Fault
<1>7. Types'
  BY <1>1, <1>4, <1>5, <1>6, ConnTypes DEF PagerOK
<1> QED
  BY <1>1, <1>3, <1>7 DEF v0, v1, v2

LEMMA SyncBusyStep ==
  ASSUME Types, NEW c \in Conn, SyncBusy(c)
  PROVE  /\ Types' /\ Rest(c) /\ Kept(pager[c], pager'[c], {"pc", "pg"})
         /\ pager'[c].pc = "idle"
         /\ pager'[c].pg = 0
<1> DEFINE v0 == "idle"
           v1 == 0
<1>1. pager'[c] = [pager[c] EXCEPT !.pc = v0, !.pg = v1] /\ Rest(c)
  BY PagerFields DEF SyncBusy, Rest
<1>2. FieldsOK(pager[c]) /\ IsRecord(pager[c])
  BY PagerFields
<1>t0. v0 \in PCs /\ v0 = "idle"
  BY DEF PCs
<1>t1. v1 \in 0..NPage
  BY Numbers
<1> HIDE DEF v0, v1
<1>3. Kept(pager[c], pager'[c], {"pc", "pg"}) /\ pager'[c].pc = v0 /\ pager'[c].pg = v1
  <2>1. IsRecord(pager'[c]) /\ \A f \in Fields \ {"pc", "pg"} : pager'[c][f] = pager[c][f]
    BY <1>1, <1>2 DEF IsRecord
  <2>2. pager'[c].pc = v0 /\ pager'[c].pg = v1
    BY <1>1, <1>2 DEF IsRecord, Fields
  <2> QED
    BY <2>1, <2>2 DEF Kept
<1>4. FieldsOK(pager'[c]) /\ IsRecord(pager'[c])
  BY <1>2, <1>3, <1>t0, <1>t1 DEF FieldsOK, Kept, Fields
<1>5. DbTypes' /\ jrnl' \in JournalSet
  BY DiskKept DEF SyncBusy
<1>6. lock' \in [Conn -> 0..4] /\ txid' \in Nat /\ faults' \in Nat
  BY ExclusiveBusyLock DEF SyncBusy, Types, Fault
<1>7. Types'
  BY <1>1, <1>4, <1>5, <1>6, ConnTypes DEF PagerOK
<1> QED
  BY <1>1, <1>3, <1>7 DEF v0, v1

LEMMA SpillWriteStep ==
  ASSUME Types, NEW c \in Conn, SpillWrite(c)
  PROVE  /\ Types' /\ Rest(c) /\ Kept(pager[c], pager'[c], {"pc", "pg", "cache", "dirty"})
         /\ pager'[c].pc = "idle"
         /\ pager'[c].pg = 0
         /\ pager'[c].cache = [pager[c].cache EXCEPT ![pager[c].pg] = NotCached]
         /\ pager'[c].dirty = pager[c].dirty \ {pager[c].pg}
<1> DEFINE v0 == "idle"
           v1 == 0
           v2 == [pager[c].cache EXCEPT ![pager[c].pg] = NotCached]
           v3 == pager[c].dirty \ {pager[c].pg}
<1>1. pager'[c] = [pager[c] EXCEPT !.pc = v0, !.pg = v1, !.cache = v2, !.dirty = v3] /\ Rest(c)
  BY ZenonT(60), PagerFields DEF SpillWrite, Rest
<1>2. FieldsOK(pager[c]) /\ IsRecord(pager[c])
  BY PagerFields
<1>t0. v0 \in PCs /\ v0 = "idle"
  BY DEF PCs
<1>t1. v1 \in 0..NPage
  BY Numbers
<1>t2. v2 \in [Page -> Int]
  BY <1>2, Numbers DEF FieldsOK
<1>t3. v3 \in SUBSET Page
  BY <1>2 DEF FieldsOK
<1>t4. pager[c].pg \in Page /\ pager[c].cache[pager[c].pg] \in Int
  BY <1>2 DEF FieldsOK, SpillWrite, At
<1> HIDE DEF v0, v1, v2, v3
<1>3. Kept(pager[c], pager'[c], {"pc", "pg", "cache", "dirty"}) /\ pager'[c].pc = v0
        /\ pager'[c].pg = v1 /\ pager'[c].cache = v2 /\ pager'[c].dirty = v3
  <2>1. IsRecord(pager'[c]) /\ \A f \in Fields \ {"pc", "pg", "cache", "dirty"}
          : pager'[c][f] = pager[c][f]
    BY <1>1, <1>2 DEF IsRecord
  <2>2. pager'[c].pc = v0 /\ pager'[c].pg = v1 /\ pager'[c].cache = v2 /\ pager'[c].dirty = v3
    BY <1>1, <1>2 DEF IsRecord, Fields
  <2> QED
    BY <2>1, <2>2 DEF Kept
<1>4. FieldsOK(pager'[c]) /\ IsRecord(pager'[c])
  BY <1>2, <1>3, <1>t0, <1>t1, <1>t2, <1>t3, <1>t4 DEF FieldsOK, Kept, Fields
<1>5. DbTypes' /\ jrnl' \in JournalSet
  <2>1. DbTypes'
    BY <1>t4, DbWriteTypes DEF SpillWrite, Types
  <2>2. jrnl' \in JournalSet
    BY DEF Types, SpillWrite
  <2> QED
    BY <2>1, <2>2
<1>6. lock' \in [Conn -> 0..4] /\ txid' \in Nat /\ faults' \in Nat
  BY DEF SpillWrite, Types, Fault
<1>7. Types'
  BY <1>1, <1>4, <1>5, <1>6, ConnTypes DEF PagerOK
<1> QED
  BY <1>1, <1>3, <1>7 DEF v0, v1, v2, v3

LEMMA CountDirectStep ==
  ASSUME Types, NEW c \in Conn, CountDirect(c)
  PROVE  /\ Types' /\ Rest(c) /\ Kept(pager[c], pager'[c], {"pc", "dbFileVers", "cache"})
         /\ pager'[c].pc = "sync2"
         /\ pager'[c].dbFileVers = pager[c].dbFileVers + 1
         /\ pager'[c].cache = [pager[c].cache EXCEPT ![1] = pager[c].dbFileVers + 1]
<1> DEFINE v0 == "sync2"
           v1 == pager[c].dbFileVers + 1
           v2 == [pager[c].cache EXCEPT ![1] = pager[c].dbFileVers + 1]
<1>1. pager'[c] = [pager[c] EXCEPT !.pc = v0, !.dbFileVers = v1, !.cache = v2] /\ Rest(c)
  BY PagerFields DEF CountDirect, Rest
<1>2. FieldsOK(pager[c]) /\ IsRecord(pager[c])
  BY PagerFields
<1>t0. v0 \in PCs /\ v0 = "sync2"
  BY DEF PCs, SyncPCs
<1>t1. v1 \in Int
  BY <1>2 DEF FieldsOK
<1>t2. v2 \in [Page -> Int]
  BY <1>2, <1>t1 DEF FieldsOK
<1>t3. pager[c].dbFileVers + 1 \in Int
  BY <1>t1
<1> HIDE DEF v0, v1, v2
<1>3. Kept(pager[c], pager'[c], {"pc", "dbFileVers", "cache"}) /\ pager'[c].pc = v0
        /\ pager'[c].dbFileVers = v1 /\ pager'[c].cache = v2
  <2>1. IsRecord(pager'[c]) /\ \A f \in Fields \ {"pc", "dbFileVers", "cache"}
          : pager'[c][f] = pager[c][f]
    BY <1>1, <1>2 DEF IsRecord
  <2>2. pager'[c].pc = v0 /\ pager'[c].dbFileVers = v1 /\ pager'[c].cache = v2
    BY <1>1, <1>2 DEF IsRecord, Fields
  <2> QED
    BY <2>1, <2>2 DEF Kept
<1>4. FieldsOK(pager'[c]) /\ IsRecord(pager'[c])
  BY <1>2, <1>3, <1>t0, <1>t1, <1>t2, <1>t3 DEF FieldsOK, Kept, Fields
<1>5. DbTypes' /\ jrnl' \in JournalSet
  <2>1. DbTypes'
    BY <1>t3, Numbers, DbWriteTypes DEF CountDirect, Types
  <2>2. jrnl' \in JournalSet
    BY DEF Types, CountDirect
  <2> QED
    BY <2>1, <2>2
<1>6. lock' \in [Conn -> 0..4] /\ txid' \in Nat /\ faults' \in Nat
  BY DEF CountDirect, Types, Fault
<1>7. Types'
  BY <1>1, <1>4, <1>5, <1>6, ConnTypes DEF PagerOK
<1> QED
  BY <1>1, <1>3, <1>7 DEF v0, v1, v2

LEMMA WritePagesStep ==
  ASSUME Types, NEW c \in Conn, WritePages(c)
  PROVE  /\ Types' /\ Rest(c) /\ Kept(pager[c], pager'[c], {"dirty", "cache", "dbFileVers"})
         /\ pager'[c].dirty = pager[c].dirty \ {First(pager[c].dirty)}
         /\ pager'[c].cache = [pager[c].cache EXCEPT ![First(pager[c].dirty)] =
                                PageImage(pager[c], First(pager[c].dirty))]
         /\ pager'[c].dbFileVers = IF First(pager[c].dirty) = 1 THEN PageImage(pager[c], 1)
                                  ELSE pager[c].dbFileVers
<1> DEFINE v0 == pager[c].dirty \ {First(pager[c].dirty)}
           v1 == [pager[c].cache EXCEPT ![First(pager[c].dirty)] =
                                PageImage(pager[c], First(pager[c].dirty))]
           v2 == IF First(pager[c].dirty) = 1 THEN PageImage(pager[c], 1)
                                  ELSE pager[c].dbFileVers
<1>1. pager'[c] = [pager[c] EXCEPT !.dirty = v0, !.cache = v1, !.dbFileVers = v2] /\ Rest(c)
  BY PagerFields DEF WritePages, Rest
<1>2. FieldsOK(pager[c]) /\ IsRecord(pager[c])
  BY PagerFields
<1>t0. v0 \in SUBSET Page
  BY <1>2 DEF FieldsOK
<1>t1. First(pager[c].dirty) \in Page
  BY <1>2, FirstIn DEF FieldsOK, WritePages
<1>t2. /\ PageImage(pager[c], First(pager[c].dirty)) \in Int
       /\ PageImage(pager[c], 1) \in Int
  BY <1>2, <1>t1, Numbers, PageImageType
<1>t3. v1 \in [Page -> Int] /\ v2 \in Int
  BY <1>2, <1>t2 DEF FieldsOK
<1> HIDE DEF v0, v1, v2
<1>3. Kept(pager[c], pager'[c], {"dirty", "cache", "dbFileVers"}) /\ pager'[c].dirty = v0
        /\ pager'[c].cache = v1 /\ pager'[c].dbFileVers = v2
  <2>1. IsRecord(pager'[c]) /\ \A f \in Fields \ {"dirty", "cache", "dbFileVers"}
          : pager'[c][f] = pager[c][f]
    BY <1>1, <1>2 DEF IsRecord
  <2>2. pager'[c].dirty = v0 /\ pager'[c].cache = v1 /\ pager'[c].dbFileVers = v2
    BY <1>1, <1>2 DEF IsRecord, Fields
  <2> QED
    BY <2>1, <2>2 DEF Kept
<1>4. FieldsOK(pager'[c]) /\ IsRecord(pager'[c])
  BY <1>2, <1>3, <1>t0, <1>t1, <1>t2, <1>t3 DEF FieldsOK, Kept, Fields
<1>5. DbTypes' /\ jrnl' \in JournalSet
  <2>1. DbTypes'
    BY <1>t1, <1>t2, DbWriteTypes DEF WritePages, Types
  <2>2. jrnl' \in JournalSet
    BY DEF Types, WritePages
  <2> QED
    BY <2>1, <2>2
<1>6. lock' \in [Conn -> 0..4] /\ txid' \in Nat /\ faults' \in Nat
  BY DEF WritePages, Types, Fault
<1>7. Types'
  BY <1>1, <1>4, <1>5, <1>6, ConnTypes DEF PagerOK
<1> QED
  BY <1>1, <1>3, <1>7 DEF v0, v1, v2

LEMMA SyncDatabaseStep ==
  ASSUME Types, NEW c \in Conn, SyncDatabase(c)
  PROVE  /\ Types' /\ Rest(c) /\ Kept(pager[c], pager'[c], {"pc", "eState"})
         /\ pager'[c].pc = "idle"
         /\ pager'[c].eState = "WRITER_FINISHED"
<1> DEFINE v0 == "idle"
           v1 == "WRITER_FINISHED"
<1>1. pager'[c] = [pager[c] EXCEPT !.pc = v0, !.eState = v1] /\ Rest(c)
  BY PagerFields DEF SyncDatabase, Rest
<1>2. FieldsOK(pager[c]) /\ IsRecord(pager[c])
  BY PagerFields
<1>t0. v0 \in PCs /\ v0 = "idle" /\ v1 \in EState
  BY DEF EState, PCs
<1> HIDE DEF v0, v1
<1>3. Kept(pager[c], pager'[c], {"pc", "eState"}) /\ pager'[c].pc = v0 /\ pager'[c].eState = v1
  <2>1. IsRecord(pager'[c]) /\ \A f \in Fields \ {"pc", "eState"} : pager'[c][f] = pager[c][f]
    BY <1>1, <1>2 DEF IsRecord
  <2>2. pager'[c].pc = v0 /\ pager'[c].eState = v1
    BY <1>1, <1>2 DEF IsRecord, Fields
  <2> QED
    BY <2>1, <2>2 DEF Kept
<1>4. FieldsOK(pager'[c]) /\ IsRecord(pager'[c])
  BY <1>2, <1>3, <1>t0 DEF FieldsOK, Kept, Fields
<1>5. DbTypes' /\ jrnl' \in JournalSet
  <2>1. DbTypes'
    BY DbSyncTypes DEF SyncDatabase, Types
  <2>2. jrnl' \in JournalSet
    BY DEF Types, SyncDatabase
  <2> QED
    BY <2>1, <2>2
<1>6. lock' \in [Conn -> 0..4] /\ txid' \in Nat /\ faults' \in Nat
  BY DEF SyncDatabase, Types, Fault
<1>7. Types'
  BY <1>1, <1>4, <1>5, <1>6, ConnTypes DEF PagerOK
<1> QED
  BY <1>1, <1>3, <1>7 DEF v0, v1

LEMMA RollbackStep ==
  ASSUME Types, NEW c \in Conn, Rollback(c)
  PROVE  /\ Types' /\ Rest(c) /\ Kept(pager[c], pager'[c], {"pg", "left", "pc", "journalOff"})
         /\ pager'[c].pg = 0
         /\ pager'[c].left = 0
         /\ pager'[c].pc = IF pager[c].eState = "WRITER_LOCKED" THEN "final" ELSE "playback"
         /\ pager'[c].journalOff = IF pager[c].eState = "WRITER_LOCKED" THEN pager[c].journalOff
            ELSE 0
<1> DEFINE v0 == 0
           v1 == 0
           v2 == IF pager[c].eState = "WRITER_LOCKED" THEN "final" ELSE "playback"
           v3 == IF pager[c].eState = "WRITER_LOCKED" THEN pager[c].journalOff ELSE 0
<1>1. pager'[c] = [pager[c] EXCEPT !.pg = v0, !.left = v1, !.pc = v2, !.journalOff = v3]
        /\ Rest(c)
  BY PagerFields DEF Rollback, Rest
<1>2. FieldsOK(pager[c]) /\ IsRecord(pager[c])
  BY PagerFields
<1>t0. v0 \in 0..NPage /\ v1 \in Int
  BY Numbers
<1>t1. v2 \in PCs /\ v2 \in {"final", "playback"}
  BY DEF PCs, UndoPCs
<1>t2. v3 \in Nat
  BY <1>2 DEF FieldsOK
<1> HIDE DEF v0, v1, v2, v3
<1>3. Kept(pager[c], pager'[c], {"pg", "left", "pc", "journalOff"}) /\ pager'[c].pg = v0
        /\ pager'[c].left = v1 /\ pager'[c].pc = v2 /\ pager'[c].journalOff = v3
  <2>1. IsRecord(pager'[c]) /\ \A f \in Fields \ {"pg", "left", "pc", "journalOff"}
          : pager'[c][f] = pager[c][f]
    BY <1>1, <1>2 DEF IsRecord
  <2>2. pager'[c].pg = v0 /\ pager'[c].left = v1 /\ pager'[c].pc = v2 /\ pager'[c].journalOff = v3
    BY <1>1, <1>2 DEF IsRecord, Fields
  <2> QED
    BY <2>1, <2>2 DEF Kept
<1>4. FieldsOK(pager'[c]) /\ IsRecord(pager'[c])
  BY <1>2, <1>3, <1>t0, <1>t1, <1>t2 DEF FieldsOK, Kept, Fields
<1>5. DbTypes' /\ jrnl' \in JournalSet
  BY DiskKept DEF Rollback
<1>6. lock' \in [Conn -> 0..4] /\ txid' \in Nat /\ faults' \in Nat
  BY DEF Rollback, Types, Fault
<1>7. Types'
  BY <1>1, <1>4, <1>5, <1>6, ConnTypes DEF PagerOK
<1> QED
  BY <1>1, <1>3, <1>7 DEF v0, v1, v2, v3

LEMMA PlaybackBadRecordStep ==
  ASSUME Types, NEW c \in Conn, PlaybackBadRecord(c)
  PROVE  /\ Types' /\ Rest(c) /\ Kept(pager[c], pager'[c], {"pc", "left", "cache"})
         /\ pager'[c].pc = "restored"
         /\ pager'[c].left = 0
         /\ pager'[c].cache = IF pager[c].eState = "OPEN" THEN NoCache ELSE pager[c].cache
<1> DEFINE v0 == "restored"
           v1 == 0
           v2 == IF pager[c].eState = "OPEN" THEN NoCache ELSE pager[c].cache
<1>1. pager'[c] = [pager[c] EXCEPT !.pc = v0, !.left = v1, !.cache = v2] /\ Rest(c)
  BY PagerFields DEF PlaybackBadRecord, Rest
<1>2. FieldsOK(pager[c]) /\ IsRecord(pager[c])
  BY PagerFields
<1>t0. v0 \in PCs /\ v0 = "restored" /\ v1 \in Int
  BY DEF PCs, UndoPCs
<1>t1. v2 \in [Page -> Int]
  BY <1>2, Numbers DEF FieldsOK
<1> HIDE DEF v0, v1, v2
<1>3. Kept(pager[c], pager'[c], {"pc", "left", "cache"}) /\ pager'[c].pc = v0
        /\ pager'[c].left = v1 /\ pager'[c].cache = v2
  <2>1. IsRecord(pager'[c]) /\ \A f \in Fields \ {"pc", "left", "cache"}
          : pager'[c][f] = pager[c][f]
    BY <1>1, <1>2 DEF IsRecord
  <2>2. pager'[c].pc = v0 /\ pager'[c].left = v1 /\ pager'[c].cache = v2
    BY <1>1, <1>2 DEF IsRecord, Fields
  <2> QED
    BY <2>1, <2>2 DEF Kept
<1>4. FieldsOK(pager'[c]) /\ IsRecord(pager'[c])
  BY <1>2, <1>3, <1>t0, <1>t1 DEF FieldsOK, Kept, Fields
<1>5. DbTypes' /\ jrnl' \in JournalSet
  BY DiskKept DEF PlaybackBadRecord
<1>6. lock' \in [Conn -> 0..4] /\ txid' \in Nat /\ faults' \in Nat
  BY DEF PlaybackBadRecord, Types, Fault
<1>7. Types'
  BY <1>1, <1>4, <1>5, <1>6, ConnTypes DEF PagerOK
<1> QED
  BY <1>1, <1>3, <1>7 DEF v0, v1, v2

LEMMA PlaybackDoneStep ==
  ASSUME Types, NEW c \in Conn, PlaybackDone(c)
  PROVE  /\ Types' /\ Rest(c) /\ Kept(pager[c], pager'[c], {"pc"})
         /\ pager'[c].pc = "final"
<1> DEFINE v0 == "final"
<1>1. pager'[c] = [pager[c] EXCEPT !.pc = v0] /\ Rest(c)
  BY PagerFields DEF PlaybackDone, Rest
<1>2. FieldsOK(pager[c]) /\ IsRecord(pager[c])
  BY PagerFields
<1>t0. v0 \in PCs /\ v0 = "final"
  BY DEF PCs, UndoPCs
<1> HIDE DEF v0
<1>3. Kept(pager[c], pager'[c], {"pc"}) /\ pager'[c].pc = v0
  <2>1. IsRecord(pager'[c]) /\ \A f \in Fields \ {"pc"} : pager'[c][f] = pager[c][f]
    BY <1>1, <1>2 DEF IsRecord
  <2>2. pager'[c].pc = v0
    BY <1>1, <1>2 DEF IsRecord, Fields
  <2> QED
    BY <2>1, <2>2 DEF Kept
<1>4. FieldsOK(pager'[c]) /\ IsRecord(pager'[c])
  BY <1>2, <1>3, <1>t0 DEF FieldsOK, Kept, Fields
<1>5. DbTypes' /\ jrnl' \in JournalSet
  <2>1. DbTypes'
    BY DbSyncTypes DEF PlaybackDone, Types, DbTypes
  <2>2. jrnl' \in JournalSet
    BY DEF Types, PlaybackDone
  <2> QED
    BY <2>1, <2>2
<1>6. lock' \in [Conn -> 0..4] /\ txid' \in Nat /\ faults' \in Nat
  BY DEF PlaybackDone, Types, Fault
<1>7. Types'
  BY <1>1, <1>4, <1>5, <1>6, ConnTypes DEF PagerOK
<1> QED
  BY <1>1, <1>3, <1>7 DEF v0

-----------------------------------------------------------------------------
\* Writing the journal.

LEMMA WrittenFile ==
  ASSUME NEW j \in JournalSet, NEW P, PagerOK(P), NEW i \in Nat \ {0}, NEW x \in SlotSet,
         NEW torn \in SUBSET SlotSet
  PROVE  /\ WriteSlot(IF P.jfd = "mem" THEN createFile(j, P.mem) ELSE j, i, x,
            torn) \in JournalSet
         /\ WriteSlot(IF P.jfd = "mem" THEN createFile(j, P.mem) ELSE j, i, x, torn).exists
<1>1. P.mem \in Seq(SlotSet)
  BY DEF PagerOK, FieldsOK
<1>2. createFile(j, P.mem) \in JournalSet
  BY <1>1, CreateFileType
<1> DEFINE k == IF P.jfd = "mem" THEN createFile(j, P.mem) ELSE j
<1>3. k \in JournalSet
  BY <1>2
<1> HIDE DEF k
<1>4. WriteSlot(k, i, x, torn) \in JournalSet /\ WriteSlot(k, i, x, torn).exists
  BY <1>3, WriteSlotType
<1> QED
  BY <1>4 DEF k

LEMMA MemFields ==
  ASSUME NEW P, PagerOK(P), NEW Q, Kept(P, Q, {"jfd", "mem"}), Q.jfd \in Jfds,
         Q.mem \in Seq(SlotSet)
  PROVE  PagerOK(Q)
<1>1. IsRecord(P) /\ FieldsOK(P)
  BY DEF PagerOK
<1>2. FieldsOK(Q) /\ IsRecord(Q)
  BY <1>1 DEF FieldsOK, Kept, Fields
<1> QED
  BY <1>2 DEF PagerOK

LEMMA JournalWriteStep ==
  ASSUME Types, NEW c \in Conn, NEW j \in JournalSet, NEW P, PagerOK(P),
         NEW i \in Nat \ {0}, NEW x \in SlotSet, NEW torn \in SUBSET SlotSet,
         JournalWrite(c, j, P, i, x, torn)
  PROVE  /\ Rest(c) /\ PagerOK(pager'[c]) /\ jrnl' \in JournalSet
         /\ Kept(P, pager'[c], {"jfd", "mem"})
         /\ Wrote(c, P.jfd, P.mem, j, i, x, torn)
<1>0. P.mem \in Seq(SlotSet) /\ P.jfd \in Jfds /\ IsRecord(P)
  BY DEF PagerOK, FieldsOK
<1>1. CASE P.jfd = "gone" \/ (P.jfd = "mem" /\ i <= 2)
  <2> DEFINE mem == Put(P.mem, i, x)
             Q == [P EXCEPT !.jfd = P.jfd, !.mem = mem]
  <2>1. mem \in Seq(SlotSet)
    BY <1>0, PutType
  <2>2. pager' = [pager EXCEPT ![c] = [P EXCEPT !.mem = mem]] /\ jrnl' = j
    BY <1>1 DEF JournalWrite
  <2> HIDE DEF mem
  <2>3. [P EXCEPT !.mem = mem] = Q
    BY <1>0 DEF IsRecord, Fields
  <2>4. PagerOK(Q) /\ Kept(P, Q, {"jfd", "mem"}) /\ Q.jfd = P.jfd /\ Q.mem = mem
    <3>1. Kept(P, Q, {"jfd", "mem"}) /\ Q.jfd = P.jfd /\ Q.mem = mem
      BY <1>0 DEF IsRecord, Fields, Kept
    <3> HIDE DEF Q
    <3> QED
      BY <1>0, <2>1, <3>1, MemFields
  <2>5. pager' = [pager EXCEPT ![c] = Q]
    BY <2>2, <2>3
  <2> HIDE DEF Q
  <2>6. Rest(c) /\ pager'[c] = Q
    BY <2>5, AssignedRest
  <2> QED
    BY <1>1, <2>2, <2>4, <2>6 DEF mem, Wrote
<1>2. CASE ~(P.jfd = "gone" \/ (P.jfd = "mem" /\ i <= 2))
  <2> DEFINE Q == [P EXCEPT !.jfd = "real", !.mem = <<>>]
  <2>1. /\ pager' = [pager EXCEPT ![c] = Q]
        /\ jrnl' = WriteSlot(IF P.jfd = "mem" THEN createFile(j, P.mem) ELSE j, i, x, torn)
    BY <1>2 DEF JournalWrite
  <2>2. PagerOK(Q) /\ Kept(P, Q, {"jfd", "mem"}) /\ Q.jfd = "real" /\ Q.mem = <<>>
    <3>1. "real" \in Jfds /\ <<>> \in Seq(SlotSet)
      BY DEF Jfds
    <3>2. Kept(P, Q, {"jfd", "mem"}) /\ Q.jfd = "real" /\ Q.mem = <<>>
      BY <1>0 DEF IsRecord, Fields, Kept
    <3> HIDE DEF Q
    <3> QED
      BY <3>1, <3>2, MemFields
  <2> HIDE DEF Q
  <2>3. Rest(c) /\ pager'[c] = Q
    BY <2>1, AssignedRest
  <2>4. jrnl' \in JournalSet /\ jrnl'.exists
    BY <2>1, WrittenFile
  <2> QED
    BY <1>2, <2>1, <2>2, <2>3, <2>4 DEF Wrote
<1> QED
  BY <1>1, <1>2

LEMMA JournalWriteFailsStep ==
  ASSUME Types, NEW c \in Conn, NEW j \in JournalSet, NEW P, PagerOK(P),
         NEW i \in Nat \ {0}, JournalWriteFails(c, j, P, i)
  PROVE  /\ Rest(c) /\ PagerOK(pager'[c]) /\ jrnl' \in JournalSet
         /\ Kept(P, pager'[c], {"jfd", "mem"})
         /\ Cut(c, P.jfd, P.mem, j, i)
<1>0. P.mem \in Seq(SlotSet) /\ P.jfd \in Jfds /\ IsRecord(P) /\ Junk \in SlotSet
  BY JunkType DEF PagerOK, FieldsOK
<1>1. CASE /\ P.jfd = "gone"
           /\ pager' = [pager EXCEPT ![c] = [P EXCEPT !.mem = Put(@, i, Junk)]] /\ jrnl' = jrnl
  <2> DEFINE mem == Put(P.mem, i, Junk)
             Q == [P EXCEPT !.jfd = P.jfd, !.mem = mem]
  <2>1. mem \in Seq(SlotSet)
    BY <1>0, PutType
  <2>2. pager' = [pager EXCEPT ![c] = [P EXCEPT !.mem = mem]]
    BY <1>1, <1>0 DEF IsRecord, Fields
  <2> HIDE DEF mem
  <2>3. [P EXCEPT !.mem = mem] = Q
    BY <1>0 DEF IsRecord, Fields
  <2>4. PagerOK(Q) /\ Kept(P, Q, {"jfd", "mem"}) /\ Q.jfd = P.jfd
    <3>1. Kept(P, Q, {"jfd", "mem"}) /\ Q.jfd = P.jfd /\ Q.mem = mem
      BY <1>0 DEF IsRecord, Fields, Kept
    <3> HIDE DEF Q
    <3> QED
      BY <1>0, <2>1, <3>1, MemFields
  <2>5. pager' = [pager EXCEPT ![c] = Q]
    BY <2>2, <2>3
  <2> HIDE DEF Q
  <2>6. Rest(c) /\ pager'[c] = Q
    BY <2>5, AssignedRest
  <2> QED
    BY <1>1, <2>4, <2>6 DEF Types, Cut
<1>2. CASE /\ P.jfd # "gone"
           /\ pager' = [pager EXCEPT ![c] = [P EXCEPT !.jfd = "real", !.mem = <<>>]]
           /\ jrnl' = WriteSlot(IF P.jfd = "mem" THEN createFile(j, P.mem) ELSE j, i, Junk, {})
  <2> DEFINE Q == [P EXCEPT !.jfd = "real", !.mem = <<>>]
  <2>2. PagerOK(Q) /\ Kept(P, Q, {"jfd", "mem"}) /\ Q.jfd = "real" /\ Q.mem = <<>>
    <3>1. "real" \in Jfds /\ <<>> \in Seq(SlotSet)
      BY DEF Jfds
    <3>2. Kept(P, Q, {"jfd", "mem"}) /\ Q.jfd = "real" /\ Q.mem = <<>>
      BY <1>0 DEF IsRecord, Fields, Kept
    <3> HIDE DEF Q
    <3> QED
      BY <3>1, <3>2, MemFields
  <2> HIDE DEF Q
  <2>3. Rest(c) /\ pager'[c] = Q
    BY <1>2, AssignedRest DEF Q
  <2>4. jrnl' \in JournalSet /\ jrnl'.exists
    BY <1>0, <1>2, WrittenFile
  <2> QED
    BY <1>2, <2>2, <2>3, <2>4 DEF Cut
<1>3. CASE /\ P.jfd = "mem" /\ pager' = [pager EXCEPT ![c] = P]
           /\ jrnl' = WriteSlot(j, 1, Junk, {})
  <2>1. Rest(c) /\ pager'[c] = P
    BY <1>3, AssignedRest
  <2>2. jrnl' \in JournalSet /\ jrnl'.exists
    BY <1>0, <1>3, WriteSlotType
  <2>3. Kept(P, P, {"jfd", "mem"})
    BY <1>0 DEF Kept
  <2> QED
    BY <1>3, <2>1, <2>2, <2>3 DEF Cut
<1> QED
  BY <1>1, <1>2, <1>3 DEF JournalWriteFails

LEMMA OpenJournalStep ==
  ASSUME Types, NEW c \in Conn, OpenJournal(c)
  PROVE  /\ Types' /\ Rest(c) /\ Kept(pager[c], pager'[c], {"pc", "eState", "nRec", "journalHdr",
            "ownHdr", "journalOff", "jfd", "mem"})
         /\ pager'[c].pc = "write"
         /\ pager'[c].eState = "WRITER_CACHEMOD"
         /\ pager'[c].nRec = 0
         /\ pager'[c].journalHdr = 0
         /\ pager'[c].ownHdr = 0
         /\ pager'[c].journalOff = 1
         /\ Wrote(c, (IF pager[c].jfd # "closed" THEN pager[c].jfd ELSE IF AtomicWrite THEN "mem"
            ELSE "real"), pager[c].mem, jrnl, 1,
                  Header(FALSE, 0, pager[c].dbOrigSize, pager[c].id), {Junk})
<1> DEFINE v0 == "write"
           v1 == "WRITER_CACHEMOD"
           v2 == 0
           v3 == 0
           v4 == 0
           v5 == 1
           v6 == (IF pager[c].jfd # "closed" THEN pager[c].jfd ELSE IF AtomicWrite THEN "mem"
                ELSE "real")
           Q == [pager[c] EXCEPT !.pc = v0, !.eState = v1, !.nRec = v2, !.journalHdr = v3,
                !.ownHdr = v4, !.journalOff = v5, !.jfd = v6]
           i == 1
           j == jrnl
           x == Header(FALSE, 0, pager[c].dbOrigSize, pager[c].id)
           R == [pager[c] EXCEPT !.jfd = v6, !.pc = "write", !.eState = "WRITER_CACHEMOD",
                !.nRec = 0, !.journalHdr = 0, !.ownHdr = 0, !.journalOff = 1]
<1>2. FieldsOK(pager[c]) /\ IsRecord(pager[c])
  BY PagerFields
<1>1. JournalWrite(c, j, R, i, x, {Junk})
  BY DEF OpenJournal
<1>1a. R = Q
  BY <1>2 DEF IsRecord, Fields
<1>t0. v0 \in PCs /\ v1 \in EState /\ v2 \in Nat /\ v3 \in Nat /\ v4 \in Int /\ v5 \in Nat
  BY DEF PCs, EState
<1>t1. v6 \in Jfds
  BY <1>2 DEF FieldsOK, Jfds
<1>t2. pager[c].pg \in Page
  BY <1>2 DEF FieldsOK, OpenJournal, At
<1>3. i \in Nat \ {0}
  BY 1 > 0
<1>4. j \in JournalSet
  BY DEF Types
<1>5. x \in SlotSet
  BY <1>2, HeaderType DEF FieldsOK
<1>6. {Junk} \in SUBSET SlotSet
  BY JunkType
<1> HIDE DEF v0, v1, v2, v3, v4, v5, v6
<1>7. Kept(pager[c], Q, {"pc", "eState", "nRec", "journalHdr", "ownHdr", "journalOff", "jfd"})
        /\ Q.pc = v0 /\ Q.eState = v1 /\ Q.nRec = v2 /\ Q.journalHdr = v3 /\ Q.ownHdr = v4
           /\ Q.journalOff = v5 /\ Q.jfd = v6
  <2>1. IsRecord(Q) /\ \A f \in Fields \ {"pc", "eState", "nRec", "journalHdr", "ownHdr",
          "journalOff", "jfd"} : Q[f] = pager[c][f]
    BY <1>2 DEF IsRecord
  <2>2. Q.pc = v0 /\ Q.eState = v1 /\ Q.nRec = v2 /\ Q.journalHdr = v3 /\ Q.ownHdr = v4
          /\ Q.journalOff = v5 /\ Q.jfd = v6
    BY <1>2 DEF IsRecord, Fields
  <2> QED
    BY <2>1, <2>2 DEF Kept
<1> HIDE DEF Q, R, i, j, x
<1>8. FieldsOK(Q) /\ IsRecord(Q)
  BY <1>2, <1>7, <1>t0, <1>t1, <1>t2 DEF FieldsOK, Kept, Fields
<1>9. /\ Rest(c) /\ PagerOK(pager'[c]) /\ jrnl' \in JournalSet
      /\ Kept(Q, pager'[c], {"jfd", "mem"}) /\ Wrote(c, Q.jfd, Q.mem, j, i, x, {Junk})
  BY <1>1, <1>1a, <1>3, <1>4, <1>5, <1>6, <1>8, JournalWriteStep DEF PagerOK
<1>10. DbTypes' /\ lock' \in [Conn -> 0..4] /\ txid' \in Nat /\ faults' \in Nat
  BY DEF OpenJournal, Types, DbTypes, Fault
<1>11. Types'
  BY <1>9, <1>10, ConnTypes
<1>12. /\ Kept(pager[c], pager'[c], {"pc", "eState", "nRec", "journalHdr", "ownHdr", "journalOff",
          "jfd", "mem"})
       /\ pager'[c].pc = v0 /\ pager'[c].eState = v1 /\ pager'[c].nRec = v2
          /\ pager'[c].journalHdr = v3 /\ pager'[c].ownHdr = v4 /\ pager'[c].journalOff = v5
  BY <1>7, <1>9 DEF Kept, Fields
<1>13. Q.jfd = (IF pager[c].jfd # "closed" THEN pager[c].jfd ELSE IF AtomicWrite THEN "mem"
         ELSE "real") /\ Q.mem = pager[c].mem
  BY <1>7 DEF Kept, Fields, v6
<1> QED
  BY <1>9, <1>11, <1>12, <1>13 DEF i, j, x, v0, v1, v2, v3, v4, v5

LEMMA pager_writeStep ==
  ASSUME Types, NEW c \in Conn, pager_write(c), NeedsRecord(pager[c], pager[c].pg)
  PROVE  /\ Types' /\ Rest(c) /\ Kept(pager[c], pager'[c], {"pc", "pg", "dirty", "cache",
            "dbSize", "journalOff", "nRec", "inJournal", "needSync", "jfd", "mem"})
         /\ pager'[c].pc = "idle"
         /\ pager'[c].pg = 0
         /\ pager'[c].dirty = pager[c].dirty \cup {pager[c].pg}
         /\ pager'[c].cache = [pager[c].cache EXCEPT ![pager[c].pg] = IF pager[c].pg = 1 THEN @
            ELSE pager[c].id]
         /\ pager'[c].dbSize = IF pager[c].pg > pager[c].dbSize THEN pager[c].pg
            ELSE pager[c].dbSize
         /\ pager'[c].journalOff = pager[c].journalOff + 1
         /\ pager'[c].nRec = pager[c].nRec + 1
         /\ pager'[c].inJournal = pager[c].inJournal \cup {pager[c].pg}
         /\ pager'[c].needSync = pager[c].needSync \cup {pager[c].pg}
         /\ Wrote(c, pager[c].jfd, pager[c].mem, jrnl, pager[c].journalOff + 1,
                  Record(pager[c].pg, pager[c].cache[pager[c].pg], pager[c].id), {Junk})
<1> DEFINE v0 == "idle"
           v1 == 0
           v2 == pager[c].dirty \cup {pager[c].pg}
           v3 == [pager[c].cache EXCEPT ![pager[c].pg] = IF pager[c].pg = 1 THEN @
                ELSE pager[c].id]
           v4 == IF pager[c].pg > pager[c].dbSize THEN pager[c].pg ELSE pager[c].dbSize
           v5 == pager[c].journalOff + 1
           v6 == pager[c].nRec + 1
           v7 == pager[c].inJournal \cup {pager[c].pg}
           v8 == pager[c].needSync \cup {pager[c].pg}
           Q == [pager[c] EXCEPT !.pc = v0, !.pg = v1, !.dirty = v2, !.cache = v3, !.dbSize = v4,
                !.journalOff = v5, !.nRec = v6, !.inJournal = v7, !.needSync = v8]
           i == pager[c].journalOff + 1
           j == jrnl
           x == Record(pager[c].pg, pager[c].cache[pager[c].pg], pager[c].id)
           R == Journalled([pager[c] EXCEPT !.pc = "idle", !.pg = 0,
                !.dirty = @ \cup {pager[c].pg}, !.cache[pager[c].pg] = IF pager[c].pg = 1 THEN @
                    ELSE pager[c].id, !.dbSize = IF pager[c].pg > @ THEN pager[c].pg ELSE @],
                        pager[c].pg)
<1>2. FieldsOK(pager[c]) /\ IsRecord(pager[c])
  BY PagerFields
<1>1. JournalWrite(c, j, R, i, x, {Junk})
  BY DEF pager_write
<1>1a. R = Q
  BY <1>2 DEF IsRecord, Fields, Journalled
<1>t0. /\ pager[c].pg \in Page /\ pager[c].pg \in Nat
       /\ pager[c].cache[pager[c].pg] \in Int
  <2>1. pager[c].pc = "write"
    BY DEF pager_write, At
  <2>2. pager[c].pg \in Page /\ pager[c].cache \in [Page -> Int]
    BY <1>2, <2>1 DEF FieldsOK
  <2> QED
    BY <2>2, Numbers
<1>t1. v0 \in PCs /\ v0 = "idle" /\ v1 \in 0..NPage
  BY Numbers DEF PCs
<1>t2. v2 \in SUBSET Page
  BY <1>2, <1>t0 DEF FieldsOK
<1>t3. v4 \in Int
  BY <1>2, <1>t0 DEF FieldsOK
<1>t4. v3 \in [Page -> Int]
  BY <1>2, <1>t0 DEF FieldsOK
<1>t5. v5 \in Nat /\ v6 \in Nat
  BY SMTT(30), <1>2 DEF FieldsOK
<1>t6. v7 \in SUBSET Page /\ v8 \in SUBSET Page
  BY <1>2, <1>t0 DEF FieldsOK
<1>3. i \in Nat \ {0}
  BY Offsets
<1>4. j \in JournalSet
  BY DEF Types
<1>5. x \in SlotSet
  BY <1>2, <1>t0, RecordType DEF FieldsOK
<1>6. {Junk} \in SUBSET SlotSet
  BY JunkType
<1> HIDE DEF v0, v1, v2, v3, v4, v5, v6, v7, v8
<1>7. Kept(pager[c], Q, {"pc", "pg", "dirty", "cache", "dbSize", "journalOff", "nRec",
        "inJournal", "needSync"}) /\ Q.pc = v0 /\ Q.pg = v1 /\ Q.dirty = v2 /\ Q.cache = v3
            /\ Q.dbSize = v4 /\ Q.journalOff = v5 /\ Q.nRec = v6 /\ Q.inJournal = v7
               /\ Q.needSync = v8
  <2>1. IsRecord(Q) /\ \A f \in Fields \ {"pc", "pg", "dirty", "cache", "dbSize", "journalOff",
          "nRec", "inJournal", "needSync"} : Q[f] = pager[c][f]
    BY <1>2 DEF IsRecord
  <2>2. Q.pc = v0 /\ Q.pg = v1 /\ Q.dirty = v2 /\ Q.cache = v3 /\ Q.dbSize = v4
          /\ Q.journalOff = v5 /\ Q.nRec = v6 /\ Q.inJournal = v7 /\ Q.needSync = v8
    BY <1>2 DEF IsRecord, Fields
  <2> QED
    BY <2>1, <2>2 DEF Kept
<1> HIDE DEF Q, R, i, j, x
<1>8. FieldsOK(Q) /\ IsRecord(Q)
  BY <1>2, <1>7, <1>t0, <1>t1, <1>t2, <1>t3, <1>t4, <1>t5, <1>t6 DEF FieldsOK, Kept, Fields
<1>9. /\ Rest(c) /\ PagerOK(pager'[c]) /\ jrnl' \in JournalSet
      /\ Kept(Q, pager'[c], {"jfd", "mem"}) /\ Wrote(c, Q.jfd, Q.mem, j, i, x, {Junk})
  BY <1>1, <1>1a, <1>3, <1>4, <1>5, <1>6, <1>8, JournalWriteStep DEF PagerOK
<1>10. DbTypes' /\ lock' \in [Conn -> 0..4] /\ txid' \in Nat /\ faults' \in Nat
  BY DEF pager_write, Types, DbTypes, Fault
<1>11. Types'
  BY <1>9, <1>10, ConnTypes
<1>12. /\ Kept(pager[c], pager'[c], {"pc", "pg", "dirty", "cache", "dbSize", "journalOff", "nRec",
          "inJournal", "needSync", "jfd", "mem"})
       /\ pager'[c].pc = v0 /\ pager'[c].pg = v1 /\ pager'[c].dirty = v2 /\ pager'[c].cache = v3
          /\ pager'[c].dbSize = v4 /\ pager'[c].journalOff = v5 /\ pager'[c].nRec = v6
             /\ pager'[c].inJournal = v7 /\ pager'[c].needSync = v8
  BY <1>7, <1>9 DEF Kept, Fields
<1>13. Q.jfd = pager[c].jfd /\ Q.mem = pager[c].mem
  BY <1>7 DEF Kept, Fields
<1> QED
  BY <1>9, <1>11, <1>12, <1>13 DEF i, j, x, v0, v1, v2, v3, v4, v5, v6, v7, v8

LEMMA SyncHeaderStep ==
  ASSUME Types, NEW c \in Conn, SyncHeader(c)
  PROVE  /\ Types' /\ Rest(c) /\ Kept(pager[c], pager'[c], {"pc", "jfd", "mem"})
         /\ pager'[c].pc = "sync4"
         /\ Wrote(c, pager[c].jfd, pager[c].mem, jrnl, pager[c].journalHdr + 1,
                  Header(TRUE, pager[c].nRec, pager[c].dbOrigSize, pager[c].id), {})
<1> DEFINE v0 == "sync4"
           Q == [pager[c] EXCEPT !.pc = v0]
           i == pager[c].journalHdr + 1
           j == jrnl
           x == Header(TRUE, pager[c].nRec, pager[c].dbOrigSize, pager[c].id)
           R == [pager[c] EXCEPT !.pc = "sync4"]
<1>2. FieldsOK(pager[c]) /\ IsRecord(pager[c])
  BY PagerFields
<1>1. JournalWrite(c, j, R, i, x, {})
  BY DEF SyncHeader
<1>1a. R = Q
  BY <1>2 DEF IsRecord, Fields
<1>t0. v0 \in PCs /\ v0 = "sync4"
  BY DEF PCs, SyncPCs
<1>3. i \in Nat \ {0}
  BY Offsets
<1>4. j \in JournalSet
  BY DEF Types
<1>5. x \in SlotSet
  BY <1>2, HeaderType DEF FieldsOK
<1>6. {} \in SUBSET SlotSet
  BY JunkType
<1> HIDE DEF v0
<1>7. Kept(pager[c], Q, {"pc"}) /\ Q.pc = v0
  <2>1. IsRecord(Q) /\ \A f \in Fields \ {"pc"} : Q[f] = pager[c][f]
    BY <1>2 DEF IsRecord
  <2>2. Q.pc = v0
    BY <1>2 DEF IsRecord, Fields
  <2> QED
    BY <2>1, <2>2 DEF Kept
<1> HIDE DEF Q, R, i, j, x
<1>8. FieldsOK(Q) /\ IsRecord(Q)
  BY <1>2, <1>7, <1>t0 DEF FieldsOK, Kept, Fields
<1>9. /\ Rest(c) /\ PagerOK(pager'[c]) /\ jrnl' \in JournalSet
      /\ Kept(Q, pager'[c], {"jfd", "mem"}) /\ Wrote(c, Q.jfd, Q.mem, j, i, x, {})
  BY <1>1, <1>1a, <1>3, <1>4, <1>5, <1>6, <1>8, JournalWriteStep DEF PagerOK
<1>10. DbTypes' /\ lock' \in [Conn -> 0..4] /\ txid' \in Nat /\ faults' \in Nat
  BY DEF SyncHeader, Types, DbTypes, Fault
<1>11. Types'
  BY <1>9, <1>10, ConnTypes
<1>12. /\ Kept(pager[c], pager'[c], {"pc", "jfd", "mem"})
       /\ pager'[c].pc = v0
  BY <1>7, <1>9 DEF Kept, Fields
<1>13. Q.jfd = pager[c].jfd /\ Q.mem = pager[c].mem
  BY <1>7 DEF Kept, Fields
<1> QED
  BY <1>9, <1>11, <1>12, <1>13 DEF i, j, x, v0

LEMMA SyncDoneSpill ==
  ASSUME Types, NEW c \in Conn, SyncDone(c), pager[c].pg # 0
  PROVE  /\ Types' /\ Rest(c) /\ Kept(pager[c], pager'[c], {"journalHdr", "needSync", "ownHdr",
            "eState", "pc", "nRec", "journalOff", "jfd", "mem"})
         /\ pager'[c].journalHdr = pager[c].journalOff
         /\ pager'[c].needSync = {}
         /\ pager'[c].ownHdr = pager[c].journalOff
         /\ pager'[c].eState = "WRITER_DBMOD"
         /\ pager'[c].pc = "spill"
         /\ pager'[c].nRec = 0
         /\ pager'[c].journalOff = pager[c].journalOff + 1
         /\ Wrote(c, pager[c].jfd, pager[c].mem, HeaderSynced(pager[c]), pager[c].journalOff + 1,
                  Header(FALSE, 0, pager[c].dbOrigSize, pager[c].id), {Junk})
<1> DEFINE v0 == pager[c].journalOff
           v1 == {}
           v2 == pager[c].journalOff
           v3 == "WRITER_DBMOD"
           v4 == "spill"
           v5 == 0
           v6 == pager[c].journalOff + 1
           Q == [pager[c] EXCEPT !.journalHdr = v0, !.needSync = v1, !.ownHdr = v2, !.eState = v3,
                !.pc = v4, !.nRec = v5, !.journalOff = v6]
           i == pager[c].journalOff + 1
           j == HeaderSynced(pager[c])
           x == Header(FALSE, 0, pager[c].dbOrigSize, pager[c].id)
           R == [[pager[c] EXCEPT !.journalHdr = pager[c].journalOff, !.needSync = {},
                !.ownHdr = IF pager[c].pg # 0 \/ SectorFull THEN pager[c].journalOff
                    ELSE NoHeader, !.eState = "WRITER_DBMOD", !.pc = IF pager[c].pg = 0
                        THEN "pages" ELSE "spill"] EXCEPT !.nRec = 0, !.journalOff = @ + 1]
<1>2. FieldsOK(pager[c]) /\ IsRecord(pager[c])
  BY PagerFields
<1>1. JournalWrite(c, j, R, i, x, {Junk})
  BY DEF SyncDone
<1>1a. R = Q
  BY <1>2 DEF IsRecord, Fields
<1>t0. v3 \in EState /\ v4 \in PCs /\ v5 \in Nat /\ v1 \in SUBSET Page
  BY DEF EState, PCs
<1>t1. v0 \in Nat /\ v2 \in Int /\ v6 \in Nat
  BY <1>2 DEF FieldsOK
<1>t2. pager[c].pg \in Page
  <2> DEFINE p == pager[c].pg
  <2>1. p \in 0..NPage /\ NPage \in Nat /\ p # 0
    BY <1>2, Numbers DEF FieldsOK
  <2> HIDE DEF p
  <2>2. p \in 1..NPage
    BY <2>1
  <2> QED
    BY <2>2 DEF p, Page
<1>3. i \in Nat \ {0}
  BY Offsets
<1>4. j \in JournalSet
  BY SyncedType DEF Types, HeaderSynced
<1>5. x \in SlotSet
  BY <1>2, HeaderType DEF FieldsOK
<1>6. {Junk} \in SUBSET SlotSet
  BY JunkType
<1> HIDE DEF v0, v1, v2, v3, v4, v5, v6
<1>7. Kept(pager[c], Q, {"journalHdr", "needSync", "ownHdr", "eState", "pc", "nRec",
        "journalOff"}) /\ Q.journalHdr = v0 /\ Q.needSync = v1 /\ Q.ownHdr = v2 /\ Q.eState = v3
            /\ Q.pc = v4 /\ Q.nRec = v5 /\ Q.journalOff = v6
  <2>1. IsRecord(Q) /\ \A f \in Fields \ {"journalHdr", "needSync", "ownHdr", "eState", "pc",
          "nRec", "journalOff"} : Q[f] = pager[c][f]
    BY <1>2 DEF IsRecord
  <2>2. Q.journalHdr = v0 /\ Q.needSync = v1 /\ Q.ownHdr = v2 /\ Q.eState = v3 /\ Q.pc = v4
          /\ Q.nRec = v5 /\ Q.journalOff = v6
    BY <1>2 DEF IsRecord, Fields
  <2> QED
    BY <2>1, <2>2 DEF Kept
<1> HIDE DEF Q, R, i, j, x
<1>8. FieldsOK(Q) /\ IsRecord(Q)
  BY <1>2, <1>7, <1>t0, <1>t1, <1>t2 DEF FieldsOK, Kept, Fields
<1>9. /\ Rest(c) /\ PagerOK(pager'[c]) /\ jrnl' \in JournalSet
      /\ Kept(Q, pager'[c], {"jfd", "mem"}) /\ Wrote(c, Q.jfd, Q.mem, j, i, x, {Junk})
  BY <1>1, <1>1a, <1>3, <1>4, <1>5, <1>6, <1>8, JournalWriteStep DEF PagerOK
<1>10. DbTypes' /\ lock' \in [Conn -> 0..4] /\ txid' \in Nat /\ faults' \in Nat
  BY DEF SyncDone, Types, DbTypes, Fault
<1>11. Types'
  BY <1>9, <1>10, ConnTypes
<1>12. /\ Kept(pager[c], pager'[c], {"journalHdr", "needSync", "ownHdr", "eState", "pc", "nRec",
          "journalOff", "jfd", "mem"})
       /\ pager'[c].journalHdr = v0 /\ pager'[c].needSync = v1 /\ pager'[c].ownHdr = v2
          /\ pager'[c].eState = v3 /\ pager'[c].pc = v4 /\ pager'[c].nRec = v5
             /\ pager'[c].journalOff = v6
  BY <1>7, <1>9 DEF Kept, Fields
<1>13. Q.jfd = pager[c].jfd /\ Q.mem = pager[c].mem
  BY <1>7 DEF Kept, Fields
<1> QED
  BY <1>9, <1>11, <1>12, <1>13 DEF i, j, x, v0, v1, v2, v3, v4, v5, v6

LEMMA CountJournalledStep ==
  ASSUME Types, NEW c \in Conn, CountJournalled(c), NeedsRecord(pager[c], 1)
  PROVE  /\ Types' /\ Rest(c) /\ Kept(pager[c], pager'[c], {"pc", "dirty", "cache", "journalOff",
            "nRec", "inJournal", "needSync", "jfd", "mem"})
         /\ pager'[c].pc = "sync2"
         /\ pager'[c].dirty = pager[c].dirty \cup {1}
         /\ pager'[c].cache = [pager[c].cache EXCEPT ![1] = pager[c].dbFileVers + 1]
         /\ pager'[c].journalOff = pager[c].journalOff + 1
         /\ pager'[c].nRec = pager[c].nRec + 1
         /\ pager'[c].inJournal = pager[c].inJournal \cup {1}
         /\ pager'[c].needSync = pager[c].needSync \cup {1}
         /\ Wrote(c, (IF pager[c].jfd = "mem" THEN "real" ELSE pager[c].jfd),
            (IF pager[c].jfd = "mem" THEN <<>> ELSE pager[c].mem), (IF pager[c].jfd = "mem"
                THEN createFile(jrnl, pager[c].mem) ELSE jrnl), pager[c].journalOff + 1,
                  Record(1, pager[c].cache[1], pager[c].id), {Junk})
<1> DEFINE v0 == "sync2"
           v1 == pager[c].dirty \cup {1}
           v2 == [pager[c].cache EXCEPT ![1] = pager[c].dbFileVers + 1]
           v3 == pager[c].journalOff + 1
           v4 == pager[c].nRec + 1
           v5 == pager[c].inJournal \cup {1}
           v6 == pager[c].needSync \cup {1}
           v7 == (IF pager[c].jfd = "mem" THEN "real" ELSE pager[c].jfd)
           v8 == (IF pager[c].jfd = "mem" THEN <<>> ELSE pager[c].mem)
           Q == [pager[c] EXCEPT !.pc = v0, !.dirty = v1, !.cache = v2, !.journalOff = v3,
                !.nRec = v4, !.inJournal = v5, !.needSync = v6, !.jfd = v7, !.mem = v8]
           i == pager[c].journalOff + 1
           j == (IF pager[c].jfd = "mem" THEN createFile(jrnl, pager[c].mem) ELSE jrnl)
           x == Record(1, pager[c].cache[1], pager[c].id)
           R == Journalled([Created(pager[c]) EXCEPT !.pc = "sync2", !.dirty = @ \cup {1},
                !.cache[1] = pager[c].dbFileVers + 1], 1)
<1>2. FieldsOK(pager[c]) /\ IsRecord(pager[c])
  BY PagerFields
<1>1. JournalWrite(c, j, R, i, x, {Junk})
  BY DEF CountJournalled
<1>1a. R = Q
  <2> DEFINE C == Created(pager[c])
  <2>1. C = [pager[c] EXCEPT !.jfd = v7, !.mem = v8]
    <3>1. CASE pager[c].jfd = "mem"
      BY <3>1 DEF Created
    <3>2. CASE pager[c].jfd # "mem"
      BY <1>2, <3>2 DEF IsRecord, Fields, Created
    <3> QED
      BY <3>1, <3>2
  <2> HIDE DEF C
  <2>2. R = Journalled([C EXCEPT !.pc = "sync2", !.dirty = @ \cup {1},
                                 !.cache[1] = pager[c].dbFileVers + 1], 1)
    BY DEF C
  <2> HIDE DEF R, v7, v8
  <2> QED
    BY ZenonT(60), <1>2, <2>1, <2>2 DEF IsRecord, Fields, Journalled
<1>t0. v0 \in PCs /\ v0 = "sync2"
  BY DEF PCs, SyncPCs
<1>t1. v1 \in SUBSET Page
  BY <1>2, Numbers DEF FieldsOK
<1>t2. pager[c].dbFileVers + 1 \in Int
  BY <1>2 DEF FieldsOK
<1>t3. v2 \in [Page -> Int]
  BY <1>2, <1>t2 DEF FieldsOK
<1>t4. pager[c].cache[1] \in Int
  <2>1. pager[c].cache \in [Page -> Int]
    BY <1>2 DEF FieldsOK
  <2> QED
    BY <2>1, Numbers
<1>t5. v3 \in Nat /\ v4 \in Nat
  BY SMTT(30), <1>2 DEF FieldsOK
<1>t6. v5 \in SUBSET Page /\ v6 \in SUBSET Page
  BY <1>2, Numbers DEF FieldsOK
<1>t7. v7 \in Jfds
  BY <1>2 DEF FieldsOK, Jfds
<1>t8. v8 \in Seq(SlotSet)
  BY <1>2 DEF FieldsOK
<1>3. i \in Nat \ {0}
  BY Offsets
<1>4. j \in JournalSet
  BY <1>2, CreateFileType DEF Types, FieldsOK
<1>5. x \in SlotSet
  BY <1>2, <1>t4, Numbers, RecordType DEF FieldsOK
<1>6. {Junk} \in SUBSET SlotSet
  BY JunkType
<1> HIDE DEF v0, v1, v2, v3, v4, v5, v6, v7, v8
<1>7. Kept(pager[c], Q, {"pc", "dirty", "cache", "journalOff", "nRec", "inJournal", "needSync",
        "jfd", "mem"}) /\ Q.pc = v0 /\ Q.dirty = v1 /\ Q.cache = v2 /\ Q.journalOff = v3
            /\ Q.nRec = v4 /\ Q.inJournal = v5 /\ Q.needSync = v6 /\ Q.jfd = v7 /\ Q.mem = v8
  <2>1. IsRecord(Q) /\ \A f \in Fields \ {"pc", "dirty", "cache", "journalOff", "nRec",
          "inJournal", "needSync", "jfd", "mem"} : Q[f] = pager[c][f]
    BY <1>2 DEF IsRecord
  <2>2. Q.pc = v0 /\ Q.dirty = v1 /\ Q.cache = v2 /\ Q.journalOff = v3 /\ Q.nRec = v4
          /\ Q.inJournal = v5 /\ Q.needSync = v6 /\ Q.jfd = v7 /\ Q.mem = v8
    BY <1>2 DEF IsRecord, Fields
  <2> QED
    BY <2>1, <2>2 DEF Kept
<1> HIDE DEF Q, R, i, j, x
<1>8. FieldsOK(Q) /\ IsRecord(Q)
  BY <1>2, <1>7, <1>t0, <1>t1, <1>t2, <1>t3, <1>t4, <1>t5, <1>t6, <1>t7, <1>t8 DEF FieldsOK, Kept,
     Fields
<1>9. /\ Rest(c) /\ PagerOK(pager'[c]) /\ jrnl' \in JournalSet
      /\ Kept(Q, pager'[c], {"jfd", "mem"}) /\ Wrote(c, Q.jfd, Q.mem, j, i, x, {Junk})
  BY <1>1, <1>1a, <1>3, <1>4, <1>5, <1>6, <1>8, JournalWriteStep DEF PagerOK
<1>10. DbTypes' /\ lock' \in [Conn -> 0..4] /\ txid' \in Nat /\ faults' \in Nat
  BY DEF CountJournalled, Types, DbTypes, Fault
<1>11. Types'
  BY <1>9, <1>10, ConnTypes
<1>12. /\ Kept(pager[c], pager'[c], {"pc", "dirty", "cache", "journalOff", "nRec", "inJournal",
          "needSync", "jfd", "mem"})
       /\ pager'[c].pc = v0 /\ pager'[c].dirty = v1 /\ pager'[c].cache = v2
          /\ pager'[c].journalOff = v3 /\ pager'[c].nRec = v4 /\ pager'[c].inJournal = v5
             /\ pager'[c].needSync = v6
  BY <1>7, <1>9 DEF Kept, Fields
<1>13. Q.jfd = (IF pager[c].jfd = "mem" THEN "real" ELSE pager[c].jfd)
         /\ Q.mem = (IF pager[c].jfd = "mem" THEN <<>> ELSE pager[c].mem)
  BY <1>7 DEF Kept, Fields, v7, v8
<1> QED
  BY <1>9, <1>11, <1>12, <1>13 DEF i, j, x, v0, v1, v2, v3, v4, v5, v6

LEMMA RecordErrorStep ==
  ASSUME Types, NEW c \in Conn, RecordError(c)
  PROVE  /\ Types' /\ Rest(c) /\ Kept(pager[c], pager'[c], {"pc", "dirty", "needSync", "jfd",
            "mem"})
         /\ pager'[c].pc = "abort"
         /\ pager'[c].dirty = pager[c].dirty \cup {pager[c].pg}
         /\ pager'[c].needSync = pager[c].needSync \cup {pager[c].pg}
         /\ Cut(c, pager[c].jfd, pager[c].mem, jrnl, pager[c].journalOff + 1)
<1> DEFINE v0 == "abort"
           v1 == pager[c].dirty \cup {pager[c].pg}
           v2 == pager[c].needSync \cup {pager[c].pg}
           Q == [pager[c] EXCEPT !.pc = v0, !.dirty = v1, !.needSync = v2]
           i == pager[c].journalOff + 1
           j == jrnl
           R == [Failed(pager[c]) EXCEPT !.dirty = @ \cup {pager[c].pg},
                !.needSync = @ \cup {pager[c].pg}]
<1>2. FieldsOK(pager[c]) /\ IsRecord(pager[c])
  BY PagerFields
<1>1. JournalWriteFails(c, j, R, i)
  BY DEF RecordError
<1>1a. R = Q
  BY <1>2 DEF IsRecord, Fields, Failed
<1>t0. v0 \in PCs /\ v0 = "abort"
  BY DEF PCs
<1>t1. pager[c].pg \in Page
  BY <1>2 DEF FieldsOK, RecordError, At
<1>t2. v1 \in SUBSET Page /\ v2 \in SUBSET Page
  BY <1>2, <1>t1 DEF FieldsOK
<1>3. i \in Nat \ {0}
  BY Offsets
<1>4. j \in JournalSet
  BY DEF Types
<1> HIDE DEF v0, v1, v2
<1>7. Kept(pager[c], Q, {"pc", "dirty", "needSync"}) /\ Q.pc = v0 /\ Q.dirty = v1
        /\ Q.needSync = v2
  <2>1. IsRecord(Q) /\ \A f \in Fields \ {"pc", "dirty", "needSync"} : Q[f] = pager[c][f]
    BY <1>2 DEF IsRecord
  <2>2. Q.pc = v0 /\ Q.dirty = v1 /\ Q.needSync = v2
    BY <1>2 DEF IsRecord, Fields
  <2> QED
    BY <2>1, <2>2 DEF Kept
<1> HIDE DEF Q, R, i, j
<1>8. FieldsOK(Q) /\ IsRecord(Q)
  BY <1>2, <1>7, <1>t0, <1>t1, <1>t2 DEF FieldsOK, Kept, Fields
<1>9. /\ Rest(c) /\ PagerOK(pager'[c]) /\ jrnl' \in JournalSet
      /\ Kept(Q, pager'[c], {"jfd", "mem"}) /\ Cut(c, Q.jfd, Q.mem, j, i)
  BY <1>1, <1>1a, <1>3, <1>4, <1>8, JournalWriteFailsStep DEF PagerOK
<1>10. DbTypes' /\ lock' \in [Conn -> 0..4] /\ txid' \in Nat /\ faults' \in Nat
  BY DEF RecordError, Types, DbTypes, Fault
<1>11. Types'
  BY <1>9, <1>10, ConnTypes
<1>12. /\ Kept(pager[c], pager'[c], {"pc", "dirty", "needSync", "jfd", "mem"})
       /\ pager'[c].pc = v0 /\ pager'[c].dirty = v1 /\ pager'[c].needSync = v2
  BY <1>7, <1>9 DEF Kept, Fields
<1>13. Q.jfd = pager[c].jfd /\ Q.mem = pager[c].mem
  BY <1>7 DEF Kept, Fields
<1> QED
  BY <1>9, <1>11, <1>12, <1>13 DEF i, j, v0, v1, v2

LEMMA NewHeaderErrorStep ==
  ASSUME Types, NEW c \in Conn, NewHeaderError(c)
  PROVE  /\ Types' /\ Rest(c) /\ Kept(pager[c], pager'[c], {"eState", "pc", "journalHdr", "jfd",
            "mem"})
         /\ pager'[c].eState = "ERROR"
         /\ pager'[c].pc = "idle"
         /\ pager'[c].journalHdr = pager[c].journalOff
         /\ Cut(c, pager[c].jfd, pager[c].mem, jrnl, pager[c].journalOff + 1)
<1> DEFINE v0 == "ERROR"
           v1 == "idle"
           v2 == pager[c].journalOff
           Q == [pager[c] EXCEPT !.eState = v0, !.pc = v1, !.journalHdr = v2]
           i == pager[c].journalOff + 1
           j == jrnl
           R == [InError(pager[c]) EXCEPT !.journalHdr = pager[c].journalOff]
<1>2. FieldsOK(pager[c]) /\ IsRecord(pager[c])
  BY PagerFields
<1>1. JournalWriteFails(c, j, R, i)
  BY DEF NewHeaderError
<1>1a. R = Q
  BY <1>2 DEF IsRecord, Fields, InError
<1>t0. v0 \in EState /\ v1 \in PCs /\ v1 = "idle"
  BY DEF PCs, EState
<1>t1. v2 \in Nat
  BY <1>2 DEF FieldsOK
<1>3. i \in Nat \ {0}
  BY Offsets
<1>4. j \in JournalSet
  BY DEF Types
<1> HIDE DEF v0, v1, v2
<1>7. Kept(pager[c], Q, {"eState", "pc", "journalHdr"}) /\ Q.eState = v0 /\ Q.pc = v1
        /\ Q.journalHdr = v2
  <2>1. IsRecord(Q) /\ \A f \in Fields \ {"eState", "pc", "journalHdr"} : Q[f] = pager[c][f]
    BY <1>2 DEF IsRecord
  <2>2. Q.eState = v0 /\ Q.pc = v1 /\ Q.journalHdr = v2
    BY <1>2 DEF IsRecord, Fields
  <2> QED
    BY <2>1, <2>2 DEF Kept
<1> HIDE DEF Q, R, i, j
<1>8. FieldsOK(Q) /\ IsRecord(Q)
  BY <1>2, <1>7, <1>t0, <1>t1 DEF FieldsOK, Kept, Fields
<1>9. /\ Rest(c) /\ PagerOK(pager'[c]) /\ jrnl' \in JournalSet
      /\ Kept(Q, pager'[c], {"jfd", "mem"}) /\ Cut(c, Q.jfd, Q.mem, j, i)
  BY <1>1, <1>1a, <1>3, <1>4, <1>8, JournalWriteFailsStep DEF PagerOK
<1>10. DbTypes' /\ lock' \in [Conn -> 0..4] /\ txid' \in Nat /\ faults' \in Nat
  BY DEF NewHeaderError, Types, DbTypes, Fault
<1>11. Types'
  BY <1>9, <1>10, ConnTypes
<1>12. /\ Kept(pager[c], pager'[c], {"eState", "pc", "journalHdr", "jfd", "mem"})
       /\ pager'[c].eState = v0 /\ pager'[c].pc = v1 /\ pager'[c].journalHdr = v2
  BY <1>7, <1>9 DEF Kept, Fields
<1>13. Q.jfd = pager[c].jfd /\ Q.mem = pager[c].mem
  BY <1>7 DEF Kept, Fields
<1> QED
  BY <1>9, <1>11, <1>12, <1>13 DEF i, j, v0, v1, v2

LEMMA DbWriteFailsTypes ==
  ASSUME Types, NEW p \in Page, NEW v \in Int, DbWriteFails(p, v)
  PROVE  DbTypes'
<1>1. CASE UNCHANGED <<db, dbAlt>>
  BY <1>1 DEF Types, DbTypes
<1>2. CASE DbWrite(p, v)
  BY <1>2, DbWriteTypes
<1>3. CASE DbWrite(p, Torn)
  BY <1>3, Numbers, DbWriteTypes
<1> QED
  BY <1>1, <1>2, <1>3 DEF DbWriteFails

LEMMA WriteOpen ==
  ASSUME Types, NEW c \in Conn, NEW p \in Page, Write(c, p), pager[c].eState = "WRITER_LOCKED"
  PROVE  /\ Types' /\ Rest(c) /\ Kept(pager[c], pager'[c], {"pc", "pg", "id"})
         /\ pager'[c].pc = "open"
         /\ pager'[c].pg = p
         /\ pager'[c].id = txid + 1
<1> DEFINE v0 == "open"
           v1 == p
           v2 == txid + 1
<1>1. pager'[c] = [pager[c] EXCEPT !.pc = v0, !.pg = v1, !.id = v2] /\ Rest(c)
  BY PagerFields DEF Write, Rest
<1>2. FieldsOK(pager[c]) /\ IsRecord(pager[c])
  BY PagerFields
<1>t0. v0 \in PCs /\ v1 \in Page /\ v1 \in 0..NPage
  BY Numbers DEF PCs
<1>t1. v2 \in Nat
  BY DEF Types
<1> HIDE DEF v0, v1, v2
<1>3. Kept(pager[c], pager'[c], {"pc", "pg", "id"}) /\ pager'[c].pc = v0 /\ pager'[c].pg = v1
        /\ pager'[c].id = v2
  <2>1. IsRecord(pager'[c]) /\ \A f \in Fields \ {"pc", "pg", "id"} : pager'[c][f] = pager[c][f]
    BY <1>1, <1>2 DEF IsRecord
  <2>2. pager'[c].pc = v0 /\ pager'[c].pg = v1 /\ pager'[c].id = v2
    BY <1>1, <1>2 DEF IsRecord, Fields
  <2> QED
    BY <2>1, <2>2 DEF Kept
<1>4. FieldsOK(pager'[c]) /\ IsRecord(pager'[c])
  BY <1>2, <1>3, <1>t0, <1>t1 DEF FieldsOK, Kept, Fields
<1>5. DbTypes' /\ jrnl' \in JournalSet
  BY DiskKept DEF Write
<1>6. lock' \in [Conn -> 0..4] /\ txid' \in Nat /\ faults' \in Nat
  BY DEF Write, Types, Fault
<1>7. Types'
  BY <1>1, <1>4, <1>5, <1>6, ConnTypes DEF PagerOK
<1> QED
  BY <1>1, <1>3, <1>7 DEF v0, v1, v2

LEMMA WriteMore ==
  ASSUME Types, NEW c \in Conn, NEW p \in Page, Write(c, p), pager[c].eState # "WRITER_LOCKED"
  PROVE  /\ Types' /\ Rest(c) /\ Kept(pager[c], pager'[c], {"pc", "pg"})
         /\ pager'[c].pc = "write"
         /\ pager'[c].pg = p
<1> DEFINE v0 == "write"
           v1 == p
<1>1. pager'[c] = [pager[c] EXCEPT !.pc = v0, !.pg = v1] /\ Rest(c)
  BY PagerFields DEF Write, Rest
<1>2. FieldsOK(pager[c]) /\ IsRecord(pager[c])
  BY PagerFields
<1>t0. v0 \in PCs /\ v1 \in Page /\ v1 \in 0..NPage
  BY Numbers DEF PCs
<1> HIDE DEF v0, v1
<1>3. Kept(pager[c], pager'[c], {"pc", "pg"}) /\ pager'[c].pc = v0 /\ pager'[c].pg = v1
  <2>1. IsRecord(pager'[c]) /\ \A f \in Fields \ {"pc", "pg"} : pager'[c][f] = pager[c][f]
    BY <1>1, <1>2 DEF IsRecord
  <2>2. pager'[c].pc = v0 /\ pager'[c].pg = v1
    BY <1>1, <1>2 DEF IsRecord, Fields
  <2> QED
    BY <2>1, <2>2 DEF Kept
<1>4. FieldsOK(pager'[c]) /\ IsRecord(pager'[c])
  BY <1>2, <1>3, <1>t0 DEF FieldsOK, Kept, Fields
<1>5. DbTypes' /\ jrnl' \in JournalSet
  BY DiskKept DEF Write
<1>6. lock' \in [Conn -> 0..4] /\ txid' \in Nat /\ faults' \in Nat
  BY DEF Write, Types, Fault
<1>7. Types'
  BY <1>1, <1>4, <1>5, <1>6, ConnTypes DEF PagerOK
<1> QED
  BY <1>1, <1>3, <1>7 DEF v0, v1

LEMMA pager_writePlain ==
  ASSUME Types, NEW c \in Conn, pager_write(c), ~NeedsRecord(pager[c], pager[c].pg)
  PROVE  /\ Types' /\ Rest(c) /\ Kept(pager[c], pager'[c], {"pc", "pg", "dirty", "cache",
            "dbSize", "needSync"})
         /\ pager'[c].pc = "idle"
         /\ pager'[c].pg = 0
         /\ pager'[c].dirty = pager[c].dirty \cup {pager[c].pg}
         /\ pager'[c].cache = [pager[c].cache EXCEPT ![pager[c].pg] = IF pager[c].pg = 1 THEN @
            ELSE pager[c].id]
         /\ pager'[c].dbSize = IF pager[c].pg > pager[c].dbSize THEN pager[c].pg
            ELSE pager[c].dbSize
         /\ pager'[c].needSync = IF pager[c].eState = "WRITER_DBMOD"
            \/ pager[c].pg \in pager[c].inJournal
                                 THEN pager[c].needSync ELSE pager[c].needSync \cup {pager[c].pg}
<1> DEFINE v0 == "idle"
           v1 == 0
           v2 == pager[c].dirty \cup {pager[c].pg}
           v3 == [pager[c].cache EXCEPT ![pager[c].pg] = IF pager[c].pg = 1 THEN @
                ELSE pager[c].id]
           v4 == IF pager[c].pg > pager[c].dbSize THEN pager[c].pg ELSE pager[c].dbSize
           v5 == IF pager[c].eState = "WRITER_DBMOD" \/ pager[c].pg \in pager[c].inJournal
                                 THEN pager[c].needSync ELSE pager[c].needSync \cup {pager[c].pg}
<1>1. pager'[c] = [pager[c] EXCEPT !.pc = v0, !.pg = v1, !.dirty = v2, !.cache = v3,
        !.dbSize = v4, !.needSync = v5] /\ Rest(c)
  <2>1. pager = [d \in Conn |-> pager[d]]
    BY PagerFields
  <2>2. pager'[c] = [pager[c] EXCEPT !.pc = v0, !.pg = v1, !.dirty = v2, !.cache = v3,
          !.dbSize = v4, !.needSync = v5]
    BY <2>1, PagerFields DEF pager_write, IsRecord, Fields
  <2>3. Rest(c)
    BY <2>1 DEF pager_write, Rest
  <2> QED
    BY <2>2, <2>3
<1>2. FieldsOK(pager[c]) /\ IsRecord(pager[c])
  BY PagerFields
<1>t0. /\ pager[c].pg \in Page /\ pager[c].pg \in Nat
       /\ pager[c].cache[pager[c].pg] \in Int
  <2>1. pager[c].pc = "write"
    BY DEF pager_write, At
  <2>2. pager[c].pg \in Page /\ pager[c].cache \in [Page -> Int]
    BY <1>2, <2>1 DEF FieldsOK
  <2> QED
    BY <2>2, Numbers
<1>t1. v0 \in PCs /\ v0 = "idle" /\ v1 \in 0..NPage
  BY Numbers DEF PCs
<1>t2. v2 \in SUBSET Page
  BY <1>2, <1>t0 DEF FieldsOK
<1>t3. v4 \in Int
  BY <1>2, <1>t0 DEF FieldsOK
<1>t4. v3 \in [Page -> Int]
  BY <1>2, <1>t0 DEF FieldsOK
<1>t5. v5 \in SUBSET Page
  BY <1>2, <1>t0 DEF FieldsOK
<1> HIDE DEF v0, v1, v2, v3, v4, v5
<1>3. Kept(pager[c], pager'[c], {"pc", "pg", "dirty", "cache", "dbSize", "needSync"})
        /\ pager'[c].pc = v0 /\ pager'[c].pg = v1 /\ pager'[c].dirty = v2 /\ pager'[c].cache = v3
           /\ pager'[c].dbSize = v4 /\ pager'[c].needSync = v5
  <2>1. IsRecord(pager'[c]) /\ \A f \in Fields \ {"pc", "pg", "dirty", "cache", "dbSize",
          "needSync"} : pager'[c][f] = pager[c][f]
    BY <1>1, <1>2 DEF IsRecord
  <2>2. pager'[c].pc = v0 /\ pager'[c].pg = v1 /\ pager'[c].dirty = v2 /\ pager'[c].cache = v3
          /\ pager'[c].dbSize = v4 /\ pager'[c].needSync = v5
    BY <1>1, <1>2 DEF IsRecord, Fields
  <2> QED
    BY <2>1, <2>2 DEF Kept
<1>4. FieldsOK(pager'[c]) /\ IsRecord(pager'[c])
  BY <1>2, <1>3, <1>t0, <1>t1, <1>t2, <1>t3, <1>t4, <1>t5 DEF FieldsOK, Kept, Fields
<1>5. DbTypes' /\ jrnl' \in JournalSet
  <2>1. DbTypes'
    BY DEF Types, DbTypes, pager_write
  <2>2. jrnl' \in JournalSet
    BY  DEF Types, pager_write
  <2> QED
    BY <2>1, <2>2
<1>6. lock' \in [Conn -> 0..4] /\ txid' \in Nat /\ faults' \in Nat
  BY DEF pager_write, Types, Fault
<1>7. Types'
  BY <1>1, <1>4, <1>5, <1>6, ConnTypes DEF PagerOK
<1> QED
  BY <1>1, <1>3, <1>7 DEF v0, v1, v2, v3, v4, v5

LEMMA HotReopenFound ==
  ASSUME Types, NEW c \in Conn, HotReopen(c), jrnl.exists
  PROVE  /\ Types' /\ Rest(c) /\ Kept(pager[c], pager'[c], {"pc", "jfd", "journalHdr"})
         /\ pager'[c].pc = "playback"
         /\ pager'[c].jfd = "real"
         /\ pager'[c].journalHdr = Len(jrnl.slot)
<1> DEFINE v0 == "playback"
           v1 == "real"
           v2 == Len(jrnl.slot)
<1>1. pager'[c] = [pager[c] EXCEPT !.pc = v0, !.jfd = v1, !.journalHdr = v2] /\ Rest(c)
  BY PagerFields DEF HotReopen, Rest
<1>2. FieldsOK(pager[c]) /\ IsRecord(pager[c])
  BY PagerFields
<1>t0. v0 \in PCs /\ v0 = "playback" /\ v1 \in Jfds
  BY DEF PCs, UndoPCs, Jfds
<1>t1. v2 \in Nat
  BY JournalType DEF Types
<1> HIDE DEF v0, v1, v2
<1>3. Kept(pager[c], pager'[c], {"pc", "jfd", "journalHdr"}) /\ pager'[c].pc = v0
        /\ pager'[c].jfd = v1 /\ pager'[c].journalHdr = v2
  <2>1. IsRecord(pager'[c]) /\ \A f \in Fields \ {"pc", "jfd", "journalHdr"}
          : pager'[c][f] = pager[c][f]
    BY <1>1, <1>2 DEF IsRecord
  <2>2. pager'[c].pc = v0 /\ pager'[c].jfd = v1 /\ pager'[c].journalHdr = v2
    BY <1>1, <1>2 DEF IsRecord, Fields
  <2> QED
    BY <2>1, <2>2 DEF Kept
<1>4. FieldsOK(pager'[c]) /\ IsRecord(pager'[c])
  BY <1>2, <1>3, <1>t0, <1>t1 DEF FieldsOK, Kept, Fields
<1>5. DbTypes' /\ jrnl' \in JournalSet
  <2>1. DbTypes'
    BY DEF Types, DbTypes, HotReopen
  <2>2. jrnl' \in JournalSet
    BY SyncedType DEF Types, HotReopen
  <2> QED
    BY <2>1, <2>2
<1>6. lock' \in [Conn -> 0..4] /\ txid' \in Nat /\ faults' \in Nat
  BY DEF HotReopen, Types, Fault
<1>7. Types'
  BY <1>1, <1>4, <1>5, <1>6, ConnTypes DEF PagerOK
<1> QED
  BY <1>1, <1>3, <1>7 DEF v0, v1, v2

LEMMA SyncDoneCommit ==
  ASSUME Types, NEW c \in Conn, SyncDone(c), pager[c].pg = 0
  PROVE  /\ Types' /\ Rest(c) /\ Kept(pager[c], pager'[c], {"journalHdr", "needSync", "ownHdr",
            "eState", "pc"})
         /\ pager'[c].journalHdr = pager[c].journalOff
         /\ pager'[c].needSync = {}
         /\ pager'[c].ownHdr = IF SectorFull THEN pager[c].journalOff ELSE NoHeader
         /\ pager'[c].eState = "WRITER_DBMOD"
         /\ pager'[c].pc = "pages"
<1> DEFINE v0 == pager[c].journalOff
           v1 == {}
           v2 == IF SectorFull THEN pager[c].journalOff ELSE NoHeader
           v3 == "WRITER_DBMOD"
           v4 == "pages"
<1>1. pager'[c] = [pager[c] EXCEPT !.journalHdr = v0, !.needSync = v1, !.ownHdr = v2,
        !.eState = v3, !.pc = v4] /\ Rest(c)
  <2>1. pager = [d \in Conn |-> pager[d]]
    BY PagerFields
  <2>2. pager'[c] = [pager[c] EXCEPT !.journalHdr = v0, !.needSync = v1, !.ownHdr = v2,
          !.eState = v3, !.pc = v4]
    BY <2>1, PagerFields DEF SyncDone, IsRecord, Fields, HeaderSynced
  <2>3. Rest(c)
    BY <2>1 DEF SyncDone, Rest, HeaderSynced
  <2> QED
    BY <2>2, <2>3
<1>2. FieldsOK(pager[c]) /\ IsRecord(pager[c])
  BY PagerFields
<1>t0. v3 \in EState /\ v4 \in PCs /\ v4 = "pages" /\ v1 \in SUBSET Page
  BY DEF EState, PCs
<1>t1. v0 \in Nat /\ v2 \in Int
  BY <1>2, Numbers DEF FieldsOK
<1> HIDE DEF v0, v1, v2, v3, v4
<1>3. Kept(pager[c], pager'[c], {"journalHdr", "needSync", "ownHdr", "eState", "pc"})
        /\ pager'[c].journalHdr = v0 /\ pager'[c].needSync = v1 /\ pager'[c].ownHdr = v2
           /\ pager'[c].eState = v3 /\ pager'[c].pc = v4
  <2>1. IsRecord(pager'[c]) /\ \A f \in Fields \ {"journalHdr", "needSync", "ownHdr", "eState",
          "pc"} : pager'[c][f] = pager[c][f]
    BY <1>1, <1>2 DEF IsRecord
  <2>2. pager'[c].journalHdr = v0 /\ pager'[c].needSync = v1 /\ pager'[c].ownHdr = v2
          /\ pager'[c].eState = v3 /\ pager'[c].pc = v4
    BY <1>1, <1>2 DEF IsRecord, Fields
  <2> QED
    BY <2>1, <2>2 DEF Kept
<1>4. FieldsOK(pager'[c]) /\ IsRecord(pager'[c])
  BY <1>2, <1>3, <1>t0, <1>t1 DEF FieldsOK, Kept, Fields
<1>5. DbTypes' /\ jrnl' \in JournalSet
  <2>1. DbTypes'
    BY DEF Types, DbTypes, SyncDone
  <2>2. jrnl' \in JournalSet
    BY SyncedType DEF Types, SyncDone, HeaderSynced
  <2> QED
    BY <2>1, <2>2
<1>6. lock' \in [Conn -> 0..4] /\ txid' \in Nat /\ faults' \in Nat
  BY DEF SyncDone, Types, Fault
<1>7. Types'
  BY <1>1, <1>4, <1>5, <1>6, ConnTypes DEF PagerOK
<1> QED
  BY <1>1, <1>3, <1>7 DEF v0, v1, v2, v3, v4

LEMMA CountJournalledPlain ==
  ASSUME Types, NEW c \in Conn, CountJournalled(c), ~NeedsRecord(pager[c], 1)
  PROVE  /\ Types' /\ Rest(c) /\ Kept(pager[c], pager'[c], {"pc", "dirty", "cache", "jfd", "mem"})
         /\ pager'[c].pc = "sync2"
         /\ pager'[c].dirty = pager[c].dirty \cup {1}
         /\ pager'[c].cache = [pager[c].cache EXCEPT ![1] = pager[c].dbFileVers + 1]
         /\ pager'[c].jfd = IF pager[c].jfd = "mem" THEN "real" ELSE pager[c].jfd
         /\ pager'[c].mem = IF pager[c].jfd = "mem" THEN <<>> ELSE pager[c].mem
<1> DEFINE v0 == "sync2"
           v1 == pager[c].dirty \cup {1}
           v2 == [pager[c].cache EXCEPT ![1] = pager[c].dbFileVers + 1]
           v3 == IF pager[c].jfd = "mem" THEN "real" ELSE pager[c].jfd
           v4 == IF pager[c].jfd = "mem" THEN <<>> ELSE pager[c].mem
<1>1. pager'[c] = [pager[c] EXCEPT !.pc = v0, !.dirty = v1, !.cache = v2, !.jfd = v3, !.mem = v4]
        /\ Rest(c)
  <2>1. pager = [d \in Conn |-> pager[d]]
    BY PagerFields
  <2> DEFINE C == Created(pager[c])
  <2>a. C = [pager[c] EXCEPT !.jfd = v3, !.mem = v4]
    <3>1. CASE pager[c].jfd = "mem"
      BY <3>1 DEF Created
    <3>2. CASE pager[c].jfd # "mem"
      BY PagerFields, <3>2 DEF IsRecord, Fields, Created
    <3> QED
      BY <3>1, <3>2
  <2> HIDE DEF C
  <2>b. pager'[c] = [C EXCEPT !.pc = "sync2", !.dirty = @ \cup {1},
          !.cache[1] = pager[c].dbFileVers + 1]
    BY <2>1 DEF C, CountJournalled
  <2> HIDE DEF v3, v4
  <2>2. pager'[c] = [pager[c] EXCEPT !.pc = v0, !.dirty = v1, !.cache = v2, !.jfd = v3,
          !.mem = v4]
    BY ZenonT(60), <2>a, <2>b, PagerFields DEF IsRecord, Fields, Failed
  <2>3. Rest(c)
    BY <2>1 DEF CountJournalled, Rest
  <2> QED
    BY <2>2, <2>3
<1>2. FieldsOK(pager[c]) /\ IsRecord(pager[c])
  BY PagerFields
<1>t0. v0 \in PCs /\ v0 = "sync2"
  BY DEF PCs, SyncPCs
<1>t1. v1 \in SUBSET Page
  BY <1>2, Numbers DEF FieldsOK
<1>t2. pager[c].dbFileVers + 1 \in Int
  BY <1>2 DEF FieldsOK
<1>t3. v2 \in [Page -> Int]
  BY <1>2, <1>t2 DEF FieldsOK
<1>t4. v3 \in Jfds
  BY <1>2 DEF FieldsOK, Jfds
<1>t5. v4 \in Seq(SlotSet)
  BY <1>2 DEF FieldsOK
<1>t6. createFile(jrnl, pager[c].mem) \in JournalSet
  BY <1>2, CreateFileType DEF FieldsOK, Types
<1> HIDE DEF v0, v1, v2, v3, v4
<1>3. Kept(pager[c], pager'[c], {"pc", "dirty", "cache", "jfd", "mem"}) /\ pager'[c].pc = v0
        /\ pager'[c].dirty = v1 /\ pager'[c].cache = v2 /\ pager'[c].jfd = v3
           /\ pager'[c].mem = v4
  <2>1. IsRecord(pager'[c]) /\ \A f \in Fields \ {"pc", "dirty", "cache", "jfd", "mem"}
          : pager'[c][f] = pager[c][f]
    BY <1>1, <1>2 DEF IsRecord
  <2>2. pager'[c].pc = v0 /\ pager'[c].dirty = v1 /\ pager'[c].cache = v2 /\ pager'[c].jfd = v3
          /\ pager'[c].mem = v4
    BY <1>1, <1>2 DEF IsRecord, Fields
  <2> QED
    BY <2>1, <2>2 DEF Kept
<1>4. FieldsOK(pager'[c]) /\ IsRecord(pager'[c])
  BY <1>2, <1>3, <1>t0, <1>t1, <1>t2, <1>t3, <1>t4, <1>t5, <1>t6 DEF FieldsOK, Kept, Fields
<1>5. DbTypes' /\ jrnl' \in JournalSet
  <2>1. DbTypes'
    BY DEF Types, DbTypes, CountJournalled
  <2>2. jrnl' \in JournalSet
    BY <1>t6 DEF Types, CountJournalled
  <2> QED
    BY <2>1, <2>2
<1>6. lock' \in [Conn -> 0..4] /\ txid' \in Nat /\ faults' \in Nat
  BY DEF CountJournalled, Types, Fault
<1>7. Types'
  BY <1>1, <1>4, <1>5, <1>6, ConnTypes DEF PagerOK
<1> QED
  BY <1>1, <1>3, <1>7 DEF v0, v1, v2, v3, v4

LEMMA SpillErrorStep ==
  ASSUME Types, NEW c \in Conn, SpillError(c)
  PROVE  /\ Types' /\ Rest(c) /\ Kept(pager[c], pager'[c], {"eState", "pc"})
         /\ pager'[c].eState = "ERROR"
         /\ pager'[c].pc = "idle"
<1> DEFINE v0 == "ERROR"
           v1 == "idle"
<1>1. pager'[c] = [pager[c] EXCEPT !.eState = v0, !.pc = v1] /\ Rest(c)
  BY PagerFields DEF SpillError, InError, Rest
<1>2. FieldsOK(pager[c]) /\ IsRecord(pager[c])
  BY PagerFields
<1>t0. v0 \in EState /\ v1 \in PCs /\ v1 = "idle"
  BY DEF EState, PCs
<1>t1. pager[c].pg \in Page /\ pager[c].cache[pager[c].pg] \in Int
  BY <1>2 DEF FieldsOK, SpillError, At
<1> HIDE DEF v0, v1
<1>3. Kept(pager[c], pager'[c], {"eState", "pc"}) /\ pager'[c].eState = v0 /\ pager'[c].pc = v1
  <2>1. IsRecord(pager'[c]) /\ \A f \in Fields \ {"eState", "pc"} : pager'[c][f] = pager[c][f]
    BY <1>1, <1>2 DEF IsRecord
  <2>2. pager'[c].eState = v0 /\ pager'[c].pc = v1
    BY <1>1, <1>2 DEF IsRecord, Fields
  <2> QED
    BY <2>1, <2>2 DEF Kept
<1>4. FieldsOK(pager'[c]) /\ IsRecord(pager'[c])
  BY <1>2, <1>3, <1>t0, <1>t1 DEF FieldsOK, Kept, Fields
<1>5. DbTypes' /\ jrnl' \in JournalSet
  <2>1. DbTypes'
    BY <1>t1, DbWriteFailsTypes DEF SpillError
  <2>2. jrnl' \in JournalSet
    BY  DEF Types, SpillError, InError
  <2> QED
    BY <2>1, <2>2
<1>6. lock' \in [Conn -> 0..4] /\ txid' \in Nat /\ faults' \in Nat
  BY DEF SpillError, Types, Fault
<1>7. Types'
  BY <1>1, <1>4, <1>5, <1>6, ConnTypes DEF PagerOK
<1> QED
  BY <1>1, <1>3, <1>7 DEF v0, v1

LEMMA CountDirectErrorStep ==
  ASSUME Types, NEW c \in Conn, CountDirectError(c)
  PROVE  /\ Types' /\ Rest(c) /\ Kept(pager[c], pager'[c], {"pc", "cache"})
         /\ pager'[c].pc = "abort"
         /\ pager'[c].cache = [pager[c].cache EXCEPT ![1] = pager[c].dbFileVers + 1]
<1> DEFINE v0 == "abort"
           v1 == [pager[c].cache EXCEPT ![1] = pager[c].dbFileVers + 1]
<1>1. pager'[c] = [pager[c] EXCEPT !.pc = v0, !.cache = v1] /\ Rest(c)
  <2>1. pager = [d \in Conn |-> pager[d]]
    BY PagerFields
  <2>2. pager'[c] = [pager[c] EXCEPT !.pc = v0, !.cache = v1]
    BY <2>1, PagerFields DEF CountDirectError, IsRecord, Fields, Failed
  <2>3. Rest(c)
    BY <2>1 DEF CountDirectError, Rest, Failed
  <2> QED
    BY <2>2, <2>3
<1>2. FieldsOK(pager[c]) /\ IsRecord(pager[c])
  BY PagerFields
<1>t0. v0 \in PCs /\ v0 = "abort"
  BY DEF PCs
<1>t1. pager[c].dbFileVers + 1 \in Int
  BY <1>2 DEF FieldsOK
<1>t2. v1 \in [Page -> Int]
  BY <1>2, <1>t1 DEF FieldsOK
<1> HIDE DEF v0, v1
<1>3. Kept(pager[c], pager'[c], {"pc", "cache"}) /\ pager'[c].pc = v0 /\ pager'[c].cache = v1
  <2>1. IsRecord(pager'[c]) /\ \A f \in Fields \ {"pc", "cache"} : pager'[c][f] = pager[c][f]
    BY <1>1, <1>2 DEF IsRecord
  <2>2. pager'[c].pc = v0 /\ pager'[c].cache = v1
    BY <1>1, <1>2 DEF IsRecord, Fields
  <2> QED
    BY <2>1, <2>2 DEF Kept
<1>4. FieldsOK(pager'[c]) /\ IsRecord(pager'[c])
  BY <1>2, <1>3, <1>t0, <1>t1, <1>t2 DEF FieldsOK, Kept, Fields
<1>5. DbTypes' /\ jrnl' \in JournalSet
  <2>1. DbTypes'
    BY <1>t1, Numbers, DbWriteFailsTypes DEF CountDirectError
  <2>2. jrnl' \in JournalSet
    BY  DEF Types, CountDirectError, Failed
  <2> QED
    BY <2>1, <2>2
<1>6. lock' \in [Conn -> 0..4] /\ txid' \in Nat /\ faults' \in Nat
  BY DEF CountDirectError, Types, Fault
<1>7. Types'
  BY <1>1, <1>4, <1>5, <1>6, ConnTypes DEF PagerOK
<1> QED
  BY <1>1, <1>3, <1>7 DEF v0, v1

LEMMA WritePagesErrorStep ==
  ASSUME Types, NEW c \in Conn, WritePagesError(c)
  PROVE  /\ Types' /\ Rest(c) /\ Kept(pager[c], pager'[c], {"pc", "cache", "dbFileVers"})
         /\ pager'[c].pc = "abort"
         /\ pager'[c].cache = [pager[c].cache EXCEPT ![First(pager[c].dirty)] =
                                PageImage(pager[c], First(pager[c].dirty))]
         /\ pager'[c].dbFileVers = IF First(pager[c].dirty) = 1 THEN PageImage(pager[c], 1)
                                  ELSE pager[c].dbFileVers
<1> DEFINE v0 == "abort"
           v1 == [pager[c].cache EXCEPT ![First(pager[c].dirty)] =
                                PageImage(pager[c], First(pager[c].dirty))]
           v2 == IF First(pager[c].dirty) = 1 THEN PageImage(pager[c], 1)
                                  ELSE pager[c].dbFileVers
<1>1. pager'[c] = [pager[c] EXCEPT !.pc = v0, !.cache = v1, !.dbFileVers = v2] /\ Rest(c)
  <2>1. pager = [d \in Conn |-> pager[d]]
    BY PagerFields
  <2> DEFINE p == First(pager[c].dirty)
             w == PageImage(pager[c], p)
  <2>a. pager'[c] = [Failed(pager[c]) EXCEPT !.cache[p] = w, !.dbFileVers = IF p = 1 THEN w
          ELSE @]
    <3>1. pager' = [pager EXCEPT ![c] = [Failed(pager[c]) EXCEPT !.cache[p] = w,
            !.dbFileVers = IF p = 1 THEN w ELSE @]]
      BY <2>1 DEF WritePagesError
    <3> QED
      BY <3>1, <2>1
  <2>b. v1 = [pager[c].cache EXCEPT ![p] = w] /\ v2 = IF p = 1 THEN w ELSE pager[c].dbFileVers
    OBVIOUS
  <2> HIDE DEF p, w, v1, v2
  <2>2. pager'[c] = [pager[c] EXCEPT !.pc = v0, !.cache = v1, !.dbFileVers = v2]
    BY <2>a, <2>b, PagerFields DEF IsRecord, Fields, Failed
  <2>3. Rest(c)
    BY <2>1 DEF WritePagesError, Rest, Failed
  <2> QED
    BY <2>2, <2>3
<1>2. FieldsOK(pager[c]) /\ IsRecord(pager[c])
  BY PagerFields
<1>t0. v0 \in PCs /\ v0 = "abort"
  BY DEF PCs
<1>t1. First(pager[c].dirty) \in Page
  BY <1>2, FirstIn DEF FieldsOK, WritePagesError
<1>t2. /\ PageImage(pager[c], First(pager[c].dirty)) \in Int
       /\ PageImage(pager[c], 1) \in Int
  BY <1>2, <1>t1, Numbers, PageImageType
<1>t3. v1 \in [Page -> Int] /\ v2 \in Int
  BY <1>2, <1>t2 DEF FieldsOK
<1> HIDE DEF v0, v1, v2
<1>3. Kept(pager[c], pager'[c], {"pc", "cache", "dbFileVers"}) /\ pager'[c].pc = v0
        /\ pager'[c].cache = v1 /\ pager'[c].dbFileVers = v2
  <2>1. IsRecord(pager'[c]) /\ \A f \in Fields \ {"pc", "cache", "dbFileVers"}
          : pager'[c][f] = pager[c][f]
    BY <1>1, <1>2 DEF IsRecord
  <2>2. pager'[c].pc = v0 /\ pager'[c].cache = v1 /\ pager'[c].dbFileVers = v2
    BY <1>1, <1>2 DEF IsRecord, Fields
  <2> QED
    BY <2>1, <2>2 DEF Kept
<1>4. FieldsOK(pager'[c]) /\ IsRecord(pager'[c])
  BY <1>2, <1>3, <1>t0, <1>t1, <1>t2, <1>t3 DEF FieldsOK, Kept, Fields
<1>5. DbTypes' /\ jrnl' \in JournalSet
  <2>1. DbTypes'
    BY <1>t1, <1>t2, DbWriteFailsTypes DEF WritePagesError
  <2>2. jrnl' \in JournalSet
    BY  DEF Types, WritePagesError, Failed
  <2> QED
    BY <2>1, <2>2
<1>6. lock' \in [Conn -> 0..4] /\ txid' \in Nat /\ faults' \in Nat
  BY DEF WritePagesError, Types, Fault
<1>7. Types'
  BY <1>1, <1>4, <1>5, <1>6, ConnTypes DEF PagerOK
<1> QED
  BY <1>1, <1>3, <1>7 DEF v0, v1, v2

LEMMA SyncDatabaseErrorStep ==
  ASSUME Types, NEW c \in Conn, SyncDatabaseError(c)
  PROVE  /\ Types' /\ Rest(c) /\ Kept(pager[c], pager'[c], {"pc"})
         /\ pager'[c].pc = "abort"
<1> DEFINE v0 == "abort"
<1>1. pager'[c] = [pager[c] EXCEPT !.pc = v0] /\ Rest(c)
  BY PagerFields DEF SyncDatabaseError, Failed, Rest
<1>2. FieldsOK(pager[c]) /\ IsRecord(pager[c])
  BY PagerFields
<1>t0. v0 \in PCs /\ v0 = "abort"
  BY DEF PCs
<1> HIDE DEF v0
<1>3. Kept(pager[c], pager'[c], {"pc"}) /\ pager'[c].pc = v0
  <2>1. IsRecord(pager'[c]) /\ \A f \in Fields \ {"pc"} : pager'[c][f] = pager[c][f]
    BY <1>1, <1>2 DEF IsRecord
  <2>2. pager'[c].pc = v0
    BY <1>1, <1>2 DEF IsRecord, Fields
  <2> QED
    BY <2>1, <2>2 DEF Kept
<1>4. FieldsOK(pager'[c]) /\ IsRecord(pager'[c])
  BY <1>2, <1>3, <1>t0 DEF FieldsOK, Kept, Fields
<1>5. DbTypes' /\ jrnl' \in JournalSet
  BY DiskKept DEF SyncDatabaseError
<1>6. lock' \in [Conn -> 0..4] /\ txid' \in Nat /\ faults' \in Nat
  BY DEF SyncDatabaseError, Types, Fault
<1>7. Types'
  BY <1>1, <1>4, <1>5, <1>6, ConnTypes DEF PagerOK
<1> QED
  BY <1>1, <1>3, <1>7 DEF v0

LEMMA PlaybackErrorOwn ==
  ASSUME Types, NEW c \in Conn, PlaybackError(c), pager[c].eState # "OPEN"
  PROVE  /\ Types' /\ Rest(c) /\ Kept(pager[c], pager'[c], {"eState", "pc"})
         /\ pager'[c].eState = "ERROR"
         /\ pager'[c].pc = "idle"
<1> DEFINE v0 == "ERROR"
           v1 == "idle"
<1>1. pager'[c] = [pager[c] EXCEPT !.eState = v0, !.pc = v1] /\ Rest(c)
  BY PagerFields DEF PlaybackError, InError, Rest
<1>2. FieldsOK(pager[c]) /\ IsRecord(pager[c])
  BY PagerFields
<1>t0. v0 \in EState /\ v1 \in PCs /\ v1 = "idle"
  BY DEF EState, PCs
<1> HIDE DEF v0, v1
<1>3. Kept(pager[c], pager'[c], {"eState", "pc"}) /\ pager'[c].eState = v0 /\ pager'[c].pc = v1
  <2>1. IsRecord(pager'[c]) /\ \A f \in Fields \ {"eState", "pc"} : pager'[c][f] = pager[c][f]
    BY <1>1, <1>2 DEF IsRecord
  <2>2. pager'[c].eState = v0 /\ pager'[c].pc = v1
    BY <1>1, <1>2 DEF IsRecord, Fields
  <2> QED
    BY <2>1, <2>2 DEF Kept
<1>4. FieldsOK(pager'[c]) /\ IsRecord(pager'[c])
  BY <1>2, <1>3, <1>t0 DEF FieldsOK, Kept, Fields
<1>5. DbTypes' /\ jrnl' \in JournalSet
  BY DiskKept DEF PlaybackError
<1>6. lock' \in [Conn -> 0..4] /\ txid' \in Nat /\ faults' \in Nat
  BY DEF PlaybackError, Types, Fault
<1>7. Types'
  BY <1>1, <1>4, <1>5, <1>6, ConnTypes DEF PagerOK
<1> QED
  BY <1>1, <1>3, <1>7 DEF v0, v1

LEMMA JfileType ==
  ASSUME Types, NEW c \in Conn
  PROVE  Jfile(c) \in Seq(SlotSet) /\ Len(Jfile(c)) \in Nat
<1>1. pager[c].mem \in Seq(SlotSet) /\ jrnl.slot \in Seq(SlotSet)
  BY PagerFields, JournalType DEF FieldsOK, Types
<1>2. Jfile(c) \in Seq(SlotSet)
  BY <1>1 DEF Jfile
<1> QED
  BY <1>2

LEMMA NextSlotType ==
  ASSUME Types, NEW c \in Conn, pager[c].journalOff + 1 <= Len(Jfile(c))
  PROVE  NextSlot(c) \in SlotSet
<1>1. pager[c].journalOff \in Nat
  BY PagerFields DEF FieldsOK
<1> QED
  BY <1>1, JfileType DEF NextSlot

LEMMA StaleZeroedType ==
  ASSUME NEW s \in Seq(SlotSet), NEW i \in Nat \ {0}
  PROVE  /\ StaleZeroed(s, i) \in Seq(SlotSet) /\ Len(StaleZeroed(s, i)) = Len(s)
         /\ \A k \in 1..Len(s) : k # i => StaleZeroed(s, i)[k] = s[k]
         /\ i <= Len(s) /\ s[i].magic =>
              StaleZeroed(s, i)[i] = [s[i] EXCEPT !.magic = FALSE]
         /\ ~(i <= Len(s) /\ s[i].magic) => StaleZeroed(s, i) = s
<1>1. CASE i <= Len(s) /\ s[i].magic
  <2>1. s[i] \in SlotSet
    BY <1>1
  <2> DEFINE y == [s[i] EXCEPT !.magic = FALSE]
  <2>2. y \in SlotSet
    BY <2>1 DEF SlotSet
  <2>3. StaleZeroed(s, i) = [s EXCEPT ![i] = y]
    BY <1>1 DEF StaleZeroed
  <2> HIDE DEF y
  <2>4. /\ [s EXCEPT ![i] = y] \in Seq(SlotSet) /\ Len([s EXCEPT ![i] = y]) = Len(s)
        /\ [s EXCEPT ![i] = y][i] = y
        /\ \A k \in 1..Len(s) : k # i => [s EXCEPT ![i] = y][k] = s[k]
    BY <1>1, <2>2
  <2> QED
    BY <1>1, <2>3, <2>4 DEF y
<1>2. CASE ~(i <= Len(s) /\ s[i].magic)
  BY <1>2 DEF StaleZeroed
<1> QED
  BY <1>1, <1>2

LEMMA SyncRecordsJournal ==
  ASSUME Types, NEW c \in Conn, SyncRecords(c)
  PROVE  jrnl' \in JournalSet
<1> DEFINE next == pager[c].journalOff + 1
           zeroed == StaleZeroed(Jfile(c), next)
           file == IF pager[c].jfd = "real" /\ zeroed # jrnl.slot
                   THEN WriteSlot(jrnl, next, zeroed[next], {}) ELSE jrnl
<1>0. /\ next \in Nat \ {0} /\ Jfile(c) \in Seq(SlotSet) /\ jrnl \in JournalSet
  BY PagerFields, JfileType DEF FieldsOK, Types
<1>1. file \in JournalSet
  <2>1. CASE pager[c].jfd = "real" /\ zeroed # jrnl.slot
    <3>1. Jfile(c) = jrnl.slot
      BY <2>1 DEF Jfile
    <3> HIDE DEF next
    <3>2. next <= Len(jrnl.slot) /\ zeroed \in Seq(SlotSet) /\ Len(zeroed) = Len(jrnl.slot)
      BY ZenonT(60), <1>0, <2>1, <3>1, StaleZeroedType
    <3>3. zeroed[next] \in SlotSet
      BY <1>0, <3>2
    <3>4. file = WriteSlot(jrnl, next, zeroed[next], {})
      BY <2>1
    <3> HIDE DEF zeroed, file
    <3> QED
      BY <1>0, <3>3, <3>4, WriteSlotType
  <2> QED
    BY <1>0, <2>1
<1>2. jrnl' = IF pager[c].jfd = "real" /\ pager[c].fullSync /\ ~Sequential
              THEN Synced(file) ELSE file
  BY DEF SyncRecords
<1> HIDE DEF file
<1> QED
  BY <1>1, <1>2, SyncedType

\* A page number that the file does not have is no page of it.
LEMMA DbWriteAny ==
  ASSUME Types, NEW p \in Nat, NEW v \in Int, DbWrite(p, v)
  PROVE  DbTypes' /\ (p \notin Page => db' = db /\ dbAlt' = dbAlt)
<1>1. CASE p \in Page
  BY <1>1, DbWriteTypes
<1>2. CASE p \notin Page
  BY <1>2 DEF DbWrite, Types, DbTypes
<1> QED
  BY <1>1, <1>2

LEMMA PlaybackHeaderStep ==
  ASSUME Types, NEW c \in Conn, PlaybackHeader(c)
  PROVE  /\ Types' /\ Rest(c) /\ Kept(pager[c], pager'[c], {"journalOff", "id", "left", "pc",
            "dbSize"})
         /\ pager'[c].journalOff = pager[c].journalOff + 1
         /\ pager'[c].id = NextSlot(c).nonce
         /\ pager'[c].left = LeftOf(c)
         /\ pager'[c].pc = IF LeftOf(c) = 0 THEN "playback" ELSE "record"
         /\ pager'[c].dbSize = IF pager[c].journalOff = 0 THEN NextSlot(c).v ELSE pager[c].dbSize
<1> DEFINE v0 == pager[c].journalOff + 1
           v1 == NextSlot(c).nonce
           v2 == LeftOf(c)
           v3 == IF LeftOf(c) = 0 THEN "playback" ELSE "record"
           v4 == IF pager[c].journalOff = 0 THEN NextSlot(c).v ELSE pager[c].dbSize
<1>1. pager'[c] = [pager[c] EXCEPT !.journalOff = v0, !.id = v1, !.left = v2, !.pc = v3,
        !.dbSize = v4] /\ Rest(c)
  BY PagerFields DEF PlaybackHeader, NextSlot, LeftOf, Rest
<1>2. FieldsOK(pager[c]) /\ IsRecord(pager[c])
  BY PagerFields
<1>t0. NextSlot(c) \in SlotSet /\ NextSlot(c).nonce \in Nat /\ NextSlot(c).v \in Int
       /\ NextSlot(c).n \in Nat
  <2>1. NextSlot(c) \in SlotSet
    BY NextSlotType DEF PlaybackHeader, HeaderAt
  <2> QED
    BY <2>1, SlotType
<1>t1. LeftOf(c) \in Int
  BY <1>2, <1>t0, JfileType DEF LeftOf, FieldsOK
<1>t2. v0 \in Nat
  BY <1>2 DEF FieldsOK
<1>t3. v1 \in Nat /\ v2 \in Int
  BY <1>t0, <1>t1
<1>t4. v4 \in Int
  BY <1>2, <1>t0 DEF FieldsOK
<1>t5. v3 \in PCs /\ v3 \in {"playback", "record"}
  BY DEF PCs, UndoPCs
<1> HIDE DEF v0, v1, v2, v3, v4
<1>3. Kept(pager[c], pager'[c], {"journalOff", "id", "left", "pc", "dbSize"})
        /\ pager'[c].journalOff = v0 /\ pager'[c].id = v1 /\ pager'[c].left = v2
           /\ pager'[c].pc = v3 /\ pager'[c].dbSize = v4
  <2>1. IsRecord(pager'[c]) /\ \A f \in Fields \ {"journalOff", "id", "left", "pc", "dbSize"}
          : pager'[c][f] = pager[c][f]
    BY <1>1, <1>2 DEF IsRecord
  <2>2. pager'[c].journalOff = v0 /\ pager'[c].id = v1 /\ pager'[c].left = v2 /\ pager'[c].pc = v3
          /\ pager'[c].dbSize = v4
    BY <1>1, <1>2 DEF IsRecord, Fields
  <2> QED
    BY <2>1, <2>2 DEF Kept
<1>4. FieldsOK(pager'[c]) /\ IsRecord(pager'[c])
  BY <1>2, <1>3, <1>t0, <1>t1, <1>t2, <1>t3, <1>t4, <1>t5 DEF FieldsOK, Kept, Fields
<1>5. DbTypes' /\ jrnl' \in JournalSet
  <2>1. DbTypes'
    <3>1. DbTruncate(NextSlot(c).v) \/ UNCHANGED <<db, dbAlt>>
      BY DEF PlaybackHeader, NextSlot
    <3>2. NextSlot(c).v \in Int
      BY <1>t0
    <3>3. CASE DbTruncate(NextSlot(c).v)
      BY <3>2, <3>3, DbTruncateTypes
    <3>4. CASE UNCHANGED <<db, dbAlt>>
      BY <3>4 DEF Types, DbTypes
    <3> QED
      BY <3>1, <3>3, <3>4
  <2>2. jrnl' \in JournalSet
    BY  DEF Types, PlaybackHeader, NextSlot, LeftOf
  <2> QED
    BY <2>1, <2>2
<1>6. lock' \in [Conn -> 0..4] /\ txid' \in Nat /\ faults' \in Nat
  BY DEF PlaybackHeader, Types, Fault
<1>7. Types'
  BY <1>1, <1>4, <1>5, <1>6, ConnTypes DEF PagerOK
<1> QED
  BY <1>1, <1>3, <1>7 DEF v0, v1, v2, v3, v4

LEMMA PlaybackRecordStep ==
  ASSUME Types, NEW c \in Conn, PlaybackRecord(c)
  PROVE  /\ Types' /\ Rest(c) /\ Kept(pager[c], pager'[c], {"journalOff", "left", "pc", "cache",
            "dirty", "dbFileVers"})
         /\ pager'[c].journalOff = pager[c].journalOff + 1
         /\ pager'[c].left = pager[c].left - 1
         /\ pager'[c].pc = IF pager[c].left = 1 THEN "playback" ELSE "record"
         /\ pager'[c].cache = IF pager[c].eState = "OPEN" THEN NoCache
                             ELSE IF Applies(c)
                                 THEN [pager[c].cache EXCEPT ![NextSlot(c).n] = NextSlot(c).v]
                             ELSE pager[c].cache
         /\ pager'[c].dirty = IF Applies(c) THEN pager[c].dirty \ {NextSlot(c).n}
            ELSE pager[c].dirty
         /\ pager'[c].dbFileVers = IF Applies(c) /\ NextSlot(c).n = 1 THEN NextSlot(c).v
                                  ELSE pager[c].dbFileVers
<1> DEFINE v0 == pager[c].journalOff + 1
           v1 == pager[c].left - 1
           v2 == IF pager[c].left = 1 THEN "playback" ELSE "record"
           v3 == IF pager[c].eState = "OPEN" THEN NoCache
                             ELSE IF Applies(c)
                                 THEN [pager[c].cache EXCEPT ![NextSlot(c).n] = NextSlot(c).v]
                             ELSE pager[c].cache
           v4 == IF Applies(c) THEN pager[c].dirty \ {NextSlot(c).n} ELSE pager[c].dirty
           v5 == IF Applies(c) /\ NextSlot(c).n = 1 THEN NextSlot(c).v
                                  ELSE pager[c].dbFileVers
<1>1. pager'[c] = [pager[c] EXCEPT !.journalOff = v0, !.left = v1, !.pc = v2, !.cache = v3,
        !.dirty = v4, !.dbFileVers = v5] /\ Rest(c)
  BY ZenonT(60), PagerFields DEF PlaybackRecord, NextSlot, Applies, Rest
<1>2. FieldsOK(pager[c]) /\ IsRecord(pager[c])
  BY PagerFields
<1>t0. NextSlot(c) \in SlotSet /\ NextSlot(c).n \in Nat /\ NextSlot(c).v \in Int
  <2>1. NextSlot(c) \in SlotSet
    BY NextSlotType DEF PlaybackRecord
  <2> QED
    BY <2>1, SlotType
<1>t1. v0 \in Nat /\ v1 \in Int
  BY SMTT(30), <1>2 DEF FieldsOK
<1>t2. v2 \in PCs /\ v2 \in {"playback", "record"}
  BY DEF PCs, UndoPCs
<1>t3. v3 \in [Page -> Int]
  BY <1>2, <1>t0, Numbers DEF FieldsOK
<1>t4. v4 \in SUBSET Page
  BY <1>2 DEF FieldsOK
<1>t5. v5 \in Int
  BY <1>2, <1>t0 DEF FieldsOK
<1> HIDE DEF v0, v1, v2, v3, v4, v5
<1>3. Kept(pager[c], pager'[c], {"journalOff", "left", "pc", "cache", "dirty", "dbFileVers"})
        /\ pager'[c].journalOff = v0 /\ pager'[c].left = v1 /\ pager'[c].pc = v2
           /\ pager'[c].cache = v3 /\ pager'[c].dirty = v4 /\ pager'[c].dbFileVers = v5
  <2>1. IsRecord(pager'[c]) /\ \A f \in Fields \ {"journalOff", "left", "pc", "cache", "dirty",
          "dbFileVers"} : pager'[c][f] = pager[c][f]
    BY <1>1, <1>2 DEF IsRecord
  <2>2. pager'[c].journalOff = v0 /\ pager'[c].left = v1 /\ pager'[c].pc = v2
          /\ pager'[c].cache = v3 /\ pager'[c].dirty = v4 /\ pager'[c].dbFileVers = v5
    BY <1>1, <1>2 DEF IsRecord, Fields
  <2> QED
    BY <2>1, <2>2 DEF Kept
<1>4. FieldsOK(pager'[c]) /\ IsRecord(pager'[c])
  BY <1>2, <1>3, <1>t0, <1>t1, <1>t2, <1>t3, <1>t4, <1>t5 DEF FieldsOK, Kept, Fields
<1>5. DbTypes' /\ jrnl' \in JournalSet
  <2>1. DbTypes'
    BY <1>t0, DbWriteAny DEF PlaybackRecord, NextSlot, Types, DbTypes
  <2>2. jrnl' \in JournalSet
    BY  DEF Types, PlaybackRecord, NextSlot, Applies
  <2> QED
    BY <2>1, <2>2
<1>6. lock' \in [Conn -> 0..4] /\ txid' \in Nat /\ faults' \in Nat
  BY DEF PlaybackRecord, Types, Fault
<1>7. Types'
  BY <1>1, <1>4, <1>5, <1>6, ConnTypes DEF PagerOK
<1> QED
  BY SMTT(30), <1>1, <1>3, <1>7 DEF v0, v1, v2, v3, v4, v5

LEMMA SyncRecordsStep ==
  ASSUME Types, NEW c \in Conn, SyncRecords(c)
  PROVE  /\ Types' /\ Rest(c) /\ Kept(pager[c], pager'[c], {"pc", "mem"})
         /\ pager'[c].pc = "sync3"
         /\ pager'[c].mem = IF pager[c].jfd = "real" THEN pager[c].mem
                           ELSE StaleZeroed(Jfile(c), pager[c].journalOff + 1)
<1> DEFINE v0 == "sync3"
           v1 == IF pager[c].jfd = "real" THEN pager[c].mem
                           ELSE StaleZeroed(Jfile(c), pager[c].journalOff + 1)
<1>1. pager'[c] = [pager[c] EXCEPT !.pc = v0, !.mem = v1] /\ Rest(c)
  BY PagerFields DEF SyncRecords, Rest
<1>2. FieldsOK(pager[c]) /\ IsRecord(pager[c])
  BY PagerFields
<1>t0. v0 \in PCs /\ v0 = "sync3"
  BY DEF PCs, SyncPCs
<1>t1. pager[c].journalOff + 1 \in Nat \ {0}
  BY SMTT(30), <1>2 DEF FieldsOK
<1>t2. StaleZeroed(Jfile(c), pager[c].journalOff + 1) \in Seq(SlotSet)
  BY <1>t1, JfileType, StaleZeroedType
<1>t3. v1 \in Seq(SlotSet)
  BY <1>2, <1>t2 DEF FieldsOK
<1> HIDE DEF v0, v1
<1>3. Kept(pager[c], pager'[c], {"pc", "mem"}) /\ pager'[c].pc = v0 /\ pager'[c].mem = v1
  <2>1. IsRecord(pager'[c]) /\ \A f \in Fields \ {"pc", "mem"} : pager'[c][f] = pager[c][f]
    BY <1>1, <1>2 DEF IsRecord
  <2>2. pager'[c].pc = v0 /\ pager'[c].mem = v1
    BY <1>1, <1>2 DEF IsRecord, Fields
  <2> QED
    BY <2>1, <2>2 DEF Kept
<1>4. FieldsOK(pager'[c]) /\ IsRecord(pager'[c])
  BY <1>2, <1>3, <1>t0, <1>t1, <1>t2, <1>t3 DEF FieldsOK, Kept, Fields
<1>5. DbTypes' /\ jrnl' \in JournalSet
  <2>1. DbTypes'
    BY DEF SyncRecords, Types, DbTypes
  <2>2. jrnl' \in JournalSet
    BY SyncRecordsJournal DEF Types, SyncRecords
  <2> QED
    BY <2>1, <2>2
<1>6. lock' \in [Conn -> 0..4] /\ txid' \in Nat /\ faults' \in Nat
  BY DEF SyncRecords, Types, Fault
<1>7. Types'
  BY <1>1, <1>4, <1>5, <1>6, ConnTypes DEF PagerOK
<1> QED
  BY <1>1, <1>3, <1>7 DEF v0, v1

LEMMA UnlinkedStep ==
  ASSUME Types, NEW c \in Conn, NEW Q, pager' = [Unlinked(c, jrnl') EXCEPT ![c] = Q]
  PROVE  Severed(c) /\ pager'[c] = Q
<1>1. /\ pager' = [d \in Conn |-> pager'[d]] /\ pager'[c] = Q
      /\ \A d \in Conn \ {c} : pager'[d] = Unlinked(c, jrnl')[d]
  BY DEF Unlinked
<1>2. ASSUME NEW d \in Conn \ {c}, pager'[d] # pager[d]
      PROVE  /\ pager[d].jfd = "real" /\ jrnl.exists /\ ~jrnl'.exists
             /\ PagerOK(pager'[d]) /\ Kept(pager[d], pager'[d], {"jfd", "mem"})
             /\ pager'[d].jfd = "gone"
  <2>1. pager[d].jfd = "real" /\ jrnl.exists /\ ~jrnl'.exists
    BY <1>1, <1>2 DEF Unlinked
  <2> DEFINE m == jrnl.slot
  <2>2. pager'[d] = [pager[d] EXCEPT !.jfd = "gone", !.mem = m]
    BY <1>1, <2>1 DEF Unlinked
  <2>3. m \in Seq(SlotSet) /\ IsRecord(pager[d]) /\ "gone" \in Jfds /\ PagerOK(pager[d])
    BY JournalType, PagerFields DEF Types, Jfds
  <2> HIDE DEF m
  <2>4. Kept(pager[d], pager'[d], {"jfd", "mem"})
    BY <2>2, <2>3 DEF IsRecord, Kept
  <2>5. pager'[d].jfd = "gone" /\ pager'[d].mem = m
    <3> DEFINE P == pager[d]
               R == [P EXCEPT !.jfd = "gone", !.mem = m]
    <3>1. IsRecord(P)
      BY <2>3
    <3> HIDE DEF P
    <3>2. R.jfd = "gone" /\ R.mem = m
      BY <3>1 DEF IsRecord, Fields
    <3> QED
      BY <2>2, <3>2 DEF P
  <2>6. PagerOK(pager'[d])
    BY <2>3, <2>4, <2>5, MemFields
  <2> QED
    BY <2>1, <2>4, <2>5, <2>6
<1> QED
  BY SMTT(30), <1>1, <1>2 DEF Severed

LEMMA SeveredTypes ==
  ASSUME Types, NEW c \in Conn, Severed(c), PagerOK(pager'[c]), DbTypes', jrnl' \in JournalSet,
         lock' \in [Conn -> 0..4], txid' \in Nat, faults' \in Nat
  PROVE  Types'
<1>1. \A d \in Conn : PagerOK(pager[d])
  BY DEF Types
<1>2. ASSUME NEW d \in Conn PROVE PagerOK(pager'[d])
  BY <1>1 DEF Severed
<1>3. pager' = [d \in Conn |-> pager'[d]]
  BY DEF Severed
<1> QED
  BY <1>2, <1>3 DEF Types

LEMMA HotDeleteStep ==
  ASSUME Types, NEW c \in Conn, HotDelete(c)
  PROVE  /\ Types' /\ Severed(c) /\ Kept(pager[c], pager'[c], {"pc"}) /\ pager'[c].pc = "vers"
<1> DEFINE Q == [pager[c] EXCEPT !.pc = "vers"]
<1>1. pager' = [Unlinked(c, jrnl') EXCEPT ![c] = Q]
  <2>1. Unlinked(c, jrnl')[c] = pager[c]
    BY DEF Unlinked
  <2> QED
    BY <2>1 DEF HotDelete
<1>2. FieldsOK(pager[c]) /\ IsRecord(pager[c])
  BY PagerFields
<1>3. Kept(pager[c], Q, {"pc"}) /\ Q.pc = "vers"
  <2>1. Kept(pager[c], Q, {"pc"})
    BY <1>2 DEF Kept, IsRecord
  <2>2. Q.pc = "vers"
    BY <1>2 DEF IsRecord, Fields
  <2> QED
    BY <2>1, <2>2
<1> HIDE DEF Q
<1>4. Severed(c) /\ pager'[c] = Q
  BY <1>1, UnlinkedStep
<1>5. "vers" \in PCs
  BY DEF PCs, HotPCs
<1>6. FieldsOK(Q) /\ IsRecord(Q)
  BY <1>2, <1>3, <1>5 DEF FieldsOK, Kept, Fields
<1>7. /\ DbTypes' /\ jrnl' \in JournalSet /\ lock' \in [Conn -> 0..4] /\ txid' \in Nat
      /\ faults' \in Nat
  BY NoJournalType DEF HotDelete, Types, DbTypes
<1>8. Types'
  BY <1>4, <1>6, <1>7, SeveredTypes DEF PagerOK
<1> QED
  BY <1>3, <1>4, <1>8

LEMMA FinalizedType ==
  ASSUME Types, NEW c \in Conn
  PROVE  Finalized(c) \in JournalSet
<1>1. jrnl \in JournalSet
  BY DEF Types
<1>2. [exists |-> TRUE, slot |-> <<>>, alt |-> <<>>] \in JournalSet /\ NoJournal \in JournalSet
  BY NoJournalType
<1>3. Header(FALSE, 0, 0, 0) \in SlotSet
  BY DEF Header, SlotSet
<1>4. WriteSlot(jrnl, 1, Header(FALSE, 0, 0, 0), {}) \in JournalSet
  <2>1. 1 \in Nat \ {0} /\ {} \in SUBSET SlotSet
    OBVIOUS
  <2> QED
    BY <1>1, <1>3, <2>1, WriteSlotType
<1>5. Synced(WriteSlot(jrnl, 1, Header(FALSE, 0, 0, 0), {})) \in JournalSet
  BY <1>4, SyncedType
<1> QED
  BY <1>1, <1>2, <1>5 DEF Finalized

LEMMA FinalizedMemType ==
  ASSUME NEW P, FieldsOK(P)
  PROVE  FinalizedMem(P) \in Seq(SlotSet)
<1>1. P.mem \in Seq(SlotSet)
  BY DEF FieldsOK
<1>2. Header(FALSE, 0, 0, 0) \in SlotSet
  BY DEF Header, SlotSet
<1> DEFINE h == Header(FALSE, 0, 0, 0)
<1>3. P.mem # <<>> => [P.mem EXCEPT ![1] = h] \in Seq(SlotSet)
  <2> HIDE DEF h
  <2>1. h \in SlotSet
    BY <1>2 DEF h
  <2>2. P.mem # <<>> => 1 <= Len(P.mem)
    BY <1>1
  <2> QED
    BY <1>1, <2>1, <2>2
<1>4. <<>> \in Seq(SlotSet)
  OBVIOUS
<1>5. \/ FinalizedMem(P) \in {P.mem, <<>>}
      \/ P.mem # <<>> /\ FinalizedMem(P) = [P.mem EXCEPT ![1] = h]
  <2> HIDE DEF h
  <2> QED
    BY DEF FinalizedMem, h
<1> HIDE DEF h
<1> QED
  BY <1>1, <1>3, <1>4, <1>5

LEMMA FinalizeStep ==
  ASSUME Types, NEW c \in Conn, Finalize(c)
  PROVE  /\ Types' /\ Severed(c) /\ Kept(pager[c], pager'[c], {"pc", "mem"})
         /\ pager'[c].pc = "unlock" /\ pager'[c].mem = FinalizedMem(pager[c])
<1> DEFINE m == FinalizedMem(pager[c])
           Q == [pager[c] EXCEPT !.pc = "unlock", !.mem = m]
<1>1. pager' = [Unlinked(c, jrnl') EXCEPT ![c] = Q]
  <2>1. Unlinked(c, jrnl')[c] = pager[c]
    BY DEF Unlinked
  <2> QED
    BY <2>1 DEF Finalize
<1>2. FieldsOK(pager[c]) /\ IsRecord(pager[c])
  BY PagerFields
<1>2a. m \in Seq(SlotSet)
  BY <1>2, FinalizedMemType
<1> HIDE DEF m
<1>3. Kept(pager[c], Q, {"pc", "mem"}) /\ Q.pc = "unlock" /\ Q.mem = m
  <2>1. Kept(pager[c], Q, {"pc", "mem"})
    BY <1>2 DEF Kept, IsRecord
  <2>2. Q.pc = "unlock" /\ Q.mem = m
    BY <1>2 DEF IsRecord, Fields
  <2> QED
    BY <2>1, <2>2
<1> HIDE DEF Q
<1>4. Severed(c) /\ pager'[c] = Q
  BY <1>1, UnlinkedStep
<1>5. "unlock" \in PCs
  BY DEF PCs, UndoPCs
<1>6. FieldsOK(Q) /\ IsRecord(Q)
  BY <1>2, <1>2a, <1>3, <1>5 DEF FieldsOK, Kept, Fields
<1>7. /\ DbTypes' /\ jrnl' \in JournalSet /\ lock' \in [Conn -> 0..4] /\ txid' \in Nat
      /\ faults' \in Nat
  BY FinalizedType DEF Finalize, Types, DbTypes
<1>8. Types'
  BY <1>4, <1>6, <1>7, SeveredTypes DEF PagerOK
<1> QED
  BY <1>3, <1>4, <1>8 DEF m

LEMMA InErrorFields ==
  ASSUME NEW P, PagerOK(P)
  PROVE  /\ PagerOK(InError(P)) /\ Kept(P, InError(P), {"eState", "pc"})
         /\ InError(P).eState = "ERROR" /\ InError(P).pc = "idle"
<1> DEFINE Q == InError(P)
<1>1. IsRecord(P) /\ FieldsOK(P)
  BY DEF PagerOK
<1>2. Kept(P, Q, {"eState", "pc"})
  BY <1>1 DEF Kept, IsRecord, InError
<1>3. Q.eState = "ERROR" /\ Q.pc = "idle"
  BY <1>1 DEF IsRecord, Fields, InError
<1> HIDE DEF Q
<1>4. FieldsOK(Q) /\ IsRecord(Q)
  BY <1>1, <1>2, <1>3 DEF FieldsOK, Kept, Fields, PCs, EState
<1> QED
  BY <1>2, <1>3, <1>4 DEF PagerOK, Q

LEMMA FailedFields ==
  ASSUME NEW P, PagerOK(P)
  PROVE  PagerOK(Failed(P)) /\ Kept(P, Failed(P), {"pc"}) /\ Failed(P).pc = "abort"
<1> DEFINE Q == Failed(P)
<1>1. IsRecord(P) /\ FieldsOK(P)
  BY DEF PagerOK
<1>2. Kept(P, Q, {"pc"})
  BY <1>1 DEF Kept, IsRecord, Failed
<1>3. Q.pc = "abort"
  BY <1>1 DEF IsRecord, Fields, Failed
<1> HIDE DEF Q
<1>4. FieldsOK(Q) /\ IsRecord(Q)
  BY <1>1, <1>2, <1>3 DEF FieldsOK, Kept, Fields, PCs
<1> QED
  BY <1>2, <1>3, <1>4 DEF PagerOK, Q

LEMMA FinalizeErrorStep ==
  ASSUME Types, NEW c \in Conn, FinalizeError(c)
  PROVE  /\ Types' /\ Severed(c) /\ jrnl' \in {jrnl, Finalized(c)}
         /\ pager'[c] = IF pager[c].eState = "OPEN" THEN Closed(pager[c], TRUE)
                        ELSE InError(pager[c])
<1> DEFINE Q == IF pager[c].eState = "OPEN" THEN Closed(pager[c], TRUE) ELSE InError(pager[c])
<1>1. pager' = [Unlinked(c, jrnl') EXCEPT ![c] = Q]
  <2>1. Unlinked(c, jrnl')[c] = pager[c]
    BY DEF Unlinked
  <2> QED
    BY <2>1 DEF FinalizeError
<1>2. PagerOK(pager[c])
  BY PagerFields
<1>3. PagerOK(Q)
  BY <1>2, ClosedFields, InErrorFields
<1> HIDE DEF Q
<1>4. Severed(c) /\ pager'[c] = Q
  BY <1>1, UnlinkedStep
<1>7. /\ DbTypes' /\ jrnl' \in JournalSet /\ lock' \in [Conn -> 0..4] /\ txid' \in Nat
      /\ faults' \in Nat
  BY FinalizedType, Levels DEF FinalizeError, Types, DbTypes, Fault
<1>8. Types'
  BY <1>3, <1>4, <1>7, SeveredTypes
<1> QED
  BY <1>4, <1>8 DEF Q, FinalizeError

LEMMA TruncatedType ==
  ASSUME NEW k \in [Page -> Int], NEW n \in Int
  PROVE  /\ Truncated(k, n) \in [Page -> Int]
         /\ \A p \in Page : p <= n => Truncated(k, n)[p] = k[p]
         /\ \A p \in Page : p > n /\ p # 1 => Truncated(k, n)[p] = NotCached
         /\ 1 > n => Truncated(k, n)[1] = IF k[1] # NotCached THEN 0 ELSE NotCached
<1> DEFINE v(p) == CASE p <= n -> k[p]
                     [] p > n /\ p = 1 /\ k[1] # NotCached -> 0
                     [] OTHER -> NotCached
<1>1. ASSUME NEW p \in Page
      PROVE  /\ v(p) \in Int /\ (p <= n => v(p) = k[p])
             /\ (p > n /\ p # 1 => v(p) = NotCached)
             /\ (1 > n /\ p = 1 => v(p) = IF k[1] # NotCached THEN 0 ELSE NotCached)
  <2>0. p \in Int /\ k[p] \in Int /\ NotCached \in Int
    BY Numbers
  <2>1. CASE p <= n
    BY <2>0, <2>1
  <2>2. CASE p > n /\ p = 1 /\ k[1] # NotCached
    BY <2>0, <2>2
  <2>3. CASE p > n /\ ~(p = 1 /\ k[1] # NotCached)
    BY <2>0, <2>3
  <2> QED
    BY <2>0, <2>1, <2>2, <2>3
<1>2. Truncated(k, n) = [p \in Page |-> v(p)]
  BY DEF Truncated
<1> HIDE DEF v
<1> QED
  BY <1>1, <1>2, Numbers

LEMMA EndTransactionStep ==
  ASSUME Types, NEW c \in Conn, EndTransaction(c)
  PROVE  /\ Types' /\ Rest(c)
         /\ Kept(pager[c], pager'[c], {"dirty", "dbOrigSize", "journalOff", "journalHdr",
            "ownHdr",
                 "nRec", "inJournal", "needSync", "id", "pg", "left", "spills",
                 "eState", "pc", "jfd", "cache"})
         /\ pager'[c].eState = IF pager[c].eState = "OPEN" THEN "OPEN" ELSE "READER"
         /\ pager'[c].pc = IF pager[c].eState = "OPEN" THEN "vers" ELSE "idle"
         /\ pager'[c].jfd = IF pager[c].journalMode = "DELETE" THEN "closed" ELSE pager[c].jfd
         /\ pager'[c].cache = Truncated(pager[c].cache, pager[c].dbSize)
         /\ pager'[c].journalOff = 0
<1> DEFINE P == pager[c]
           R == Cleared(P)
           v1 == IF P.eState = "OPEN" THEN "OPEN" ELSE "READER"
           v2 == IF P.eState = "OPEN" THEN "vers" ELSE "idle"
           v3 == IF P.journalMode = "DELETE" THEN "closed" ELSE R.jfd
           v4 == Truncated(R.cache, P.dbSize)
           Q == [R EXCEPT !.eState = v1, !.pc = v2, !.jfd = v3, !.cache = v4]
<1>0. FieldsOK(P) /\ IsRecord(P)
  BY PagerFields
<1>1. pager' = [pager EXCEPT ![c] = Q]
  BY DEF EndTransaction
<1>2. Kept(P, R, {"dirty", "dbOrigSize", "journalOff", "journalHdr", "ownHdr",
                 "nRec", "inJournal", "needSync", "id", "pg", "left", "spills"})
  BY <1>0 DEF Kept, IsRecord, Cleared
<1>3. /\ R.dirty = {} /\ R.dbOrigSize = 0 /\ R.journalOff = 0 /\ R.journalHdr = 0
      /\ R.ownHdr = NoHeader /\ R.nRec = 0 /\ R.inJournal = {} /\ R.needSync = {} /\ R.id = 0
      /\ R.pg = 0 /\ R.left = 0 /\ R.spills = 0
  BY <1>0 DEF Cleared, IsRecord, Fields
<1> HIDE DEF P, R
<1>4. R.jfd = P.jfd /\ R.cache = P.cache /\ IsRecord(R)
  BY <1>2 DEF Kept, Fields
<1>5. v1 \in EState /\ v2 \in PCs /\ v2 \in {"vers", "idle"}
  BY DEF EState, PCs, HotPCs
<1>6. v3 \in Jfds
  BY <1>0, <1>4 DEF FieldsOK, Jfds
<1>7. v4 \in [Page -> Int]
  BY <1>0, <1>4, TruncatedType DEF FieldsOK
<1> HIDE DEF v1, v2, v3, v4
<1>8. Kept(R, Q, {"eState", "pc", "jfd", "cache"})
  BY <1>4 DEF Kept, IsRecord
<1>9. Q.eState = v1 /\ Q.pc = v2 /\ Q.jfd = v3 /\ Q.cache = v4
  BY <1>4 DEF IsRecord, Fields
<1> HIDE DEF Q
<1>10. FieldsOK(Q) /\ IsRecord(Q)
  <2>1. /\ Q.journalMode = P.journalMode /\ Q.fullSync = P.fullSync /\ Q.dbSize = P.dbSize
        /\ Q.dbFileVers = P.dbFileVers /\ Q.mem = P.mem
    BY <1>2, <1>8 DEF Kept, Fields
  <2>2. /\ Q.dirty = {} /\ Q.dbOrigSize = 0 /\ Q.journalOff = 0 /\ Q.journalHdr = 0
        /\ Q.ownHdr = NoHeader /\ Q.nRec = 0 /\ Q.inJournal = {} /\ Q.needSync = {} /\ Q.id = 0
        /\ Q.pg = 0 /\ Q.left = 0 /\ Q.spills = 0
    BY <1>3, <1>8 DEF Kept, Fields
  <2>3. IsRecord(Q)
    BY <1>8 DEF Kept
  <2> QED
    BY <1>0, <1>5, <1>6, <1>7, <1>9, <2>1, <2>2, <2>3, Numbers DEF FieldsOK
<1>11. Rest(c) /\ pager'[c] = Q
  BY <1>1, AssignedRest
<1>12. DbTypes' /\ jrnl' \in JournalSet
  BY DiskKept DEF EndTransaction
<1>13. lock' \in [Conn -> 0..4] /\ txid' \in Nat /\ faults' \in Nat
  BY Levels DEF EndTransaction, Types
<1>14. Types'
  BY <1>10, <1>11, <1>12, <1>13, ConnTypes DEF PagerOK
<1>15. Kept(P, Q, {"dirty", "dbOrigSize", "journalOff", "journalHdr", "ownHdr",
                 "nRec", "inJournal", "needSync", "id", "pg", "left", "spills",
                 "eState", "pc", "jfd", "cache"})
  BY <1>2, <1>8 DEF Kept
<1>16. Q.journalOff = 0
  BY <1>3, <1>8 DEF Kept, Fields
<1> QED
  BY <1>4, <1>9, <1>11, <1>14, <1>15, <1>16 DEF v1, v2, v3, v4, P

LEMMA RestartedFields ==
  ASSUME NEW P, FieldsOK(P)
  PROVE  LET Q == Restarted(P)
         IN  /\ PagerOK(Q) /\ Q.eState = "OPEN" /\ Q.pc = "idle" /\ Q.jfd = "closed"
             /\ Q.mem = <<>> /\ Q.cache = NoCache /\ Q.journalMode = P.journalMode
             /\ Q.fullSync = P.fullSync /\ Q.journalOff = 0
<1> DEFINE Q == Restarted(P)
<1>1. IsRecord(Q)
  BY DEF Restarted, NewPager, IsRecord, Fields
<1>2. /\ Q.eState = "OPEN" /\ Q.pc = "idle" /\ Q.jfd = "closed"
      /\ Q.mem = <<>> /\ Q.cache = NoCache /\ Q.journalMode = P.journalMode
      /\ Q.fullSync = P.fullSync /\ Q.dirty = {} /\ Q.dbFileVers = 0 /\ Q.dbSize = 0
      /\ Q.dbOrigSize = 0 /\ Q.journalOff = 0 /\ Q.journalHdr = 0 /\ Q.ownHdr = NoHeader
      /\ Q.nRec = 0 /\ Q.inJournal = {} /\ Q.needSync = {} /\ Q.id = 0 /\ Q.pg = 0
      /\ Q.left = 0 /\ Q.spills = 0
  BY DEF Restarted, NewPager
<1> HIDE DEF Q
<1>3. <<>> \in Seq(SlotSet)
  OBVIOUS
<1>4. FieldsOK(Q)
  BY <1>2, <1>3, Numbers DEF FieldsOK, PCs, EState, Jfds
<1> QED
  BY <1>1, <1>2, <1>4 DEF PagerOK, Q

LEMMA CrashStep ==
  ASSUME Types, NEW c \in Conn, Crash(c)
  PROVE  /\ Types'
         /\ \A d \in Conn : \/ pager'[d] = Restarted(pager[d]) /\ lock'[d] = NO_LOCK
                            \/ pager'[d] = pager[d] /\ lock'[d] = lock[d] /\ d # c
         /\ OneProcess => \A d \in Conn : pager'[d] = Restarted(pager[d]) /\ lock'[d] = NO_LOCK
         /\ UNCHANGED <<disk, txid>>
<1> DEFINE dead == IF OneProcess THEN Conn ELSE {c}
<1>1. /\ lock' = [d \in Conn |-> IF d \in dead THEN NO_LOCK ELSE lock[d]]
      /\ pager' = [d \in Conn |-> IF d \in dead THEN Restarted(pager[d]) ELSE pager[d]]
      /\ UNCHANGED <<disk, txid>> /\ faults' \in Nat
  BY DEF Crash, Fault, Types
<1>2. c \in dead /\ (OneProcess => dead = Conn)
  OBVIOUS
<1> HIDE DEF dead
<1>3. \A d \in Conn : PagerOK(pager[d]) /\ PagerOK(Restarted(pager[d]))
  BY PagerFields, RestartedFields
<1>4. ASSUME NEW d \in Conn PROVE PagerOK(pager'[d])
  BY <1>1, <1>3
<1>5. pager' = [d \in Conn |-> pager'[d]]
  BY <1>1
<1>6. lock' \in [Conn -> 0..4]
  BY <1>1, Levels DEF Types
<1>7. DbTypes' /\ jrnl' \in JournalSet /\ txid' \in Nat
  BY <1>1, DiskKept DEF Types
<1>8. Types'
  BY <1>1, <1>4, <1>5, <1>6, <1>7 DEF Types
<1> QED
  BY <1>1, <1>2, <1>8

LEMMA SeqOf ==
  ASSUME NEW T, NEW n \in Nat, NEW s, s = [i \in 1..n |-> s[i]], \A i \in 1..n : s[i] \in T
  PROVE  s \in Seq(T) /\ Len(s) = n
<1>1. s \in [1..n -> T]
  OBVIOUS
<1>2. s \in Seq(T)
  BY <1>1
<1>3. Len(s) = n
  BY <1>1, <1>2
<1> QED
  BY <1>2, <1>3

LEMMA LeftType ==
  ASSUME NEW T, NEW alt, NEW file, DOMAIN alt = DOMAIN file,
         \A i \in DOMAIN file : file[i] \in alt[i] /\ alt[i] \in SUBSET T,
         NEW f \in Choices(alt, Unsynced(alt))
  PROVE  /\ DOMAIN Left(f, file) = DOMAIN file
         /\ \A i \in DOMAIN file : Left(f, file)[i] \in alt[i] /\ Left(f, file)[i] \in T
<1>1. DOMAIN f = Unsynced(alt) /\ \A i \in Unsynced(alt) : f[i] \in alt[i]
  BY DEF Choices
<1>2. Left(f, file) = [i \in DOMAIN file |-> IF i \in DOMAIN f THEN f[i] ELSE file[i]]
  BY DEF Left
<1> QED
  BY <1>1, <1>2

LEMMA PowerLossStep ==
  ASSUME Types, PowerLoss
  PROVE  /\ Types'
         /\ \A d \in Conn : pager'[d] = Restarted(pager[d]) /\ lock'[d] = NO_LOCK
         /\ \A p \in Page : db'[p] \in dbAlt[p] /\ dbAlt'[p] = {db'[p]}
         /\ (jrnl'.exists <=> jrnl.exists) /\ Len(jrnl'.slot) = Len(jrnl.slot)
         /\ \A i \in 1..Len(jrnl.slot) : /\ jrnl'.slot[i] \in jrnl.alt[i]
                                         /\ jrnl'.alt[i] = {jrnl'.slot[i]}
         /\ UNCHANGED txid
<1>1. /\ lock' = [c \in Conn |-> NO_LOCK] /\ pager' = [c \in Conn |-> Restarted(pager[c])]
      /\ faults' \in Nat /\ UNCHANGED txid
  BY DEF PowerLoss, Fault, Types
<1>2. PICK f \in Choices(dbAlt, Unsynced(dbAlt)) :
        db' = Left(f, db) /\ dbAlt' = [p \in Page |-> {db'[p]}]
  BY DEF PowerLoss
<1>3. PICK g \in Choices(jrnl.alt, Unsynced(jrnl.alt)) :
        jrnl' = Synced([jrnl EXCEPT !.slot = Left(g, jrnl.slot)])
  BY DEF PowerLoss
<1>4. /\ db \in [Page -> Int] /\ dbAlt \in [Page -> SUBSET Int]
      /\ \A p \in Page : db[p] \in dbAlt[p]
  BY DEF Types, DbTypes
<1>5. DOMAIN db' = Page /\ \A p \in Page : db'[p] \in dbAlt[p] /\ db'[p] \in Int
  <2>1. DOMAIN dbAlt = DOMAIN db /\ DOMAIN db = Page
    BY <1>4
  <2>2. \A p \in DOMAIN db : db[p] \in dbAlt[p] /\ dbAlt[p] \in SUBSET Int
    BY <1>4
  <2>3. /\ DOMAIN Left(f, db) = DOMAIN db
        /\ \A i \in DOMAIN db : Left(f, db)[i] \in dbAlt[i] /\ Left(f, db)[i] \in Int
    BY <1>2, <2>1, <2>2, LeftType
  <2> QED
    BY <1>2, <2>1, <2>3
<1>6. DbTypes' /\ \A p \in Page : dbAlt'[p] = {db'[p]}
  <2>1. db' = [p \in Page |-> db'[p]]
    BY <1>2, <1>4 DEF Left
  <2>2. db' \in [Page -> Int]
    BY <1>5, <2>1
  <2>3. dbAlt' \in [Page -> SUBSET Int] /\ \A p \in Page : dbAlt'[p] = {db'[p]}
    BY <1>2, <1>5
  <2> QED
    BY <2>2, <2>3 DEF DbTypes
<1>7. /\ jrnl.exists \in BOOLEAN /\ jrnl.slot \in Seq(SlotSet) /\ jrnl.alt \in Seq(SUBSET SlotSet)
      /\ Len(jrnl.alt) = Len(jrnl.slot) /\ Len(jrnl.slot) \in Nat /\ jrnl \in JournalSet
      /\ \A i \in 1..Len(jrnl.slot) :
           /\ jrnl.slot[i] \in jrnl.alt[i] /\ jrnl.alt[i] \in SUBSET SlotSet
  BY JournalType DEF Types
<1> DEFINE s == Left(g, jrnl.slot)
           k == [jrnl EXCEPT !.slot = s]
<1>8. /\ s \in Seq(SlotSet) /\ Len(s) = Len(jrnl.slot)
      /\ \A i \in 1..Len(jrnl.slot) : s[i] \in jrnl.alt[i] /\ s[i] \in SlotSet
  <2>1. DOMAIN jrnl.alt = DOMAIN jrnl.slot /\ DOMAIN jrnl.slot = 1..Len(jrnl.slot)
    BY <1>7
  <2>2. \A i \in DOMAIN jrnl.slot : jrnl.slot[i] \in jrnl.alt[i] /\ jrnl.alt[i] \in SUBSET SlotSet
    BY <1>7, <2>1
  <2>3. /\ DOMAIN s = DOMAIN jrnl.slot
        /\ \A i \in DOMAIN jrnl.slot : s[i] \in jrnl.alt[i] /\ s[i] \in SlotSet
    BY <1>3, <2>1, <2>2, LeftType
  <2>4. s = [i \in 1..Len(jrnl.slot) |-> s[i]]
    BY <2>1 DEF Left
  <2> HIDE DEF s
  <2>5. s \in Seq(SlotSet) /\ Len(s) = Len(jrnl.slot)
    BY ZenonT(60), <1>7, <2>1, <2>3, <2>4, SeqOf
  <2> QED
    BY <2>1, <2>3, <2>5
<1> HIDE DEF s
<1>9. /\ k \in JournalSet /\ (k.exists <=> jrnl.exists) /\ k.slot = s
  BY <1>7, <1>8 DEF JournalSet
<1>10. jrnl' = Synced(k)
  BY <1>3 DEF s
<1> HIDE DEF k
<1>11. /\ jrnl' \in JournalSet /\ (jrnl'.exists <=> jrnl.exists) /\ jrnl'.slot = s
       /\ \A i \in 1..Len(jrnl.slot) : jrnl'.alt[i] = {s[i]}
  BY <1>8, <1>9, <1>10, SyncedType
<1>12. \A d \in Conn : PagerOK(pager'[d])
  BY <1>1, PagerFields, RestartedFields
<1>13. pager' = [d \in Conn |-> pager'[d]] /\ lock' \in [Conn -> 0..4]
  BY <1>1, Levels
<1>14. Types'
  BY <1>1, <1>6, <1>11, <1>12, <1>13 DEF Types
<1> QED
  BY <1>1, <1>5, <1>6, <1>8, <1>11, <1>14

LEMMA InitTypes ==
  ASSUME Init
  PROVE  Types
<1>1. PICK n \in InitSizes : db = [p \in Page |-> IF p <= n THEN 1 ELSE 0]
  BY DEF Init
<1>2. DbTypes
  BY <1>1 DEF Init, DbTypes
<1>3. PICK mode \in [Conn -> JournalModes], full \in [Conn -> FullSyncs] :
        pager = [c \in Conn |-> NewPager(mode[c], full[c])]
  BY DEF Init
<1>4. ASSUME NEW c \in Conn PROVE PagerOK(pager[c])
  <2> DEFINE Q == NewPager(mode[c], full[c])
             m == mode[c]
             u == full[c]
  <2>1. /\ mode[c] \in JournalModes /\ full[c] \in FullSyncs
        /\ mode[c] \in {"DELETE", "TRUNCATE", "PERSIST"} /\ full[c] \in BOOLEAN
    BY PagerAssumption
  <2> HIDE DEF m, u
  <2>2. IsRecord(Q)
    BY DEF NewPager, IsRecord, Fields
  <2>3. /\ Q.eState = "OPEN" /\ Q.pc = "idle" /\ Q.jfd = "closed"
        /\ Q.mem = <<>> /\ Q.cache = NoCache /\ Q.journalMode = mode[c]
        /\ Q.fullSync = full[c] /\ Q.dirty = {} /\ Q.dbFileVers = 0 /\ Q.dbSize = 0
        /\ Q.dbOrigSize = 0 /\ Q.journalOff = 0 /\ Q.journalHdr = 0 /\ Q.ownHdr = NoHeader
        /\ Q.nRec = 0 /\ Q.inJournal = {} /\ Q.needSync = {} /\ Q.id = 0 /\ Q.pg = 0
        /\ Q.left = 0 /\ Q.spills = 0
    BY DEF NewPager
  <2> HIDE DEF Q
  <2>4. <<>> \in Seq(SlotSet)
    OBVIOUS
  <2>5. FieldsOK(Q)
    BY <2>1, <2>3, <2>4, Numbers DEF FieldsOK, PCs, EState, Jfds
  <2> QED
    BY <1>3, <2>2, <2>5 DEF PagerOK, Q
<1>5. pager = [c \in Conn |-> pager[c]]
  BY <1>3
<1>6. lock \in [Conn -> 0..4] /\ jrnl \in JournalSet /\ txid \in Nat /\ faults \in Nat
  BY NoJournalType, Levels DEF Init
<1> QED
  BY <1>2, <1>4, <1>5, <1>6 DEF Types

LEMMA OpenErrorCut ==
  ASSUME Types, NEW c \in Conn, OpenError(c), JournalWriteFails(c, jrnl,
         [[Failed(pager[c]) EXCEPT !.nRec = 0, !.journalHdr = 0,
             !.journalOff = 1] EXCEPT !.jfd = IF @ = "closed" THEN "real" ELSE @], 1)
  PROVE  /\ Types' /\ Rest(c) /\ Kept(pager[c], pager'[c], {"pc", "nRec", "journalHdr",
            "journalOff", "jfd", "mem"})
         /\ pager'[c].pc = "abort"
         /\ pager'[c].nRec = 0
         /\ pager'[c].journalHdr = 0
         /\ pager'[c].journalOff = 1
         /\ Cut(c, (IF pager[c].jfd = "closed" THEN "real" ELSE pager[c].jfd), pager[c].mem, jrnl,
            1)
<1> DEFINE v0 == "abort"
           v1 == 0
           v2 == 0
           v3 == 1
           v4 == (IF pager[c].jfd = "closed" THEN "real" ELSE pager[c].jfd)
           Q == [pager[c] EXCEPT !.pc = v0, !.nRec = v1, !.journalHdr = v2, !.journalOff = v3,
                !.jfd = v4]
           i == 1
           j == jrnl
           R == [[Failed(pager[c]) EXCEPT !.nRec = 0, !.journalHdr = 0,
                !.journalOff = 1] EXCEPT !.jfd = IF @ = "closed" THEN "real" ELSE @]
<1>2. FieldsOK(pager[c]) /\ IsRecord(pager[c])
  BY PagerFields
<1>1. JournalWriteFails(c, j, R, i)
  OBVIOUS
<1>1a. R = Q
  BY <1>2 DEF IsRecord, Fields, Failed
<1>t0. v0 \in PCs /\ v0 = "abort" /\ v1 \in Nat /\ v2 \in Nat /\ v3 \in Nat
  BY DEF PCs
<1>t1. v4 \in Jfds
  BY <1>2 DEF FieldsOK, Jfds
<1>3. i \in Nat \ {0}
  BY 1 > 0
<1>4. j \in JournalSet
  BY DEF Types
<1> HIDE DEF v0, v1, v2, v3, v4
<1>7. Kept(pager[c], Q, {"pc", "nRec", "journalHdr", "journalOff", "jfd"}) /\ Q.pc = v0
        /\ Q.nRec = v1 /\ Q.journalHdr = v2 /\ Q.journalOff = v3 /\ Q.jfd = v4
  <2>1. IsRecord(Q) /\ \A f \in Fields \ {"pc", "nRec", "journalHdr", "journalOff", "jfd"}
          : Q[f] = pager[c][f]
    BY <1>2 DEF IsRecord
  <2>2. Q.pc = v0 /\ Q.nRec = v1 /\ Q.journalHdr = v2 /\ Q.journalOff = v3 /\ Q.jfd = v4
    BY <1>2 DEF IsRecord, Fields
  <2> QED
    BY <2>1, <2>2 DEF Kept
<1> HIDE DEF Q, R, i, j
<1>8. FieldsOK(Q) /\ IsRecord(Q)
  BY <1>2, <1>7, <1>t0, <1>t1 DEF FieldsOK, Kept, Fields
<1>9. /\ Rest(c) /\ PagerOK(pager'[c]) /\ jrnl' \in JournalSet
      /\ Kept(Q, pager'[c], {"jfd", "mem"}) /\ Cut(c, Q.jfd, Q.mem, j, i)
  BY <1>1, <1>1a, <1>3, <1>4, <1>8, JournalWriteFailsStep DEF PagerOK
<1>10. DbTypes' /\ lock' \in [Conn -> 0..4] /\ txid' \in Nat /\ faults' \in Nat
  BY DEF OpenError, Types, DbTypes, Fault
<1>11. Types'
  BY <1>9, <1>10, ConnTypes
<1>12. /\ Kept(pager[c], pager'[c], {"pc", "nRec", "journalHdr", "journalOff", "jfd", "mem"})
       /\ pager'[c].pc = v0 /\ pager'[c].nRec = v1 /\ pager'[c].journalHdr = v2
          /\ pager'[c].journalOff = v3
  BY <1>7, <1>9 DEF Kept, Fields
<1>13. Q.jfd = (IF pager[c].jfd = "closed" THEN "real" ELSE pager[c].jfd) /\ Q.mem = pager[c].mem
  BY <1>7 DEF Kept, Fields, v4
<1> QED
  BY <1>9, <1>11, <1>12, <1>13 DEF i, j, v0, v1, v2, v3

LEMMA SyncErrorSpill ==
  ASSUME Types, NEW c \in Conn, SyncError(c), JournalWrite(c, jrnl, InError(pager[c]),
         pager[c].journalHdr + 1,
                      Header(TRUE, pager[c].nRec, pager[c].dbOrigSize, pager[c].id), {})
  PROVE  /\ Types' /\ Rest(c) /\ Kept(pager[c], pager'[c], {"eState", "pc", "jfd", "mem"})
         /\ pager'[c].eState = "ERROR"
         /\ pager'[c].pc = "idle"
         /\ Wrote(c, pager[c].jfd, pager[c].mem, jrnl, pager[c].journalHdr + 1,
                  Header(TRUE, pager[c].nRec, pager[c].dbOrigSize, pager[c].id), {})
<1> DEFINE v0 == "ERROR"
           v1 == "idle"
           Q == [pager[c] EXCEPT !.eState = v0, !.pc = v1]
           i == pager[c].journalHdr + 1
           j == jrnl
           x == Header(TRUE, pager[c].nRec, pager[c].dbOrigSize, pager[c].id)
           R == InError(pager[c])
<1>2. FieldsOK(pager[c]) /\ IsRecord(pager[c])
  BY PagerFields
<1>1. JournalWrite(c, j, R, i, x, {})
  OBVIOUS
<1>1a. R = Q
  BY <1>2 DEF IsRecord, Fields, InError
<1>t0. v0 \in EState /\ v1 \in PCs /\ v1 = "idle"
  BY DEF PCs, EState
<1>3. i \in Nat \ {0}
  BY Offsets
<1>4. j \in JournalSet
  BY DEF Types
<1>5. x \in SlotSet
  BY <1>2, HeaderType DEF FieldsOK
<1>6. {} \in SUBSET SlotSet
  BY JunkType
<1> HIDE DEF v0, v1
<1>7. Kept(pager[c], Q, {"eState", "pc"}) /\ Q.eState = v0 /\ Q.pc = v1
  <2>1. IsRecord(Q) /\ \A f \in Fields \ {"eState", "pc"} : Q[f] = pager[c][f]
    BY <1>2 DEF IsRecord
  <2>2. Q.eState = v0 /\ Q.pc = v1
    BY <1>2 DEF IsRecord, Fields
  <2> QED
    BY <2>1, <2>2 DEF Kept
<1> HIDE DEF Q, R, i, j, x
<1>8. FieldsOK(Q) /\ IsRecord(Q)
  BY <1>2, <1>7, <1>t0 DEF FieldsOK, Kept, Fields
<1>9. /\ Rest(c) /\ PagerOK(pager'[c]) /\ jrnl' \in JournalSet
      /\ Kept(Q, pager'[c], {"jfd", "mem"}) /\ Wrote(c, Q.jfd, Q.mem, j, i, x, {})
  BY <1>1, <1>1a, <1>3, <1>4, <1>5, <1>6, <1>8, JournalWriteStep DEF PagerOK
<1>10. DbTypes' /\ lock' \in [Conn -> 0..4] /\ txid' \in Nat /\ faults' \in Nat
  BY DEF SyncError, Types, DbTypes, Fault
<1>11. Types'
  BY <1>9, <1>10, ConnTypes
<1>12. /\ Kept(pager[c], pager'[c], {"eState", "pc", "jfd", "mem"})
       /\ pager'[c].eState = v0 /\ pager'[c].pc = v1
  BY <1>7, <1>9 DEF Kept, Fields
<1>13. Q.jfd = pager[c].jfd /\ Q.mem = pager[c].mem
  BY <1>7 DEF Kept, Fields
<1> QED
  BY <1>9, <1>11, <1>12, <1>13 DEF i, j, x, v0, v1

LEMMA SyncErrorCommit ==
  ASSUME Types, NEW c \in Conn, SyncError(c), JournalWrite(c, jrnl, Failed(pager[c]),
         pager[c].journalHdr + 1,
                      Header(TRUE, pager[c].nRec, pager[c].dbOrigSize, pager[c].id), {})
  PROVE  /\ Types' /\ Rest(c) /\ Kept(pager[c], pager'[c], {"pc", "jfd", "mem"})
         /\ pager'[c].pc = "abort"
         /\ Wrote(c, pager[c].jfd, pager[c].mem, jrnl, pager[c].journalHdr + 1,
                  Header(TRUE, pager[c].nRec, pager[c].dbOrigSize, pager[c].id), {})
<1> DEFINE v0 == "abort"
           Q == [pager[c] EXCEPT !.pc = v0]
           i == pager[c].journalHdr + 1
           j == jrnl
           x == Header(TRUE, pager[c].nRec, pager[c].dbOrigSize, pager[c].id)
           R == Failed(pager[c])
<1>2. FieldsOK(pager[c]) /\ IsRecord(pager[c])
  BY PagerFields
<1>1. JournalWrite(c, j, R, i, x, {})
  OBVIOUS
<1>1a. R = Q
  BY <1>2 DEF IsRecord, Fields, Failed
<1>t0. v0 \in PCs /\ v0 = "abort"
  BY DEF PCs
<1>3. i \in Nat \ {0}
  BY Offsets
<1>4. j \in JournalSet
  BY DEF Types
<1>5. x \in SlotSet
  BY <1>2, HeaderType DEF FieldsOK
<1>6. {} \in SUBSET SlotSet
  BY JunkType
<1> HIDE DEF v0
<1>7. Kept(pager[c], Q, {"pc"}) /\ Q.pc = v0
  <2>1. IsRecord(Q) /\ \A f \in Fields \ {"pc"} : Q[f] = pager[c][f]
    BY <1>2 DEF IsRecord
  <2>2. Q.pc = v0
    BY <1>2 DEF IsRecord, Fields
  <2> QED
    BY <2>1, <2>2 DEF Kept
<1> HIDE DEF Q, R, i, j, x
<1>8. FieldsOK(Q) /\ IsRecord(Q)
  BY <1>2, <1>7, <1>t0 DEF FieldsOK, Kept, Fields
<1>9. /\ Rest(c) /\ PagerOK(pager'[c]) /\ jrnl' \in JournalSet
      /\ Kept(Q, pager'[c], {"jfd", "mem"}) /\ Wrote(c, Q.jfd, Q.mem, j, i, x, {})
  BY <1>1, <1>1a, <1>3, <1>4, <1>5, <1>6, <1>8, JournalWriteStep DEF PagerOK
<1>10. DbTypes' /\ lock' \in [Conn -> 0..4] /\ txid' \in Nat /\ faults' \in Nat
  BY DEF SyncError, Types, DbTypes, Fault
<1>11. Types'
  BY <1>9, <1>10, ConnTypes
<1>12. /\ Kept(pager[c], pager'[c], {"pc", "jfd", "mem"})
       /\ pager'[c].pc = v0
  BY <1>7, <1>9 DEF Kept, Fields
<1>13. Q.jfd = pager[c].jfd /\ Q.mem = pager[c].mem
  BY <1>7 DEF Kept, Fields
<1> QED
  BY <1>9, <1>11, <1>12, <1>13 DEF i, j, x, v0

LEMMA CountErrorCut ==
  ASSUME Types, NEW c \in Conn, CountError(c), JournalWriteFails(c, (IF pager[c].jfd = "mem"
         THEN createFile(jrnl, pager[c].mem) ELSE jrnl),
             [Failed(Created(pager[c])) EXCEPT !.dirty = @ \cup {1}, !.needSync = @ \cup {1}],
                 pager[c].journalOff + 1)
  PROVE  /\ Types' /\ Rest(c) /\ Kept(pager[c], pager'[c], {"pc", "dirty", "needSync", "jfd",
            "mem"})
         /\ pager'[c].pc = "abort"
         /\ pager'[c].dirty = pager[c].dirty \cup {1}
         /\ pager'[c].needSync = pager[c].needSync \cup {1}
         /\ Cut(c, (IF pager[c].jfd = "mem" THEN "real" ELSE pager[c].jfd),
            (IF pager[c].jfd = "mem" THEN <<>> ELSE pager[c].mem), (IF pager[c].jfd = "mem"
                THEN createFile(jrnl, pager[c].mem) ELSE jrnl), pager[c].journalOff + 1)
<1> DEFINE v0 == "abort"
           v1 == pager[c].dirty \cup {1}
           v2 == pager[c].needSync \cup {1}
           v3 == (IF pager[c].jfd = "mem" THEN "real" ELSE pager[c].jfd)
           v4 == (IF pager[c].jfd = "mem" THEN <<>> ELSE pager[c].mem)
           Q == [pager[c] EXCEPT !.pc = v0, !.dirty = v1, !.needSync = v2, !.jfd = v3, !.mem = v4]
           i == pager[c].journalOff + 1
           j == (IF pager[c].jfd = "mem" THEN createFile(jrnl, pager[c].mem) ELSE jrnl)
           R == [Failed(Created(pager[c])) EXCEPT !.dirty = @ \cup {1}, !.needSync = @ \cup {1}]
<1>2. FieldsOK(pager[c]) /\ IsRecord(pager[c])
  BY PagerFields
<1>1. JournalWriteFails(c, j, R, i)
  OBVIOUS
<1>1a. R = Q
  <2> DEFINE C == Created(pager[c])
  <2>1. C = [pager[c] EXCEPT !.jfd = v3, !.mem = v4]
    <3>1. CASE pager[c].jfd = "mem"
      BY <3>1 DEF Created
    <3>2. CASE pager[c].jfd # "mem"
      BY <1>2, <3>2 DEF IsRecord, Fields, Created
    <3> QED
      BY <3>1, <3>2
  <2> HIDE DEF C
  <2>2. R = [Failed(C) EXCEPT !.dirty = @ \cup {1}, !.needSync = @ \cup {1}]
    BY DEF C
  <2> HIDE DEF R, v3, v4
  <2> QED
    BY <1>2, <2>1, <2>2 DEF IsRecord, Fields, Failed
<1>t0. v0 \in PCs /\ v0 = "abort"
  BY DEF PCs
<1>t1. v1 \in SUBSET Page /\ v2 \in SUBSET Page
  BY <1>2, Numbers DEF FieldsOK
<1>t2. v3 \in Jfds
  BY <1>2 DEF FieldsOK, Jfds
<1>t3. v4 \in Seq(SlotSet)
  BY <1>2 DEF FieldsOK
<1>3. i \in Nat \ {0}
  BY Offsets
<1>4. j \in JournalSet
  BY <1>2, CreateFileType DEF Types, FieldsOK
<1> HIDE DEF v0, v1, v2, v3, v4
<1>7. Kept(pager[c], Q, {"pc", "dirty", "needSync", "jfd", "mem"}) /\ Q.pc = v0 /\ Q.dirty = v1
        /\ Q.needSync = v2 /\ Q.jfd = v3 /\ Q.mem = v4
  <2>1. IsRecord(Q) /\ \A f \in Fields \ {"pc", "dirty", "needSync", "jfd", "mem"}
          : Q[f] = pager[c][f]
    BY <1>2 DEF IsRecord
  <2>2. Q.pc = v0 /\ Q.dirty = v1 /\ Q.needSync = v2 /\ Q.jfd = v3 /\ Q.mem = v4
    BY <1>2 DEF IsRecord, Fields
  <2> QED
    BY <2>1, <2>2 DEF Kept
<1> HIDE DEF Q, R, i, j
<1>8. FieldsOK(Q) /\ IsRecord(Q)
  BY <1>2, <1>7, <1>t0, <1>t1, <1>t2, <1>t3 DEF FieldsOK, Kept, Fields
<1>9. /\ Rest(c) /\ PagerOK(pager'[c]) /\ jrnl' \in JournalSet
      /\ Kept(Q, pager'[c], {"jfd", "mem"}) /\ Cut(c, Q.jfd, Q.mem, j, i)
  BY <1>1, <1>1a, <1>3, <1>4, <1>8, JournalWriteFailsStep DEF PagerOK
<1>10. DbTypes' /\ lock' \in [Conn -> 0..4] /\ txid' \in Nat /\ faults' \in Nat
  BY DEF CountError, Types, DbTypes, Fault
<1>11. Types'
  BY <1>9, <1>10, ConnTypes
<1>12. /\ Kept(pager[c], pager'[c], {"pc", "dirty", "needSync", "jfd", "mem"})
       /\ pager'[c].pc = v0 /\ pager'[c].dirty = v1 /\ pager'[c].needSync = v2
  BY <1>7, <1>9 DEF Kept, Fields
<1>13. Q.jfd = (IF pager[c].jfd = "mem" THEN "real" ELSE pager[c].jfd)
         /\ Q.mem = (IF pager[c].jfd = "mem" THEN <<>> ELSE pager[c].mem)
  BY <1>7 DEF Kept, Fields, v3, v4
<1> QED
  BY <1>9, <1>11, <1>12, <1>13 DEF i, j, v0, v1, v2

LEMMA OpenErrorStep ==
  ASSUME Types, NEW c \in Conn, OpenError(c)
  PROVE  /\ Types' /\ Rest(c) /\ pager'[c].pc = "abort"
         /\ \/ Kept(pager[c], pager'[c], {"pc"}) /\ jrnl' = jrnl
            \/ /\ Kept(pager[c], pager'[c], {"pc", "nRec", "journalHdr", "journalOff", "jfd",
                  "mem"})
               /\ pager'[c].journalOff = 1 /\ pager'[c].journalHdr = 0 /\ pager'[c].nRec = 0
               /\ pager[c].jfd \in {"real", "gone"} \/ (pager[c].jfd = "closed" /\ ~AtomicWrite)
               /\ Cut(c, IF pager[c].jfd = "closed" THEN "real" ELSE pager[c].jfd, pager[c].mem,
                      jrnl, 1)
<1> DEFINE Q == [[Failed(pager[c]) EXCEPT !.nRec = 0, !.journalHdr = 0, !.journalOff = 1]
                    EXCEPT !.jfd = IF @ = "closed" THEN "real" ELSE @]
<1>1. CASE pager' = [pager EXCEPT ![c] = Failed(pager[c])] /\ UNCHANGED jrnl
  <2>1. Rest(c) /\ pager'[c] = Failed(pager[c])
    BY <1>1, AssignedRest
  <2>2. /\ PagerOK(pager'[c]) /\ Kept(pager[c], pager'[c], {"pc"}) /\ pager'[c].pc = "abort"
    BY <2>1, PagerFields, FailedFields
  <2>3. /\ DbTypes' /\ jrnl' \in JournalSet /\ lock' \in [Conn -> 0..4] /\ txid' \in Nat
        /\ faults' \in Nat
    BY <1>1 DEF OpenError, Types, DbTypes, Fault
  <2>4. Types'
    BY <2>1, <2>2, <2>3, ConnTypes
  <2> QED
    BY <1>1, <2>1, <2>2, <2>4
<1>2. CASE /\ pager[c].jfd \in {"real", "gone"} \/ (pager[c].jfd = "closed" /\ ~AtomicWrite)
           /\ JournalWriteFails(c, jrnl, Q, 1)
  BY <1>2, OpenErrorCut
<1> QED
  BY <1>1, <1>2 DEF OpenError

LEMMA SyncErrorStep ==
  ASSUME Types, NEW c \in Conn, SyncError(c)
  PROVE  /\ Types' /\ Rest(c)
         /\ Kept(pager[c], pager'[c], {"eState", "pc", "jfd", "mem"})
         /\ pager'[c].eState = IF pager[c].pg # 0 THEN "ERROR" ELSE pager[c].eState
         /\ pager'[c].pc = IF pager[c].pg # 0 THEN "idle" ELSE "abort"
         /\ \/ jrnl' = jrnl /\ pager'[c].jfd = pager[c].jfd /\ pager'[c].mem = pager[c].mem
            \/ /\ At(c, "sync3")
               /\ Wrote(c, pager[c].jfd, pager[c].mem, jrnl, pager[c].journalHdr + 1,
                        Header(TRUE, pager[c].nRec, pager[c].dbOrigSize, pager[c].id), {})
<1>1. CASE pager' = [pager EXCEPT ![c] = WriteFailed(pager[c])] /\ UNCHANGED jrnl
  <2>1. Rest(c) /\ pager'[c] = WriteFailed(pager[c])
    BY <1>1, AssignedRest
  <2>2. CASE pager[c].pg # 0
    <3>1. pager'[c] = InError(pager[c])
      BY <2>1, <2>2 DEF WriteFailed
    <3>2. /\ PagerOK(pager'[c]) /\ Kept(pager[c], pager'[c], {"eState", "pc"})
          /\ pager'[c].eState = "ERROR" /\ pager'[c].pc = "idle"
      BY <3>1, PagerFields, InErrorFields
    <3>3. /\ Kept(pager[c], pager'[c], {"eState", "pc", "jfd", "mem"})
          /\ pager'[c].jfd = pager[c].jfd /\ pager'[c].mem = pager[c].mem
      BY <3>2 DEF Kept, Fields
    <3>4. /\ DbTypes' /\ jrnl' \in JournalSet /\ lock' \in [Conn -> 0..4] /\ txid' \in Nat
          /\ faults' \in Nat
      BY <1>1 DEF SyncError, Types, DbTypes, Fault
    <3>5. Types'
      BY <2>1, <3>2, <3>4, ConnTypes
    <3> QED
      BY <1>1, <2>1, <2>2, <3>2, <3>3, <3>5
  <2>3. CASE pager[c].pg = 0
    <3>1. pager'[c] = Failed(pager[c])
      BY <2>1, <2>3 DEF WriteFailed
    <3>2. /\ PagerOK(pager'[c]) /\ Kept(pager[c], pager'[c], {"pc"})
          /\ pager'[c].pc = "abort"
      BY <3>1, PagerFields, FailedFields
    <3>3. /\ Kept(pager[c], pager'[c], {"eState", "pc", "jfd", "mem"})
          /\ pager'[c].jfd = pager[c].jfd /\ pager'[c].mem = pager[c].mem
          /\ pager'[c].eState = pager[c].eState
      BY <3>2 DEF Kept, Fields
    <3>4. /\ DbTypes' /\ jrnl' \in JournalSet /\ lock' \in [Conn -> 0..4] /\ txid' \in Nat
          /\ faults' \in Nat
      BY <1>1 DEF SyncError, Types, DbTypes, Fault
    <3>5. Types'
      BY <2>1, <3>2, <3>4, ConnTypes
    <3> QED
      BY <1>1, <2>1, <2>3, <3>2, <3>3, <3>5
  <2> QED
    BY <2>2, <2>3
<1>2. CASE /\ At(c, "sync3")
           /\ JournalWrite(c, jrnl, WriteFailed(pager[c]), pager[c].journalHdr + 1,
                           Header(TRUE, pager[c].nRec, pager[c].dbOrigSize, pager[c].id), {})
  <2>1. CASE pager[c].pg # 0
    <3>1. WriteFailed(pager[c]) = InError(pager[c])
      BY <2>1 DEF WriteFailed
    <3> QED
      BY <1>2, <2>1, <3>1, SyncErrorSpill
  <2>2. CASE pager[c].pg = 0
    <3>1. WriteFailed(pager[c]) = Failed(pager[c])
      BY <2>2 DEF WriteFailed
    <3>2. /\ Types' /\ Rest(c) /\ Kept(pager[c], pager'[c], {"pc", "jfd", "mem"})
          /\ pager'[c].pc = "abort"
          /\ Wrote(c, pager[c].jfd, pager[c].mem, jrnl, pager[c].journalHdr + 1,
                   Header(TRUE, pager[c].nRec, pager[c].dbOrigSize, pager[c].id), {})
      BY <1>2, <2>2, <3>1, SyncErrorCommit
    <3>3. /\ Kept(pager[c], pager'[c], {"eState", "pc", "jfd", "mem"})
          /\ pager'[c].eState = pager[c].eState
      BY <3>2 DEF Kept, Fields
    <3> QED
      BY <1>2, <2>2, <3>2, <3>3
  <2> QED
    BY <2>1, <2>2
<1> QED
  BY <1>1, <1>2 DEF SyncError

LEMMA CountErrorStep ==
  ASSUME Types, NEW c \in Conn, CountError(c)
  PROVE  /\ Types' /\ Rest(c) /\ pager'[c].pc = "abort"
         /\ \/ /\ Kept(pager[c], pager'[c], {"pc"}) /\ pager[c].jfd = "mem"
               /\ jrnl' = WriteSlot(jrnl, 1, Junk, {})
            \/ /\ Kept(pager[c], pager'[c], {"pc", "dirty", "needSync", "jfd", "mem"})
               /\ NeedsRecord(pager[c], 1)
               /\ pager'[c].dirty = pager[c].dirty \cup {1}
               /\ pager'[c].needSync = pager[c].needSync \cup {1}
               /\ Cut(c, IF pager[c].jfd = "mem" THEN "real" ELSE pager[c].jfd,
                      IF pager[c].jfd = "mem" THEN <<>> ELSE pager[c].mem,
                      IF pager[c].jfd = "mem" THEN createFile(jrnl, pager[c].mem) ELSE jrnl,
                      pager[c].journalOff + 1)
<1> DEFINE file == IF pager[c].jfd = "mem" THEN createFile(jrnl, pager[c].mem) ELSE jrnl
           Q == [Failed(Created(pager[c])) EXCEPT !.dirty = @ \cup {1}, !.needSync = @ \cup {1}]
<1>1. CASE /\ pager[c].jfd = "mem" /\ pager' = [pager EXCEPT ![c] = Failed(pager[c])]
           /\ jrnl' = WriteSlot(jrnl, 1, Junk, {})
  <2>1. Rest(c) /\ pager'[c] = Failed(pager[c])
    BY <1>1, AssignedRest
  <2>2. PagerOK(pager'[c]) /\ Kept(pager[c], pager'[c], {"pc"}) /\ pager'[c].pc = "abort"
    BY <2>1, PagerFields, FailedFields
  <2>3. jrnl' \in JournalSet
    <3>1. 1 \in Nat \ {0} /\ {} \in SUBSET SlotSet /\ Junk \in SlotSet /\ jrnl \in JournalSet
      BY JunkType DEF Types
    <3> QED
      BY <1>1, <3>1, WriteSlotType
  <2>4. DbTypes' /\ lock' \in [Conn -> 0..4] /\ txid' \in Nat /\ faults' \in Nat
    BY DEF CountError, Types, DbTypes, Fault
  <2>5. Types'
    BY <2>1, <2>2, <2>3, <2>4, ConnTypes
  <2> QED
    BY <1>1, <2>1, <2>2, <2>5
<1>2. CASE NeedsRecord(pager[c], 1) /\ JournalWriteFails(c, file, Q, pager[c].journalOff + 1)
  BY <1>2, CountErrorCut
<1> QED
  BY <1>1, <1>2 DEF CountError

-----------------------------------------------------------------------------
\* The frame of a step.

LEMMA RestSevered ==
  ASSUME NEW c \in Conn, Rest(c)
  PROVE  Severed(c)
BY DEF Rest, Severed

LEMMA SeveredFields ==
  ASSUME NEW c \in Conn, Severed(c), NEW d \in Conn \ {c}
  PROVE  /\ \A f \in Fields \ {"jfd", "mem"} : pager'[d][f] = pager[d][f]
         /\ pager'[d].pc = pager[d].pc /\ pager'[d].eState = pager[d].eState
         /\ pager'[d].journalMode = pager[d].journalMode
         /\ pager'[d].journalOff = pager[d].journalOff /\ pager'[d].id = pager[d].id
         /\ \/ pager'[d] = pager[d]
            \/ pager[d].jfd = "real" /\ pager'[d].jfd = "gone" /\ jrnl.exists /\ ~jrnl'.exists
BY DEF Severed, Kept, Fields

LEMMA StatesFrame ==
  ASSUME Types, States, LocksOK, NEW c \in Conn, Frame(c), StateOK(pager'[c], lock'[c]),
         \/ Rest(c)
         \/ /\ lock[c] >= SHARED_LOCK
            /\ jrnl'.exists \/ Vfs = "unix" \/ \A d \in Conn \ {c} : lock[d] = NO_LOCK
  PROVE  States'
<1>1. ASSUME NEW d \in Conn \ {c} PROVE StateOK(pager'[d], lock'[d])
  <2>1. StateOK(pager[d], lock[d]) /\ lock'[d] = lock[d] /\ lock[c] \in 0..4 /\ lock[d] \in 0..4
    BY DEF States, Frame, Types
  <2>2. CASE pager'[d] = pager[d]
    BY <2>1, <2>2
  <2>3. CASE pager'[d] # pager[d]
    <3>1. /\ pager[d].jfd = "real" /\ pager'[d].jfd = "gone" /\ ~jrnl'.exists
          /\ pager'[d].pc = pager[d].pc /\ pager'[d].eState = pager[d].eState
          /\ pager'[d].journalMode = pager[d].journalMode
      BY <2>3, SeveredFields DEF Frame
    <3>2. lock[c] >= SHARED_LOCK /\ (Vfs = "unix" \/ lock[d] = NO_LOCK)
      BY <2>3, <3>1 DEF Rest
    <3>3. lock[d] # EXCLUSIVE_LOCK
      BY <2>1, <3>2, Levels DEF LocksOK
    <3>4. lock[d] # NO_LOCK
      BY <2>1, <3>1, Levels DEF StateOK, HotPCs, UndoPCs, Types, PagerOK, FieldsOK, EState
    <3>5. Vfs = "unix"
      BY <3>2, <3>4
    <3> QED
      BY <2>1, <3>1, <3>3, <3>5, Levels DEF StateOK
  <2> QED
    BY <2>2, <2>3
<1> QED
  BY <1>1 DEF States

LEMMA LocksStep ==
  ASSUME Types, LocksOK, NEW c \in Conn, Frame(c),
         \/ lock'[c] <= lock[c] /\ (Owner(c)' => Owner(c))
         \/ lock'[c] = EXCLUSIVE_LOCK /\ \A d \in Conn \ {c} : lock[d] = NO_LOCK
         \/ /\ lock'[c] = SHARED_LOCK /\ \A d \in Conn \ {c} : lock[d] < PENDING_LOCK
            /\ Vfs = "vms" => \A d \in Conn \ {c} : lock[d] <= SHARED_LOCK
         \/ /\ lock'[c] = RESERVED_LOCK /\ lock[c] = SHARED_LOCK
            /\ \A d \in Conn \ {c} : ~Owner(d)
            /\ Vfs = "vms" => \A d \in Conn \ {c} : lock[d] = NO_LOCK
         \/ /\ lock'[c] = PENDING_LOCK /\ Vfs = "unix"
            /\ \A d \in Conn \ {c} : lock[d] < PENDING_LOCK
            /\ Owner(c)' => Owner(c)
  PROVE  LocksOK'
<1>1. \A d \in Conn \ {c} : lock'[d] = lock[d] /\ (Owner(d)' <=> Owner(d))
  <2>1. \A d \in Conn \ {c} : lock'[d] = lock[d] /\ pager'[d].pc = pager[d].pc
    BY SeveredFields DEF Frame
  <2> QED
    BY <2>1 DEF Owner
<1>2. \A d \in Conn : lock[d] \in 0..4 /\ lock'[d] \in 0..4
  BY DEF Types, Frame
<1>3. Owner(c)' => lock'[c] >= RESERVED_LOCK
  BY DEF Owner
<1>4. \A d \in Conn : Owner(d) => lock[d] >= RESERVED_LOCK
  BY DEF Owner
<1>5. Vfs # "unix" \/ Vfs # "vms"
  OBVIOUS
<1>6. ASSUME NEW a \in Conn, NEW b \in Conn
      PROVE  /\ lock'[a] = EXCLUSIVE_LOCK /\ a # b => lock'[b] = NO_LOCK
             /\ Owner(a)' /\ Owner(b)' => a = b
             /\ Vfs = "vms" /\ lock'[a] >= RESERVED_LOCK /\ a # b => lock'[b] = NO_LOCK
  <2>1. /\ lock[a] = EXCLUSIVE_LOCK /\ a # b => lock[b] = NO_LOCK
        /\ Owner(a) /\ Owner(b) => a = b
        /\ Vfs = "vms" /\ lock[a] >= RESERVED_LOCK /\ a # b => lock[b] = NO_LOCK
    BY DEF LocksOK
  <2>2. CASE a # c /\ b # c
    BY <1>1, <2>1, <2>2
  <2>3. CASE a = b
    BY <2>3
  <2>4. CASE a = c /\ b # c
    BY <1>1, <1>2, <1>3, <1>4, <1>5, <2>1, <2>4, Levels
  <2>5. CASE a # c /\ b = c
    BY <1>1, <1>2, <1>3, <1>4, <1>5, <2>1, <2>5, Levels
  <2> QED
    BY <2>2, <2>3, <2>4, <2>5
<1> QED
  BY <1>6 DEF LocksOK

-----------------------------------------------------------------------------
\* The control is kept by every step.

LEMMA GotoTypes ==
  ASSUME Types, NEW c \in Conn, NEW pc \in PCs, Goto(c, pc),
         pc \in {"open", "write", "sync1", "spill"} => pager[c].pg \in Page,
         UNCHANGED <<disk, txid>>, lock' \in [Conn -> 0..4], faults' \in Nat
  PROVE  /\ Types' /\ Rest(c) /\ Kept(pager[c], pager'[c], {"pc"}) /\ pager'[c].pc = pc
<1>1. /\ Rest(c) /\ PagerOK(pager'[c]) /\ Kept(pager[c], pager'[c], {"pc"})
      /\ pager'[c].pc = pc
  BY GotoStep
<1>2. DbTypes' /\ jrnl' \in JournalSet
  BY DiskKept
<1>3. txid' \in Nat
  BY DEF Types
<1> QED
  BY <1>1, <1>2, <1>3, ConnTypes

LEMMA UnlockedTypes ==
  ASSUME Types, NEW c \in Conn, NEW reset \in BOOLEAN, Unlocked(c, reset),
         UNCHANGED <<disk, txid>>, faults' \in Nat
  PROVE  /\ Types' /\ Rest(c) /\ pager'[c] = Closed(pager[c], reset)
         /\ pager'[c].eState = "OPEN" /\ pager'[c].pc = "idle" /\ pager'[c].jfd = "closed"
         /\ pager'[c].mem = <<>> /\ pager'[c].journalOff = 0
         /\ pager'[c].journalMode = pager[c].journalMode
         /\ pager'[c].cache = (IF reset THEN NoCache ELSE pager[c].cache)
         /\ pager'[c].dbFileVers = pager[c].dbFileVers /\ pager'[c].dbSize = pager[c].dbSize
         /\ lock' = [lock EXCEPT ![c] = NO_LOCK]
<1>1. /\ Rest(c) /\ PagerOK(pager'[c]) /\ pager'[c] = Closed(pager[c], reset)
      /\ lock' = [lock EXCEPT ![c] = NO_LOCK] /\ lock' \in [Conn -> 0..4]
  BY UnlockedStep
<1>2. DbTypes' /\ jrnl' \in JournalSet
  BY DiskKept
<1>3. txid' \in Nat
  BY DEF Types
<1>4. Types'
  BY <1>1, <1>2, <1>3, ConnTypes
<1> QED
  BY <1>1, <1>4, PagerFields, ClosedFields

LEMMA LocksMove ==
  ASSUME Types, LocksOK, NEW c \in Conn, Frame(c), LockMove(c)
  PROVE  LocksOK'
BY LocksStep DEF LockMove

LEMMA LockKept ==
  ASSUME Types, NEW c \in Conn, UNCHANGED lock, pager[c].pc # "hot6"
  PROVE  LockMove(c) /\ \A d \in Conn \ {c} : lock'[d] = lock[d]
<1>1. lock'[c] = lock[c] /\ lock[c] \in 0..4
  BY DEF Types
<1>2. lock'[c] <= lock[c]
  BY <1>1
<1>3. Owner(c)' => Owner(c)
  BY <1>1 DEF Owner
<1> QED
  BY <1>2, <1>3 DEF LockMove

LEMMA LockLowered ==
  ASSUME Types, NEW c \in Conn, NEW l \in 0..1, lock' = [lock EXCEPT ![c] = l], l <= lock[c]
  PROVE  LockMove(c) /\ lock'[c] = l /\ \A d \in Conn \ {c} : lock'[d] = lock[d]
<1>1. lock'[c] = l /\ \A d \in Conn \ {c} : lock'[d] = lock[d]
  BY DEF Types
<1>2. ~Owner(c)'
  BY <1>1, Levels DEF Owner
<1> QED
  BY <1>1, <1>2 DEF LockMove

LEMMA ExclusiveMove ==
  ASSUME Types, NEW c \in Conn, MayLock(c, EXCLUSIVE_LOCK),
         lock' = [lock EXCEPT ![c] = EXCLUSIVE_LOCK]
  PROVE  /\ LockMove(c) /\ lock'[c] = EXCLUSIVE_LOCK /\ \A d \in Conn \ {c} : lock'[d] = lock[d]
         /\ \A d \in Conn \ {c} : lock[d] = NO_LOCK
<1>1. lock'[c] = EXCLUSIVE_LOCK /\ \A d \in Conn \ {c} : lock'[d] = lock[d]
  BY DEF Types
<1>2. \A d \in Conn \ {c} : lock[d] = NO_LOCK
  BY DEF MayLock, FL!MayHold, FL!Others, EXCLUSIVE_LOCK, RESERVED_LOCK, SHARED_LOCK, NO_LOCK,
         FL!EXCLUSIVE_LOCK, FL!RESERVED_LOCK, FL!SHARED_LOCK, FL!NO_LOCK, FL!PENDING_LOCK
<1> QED
  BY <1>1, <1>2 DEF LockMove

LEMMA SharedMove ==
  ASSUME Types, NEW c \in Conn, MayLock(c, SHARED_LOCK),
         lock' = [lock EXCEPT ![c] = SHARED_LOCK]
  PROVE  LockMove(c) /\ lock'[c] = SHARED_LOCK /\ \A d \in Conn \ {c} : lock'[d] = lock[d]
<1>1. lock'[c] = SHARED_LOCK /\ \A d \in Conn \ {c} : lock'[d] = lock[d] /\ lock[d] \in 0..4
  BY DEF Types
<1>2. \A d \in Conn \ {c} : lock[d] < PENDING_LOCK /\ (Vfs = "vms" => lock[d] <= SHARED_LOCK)
  BY <1>1, PagerAssumption
     DEF MayLock, FL!MayHold, FL!Others, PENDING_LOCK, RESERVED_LOCK, SHARED_LOCK, NO_LOCK,
         FL!EXCLUSIVE_LOCK, FL!RESERVED_LOCK, FL!SHARED_LOCK, FL!NO_LOCK, FL!PENDING_LOCK
<1> QED
  BY <1>1, <1>2 DEF LockMove

LEMMA ReservedMove ==
  ASSUME Types, LocksOK, NEW c \in Conn, MayLock(c, RESERVED_LOCK), lock[c] = SHARED_LOCK,
         lock' = [lock EXCEPT ![c] = RESERVED_LOCK]
  PROVE  LockMove(c) /\ lock'[c] = RESERVED_LOCK /\ \A d \in Conn \ {c} : lock'[d] = lock[d]
<1>1. lock'[c] = RESERVED_LOCK /\ \A d \in Conn \ {c} : lock'[d] = lock[d] /\ lock[d] \in 0..4
  BY DEF Types
<1>2. \A d \in Conn \ {c} : lock[d] # EXCLUSIVE_LOCK
  BY Levels DEF LocksOK
<1>3. CASE Vfs = "unix"
  <2>1. \A d \in Conn \ {c} : ~HasReserved(d)
    BY <1>3 DEF MayLock
  <2>2. \A d \in Conn \ {c} : ~Owner(d)
    BY <1>1, <1>2, <2>1, Levels DEF HasReserved, Owner, At
  <2> QED
    BY <1>1, <1>3, <2>2 DEF LockMove
<1>4. CASE Vfs # "unix"
  <2>1. \A d \in Conn \ {c} : lock[d] = NO_LOCK
    BY <1>4, Levels DEF MayLock
  <2>2. \A d \in Conn \ {c} : ~Owner(d)
    BY <2>1, Levels DEF Owner
  <2> QED
    BY <1>1, <2>1, <2>2 DEF LockMove
<1> QED
  BY <1>3, <1>4

LEMMA BusyMove ==
  ASSUME Types, LocksOK, NEW c \in Conn, ExclusiveBusy(c), Owner(c)' => Owner(c)
  PROVE  /\ LockMove(c) /\ lock'[c] \in {lock[c], PENDING_LOCK} /\ lock[c] # EXCLUSIVE_LOCK
         /\ lock'[c] # lock[c] => Vfs = "unix"
         /\ \A d \in Conn \ {c} : lock'[d] = lock[d]
<1>1. /\ lock' \in [Conn -> 0..4] /\ lock'[c] \in {lock[c], PENDING_LOCK}
      /\ \A d \in Conn \ {c} : lock'[d] = lock[d]
  BY ExclusiveBusyLock DEF Types
<1>2. lock'[c] # lock[c] => /\ Vfs = "unix" /\ lock'[c] = PENDING_LOCK
                            /\ \A d \in Conn \ {c} : lock[d] < PENDING_LOCK
  BY DEF Types, ExclusiveBusy, FL!MayHold, FL!Others, PENDING_LOCK,
         FL!EXCLUSIVE_LOCK, FL!RESERVED_LOCK, FL!SHARED_LOCK, FL!NO_LOCK, FL!PENDING_LOCK
<1>3. \E d \in Conn \ {c} : lock[d] # NO_LOCK
  BY DEF ExclusiveBusy, LockFails, MayLock, FL!MayHold, FL!Others, EXCLUSIVE_LOCK,
         RESERVED_LOCK, SHARED_LOCK, NO_LOCK,
         FL!EXCLUSIVE_LOCK, FL!RESERVED_LOCK, FL!SHARED_LOCK, FL!NO_LOCK, FL!PENDING_LOCK
<1>4. lock[c] # EXCLUSIVE_LOCK
  BY <1>3 DEF LocksOK
<1>5. lock'[c] = lock[c] => lock'[c] <= lock[c]
  BY DEF Types
<1> QED
  BY <1>1, <1>2, <1>4, <1>5 DEF LockMove

LEMMA ControlRest ==
  ASSUME Control, NEW c \in Conn, Types', Rest(c), StateOK(pager'[c], lock'[c]), LockMove(c),
         \A d \in Conn \ {c} : lock'[d] = lock[d]
  PROVE  Control'
<1>1. Types /\ States /\ LocksOK
  BY DEF Control
<1>2. Severed(c) /\ lock' \in [Conn -> 0..4]
  BY RestSevered DEF Types
<1>3. Frame(c)
  BY <1>2 DEF Frame
<1>4. States'
  BY <1>1, <1>3, StatesFrame
<1>5. LocksOK'
  BY <1>1, <1>3, LocksMove
<1> QED
  BY <1>4, <1>5 DEF Control

LEMMA ControlSevered ==
  ASSUME Control, NEW c \in Conn, Types', Severed(c), StateOK(pager'[c], lock'[c]), LockMove(c),
         lock[c] >= SHARED_LOCK, jrnl'.exists \/ Vfs = "unix" \/ \A d \in Conn \ {c}
             : lock[d] = NO_LOCK,
         \A d \in Conn \ {c} : lock'[d] = lock[d]
  PROVE  Control'
<1>1. Types /\ States /\ LocksOK
  BY DEF Control
<1>2. lock' \in [Conn -> 0..4]
  BY DEF Types
<1>3. Frame(c)
  BY <1>2 DEF Frame
<1>4. States'
  BY <1>1, <1>3, StatesFrame
<1>5. LocksOK'
  BY <1>1, <1>3, LocksMove
<1> QED
  BY <1>4, <1>5 DEF Control

LEMMA ControlHere ==
  ASSUME Control, NEW c \in Conn
  PROVE  /\ Types /\ States /\ LocksOK /\ StateOK(pager[c], lock[c]) /\ lock[c] \in 0..4
         /\ pager[c].eState \in EState /\ pager[c].pc \in PCs /\ pager[c].jfd \in Jfds
BY DEF Control, States, Types, PagerOK, FieldsOK

LEMMA HereIsSo ==
  ASSUME Control, NEW c \in Conn
  PROVE  Here(c)
BY ControlHere DEF Here

\* A step that leaves the lock alone and changes no more than the place in the code, the state
\* and the journal of c.
LEMMA ControlKept ==
  ASSUME Control, NEW c \in Conn, Types', Rest(c), UNCHANGED lock, pager[c].pc # "hot6",
         StateOK(pager'[c], lock[c])
  PROVE  Control'
<1>1. Types
  BY DEF Control
<1>2. LockMove(c) /\ \A d \in Conn \ {c} : lock'[d] = lock[d]
  BY <1>1, LockKept
<1>3. lock'[c] = lock[c]
  OBVIOUS
<1> QED
  BY <1>2, <1>3, ControlRest

LEMMA UnlockedControl ==
  ASSUME Control, NEW c \in Conn, NEW reset \in BOOLEAN, Unlocked(c, reset),
         UNCHANGED <<disk, txid>>, faults' \in Nat
  PROVE  Control'
<1>1. Types /\ lock[c] \in 0..4
  BY DEF Control, Types
<1>2. /\ Types' /\ Rest(c) /\ pager'[c].eState = "OPEN" /\ pager'[c].pc = "idle"
      /\ pager'[c].jfd = "closed" /\ lock' = [lock EXCEPT ![c] = NO_LOCK]
  BY <1>1, UnlockedTypes
<1>a. NO_LOCK \in 0..1 /\ NO_LOCK <= lock[c]
  BY <1>1, Levels
<1>3. LockMove(c) /\ lock'[c] = NO_LOCK /\ \A d \in Conn \ {c} : lock'[d] = lock[d]
  BY <1>1, <1>2, <1>a, LockLowered
<1>4. StateOK(pager'[c], lock'[c])
  BY <1>2, <1>3, Levels DEF StateOK, UndoPCs, HotPCs
<1> QED
  BY <1>2, <1>3, <1>4, ControlRest

LEMMA HotAccessStep ==
  ASSUME Types, NEW c \in Conn, HotAccess(c)
  PROVE  /\ Types' /\ Rest(c) /\ Kept(pager[c], pager'[c], {"pc"}) /\ pager[c].pc = "hot1"
         /\ pager'[c].pc \in {"hot2", "vers"}
<1>1. PICK pc \in {"hot2", "vers"} : Goto(c, pc)
  BY DEF HotAccess
<1>2. /\ UNCHANGED <<disk, txid>> /\ lock' \in [Conn -> 0..4] /\ faults' \in Nat
      /\ pager[c].pc = "hot1"
  BY DEF HotAccess, In, At, Types, disk
<1>3. pc \in PCs
  BY DEF PCs, HotPCs, UndoPCs, SyncPCs
<1> QED
  BY <1>1, <1>2, <1>3, GotoTypes

LEMMA HotReservedStep ==
  ASSUME Types, NEW c \in Conn, HotReserved(c)
  PROVE  /\ Types' /\ Rest(c) /\ Kept(pager[c], pager'[c], {"pc"}) /\ pager[c].pc = "hot2"
         /\ pager'[c].pc \in {"vers", "hot3"}
<1>1. PICK pc \in {"vers", "hot3"} : Goto(c, pc)
  BY DEF HotReserved
<1>2. /\ UNCHANGED <<disk, txid>> /\ lock' \in [Conn -> 0..4] /\ faults' \in Nat
      /\ pager[c].pc = "hot2"
  BY DEF HotReserved, In, At, Types, disk
<1>3. pc \in PCs
  BY DEF PCs, HotPCs, UndoPCs, SyncPCs
<1> QED
  BY <1>1, <1>2, <1>3, GotoTypes

LEMMA HotOpenStep ==
  ASSUME Types, NEW c \in Conn, HotOpen(c)
  PROVE  /\ Types' /\ Rest(c) /\ Kept(pager[c], pager'[c], {"pc"}) /\ pager[c].pc = "hot3"
         /\ pager'[c].pc \in {"hot4", "vers"}
<1>1. PICK pc \in {"hot4", "vers"} : Goto(c, pc)
  BY DEF HotOpen
<1>2. /\ UNCHANGED <<disk, txid>> /\ lock' \in [Conn -> 0..4] /\ faults' \in Nat
      /\ pager[c].pc = "hot3"
  BY DEF HotOpen, In, At, Types, disk
<1>3. pc \in PCs
  BY DEF PCs, HotPCs, UndoPCs, SyncPCs
<1> QED
  BY <1>1, <1>2, <1>3, GotoTypes

LEMMA BeginStep ==
  ASSUME Types, NEW c \in Conn, Begin(c)
  PROVE  /\ Types' /\ Rest(c) /\ Kept(pager[c], pager'[c], {"pc"}) /\ pager[c].pc = "idle"
         /\ pager'[c].pc = "reserve"
<1>1. /\ Goto(c, "reserve") /\ UNCHANGED <<disk, txid>> /\ lock' \in [Conn -> 0..4]
      /\ faults' \in Nat /\ pager[c].pc = "idle"
  BY DEF Begin, In, At, Types, disk
<1>2. "reserve" \in PCs
  BY DEF PCs, HotPCs, UndoPCs, SyncPCs
<1> QED
  BY <1>1, <1>2, GotoTypes

LEMMA ReserveBusyStep ==
  ASSUME Types, NEW c \in Conn, ReserveBusy(c)
  PROVE  /\ Types' /\ Rest(c) /\ Kept(pager[c], pager'[c], {"pc"}) /\ pager[c].pc = "reserve"
         /\ pager'[c].pc = "idle"
<1>1. /\ Goto(c, "idle") /\ UNCHANGED <<disk, txid>> /\ lock' \in [Conn -> 0..4]
      /\ faults' \in Nat /\ pager[c].pc = "reserve"
  BY DEF ReserveBusy, In, At, Types, disk
<1>2. "idle" \in PCs
  BY DEF PCs, HotPCs, UndoPCs, SyncPCs
<1> QED
  BY <1>1, <1>2, GotoTypes

LEMMA CommitPhaseTwoStep ==
  ASSUME Types, NEW c \in Conn, CommitPhaseTwo(c)
  PROVE  /\ Types' /\ Rest(c) /\ Kept(pager[c], pager'[c], {"pc"}) /\ pager[c].pc = "idle"
         /\ pager'[c].pc = "final"
<1>1. /\ Goto(c, "final") /\ UNCHANGED <<disk, txid>> /\ lock' \in [Conn -> 0..4]
      /\ faults' \in Nat /\ pager[c].pc = "idle"
  BY DEF CommitPhaseTwo, In, At, Types, disk
<1>2. "final" \in PCs
  BY DEF PCs, HotPCs, UndoPCs, SyncPCs
<1> QED
  BY <1>1, <1>2, GotoTypes

LEMMA PlaybackStopStep ==
  ASSUME Types, NEW c \in Conn, PlaybackStop(c)
  PROVE  /\ Types' /\ Rest(c) /\ Kept(pager[c], pager'[c], {"pc"}) /\ pager[c].pc = "playback"
         /\ pager'[c].pc = "restored"
<1>1. /\ Goto(c, "restored") /\ UNCHANGED <<disk, txid>> /\ lock' \in [Conn -> 0..4]
      /\ faults' \in Nat /\ pager[c].pc = "playback"
  BY DEF PlaybackStop, In, At, Types, disk
<1>2. "restored" \in PCs
  BY DEF PCs, HotPCs, UndoPCs, SyncPCs
<1> QED
  BY <1>1, <1>2, GotoTypes

LEMMA SharedLockStep ==
  ASSUME Types, NEW c \in Conn, SharedLock(c)
  PROVE  /\ Types' /\ Rest(c) /\ Kept(pager[c], pager'[c], {"pc"}) /\ pager[c].pc = "idle"
         /\ pager'[c].pc = "hot1"
<1>1. /\ Goto(c, "hot1") /\ UNCHANGED <<disk, txid>> /\ faults' \in Nat /\ pager[c].pc = "idle"
  BY DEF SharedLock, In, At, Types, disk
<1>2. "hot1" \in PCs
  BY DEF PCs, HotPCs, UndoPCs, SyncPCs
<1>l. lock' \in [Conn -> 0..4]
  BY Levels DEF SharedLock, Types
<1> QED
  BY <1>1, <1>l, <1>2, GotoTypes

LEMMA HotExclusiveStep ==
  ASSUME Types, NEW c \in Conn, HotExclusive(c)
  PROVE  /\ Types' /\ Rest(c) /\ Kept(pager[c], pager'[c], {"pc"}) /\ pager[c].pc = "hot4"
         /\ pager'[c].pc = "hot5"
<1>1. /\ Goto(c, "hot5") /\ UNCHANGED <<disk, txid>> /\ faults' \in Nat /\ pager[c].pc = "hot4"
  BY DEF HotExclusive, In, At, Types, disk
<1>2. "hot5" \in PCs
  BY DEF PCs, HotPCs, UndoPCs, SyncPCs
<1>l. lock' \in [Conn -> 0..4]
  BY Levels DEF HotExclusive, Types
<1> QED
  BY <1>1, <1>l, <1>2, GotoTypes

LEMMA HotBusyStep ==
  ASSUME Types, NEW c \in Conn, HotBusy(c)
  PROVE  /\ Types' /\ Rest(c) /\ Kept(pager[c], pager'[c], {"pc"}) /\ pager[c].pc = "hot4"
         /\ pager'[c].pc = "hot6"
<1>1. /\ Goto(c, "hot6") /\ UNCHANGED <<disk, txid>> /\ faults' \in Nat /\ pager[c].pc = "hot4"
  BY DEF HotBusy, In, At, Types, disk
<1>2. "hot6" \in PCs
  BY DEF PCs, HotPCs, UndoPCs, SyncPCs
<1>l. lock' \in [Conn -> 0..4]
  BY ExclusiveBusyLock DEF HotBusy
<1> QED
  BY <1>1, <1>l, <1>2, GotoTypes

LEMMA SyncLockStep ==
  ASSUME Types, NEW c \in Conn, SyncLock(c)
  PROVE  /\ Types' /\ Rest(c) /\ Kept(pager[c], pager'[c], {"pc"}) /\ pager[c].pc = "sync1"
         /\ pager'[c].pc = "sync2"
<1>1. /\ Goto(c, "sync2") /\ UNCHANGED <<disk, txid>> /\ faults' \in Nat /\ pager[c].pc = "sync1"
  BY DEF SyncLock, In, At, Types, disk
<1>2. "sync2" \in PCs
  BY DEF PCs, HotPCs, UndoPCs, SyncPCs
<1>l. lock' \in [Conn -> 0..4]
  BY Levels DEF SyncLock, Types
<1> QED
  BY <1>1, <1>l, <1>2, GotoTypes

LEMMA CommitStep ==
  ASSUME Types, NEW c \in Conn, Commit(c)
  PROVE  /\ Types' /\ Rest(c) /\ Kept(pager[c], pager'[c], {"pc"}) /\ pager[c].pc = "idle"
         /\ pager'[c].pc \in {"final", "count"}
<1>1. PICK pc \in {"final", "count"} : Goto(c, pc)
  BY DEF Commit
<1>2. /\ UNCHANGED <<disk, txid>> /\ faults' \in Nat
      /\ pager[c].pc = "idle"
  BY DEF Commit, In, At, Types, disk
<1>3. pc \in PCs
  BY DEF PCs, HotPCs, UndoPCs, SyncPCs
<1>l. lock' \in [Conn -> 0..4]
  BY Levels DEF Commit, Types
<1> QED
  BY <1>1, <1>l, <1>2, <1>3, GotoTypes

LEMMA HotAccessControl ==
  ASSUME Control, NEW c \in Conn, HotAccess(c)
  PROVE  Control'
<1>1. Here(c)
  BY HereIsSo
<1>2. /\ UNCHANGED lock
      /\ pager[c].pc = "hot1"
  BY DEF HotAccess, In, At
<1>3. /\ Types' /\ Rest(c)
  BY <1>1, HotAccessStep DEF Here
<1>4. /\ pager'[c].eState = pager[c].eState
      /\ pager'[c].jfd = pager[c].jfd
      /\ pager'[c].journalMode = pager[c].journalMode
      /\ pager'[c].pc \in {"hot2", "vers"}
  BY <1>1, HotAccessStep DEF Here, Kept, Fields
<1>5. StateOK(pager'[c], lock[c])
  BY <1>1, <1>2, <1>4, Levels DEF Here, StateOK, UndoPCs, HotPCs, SyncPCs
<1>6. pager[c].pc # "hot6"
  BY <1>2
<1> QED
  BY <1>2, <1>3, <1>5, <1>6, ControlKept

LEMMA HotReservedControl ==
  ASSUME Control, NEW c \in Conn, HotReserved(c)
  PROVE  Control'
<1>1. Here(c)
  BY HereIsSo
<1>2. /\ UNCHANGED lock
      /\ pager[c].pc = "hot2"
  BY DEF HotReserved, In, At
<1>3. /\ Types' /\ Rest(c)
  BY <1>1, HotReservedStep DEF Here
<1>4. /\ pager'[c].eState = pager[c].eState
      /\ pager'[c].jfd = pager[c].jfd
      /\ pager'[c].journalMode = pager[c].journalMode
      /\ pager'[c].pc \in {"hot3", "vers"}
  BY <1>1, HotReservedStep DEF Here, Kept, Fields
<1>5. StateOK(pager'[c], lock[c])
  BY <1>1, <1>2, <1>4, Levels DEF Here, StateOK, UndoPCs, HotPCs, SyncPCs
<1>6. pager[c].pc # "hot6"
  BY <1>2
<1> QED
  BY <1>2, <1>3, <1>5, <1>6, ControlKept

LEMMA HotOpenControl ==
  ASSUME Control, NEW c \in Conn, HotOpen(c)
  PROVE  Control'
<1>1. Here(c)
  BY HereIsSo
<1>2. /\ UNCHANGED lock
      /\ pager[c].pc = "hot3"
  BY DEF HotOpen, In, At
<1>3. /\ Types' /\ Rest(c)
  BY <1>1, HotOpenStep DEF Here
<1>4. /\ pager'[c].eState = pager[c].eState
      /\ pager'[c].jfd = pager[c].jfd
      /\ pager'[c].journalMode = pager[c].journalMode
      /\ pager'[c].pc \in {"hot4", "vers"}
  BY <1>1, HotOpenStep DEF Here, Kept, Fields
<1>5. StateOK(pager'[c], lock[c])
  BY <1>1, <1>2, <1>4, Levels DEF Here, StateOK, UndoPCs, HotPCs, SyncPCs
<1>6. pager[c].pc # "hot6"
  BY <1>2
<1> QED
  BY <1>2, <1>3, <1>5, <1>6, ControlKept

LEMMA CheckVersionControl ==
  ASSUME Control, NEW c \in Conn, CheckVersion(c)
  PROVE  Control'
<1>1. Here(c)
  BY HereIsSo
<1>2. /\ UNCHANGED lock
      /\ pager[c].pc = "vers"
  BY DEF CheckVersion, In, At
<1>3. /\ Types' /\ Rest(c)
      /\ Kept(pager[c], pager'[c], {"eState", "pc", "dbSize", "cache", "dbFileVers"})
      /\ pager'[c].pc = "idle"
      /\ pager'[c].eState = "READER"
  BY <1>1, CheckVersionStep DEF Here
<1>4. /\ pager'[c].eState = "READER"
      /\ pager'[c].pc = "idle"
      /\ pager'[c].jfd = pager[c].jfd
      /\ pager'[c].journalMode = pager[c].journalMode
  BY <1>1, <1>3 DEF Here, Kept, Fields
<1>5. StateOK(pager'[c], lock[c])
  BY <1>1, <1>2, <1>4, Levels DEF Here, StateOK, UndoPCs, HotPCs, SyncPCs, EState
<1>6. pager[c].pc # "hot6"
  BY <1>2
<1> QED
  BY <1>2, <1>3, <1>5, <1>6, ControlKept

LEMMA AcquireControl ==
  ASSUME Control, NEW c \in Conn, NEW p \in Page, Acquire(c, p)
  PROVE  Control'
<1>1. Here(c)
  BY HereIsSo
<1>2. /\ UNCHANGED lock
      /\ pager[c].pc = "idle"
  BY DEF Acquire, In, At
<1>3. /\ Types' /\ Rest(c)
  BY <1>1, AcquireStep DEF Here
<1>4. /\ pager'[c].eState = pager[c].eState
      /\ pager'[c].jfd = pager[c].jfd
      /\ pager'[c].journalMode = pager[c].journalMode
      /\ pager'[c].pc = pager[c].pc
  BY <1>1, AcquireStep DEF Here, Kept, Fields
<1>5. StateOK(pager'[c], lock[c])
  BY <1>1, <1>2, <1>4, Levels DEF Here, StateOK, UndoPCs, HotPCs, SyncPCs
<1>6. pager[c].pc # "hot6"
  BY <1>2
<1> QED
  BY <1>2, <1>3, <1>5, <1>6, ControlKept

LEMMA BeginControl ==
  ASSUME Control, NEW c \in Conn, Begin(c)
  PROVE  Control'
<1>1. Here(c)
  BY HereIsSo
<1>2. /\ UNCHANGED lock
      /\ pager[c].pc = "idle" /\ pager[c].eState = "READER"
  BY DEF Begin, In, At
<1>3. /\ Types' /\ Rest(c)
  BY <1>1, BeginStep DEF Here
<1>4. /\ pager'[c].eState = pager[c].eState
      /\ pager'[c].jfd = pager[c].jfd
      /\ pager'[c].journalMode = pager[c].journalMode
      /\ pager'[c].pc = "reserve"
  BY <1>1, BeginStep DEF Here, Kept, Fields
<1>5. StateOK(pager'[c], lock[c])
  BY <1>1, <1>2, <1>4, Levels DEF Here, StateOK, UndoPCs, HotPCs, SyncPCs
<1>6. pager[c].pc # "hot6"
  BY <1>2
<1> QED
  BY <1>2, <1>3, <1>5, <1>6, ControlKept

LEMMA ReserveBusyControl ==
  ASSUME Control, NEW c \in Conn, ReserveBusy(c)
  PROVE  Control'
<1>1. Here(c)
  BY HereIsSo
<1>2. /\ UNCHANGED lock
      /\ pager[c].pc = "reserve"
  BY DEF ReserveBusy, In, At
<1>3. /\ Types' /\ Rest(c)
  BY <1>1, ReserveBusyStep DEF Here
<1>4. /\ pager'[c].eState = pager[c].eState
      /\ pager'[c].jfd = pager[c].jfd
      /\ pager'[c].journalMode = pager[c].journalMode
      /\ pager'[c].pc = "idle"
  BY <1>1, ReserveBusyStep DEF Here, Kept, Fields
<1>5. StateOK(pager'[c], lock[c])
  BY <1>1, <1>2, <1>4, Levels DEF Here, StateOK, UndoPCs, HotPCs, SyncPCs
<1>6. pager[c].pc # "hot6"
  BY <1>2
<1> QED
  BY <1>2, <1>3, <1>5, <1>6, ControlKept

LEMMA OpenJournalControl ==
  ASSUME Control, NEW c \in Conn, OpenJournal(c)
  PROVE  Control'
<1>1. Here(c)
  BY HereIsSo
<1>2. /\ UNCHANGED lock
      /\ pager[c].pc = "open"
  BY DEF OpenJournal, In, At
<1>3. /\ Types' /\ Rest(c)
      /\ Kept(pager[c], pager'[c], {"pc", "eState", "nRec", "journalHdr", "ownHdr", "journalOff",
         "jfd", "mem"})
      /\ pager'[c].pc = "write"
      /\ pager'[c].eState = "WRITER_CACHEMOD"
  BY <1>1, OpenJournalStep DEF Here
<1>j. pager'[c].jfd \in (IF pager[c].jfd # "closed" THEN {"real", pager[c].jfd}
                            ELSE IF AtomicWrite THEN {"mem", "real"} ELSE {"real"})
  BY <1>1, OpenJournalStep DEF Here, Wrote, Jfds
<1>4. /\ pager'[c].eState = "WRITER_CACHEMOD"
      /\ pager'[c].pc = "write"
      /\ pager'[c].journalMode = pager[c].journalMode
      /\ pager'[c].jfd \in (IF pager[c].jfd # "closed" THEN {"real", pager[c].jfd}
                            ELSE IF AtomicWrite THEN {"mem", "real"} ELSE {"real"})
  BY <1>1, <1>3, <1>j DEF Here, Kept, Fields
<1>5. StateOK(pager'[c], lock[c])
  BY <1>1, <1>2, <1>4, Levels DEF Here, StateOK, UndoPCs, HotPCs, SyncPCs, EState
<1>6. pager[c].pc # "hot6"
  BY <1>2
<1> QED
  BY <1>2, <1>3, <1>5, <1>6, ControlKept

LEMMA pager_writeControl ==
  ASSUME Control, NEW c \in Conn, pager_write(c), NeedsRecord(pager[c], pager[c].pg)
  PROVE  Control'
<1>1. Here(c)
  BY HereIsSo
<1>2. /\ UNCHANGED lock
      /\ pager[c].pc = "write"
  BY DEF pager_write, In, At
<1>3. /\ Types' /\ Rest(c)
      /\ Kept(pager[c], pager'[c], {"pc", "pg", "dirty", "cache", "dbSize", "journalOff", "nRec",
         "inJournal", "needSync", "jfd", "mem"})
      /\ pager'[c].pc = "idle"
  BY <1>1, pager_writeStep DEF Here
<1>j. pager'[c].jfd \in {"real", pager[c].jfd}
  BY <1>1, pager_writeStep DEF Here, Wrote, Jfds
<1>4. /\ pager'[c].eState = pager[c].eState
      /\ pager'[c].pc = "idle"
      /\ pager'[c].journalMode = pager[c].journalMode
      /\ pager'[c].jfd \in {"real", pager[c].jfd}
  BY <1>1, <1>3, <1>j DEF Here, Kept, Fields
<1>5. StateOK(pager'[c], lock[c])
  BY <1>1, <1>2, <1>4, Levels DEF Here, StateOK, UndoPCs, HotPCs, SyncPCs
<1>6. pager[c].pc # "hot6"
  BY <1>2
<1> QED
  BY <1>2, <1>3, <1>5, <1>6, ControlKept

LEMMA pager_writePlainControl ==
  ASSUME Control, NEW c \in Conn, pager_write(c), ~NeedsRecord(pager[c], pager[c].pg)
  PROVE  Control'
<1>1. Here(c)
  BY HereIsSo
<1>2. /\ UNCHANGED lock
      /\ pager[c].pc = "write"
  BY DEF pager_write, In, At
<1>3. /\ Types' /\ Rest(c)
      /\ Kept(pager[c], pager'[c], {"pc", "pg", "dirty", "cache", "dbSize", "needSync"})
      /\ pager'[c].pc = "idle"
  BY <1>1, pager_writePlain DEF Here
<1>4. /\ pager'[c].eState = pager[c].eState
      /\ pager'[c].pc = "idle"
      /\ pager'[c].journalMode = pager[c].journalMode
      /\ pager'[c].jfd = pager[c].jfd
  BY <1>1, <1>3 DEF Here, Kept, Fields
<1>5. StateOK(pager'[c], lock[c])
  BY <1>1, <1>2, <1>4, Levels DEF Here, StateOK, UndoPCs, HotPCs, SyncPCs
<1>6. pager[c].pc # "hot6"
  BY <1>2
<1> QED
  BY <1>2, <1>3, <1>5, <1>6, ControlKept

LEMMA WriteOpenControl ==
  ASSUME Control, NEW c \in Conn, NEW p \in Page, Write(c, p), pager[c].eState = "WRITER_LOCKED"
  PROVE  Control'
<1>1. Here(c)
  BY HereIsSo
<1>2. /\ UNCHANGED lock
      /\ pager[c].pc = "idle"
  BY DEF Write, In, At
<1>3. /\ Types' /\ Rest(c)
  BY <1>1, WriteOpen DEF Here
<1>4. /\ pager'[c].eState = pager[c].eState
      /\ pager'[c].pc = "open"
      /\ pager'[c].journalMode = pager[c].journalMode
      /\ pager'[c].jfd = pager[c].jfd
  BY <1>1, WriteOpen DEF Here, Kept, Fields
<1>5. StateOK(pager'[c], lock[c])
  BY <1>1, <1>2, <1>4, Levels DEF Here, StateOK, UndoPCs, HotPCs, SyncPCs
<1>6. pager[c].pc # "hot6"
  BY <1>2
<1> QED
  BY <1>2, <1>3, <1>5, <1>6, ControlKept

LEMMA WriteMoreControl ==
  ASSUME Control, NEW c \in Conn, NEW p \in Page, Write(c, p), pager[c].eState # "WRITER_LOCKED"
  PROVE  Control'
<1>1. Here(c)
  BY HereIsSo
<1>2. /\ UNCHANGED lock
      /\ pager[c].pc = "idle" /\ pager[c].eState \in {"WRITER_CACHEMOD", "WRITER_DBMOD"}
  BY DEF Write, In, At, Writing
<1>3. /\ Types' /\ Rest(c)
  BY <1>1, WriteMore DEF Here
<1>4. /\ pager'[c].eState = pager[c].eState
      /\ pager'[c].pc = "write"
      /\ pager'[c].journalMode = pager[c].journalMode
      /\ pager'[c].jfd = pager[c].jfd
  BY <1>1, WriteMore DEF Here, Kept, Fields
<1>5. StateOK(pager'[c], lock[c])
  BY <1>1, <1>2, <1>4, Levels DEF Here, StateOK, UndoPCs, HotPCs, SyncPCs
<1>6. pager[c].pc # "hot6"
  BY <1>2
<1> QED
  BY <1>2, <1>3, <1>5, <1>6, ControlKept

LEMMA SpillControl ==
  ASSUME Control, NEW c \in Conn, NEW p \in Page, Spill(c, p)
  PROVE  Control'
<1>1. Here(c)
  BY HereIsSo
<1>2. /\ UNCHANGED lock
      /\ pager[c].pc = "idle" /\ pager[c].eState \in {"WRITER_CACHEMOD", "WRITER_DBMOD"}
  BY DEF Spill, In, At, Writing
<1>3. /\ Types' /\ Rest(c)
  BY <1>1, SpillStep DEF Here
<1>4. /\ pager'[c].eState = pager[c].eState
      /\ pager'[c].pc \in {"sync1", "spill"}
      /\ pager'[c].journalMode = pager[c].journalMode
      /\ pager'[c].jfd = pager[c].jfd
      /\ pager[c].eState = "WRITER_CACHEMOD" => pager'[c].pc = "sync1"
  BY <1>1, SpillStep DEF Here, Kept, Fields
<1>5. StateOK(pager'[c], lock[c])
  BY <1>1, <1>2, <1>4, Levels DEF Here, StateOK, UndoPCs, HotPCs, SyncPCs
<1>6. pager[c].pc # "hot6"
  BY <1>2
<1> QED
  BY <1>2, <1>3, <1>5, <1>6, ControlKept

LEMMA SyncRecordsControl ==
  ASSUME Control, NEW c \in Conn, SyncRecords(c)
  PROVE  Control'
<1>1. Here(c)
  BY HereIsSo
<1>2. /\ UNCHANGED lock
      /\ pager[c].pc = "sync2"
  BY DEF SyncRecords, In, At
<1>3. /\ Types' /\ Rest(c)
  BY <1>1, SyncRecordsStep DEF Here
<1>4. /\ pager'[c].eState = pager[c].eState
      /\ pager'[c].pc = "sync3"
      /\ pager'[c].journalMode = pager[c].journalMode
      /\ pager'[c].jfd = pager[c].jfd
  BY <1>1, SyncRecordsStep DEF Here, Kept, Fields
<1>5. StateOK(pager'[c], lock[c])
  BY <1>1, <1>2, <1>4, Levels DEF Here, StateOK, UndoPCs, HotPCs, SyncPCs
<1>6. pager[c].pc # "hot6"
  BY <1>2
<1> QED
  BY <1>2, <1>3, <1>5, <1>6, ControlKept

LEMMA SyncHeaderControl ==
  ASSUME Control, NEW c \in Conn, SyncHeader(c)
  PROVE  Control'
<1>1. Here(c)
  BY HereIsSo
<1>2. /\ UNCHANGED lock
      /\ pager[c].pc = "sync3"
  BY DEF SyncHeader, In, At
<1>3. /\ Types' /\ Rest(c)
      /\ Kept(pager[c], pager'[c], {"pc", "jfd", "mem"})
      /\ pager'[c].pc = "sync4"
  BY <1>1, SyncHeaderStep DEF Here
<1>j. pager'[c].jfd \in {"real", pager[c].jfd}
  BY <1>1, SyncHeaderStep DEF Here, Wrote, Jfds
<1>4. /\ pager'[c].eState = pager[c].eState
      /\ pager'[c].pc = "sync4"
      /\ pager'[c].journalMode = pager[c].journalMode
      /\ pager'[c].jfd \in {"real", pager[c].jfd}
  BY <1>1, <1>3, <1>j DEF Here, Kept, Fields
<1>5. StateOK(pager'[c], lock[c])
  BY <1>1, <1>2, <1>4, Levels DEF Here, StateOK, UndoPCs, HotPCs, SyncPCs
<1>6. pager[c].pc # "hot6"
  BY <1>2
<1> QED
  BY <1>2, <1>3, <1>5, <1>6, ControlKept

LEMMA SyncDoneSpillControl ==
  ASSUME Control, NEW c \in Conn, SyncDone(c), pager[c].pg # 0
  PROVE  Control'
<1>1. Here(c)
  BY HereIsSo
<1>2. /\ UNCHANGED lock
      /\ pager[c].pc = "sync4"
  BY DEF SyncDone, In, At
<1>3. /\ Types' /\ Rest(c)
      /\ Kept(pager[c], pager'[c], {"journalHdr", "needSync", "ownHdr", "eState", "pc", "nRec",
         "journalOff", "jfd", "mem"})
      /\ pager'[c].pc = "spill"
      /\ pager'[c].eState = "WRITER_DBMOD"
  BY <1>1, SyncDoneSpill DEF Here
<1>j. pager'[c].jfd \in {"real", pager[c].jfd}
  BY <1>1, SyncDoneSpill DEF Here, Wrote, Jfds
<1>4. /\ pager'[c].eState = "WRITER_DBMOD"
      /\ pager'[c].pc = "spill"
      /\ pager'[c].journalMode = pager[c].journalMode
      /\ pager'[c].jfd \in {"real", pager[c].jfd}
  BY <1>1, <1>3, <1>j DEF Here, Kept, Fields
<1>5. StateOK(pager'[c], lock[c])
  BY <1>1, <1>2, <1>4, Levels DEF Here, StateOK, UndoPCs, HotPCs, SyncPCs, EState
<1>6. pager[c].pc # "hot6"
  BY <1>2
<1> QED
  BY <1>2, <1>3, <1>5, <1>6, ControlKept

LEMMA SyncDoneCommitControl ==
  ASSUME Control, NEW c \in Conn, SyncDone(c), pager[c].pg = 0
  PROVE  Control'
<1>1. Here(c)
  BY HereIsSo
<1>2. /\ UNCHANGED lock
      /\ pager[c].pc = "sync4"
  BY DEF SyncDone, In, At
<1>3. /\ Types' /\ Rest(c)
  BY <1>1, SyncDoneCommit DEF Here
<1>4. /\ pager'[c].eState = "WRITER_DBMOD"
      /\ pager'[c].pc = "pages"
      /\ pager'[c].journalMode = pager[c].journalMode
      /\ pager'[c].jfd = pager[c].jfd
  BY <1>1, SyncDoneCommit DEF Here, Kept, Fields
<1>5. StateOK(pager'[c], lock[c])
  BY <1>1, <1>2, <1>4, Levels DEF Here, StateOK, UndoPCs, HotPCs, SyncPCs, EState
<1>6. pager[c].pc # "hot6"
  BY <1>2
<1> QED
  BY <1>2, <1>3, <1>5, <1>6, ControlKept

LEMMA SpillWriteControl ==
  ASSUME Control, NEW c \in Conn, SpillWrite(c)
  PROVE  Control'
<1>1. Here(c)
  BY HereIsSo
<1>2. /\ UNCHANGED lock
      /\ pager[c].pc = "spill"
  BY DEF SpillWrite, In, At
<1>3. /\ Types' /\ Rest(c)
      /\ Kept(pager[c], pager'[c], {"pc", "pg", "cache", "dirty"})
      /\ pager'[c].pc = "idle"
  BY <1>1, SpillWriteStep DEF Here
<1>4. /\ pager'[c].eState = pager[c].eState
      /\ pager'[c].pc = "idle"
      /\ pager'[c].journalMode = pager[c].journalMode
      /\ pager'[c].jfd = pager[c].jfd
  BY <1>1, <1>3 DEF Here, Kept, Fields
<1>5. StateOK(pager'[c], lock[c])
  BY <1>1, <1>2, <1>4, Levels DEF Here, StateOK, UndoPCs, HotPCs, SyncPCs
<1>6. pager[c].pc # "hot6"
  BY <1>2
<1> QED
  BY <1>2, <1>3, <1>5, <1>6, ControlKept

LEMMA CountDirectControl ==
  ASSUME Control, NEW c \in Conn, CountDirect(c)
  PROVE  Control'
<1>1. Here(c)
  BY HereIsSo
<1>2. /\ UNCHANGED lock
      /\ pager[c].pc = "count"
  BY DEF CountDirect, In, At
<1>3. /\ Types' /\ Rest(c)
  BY <1>1, CountDirectStep DEF Here
<1>4. /\ pager'[c].eState = pager[c].eState
      /\ pager'[c].pc = "sync2"
      /\ pager'[c].journalMode = pager[c].journalMode
      /\ pager'[c].jfd = pager[c].jfd
  BY <1>1, CountDirectStep DEF Here, Kept, Fields
<1>5. StateOK(pager'[c], lock[c])
  BY <1>1, <1>2, <1>4, Levels DEF Here, StateOK, UndoPCs, HotPCs, SyncPCs
<1>6. pager[c].pc # "hot6"
  BY <1>2
<1> QED
  BY <1>2, <1>3, <1>5, <1>6, ControlKept

LEMMA CountJournalledControl ==
  ASSUME Control, NEW c \in Conn, CountJournalled(c), NeedsRecord(pager[c], 1)
  PROVE  Control'
<1>1. Here(c)
  BY HereIsSo
<1>2. /\ UNCHANGED lock
      /\ pager[c].pc = "count"
  BY DEF CountJournalled, In, At
<1>3. /\ Types' /\ Rest(c)
      /\ Kept(pager[c], pager'[c], {"pc", "dirty", "cache", "journalOff", "nRec", "inJournal",
         "needSync", "jfd", "mem"})
      /\ pager'[c].pc = "sync2"
  BY <1>1, CountJournalledStep DEF Here
<1>j. pager'[c].jfd \in {"real", pager[c].jfd}
  BY <1>1, CountJournalledStep DEF Here, Wrote, Jfds
<1>4. /\ pager'[c].eState = pager[c].eState
      /\ pager'[c].pc = "sync2"
      /\ pager'[c].journalMode = pager[c].journalMode
      /\ pager'[c].jfd \in {"real", pager[c].jfd}
  BY <1>1, <1>3, <1>j DEF Here, Kept, Fields
<1>5. StateOK(pager'[c], lock[c])
  BY <1>1, <1>2, <1>4, Levels DEF Here, StateOK, UndoPCs, HotPCs, SyncPCs
<1>6. pager[c].pc # "hot6"
  BY <1>2
<1> QED
  BY <1>2, <1>3, <1>5, <1>6, ControlKept

LEMMA CountJournalledPlainControl ==
  ASSUME Control, NEW c \in Conn, CountJournalled(c), ~NeedsRecord(pager[c], 1)
  PROVE  Control'
<1>1. Here(c)
  BY HereIsSo
<1>2. /\ UNCHANGED lock
      /\ pager[c].pc = "count"
  BY DEF CountJournalled, In, At
<1>3. /\ Types' /\ Rest(c)
      /\ Kept(pager[c], pager'[c], {"pc", "dirty", "cache", "jfd", "mem"})
      /\ pager'[c].pc = "sync2"
      /\ pager'[c].jfd = IF pager[c].jfd = "mem" THEN "real" ELSE pager[c].jfd
  BY <1>1, CountJournalledPlain DEF Here
<1>4. /\ pager'[c].eState = pager[c].eState
      /\ pager'[c].pc = "sync2"
      /\ pager'[c].journalMode = pager[c].journalMode
      /\ pager'[c].jfd \in {"real", pager[c].jfd}
  BY <1>1, <1>3 DEF Here, Kept, Fields
<1>5. StateOK(pager'[c], lock[c])
  BY <1>1, <1>2, <1>4, Levels DEF Here, StateOK, UndoPCs, HotPCs, SyncPCs
<1>6. pager[c].pc # "hot6"
  BY <1>2
<1> QED
  BY <1>2, <1>3, <1>5, <1>6, ControlKept

LEMMA WritePagesControl ==
  ASSUME Control, NEW c \in Conn, WritePages(c)
  PROVE  Control'
<1>1. Here(c)
  BY HereIsSo
<1>2. /\ UNCHANGED lock
      /\ pager[c].pc = "pages"
  BY DEF WritePages, In, At
<1>3. /\ Types' /\ Rest(c)
      /\ Kept(pager[c], pager'[c], {"dirty", "cache", "dbFileVers"})
  BY <1>1, WritePagesStep DEF Here
<1>4. /\ pager'[c].eState = pager[c].eState
      /\ pager'[c].pc = pager[c].pc
      /\ pager'[c].journalMode = pager[c].journalMode
      /\ pager'[c].jfd = pager[c].jfd
  BY <1>1, <1>3 DEF Here, Kept, Fields
<1>5. StateOK(pager'[c], lock[c])
  BY <1>1, <1>2, <1>4, Levels DEF Here, StateOK, UndoPCs, HotPCs, SyncPCs
<1>6. pager[c].pc # "hot6"
  BY <1>2
<1> QED
  BY <1>2, <1>3, <1>5, <1>6, ControlKept

LEMMA SyncDatabaseControl ==
  ASSUME Control, NEW c \in Conn, SyncDatabase(c)
  PROVE  Control'
<1>1. Here(c)
  BY HereIsSo
<1>2. /\ UNCHANGED lock
      /\ pager[c].pc = "pages"
  BY DEF SyncDatabase, In, At
<1>3. /\ Types' /\ Rest(c)
  BY <1>1, SyncDatabaseStep DEF Here
<1>4. /\ pager'[c].eState = "WRITER_FINISHED"
      /\ pager'[c].pc = "idle"
      /\ pager'[c].journalMode = pager[c].journalMode
      /\ pager'[c].jfd = pager[c].jfd
  BY <1>1, SyncDatabaseStep DEF Here, Kept, Fields
<1>5. StateOK(pager'[c], lock[c])
  BY <1>1, <1>2, <1>4, Levels DEF Here, StateOK, UndoPCs, HotPCs, SyncPCs, EState
<1>6. pager[c].pc # "hot6"
  BY <1>2
<1> QED
  BY <1>2, <1>3, <1>5, <1>6, ControlKept

LEMMA CommitPhaseTwoControl ==
  ASSUME Control, NEW c \in Conn, CommitPhaseTwo(c)
  PROVE  Control'
<1>1. Here(c)
  BY HereIsSo
<1>2. /\ UNCHANGED lock
      /\ pager[c].pc = "idle" /\ pager[c].eState = "WRITER_FINISHED"
  BY DEF CommitPhaseTwo, In, At
<1>3. /\ Types' /\ Rest(c)
  BY <1>1, CommitPhaseTwoStep DEF Here
<1>4. /\ pager'[c].eState = pager[c].eState
      /\ pager'[c].pc = "final"
      /\ pager'[c].journalMode = pager[c].journalMode
      /\ pager'[c].jfd = pager[c].jfd
  BY <1>1, CommitPhaseTwoStep DEF Here, Kept, Fields
<1>5. StateOK(pager'[c], lock[c])
  BY <1>1, <1>2, <1>4, Levels DEF Here, StateOK, UndoPCs, HotPCs, SyncPCs
<1>6. pager[c].pc # "hot6"
  BY <1>2
<1> QED
  BY <1>2, <1>3, <1>5, <1>6, ControlKept

LEMMA RollbackControl ==
  ASSUME Control, NEW c \in Conn, Rollback(c)
  PROVE  Control'
<1>1. Here(c)
  BY HereIsSo
<1>2. /\ UNCHANGED lock
      /\ pager[c].pc \in {"idle", "abort"}
      /\ pager[c].pc = "idle" => pager[c].eState \in {"WRITER_LOCKED", "WRITER_CACHEMOD",
         "WRITER_DBMOD",
                                                  "WRITER_FINISHED"}
  BY DEF Rollback, In, At, Writing
<1>3. /\ Types' /\ Rest(c)
  BY <1>1, RollbackStep DEF Here
<1>4. /\ pager'[c].eState = pager[c].eState
      /\ pager'[c].pc = IF pager[c].eState = "WRITER_LOCKED" THEN "final" ELSE "playback"
      /\ pager'[c].journalMode = pager[c].journalMode
      /\ pager'[c].jfd = pager[c].jfd
  BY <1>1, RollbackStep DEF Here, Kept, Fields
<1>5. StateOK(pager'[c], lock[c])
  BY <1>1, <1>2, <1>4, Levels DEF Here, StateOK, UndoPCs, HotPCs, SyncPCs, EState
<1>6. pager[c].pc # "hot6"
  BY <1>2
<1> QED
  BY <1>2, <1>3, <1>5, <1>6, ControlKept

LEMMA PlaybackHeaderControl ==
  ASSUME Control, NEW c \in Conn, PlaybackHeader(c)
  PROVE  Control'
<1>1. Here(c)
  BY HereIsSo
<1>2. /\ UNCHANGED lock
      /\ pager[c].pc = "playback"
  BY DEF PlaybackHeader, In, At
<1>3. /\ Types' /\ Rest(c)
  BY <1>1, PlaybackHeaderStep DEF Here
<1>4. /\ pager'[c].eState = pager[c].eState
      /\ pager'[c].pc \in {"playback", "record"}
      /\ pager'[c].journalMode = pager[c].journalMode
      /\ pager'[c].jfd = pager[c].jfd
  BY <1>1, PlaybackHeaderStep DEF Here, Kept, Fields
<1>5. StateOK(pager'[c], lock[c])
  BY <1>1, <1>2, <1>4, Levels DEF Here, StateOK, UndoPCs, HotPCs, SyncPCs
<1>6. pager[c].pc # "hot6"
  BY <1>2
<1> QED
  BY <1>2, <1>3, <1>5, <1>6, ControlKept

LEMMA PlaybackStopControl ==
  ASSUME Control, NEW c \in Conn, PlaybackStop(c)
  PROVE  Control'
<1>1. Here(c)
  BY HereIsSo
<1>2. /\ UNCHANGED lock
      /\ pager[c].pc = "playback"
  BY DEF PlaybackStop, In, At
<1>3. /\ Types' /\ Rest(c)
  BY <1>1, PlaybackStopStep DEF Here
<1>4. /\ pager'[c].eState = pager[c].eState
      /\ pager'[c].pc = "restored"
      /\ pager'[c].journalMode = pager[c].journalMode
      /\ pager'[c].jfd = pager[c].jfd
  BY <1>1, PlaybackStopStep DEF Here, Kept, Fields
<1>5. StateOK(pager'[c], lock[c])
  BY <1>1, <1>2, <1>4, Levels DEF Here, StateOK, UndoPCs, HotPCs, SyncPCs
<1>6. pager[c].pc # "hot6"
  BY <1>2
<1> QED
  BY <1>2, <1>3, <1>5, <1>6, ControlKept

LEMMA PlaybackRecordControl ==
  ASSUME Control, NEW c \in Conn, PlaybackRecord(c)
  PROVE  Control'
<1>1. Here(c)
  BY HereIsSo
<1>2. /\ UNCHANGED lock
      /\ pager[c].pc = "record"
  BY DEF PlaybackRecord, In, At
<1>3. /\ Types' /\ Rest(c)
      /\ Kept(pager[c], pager'[c], {"journalOff", "left", "pc", "cache", "dirty", "dbFileVers"})
      /\ pager'[c].pc = IF pager[c].left = 1 THEN "playback" ELSE "record"
  BY <1>1, PlaybackRecordStep DEF Here
<1>4. /\ pager'[c].eState = pager[c].eState
      /\ pager'[c].pc \in {"playback", "record"}
      /\ pager'[c].journalMode = pager[c].journalMode
      /\ pager'[c].jfd = pager[c].jfd
  BY <1>1, <1>3 DEF Here, Kept, Fields
<1>5. StateOK(pager'[c], lock[c])
  BY <1>1, <1>2, <1>4, Levels DEF Here, StateOK, UndoPCs, HotPCs, SyncPCs
<1>6. pager[c].pc # "hot6"
  BY <1>2
<1> QED
  BY <1>2, <1>3, <1>5, <1>6, ControlKept

LEMMA PlaybackBadRecordControl ==
  ASSUME Control, NEW c \in Conn, PlaybackBadRecord(c)
  PROVE  Control'
<1>1. Here(c)
  BY HereIsSo
<1>2. /\ UNCHANGED lock
      /\ pager[c].pc = "record"
  BY DEF PlaybackBadRecord, In, At
<1>3. /\ Types' /\ Rest(c)
  BY <1>1, PlaybackBadRecordStep DEF Here
<1>4. /\ pager'[c].eState = pager[c].eState
      /\ pager'[c].pc = "restored"
      /\ pager'[c].journalMode = pager[c].journalMode
      /\ pager'[c].jfd = pager[c].jfd
  BY <1>1, PlaybackBadRecordStep DEF Here, Kept, Fields
<1>5. StateOK(pager'[c], lock[c])
  BY <1>1, <1>2, <1>4, Levels DEF Here, StateOK, UndoPCs, HotPCs, SyncPCs
<1>6. pager[c].pc # "hot6"
  BY <1>2
<1> QED
  BY <1>2, <1>3, <1>5, <1>6, ControlKept

LEMMA PlaybackDoneControl ==
  ASSUME Control, NEW c \in Conn, PlaybackDone(c)
  PROVE  Control'
<1>1. Here(c)
  BY HereIsSo
<1>2. /\ UNCHANGED lock
      /\ pager[c].pc = "restored"
  BY DEF PlaybackDone, In, At
<1>3. /\ Types' /\ Rest(c)
  BY <1>1, PlaybackDoneStep DEF Here
<1>4. /\ pager'[c].eState = pager[c].eState
      /\ pager'[c].pc = "final"
      /\ pager'[c].journalMode = pager[c].journalMode
      /\ pager'[c].jfd = pager[c].jfd
  BY <1>1, PlaybackDoneStep DEF Here, Kept, Fields
<1>5. StateOK(pager'[c], lock[c])
  BY <1>1, <1>2, <1>4, Levels DEF Here, StateOK, UndoPCs, HotPCs, SyncPCs
<1>6. pager[c].pc # "hot6"
  BY <1>2
<1> QED
  BY <1>2, <1>3, <1>5, <1>6, ControlKept

LEMMA OpenErrorControl ==
  ASSUME Control, NEW c \in Conn, OpenError(c)
  PROVE  Control'
<1>1. Here(c)
  BY HereIsSo
<1>2. /\ UNCHANGED lock
      /\ pager[c].pc = "open"
  BY DEF OpenError, In, At
<1>3. Types' /\ Rest(c)
  BY <1>1, OpenErrorStep DEF Here
<1>4. /\ pager'[c].eState = pager[c].eState
      /\ pager'[c].pc = "abort"
      /\ pager'[c].journalMode = pager[c].journalMode
      /\ pager'[c].jfd \in {"real", pager[c].jfd}
  BY <1>1, OpenErrorStep DEF Here, Kept, Fields, Cut
<1>5. StateOK(pager'[c], lock[c])
  BY <1>1, <1>2, <1>4, Levels DEF Here, StateOK, UndoPCs, HotPCs, SyncPCs
<1>6. pager[c].pc # "hot6"
  BY <1>2
<1> QED
  BY <1>2, <1>3, <1>5, <1>6, ControlKept

LEMMA RecordErrorControl ==
  ASSUME Control, NEW c \in Conn, RecordError(c)
  PROVE  Control'
<1>1. Here(c)
  BY HereIsSo
<1>2. /\ UNCHANGED lock
      /\ pager[c].pc = "write"
  BY DEF RecordError, In, At
<1>3. /\ Types' /\ Rest(c)
      /\ Kept(pager[c], pager'[c], {"pc", "dirty", "needSync", "jfd", "mem"})
      /\ pager'[c].pc = "abort"
  BY <1>1, RecordErrorStep DEF Here
<1>j. pager'[c].jfd \in {"real", pager[c].jfd}
  BY <1>1, RecordErrorStep DEF Here, Cut, Jfds
<1>4. /\ pager'[c].eState = pager[c].eState
      /\ pager'[c].pc = "abort"
      /\ pager'[c].journalMode = pager[c].journalMode
      /\ pager'[c].jfd \in {"real", pager[c].jfd}
  BY <1>1, <1>3, <1>j DEF Here, Kept, Fields
<1>5. StateOK(pager'[c], lock[c])
  BY <1>1, <1>2, <1>4, Levels DEF Here, StateOK, UndoPCs, HotPCs, SyncPCs
<1>6. pager[c].pc # "hot6"
  BY <1>2
<1> QED
  BY <1>2, <1>3, <1>5, <1>6, ControlKept

LEMMA SyncErrorControl ==
  ASSUME Control, NEW c \in Conn, SyncError(c)
  PROVE  Control'
<1>1. Here(c)
  BY HereIsSo
<1>2. /\ UNCHANGED lock
      /\ pager[c].pc \in SyncPCs
  BY DEF SyncError, In, At, SyncPCs
<1>3. /\ Types' /\ Rest(c)
      /\ Kept(pager[c], pager'[c], {"eState", "pc", "jfd", "mem"})
      /\ pager'[c].pc = IF pager[c].pg # 0 THEN "idle" ELSE "abort"
      /\ pager'[c].eState = IF pager[c].pg # 0 THEN "ERROR" ELSE pager[c].eState
  BY <1>1, SyncErrorStep DEF Here
<1>j. pager'[c].jfd \in {"real", pager[c].jfd}
  BY <1>1, SyncErrorStep DEF Here, Wrote, Jfds
<1>4. /\ pager'[c].eState \in {"ERROR", pager[c].eState}
      /\ pager'[c].pc = IF pager[c].pg # 0 THEN "idle" ELSE "abort"
      /\ pager'[c].eState = IF pager[c].pg # 0 THEN "ERROR" ELSE pager[c].eState
      /\ pager'[c].journalMode = pager[c].journalMode
      /\ pager'[c].jfd \in {"real", pager[c].jfd}
  BY <1>1, <1>3, <1>j DEF Here, Kept, Fields
<1>5. StateOK(pager'[c], lock[c])
  BY <1>1, <1>2, <1>4, Levels DEF Here, StateOK, UndoPCs, HotPCs, SyncPCs, EState
<1>6. pager[c].pc # "hot6"
  BY <1>2 DEF SyncPCs
<1> QED
  BY <1>2, <1>3, <1>5, <1>6, ControlKept

LEMMA NewHeaderErrorControl ==
  ASSUME Control, NEW c \in Conn, NewHeaderError(c)
  PROVE  Control'
<1>1. Here(c)
  BY HereIsSo
<1>2. /\ UNCHANGED lock
      /\ pager[c].pc = "sync4"
  BY DEF NewHeaderError, In, At
<1>3. /\ Types' /\ Rest(c)
      /\ Kept(pager[c], pager'[c], {"eState", "pc", "journalHdr", "jfd", "mem"})
      /\ pager'[c].pc = "idle"
      /\ pager'[c].eState = "ERROR"
  BY <1>1, NewHeaderErrorStep DEF Here
<1>j. pager'[c].jfd \in {"real", pager[c].jfd}
  BY <1>1, NewHeaderErrorStep DEF Here, Cut, Jfds
<1>4. /\ pager'[c].eState = "ERROR"
      /\ pager'[c].pc = "idle"
      /\ pager'[c].journalMode = pager[c].journalMode
      /\ pager'[c].jfd \in {"real", pager[c].jfd}
  BY <1>1, <1>3, <1>j DEF Here, Kept, Fields
<1>5. StateOK(pager'[c], lock[c])
  BY <1>1, <1>2, <1>4, Levels DEF Here, StateOK, UndoPCs, HotPCs, SyncPCs, EState
<1>6. pager[c].pc # "hot6"
  BY <1>2
<1> QED
  BY <1>2, <1>3, <1>5, <1>6, ControlKept

LEMMA CountErrorControl ==
  ASSUME Control, NEW c \in Conn, CountError(c)
  PROVE  Control'
<1>1. Here(c)
  BY HereIsSo
<1>2. /\ UNCHANGED lock
      /\ pager[c].pc = "count"
  BY DEF CountError, In, At
<1>3. Types' /\ Rest(c)
  BY <1>1, CountErrorStep DEF Here
<1>4. /\ pager'[c].eState = pager[c].eState
      /\ pager'[c].pc = "abort"
      /\ pager'[c].journalMode = pager[c].journalMode
      /\ pager'[c].jfd \in {"real", pager[c].jfd}
  BY <1>1, CountErrorStep DEF Here, Kept, Fields, Cut
<1>5. StateOK(pager'[c], lock[c])
  BY <1>1, <1>2, <1>4, Levels DEF Here, StateOK, UndoPCs, HotPCs, SyncPCs
<1>6. pager[c].pc # "hot6"
  BY <1>2
<1> QED
  BY <1>2, <1>3, <1>5, <1>6, ControlKept

LEMMA CountDirectErrorControl ==
  ASSUME Control, NEW c \in Conn, CountDirectError(c)
  PROVE  Control'
<1>1. Here(c)
  BY HereIsSo
<1>2. /\ UNCHANGED lock
      /\ pager[c].pc = "count"
  BY DEF CountDirectError, In, At
<1>3. /\ Types' /\ Rest(c)
  BY <1>1, CountDirectErrorStep DEF Here
<1>4. /\ pager'[c].eState = pager[c].eState
      /\ pager'[c].pc = "abort"
      /\ pager'[c].journalMode = pager[c].journalMode
      /\ pager'[c].jfd = pager[c].jfd
  BY <1>1, CountDirectErrorStep DEF Here, Kept, Fields
<1>5. StateOK(pager'[c], lock[c])
  BY <1>1, <1>2, <1>4, Levels DEF Here, StateOK, UndoPCs, HotPCs, SyncPCs
<1>6. pager[c].pc # "hot6"
  BY <1>2
<1> QED
  BY <1>2, <1>3, <1>5, <1>6, ControlKept

LEMMA SpillErrorControl ==
  ASSUME Control, NEW c \in Conn, SpillError(c)
  PROVE  Control'
<1>1. Here(c)
  BY HereIsSo
<1>2. /\ UNCHANGED lock
      /\ pager[c].pc = "spill"
  BY DEF SpillError, In, At
<1>3. /\ Types' /\ Rest(c)
  BY <1>1, SpillErrorStep DEF Here
<1>4. /\ pager'[c].eState = "ERROR"
      /\ pager'[c].pc = "idle"
      /\ pager'[c].journalMode = pager[c].journalMode
      /\ pager'[c].jfd = pager[c].jfd
  BY <1>1, SpillErrorStep DEF Here, Kept, Fields
<1>5. StateOK(pager'[c], lock[c])
  BY <1>1, <1>2, <1>4, Levels DEF Here, StateOK, UndoPCs, HotPCs, SyncPCs, EState
<1>6. pager[c].pc # "hot6"
  BY <1>2
<1> QED
  BY <1>2, <1>3, <1>5, <1>6, ControlKept

LEMMA WritePagesErrorControl ==
  ASSUME Control, NEW c \in Conn, WritePagesError(c)
  PROVE  Control'
<1>1. Here(c)
  BY HereIsSo
<1>2. /\ UNCHANGED lock
      /\ pager[c].pc = "pages"
  BY DEF WritePagesError, In, At
<1>3. /\ Types' /\ Rest(c)
      /\ Kept(pager[c], pager'[c], {"pc", "cache", "dbFileVers"})
      /\ pager'[c].pc = "abort"
  BY <1>1, WritePagesErrorStep DEF Here
<1>4. /\ pager'[c].eState = pager[c].eState
      /\ pager'[c].pc = "abort"
      /\ pager'[c].journalMode = pager[c].journalMode
      /\ pager'[c].jfd = pager[c].jfd
  BY <1>1, <1>3 DEF Here, Kept, Fields
<1>5. StateOK(pager'[c], lock[c])
  BY <1>1, <1>2, <1>4, Levels DEF Here, StateOK, UndoPCs, HotPCs, SyncPCs
<1>6. pager[c].pc # "hot6"
  BY <1>2
<1> QED
  BY <1>2, <1>3, <1>5, <1>6, ControlKept

LEMMA SyncDatabaseErrorControl ==
  ASSUME Control, NEW c \in Conn, SyncDatabaseError(c)
  PROVE  Control'
<1>1. Here(c)
  BY HereIsSo
<1>2. /\ UNCHANGED lock
      /\ pager[c].pc = "pages"
  BY DEF SyncDatabaseError, In, At
<1>3. /\ Types' /\ Rest(c)
  BY <1>1, SyncDatabaseErrorStep DEF Here
<1>4. /\ pager'[c].eState = pager[c].eState
      /\ pager'[c].pc = "abort"
      /\ pager'[c].journalMode = pager[c].journalMode
      /\ pager'[c].jfd = pager[c].jfd
  BY <1>1, SyncDatabaseErrorStep DEF Here, Kept, Fields
<1>5. StateOK(pager'[c], lock[c])
  BY <1>1, <1>2, <1>4, Levels DEF Here, StateOK, UndoPCs, HotPCs, SyncPCs
<1>6. pager[c].pc # "hot6"
  BY <1>2
<1> QED
  BY <1>2, <1>3, <1>5, <1>6, ControlKept

LEMMA PlaybackErrorOwnControl ==
  ASSUME Control, NEW c \in Conn, PlaybackError(c), pager[c].eState # "OPEN"
  PROVE  Control'
<1>1. Here(c)
  BY HereIsSo
<1>2. /\ UNCHANGED lock
      /\ pager[c].pc \in {"playback", "record", "restored"}
  BY DEF PlaybackError, In, At
<1>3. /\ Types' /\ Rest(c)
  BY <1>1, PlaybackErrorOwn DEF Here
<1>4. /\ pager'[c].eState = "ERROR"
      /\ pager'[c].pc = "idle"
      /\ pager'[c].journalMode = pager[c].journalMode
      /\ pager'[c].jfd = pager[c].jfd
  BY <1>1, PlaybackErrorOwn DEF Here, Kept, Fields
<1>5. StateOK(pager'[c], lock[c])
  BY <1>1, <1>2, <1>4, Levels DEF Here, StateOK, UndoPCs, HotPCs, SyncPCs, EState
<1>6. pager[c].pc # "hot6"
  BY <1>2
<1> QED
  BY <1>2, <1>3, <1>5, <1>6, ControlKept

LEMMA SharedLockControl ==
  ASSUME Control, NEW c \in Conn, SharedLock(c)
  PROVE  Control'
<1>1. /\ Types /\ LocksOK /\ StateOK(pager[c], lock[c]) /\ pager[c].eState = "OPEN"
      /\ pager[c].pc = "idle"
  BY ControlHere DEF SharedLock, In, At
<1>2. /\ Types' /\ Rest(c) /\ Kept(pager[c], pager'[c], {"pc"}) /\ pager'[c].pc = "hot1"
  BY <1>1, SharedLockStep
<1>3. LockMove(c) /\ lock'[c] = SHARED_LOCK /\ \A d \in Conn \ {c} : lock'[d] = lock[d]
  BY <1>1, SharedMove DEF SharedLock
<1>4. pager'[c].eState = "OPEN" /\ pager'[c].jfd = pager[c].jfd
  BY <1>1, <1>2 DEF Kept, Fields
<1>5. StateOK(pager'[c], lock'[c])
  BY <1>1, <1>2, <1>3, <1>4, Levels DEF StateOK, UndoPCs, HotPCs
<1> QED
  BY <1>2, <1>3, <1>5, ControlRest

LEMMA HotExclusiveControl ==
  ASSUME Control, NEW c \in Conn, HotExclusive(c)
  PROVE  Control'
<1>1. /\ Types /\ LocksOK /\ StateOK(pager[c], lock[c]) /\ pager[c].eState \in EState
  BY ControlHere
<1>2. /\ Types' /\ Rest(c) /\ Kept(pager[c], pager'[c], {"pc"}) /\ pager[c].pc = "hot4"
      /\ pager'[c].pc = "hot5"
  BY <1>1, HotExclusiveStep
<1>3. LockMove(c) /\ lock'[c] = EXCLUSIVE_LOCK /\ \A d \in Conn \ {c} : lock'[d] = lock[d]
  BY <1>1, ExclusiveMove DEF HotExclusive
<1>4. pager'[c].eState = pager[c].eState /\ pager'[c].jfd = pager[c].jfd
  BY <1>2 DEF Kept, Fields
<1>5. pager[c].eState = "OPEN"
  BY <1>1, <1>2 DEF StateOK, EState, UndoPCs, HotPCs, SyncPCs
<1>6. StateOK(pager'[c], lock'[c])
  BY <1>1, <1>2, <1>3, <1>4, <1>5, Levels DEF StateOK, UndoPCs, HotPCs
<1> QED
  BY <1>2, <1>3, <1>6, ControlRest

LEMMA HotBusyControl ==
  ASSUME Control, NEW c \in Conn, HotBusy(c)
  PROVE  Control'
<1>1. /\ Types /\ LocksOK /\ StateOK(pager[c], lock[c]) /\ pager[c].eState \in EState
  BY ControlHere
<1>2. /\ Types' /\ Rest(c) /\ Kept(pager[c], pager'[c], {"pc"}) /\ pager[c].pc = "hot4"
      /\ pager'[c].pc = "hot6"
  BY <1>1, HotBusyStep
<1>a. ~Owner(c)'
  BY <1>2 DEF Owner
<1>3. /\ LockMove(c) /\ lock'[c] \in {lock[c], PENDING_LOCK}
      /\ \A d \in Conn \ {c} : lock'[d] = lock[d]
  BY <1>1, <1>a, BusyMove DEF HotBusy
<1>4. pager'[c].eState = pager[c].eState /\ pager'[c].jfd = pager[c].jfd
  BY <1>2 DEF Kept, Fields
<1>5. pager[c].eState = "OPEN"
  BY <1>1, <1>2 DEF StateOK, EState, UndoPCs, HotPCs, SyncPCs
<1>6. StateOK(pager'[c], lock'[c])
  BY <1>1, <1>2, <1>3, <1>4, <1>5, Levels DEF StateOK, UndoPCs, HotPCs
<1> QED
  BY <1>2, <1>3, <1>6, ControlRest

LEMMA HotReopenControl ==
  ASSUME Control, NEW c \in Conn, HotReopen(c)
  PROVE  Control'
<1>1. /\ Types /\ LocksOK /\ StateOK(pager[c], lock[c]) /\ pager[c].eState \in EState
      /\ pager[c].pc = "hot5"
  BY ControlHere DEF HotReopen, At
<1>2. /\ pager[c].eState = "OPEN" /\ lock[c] = EXCLUSIVE_LOCK /\ pager[c].jfd = "closed"
  BY <1>1 DEF StateOK, EState, UndoPCs, HotPCs, SyncPCs
<1>3. CASE jrnl.exists
  <2>1. /\ Types' /\ Rest(c) /\ Kept(pager[c], pager'[c], {"pc", "jfd", "journalHdr"})
        /\ pager'[c].pc = "playback" /\ pager'[c].jfd = "real"
    BY <1>1, <1>3, HotReopenFound
  <2>2. pager'[c].eState = "OPEN"
    BY <1>2, <2>1 DEF Kept, Fields
  <2>3. UNCHANGED lock
    BY <1>3 DEF HotReopen
  <2>4. StateOK(pager'[c], lock[c])
    BY <1>1, <1>2, <2>1, <2>2, Levels DEF StateOK, UndoPCs, HotPCs
  <2> QED
    BY <1>1, <2>1, <2>3, <2>4, ControlKept
<1>4. CASE ~jrnl.exists
  <2>1. /\ Goto(c, "vers") /\ lock' = [lock EXCEPT ![c] = SHARED_LOCK]
        /\ UNCHANGED <<disk, txid, faults>>
    BY <1>4 DEF HotReopen, disk
  <2>2. lock' \in [Conn -> 0..4] /\ faults' \in Nat /\ "vers" \in PCs
    BY <1>1, <2>1, Levels DEF Types, PCs, HotPCs
  <2>3. /\ Types' /\ Rest(c) /\ Kept(pager[c], pager'[c], {"pc"}) /\ pager'[c].pc = "vers"
    BY <1>1, <2>1, <2>2, GotoTypes
  <2>4. SHARED_LOCK \in 0..1 /\ SHARED_LOCK <= lock[c]
    BY <1>2, Levels
  <2>5. LockMove(c) /\ lock'[c] = SHARED_LOCK /\ \A d \in Conn \ {c} : lock'[d] = lock[d]
    BY <1>1, <2>1, <2>4, LockLowered
  <2>6. pager'[c].eState = "OPEN" /\ pager'[c].jfd = "closed"
    BY <1>2, <2>3 DEF Kept, Fields
  <2>7. StateOK(pager'[c], lock'[c])
    BY <1>1, <2>3, <2>5, <2>6, Levels DEF StateOK, UndoPCs, HotPCs
  <2> QED
    BY <2>3, <2>5, <2>7, ControlRest
<1> QED
  BY <1>3, <1>4

LEMMA ReserveControl ==
  ASSUME Control, NEW c \in Conn, Reserve(c)
  PROVE  Control'
<1>1. /\ Types /\ LocksOK /\ StateOK(pager[c], lock[c]) /\ pager[c].eState \in EState
      /\ pager[c].pc = "reserve" /\ pager[c].jfd \in Jfds
  BY ControlHere DEF Reserve, At
<1>2. /\ Types' /\ Rest(c) /\ Kept(pager[c], pager'[c], {"pc", "eState", "dbOrigSize"})
      /\ pager'[c].pc = "idle" /\ pager'[c].eState = "WRITER_LOCKED"
  BY <1>1, ReserveStep
<1>3. lock[c] = SHARED_LOCK
  BY <1>1 DEF StateOK, EState, UndoPCs, HotPCs, SyncPCs
<1>4. LockMove(c) /\ lock'[c] = RESERVED_LOCK /\ \A d \in Conn \ {c} : lock'[d] = lock[d]
  BY <1>1, <1>3, ReservedMove DEF Reserve
<1>5. pager'[c].jfd = pager[c].jfd
  BY <1>2 DEF Kept, Fields
<1>6. StateOK(pager'[c], lock'[c])
  BY <1>1, <1>2, <1>4, <1>5, Levels DEF StateOK
<1> QED
  BY <1>2, <1>4, <1>6, ControlRest

LEMMA SyncLockControl ==
  ASSUME Control, NEW c \in Conn, SyncLock(c)
  PROVE  Control'
<1>1. /\ Types /\ LocksOK /\ StateOK(pager[c], lock[c]) /\ pager[c].eState \in EState
  BY ControlHere
<1>2. /\ Types' /\ Rest(c) /\ Kept(pager[c], pager'[c], {"pc"}) /\ pager[c].pc = "sync1"
      /\ pager'[c].pc = "sync2"
  BY <1>1, SyncLockStep
<1>3. LockMove(c) /\ lock'[c] = EXCLUSIVE_LOCK /\ \A d \in Conn \ {c} : lock'[d] = lock[d]
  BY <1>1, ExclusiveMove DEF SyncLock
<1>4. pager'[c].eState = pager[c].eState /\ pager'[c].jfd = pager[c].jfd
  BY <1>2 DEF Kept, Fields
<1>5. StateOK(pager'[c], lock'[c])
  BY <1>1, <1>2, <1>3, <1>4, Levels DEF StateOK, UndoPCs, HotPCs, SyncPCs
<1> QED
  BY <1>2, <1>3, <1>5, ControlRest

LEMMA SyncBusyControl ==
  ASSUME Control, NEW c \in Conn, SyncBusy(c)
  PROVE  Control'
<1>1. /\ Types /\ LocksOK /\ StateOK(pager[c], lock[c]) /\ pager[c].eState \in EState
      /\ pager[c].pc = "sync1" /\ lock[c] \in 0..4
  BY ControlHere DEF SyncBusy, At
<1>2. /\ Types' /\ Rest(c) /\ Kept(pager[c], pager'[c], {"pc", "pg"}) /\ pager'[c].pc = "idle"
  BY <1>1, SyncBusyStep
<1>3. lock[c] >= RESERVED_LOCK
  BY <1>1, Levels DEF StateOK, EState, UndoPCs, HotPCs, SyncPCs
<1>4. Owner(c)
  BY <1>1, <1>3 DEF Owner
<1>5. /\ LockMove(c) /\ lock'[c] \in {lock[c], PENDING_LOCK} /\ lock[c] # EXCLUSIVE_LOCK
      /\ \A d \in Conn \ {c} : lock'[d] = lock[d]
  BY <1>1, <1>4, BusyMove DEF SyncBusy
<1>6. pager'[c].eState = pager[c].eState /\ pager'[c].jfd = pager[c].jfd
  BY <1>2 DEF Kept, Fields
<1>7. StateOK(pager'[c], lock'[c])
  BY <1>1, <1>2, <1>3, <1>5, <1>6, Levels DEF StateOK, UndoPCs, HotPCs, SyncPCs
<1> QED
  BY <1>2, <1>5, <1>7, ControlRest

LEMMA CommitControl ==
  ASSUME Control, NEW c \in Conn, Commit(c)
  PROVE  Control'
<1>1. /\ Types /\ LocksOK /\ StateOK(pager[c], lock[c])
      /\ pager[c].eState \in {"WRITER_LOCKED", "WRITER_CACHEMOD", "WRITER_DBMOD"}
  BY ControlHere DEF Commit, In, Writing
<1>2. /\ Types' /\ Rest(c) /\ Kept(pager[c], pager'[c], {"pc"})
  BY <1>1, CommitStep
<1>3. LockMove(c) /\ lock'[c] = EXCLUSIVE_LOCK /\ \A d \in Conn \ {c} : lock'[d] = lock[d]
  BY <1>1, ExclusiveMove DEF Commit
<1>4. pager'[c].eState = pager[c].eState /\ pager'[c].jfd = pager[c].jfd
  BY <1>2 DEF Kept, Fields
<1>5. pager'[c].pc = IF pager[c].eState = "WRITER_LOCKED" THEN "final" ELSE "count"
  <2>1. pager = [d \in Conn |-> pager[d]] /\ IsRecord(pager[c])
    BY <1>1, PagerFields
  <2> DEFINE v == IF pager[c].eState = "WRITER_LOCKED" THEN "final" ELSE "count"
  <2>2. pager' = [pager EXCEPT ![c].pc = v]
    BY DEF Commit, Goto
  <2> HIDE DEF v
  <2>3. pager'[c].pc = v
    BY <2>1, <2>2 DEF IsRecord, Fields
  <2> QED
    BY <2>3 DEF v
<1>6. StateOK(pager'[c], lock'[c])
  BY <1>1, <1>3, <1>4, <1>5, Levels DEF StateOK, UndoPCs, HotPCs, SyncPCs
<1> QED
  BY <1>2, <1>3, <1>6, ControlRest

LEMMA CommitBusyControl ==
  ASSUME Control, NEW c \in Conn, CommitBusy(c)
  PROVE  Control'
<1>1. /\ Types /\ LocksOK /\ StateOK(pager[c], lock[c]) /\ lock[c] \in 0..4
      /\ pager[c].eState \in {"WRITER_LOCKED", "WRITER_CACHEMOD", "WRITER_DBMOD"}
      /\ pager[c].pc = "idle" /\ pager' = pager
  BY ControlHere DEF CommitBusy, In, At, Writing
<1>2. lock[c] >= RESERVED_LOCK
  BY <1>1, Levels DEF StateOK
<1>3. Owner(c)
  BY <1>1, <1>2 DEF Owner
<1>4. /\ LockMove(c) /\ lock'[c] \in {lock[c], PENDING_LOCK} /\ lock[c] # EXCLUSIVE_LOCK
      /\ \A d \in Conn \ {c} : lock'[d] = lock[d]
  BY <1>1, <1>3, BusyMove DEF CommitBusy
<1>5. lock' \in [Conn -> 0..4]
  BY <1>1, ExclusiveBusyLock DEF CommitBusy
<1>6. Types' /\ Rest(c)
  <2>1. DbTypes' /\ jrnl' \in JournalSet
    BY <1>1, DiskKept DEF CommitBusy, disk
  <2>2. Rest(c) /\ PagerOK(pager'[c]) /\ txid' \in Nat /\ faults' \in Nat
    BY <1>1 DEF CommitBusy, Types, Rest
  <2> QED
    BY <1>1, <1>5, <2>1, <2>2, ConnTypes
<1>7. StateOK(pager'[c], lock'[c])
  BY <1>1, <1>2, <1>4, Levels DEF StateOK
<1> QED
  BY <1>4, <1>6, <1>7, ControlRest

LEMMA SeveredRest ==
  ASSUME NEW c \in Conn, Severed(c), jrnl'.exists = jrnl.exists
  PROVE  Rest(c)
BY SeveredFields DEF Severed, Rest

LEMMA HotDeleteControl ==
  ASSUME Control, NEW c \in Conn, HotDelete(c)
  PROVE  Control'
<1>1. /\ Types /\ LocksOK /\ StateOK(pager[c], lock[c]) /\ pager[c].eState \in EState
      /\ pager[c].pc = "hot3" /\ lock[c] \in 0..4
  BY ControlHere DEF HotDelete, At
<1>2. /\ Types' /\ Severed(c) /\ Kept(pager[c], pager'[c], {"pc"}) /\ pager'[c].pc = "vers"
  BY <1>1, HotDeleteStep
<1>3. lock[c] = SHARED_LOCK /\ UNCHANGED lock
  BY <1>1 DEF HotDelete, StateOK, EState, UndoPCs, HotPCs, SyncPCs
<1>4. LockMove(c) /\ \A d \in Conn \ {c} : lock'[d] = lock[d]
  BY <1>1, <1>3, LockKept
<1>5. /\ pager'[c].eState = pager[c].eState /\ pager'[c].jfd = pager[c].jfd
      /\ pager'[c].journalMode = pager[c].journalMode
  BY <1>2 DEF Kept, Fields
<1>6. StateOK(pager'[c], lock'[c])
  BY <1>1, <1>2, <1>3, <1>5, Levels DEF StateOK, UndoPCs, HotPCs, SyncPCs
<1>7. CASE MayLock(c, RESERVED_LOCK)
  <2>1. Vfs = "unix" \/ \A d \in Conn \ {c} : lock[d] = NO_LOCK
    BY <1>7, Levels DEF MayLock
  <2>2. lock[c] >= SHARED_LOCK
    BY <1>3, Levels
  <2> QED
    BY <1>2, <1>4, <1>6, <2>1, <2>2, ControlSevered
<1>8. CASE ~MayLock(c, RESERVED_LOCK)
  <2>1. jrnl' = jrnl
    BY <1>8 DEF HotDelete
  <2>2. Rest(c)
    BY <1>2, <2>1, SeveredRest
  <2> QED
    BY <1>2, <1>4, <1>6, <2>2, ControlRest
<1> QED
  BY <1>7, <1>8

LEMMA UndoLock ==
  ASSUME Control, NEW c \in Conn, pager[c].pc \in UndoPCs
  PROVE  /\ lock[c] >= RESERVED_LOCK /\ lock[c] \in 0..4 /\ lock[c] >= SHARED_LOCK /\ Owner(c)
         /\ Vfs = "unix" \/ \A d \in Conn \ {c} : lock[d] = NO_LOCK
<1>1. /\ Types /\ LocksOK /\ StateOK(pager[c], lock[c]) /\ pager[c].eState \in EState
      /\ lock[c] \in 0..4
  BY ControlHere
<1>2. lock[c] >= RESERVED_LOCK
  BY <1>1, Levels DEF StateOK, EState, UndoPCs
<1>3. Vfs = "unix" \/ \A d \in Conn \ {c} : lock[d] = NO_LOCK
  BY <1>1, <1>2, PagerAssumption DEF LocksOK
<1> QED
  BY <1>1, <1>2, <1>3, Levels DEF Owner, UndoPCs

LEMMA FinalizeControl ==
  ASSUME Control, NEW c \in Conn, Finalize(c)
  PROVE  Control'
<1>1. /\ Types /\ LocksOK /\ StateOK(pager[c], lock[c]) /\ pager[c].eState \in EState
      /\ pager[c].pc = "final" /\ lock[c] \in 0..4
  BY ControlHere DEF Finalize, At
<1>2. /\ Types' /\ Severed(c) /\ Kept(pager[c], pager'[c], {"pc", "mem"})
      /\ pager'[c].pc = "unlock"
  BY <1>1, FinalizeStep
<1>3. pager[c].pc \in UndoPCs
  BY <1>1 DEF UndoPCs
<1>4. /\ UNCHANGED lock /\ lock[c] >= SHARED_LOCK
      /\ Vfs = "unix" \/ \A d \in Conn \ {c} : lock[d] = NO_LOCK
  BY <1>3, UndoLock DEF Finalize
<1>5. LockMove(c) /\ \A d \in Conn \ {c} : lock'[d] = lock[d]
  BY <1>1, <1>4, LockKept
<1>6. /\ pager'[c].eState = pager[c].eState /\ pager'[c].jfd = pager[c].jfd
      /\ pager'[c].journalMode = pager[c].journalMode
  BY <1>2 DEF Kept, Fields
<1>7. StateOK(pager'[c], lock'[c])
  BY <1>1, <1>2, <1>4, <1>6, Levels DEF StateOK, UndoPCs, HotPCs, SyncPCs
<1> QED
  BY <1>2, <1>4, <1>5, <1>7, ControlSevered

LEMMA FinalizeErrorControl ==
  ASSUME Control, NEW c \in Conn, FinalizeError(c)
  PROVE  Control'
<1>1. /\ Types /\ LocksOK /\ StateOK(pager[c], lock[c]) /\ pager[c].eState \in EState
      /\ pager[c].pc = "final" /\ lock[c] \in 0..4 /\ PagerOK(pager[c]) /\ pager[c].jfd \in Jfds
  BY ControlHere, PagerFields DEF FinalizeError, At
<1>2. /\ Types' /\ Severed(c)
      /\ pager'[c] = IF pager[c].eState = "OPEN" THEN Closed(pager[c], TRUE)
                     ELSE InError(pager[c])
  BY <1>1, FinalizeErrorStep
<1>3. pager[c].pc \in UndoPCs
  BY <1>1 DEF UndoPCs
<1>4. /\ lock[c] >= SHARED_LOCK
      /\ Vfs = "unix" \/ \A d \in Conn \ {c} : lock[d] = NO_LOCK
  BY <1>3, UndoLock
<1>5. CASE pager[c].eState = "OPEN"
  <2>1. lock' = [lock EXCEPT ![c] = NO_LOCK]
    BY <1>5 DEF FinalizeError
  <2>2. NO_LOCK \in 0..1 /\ NO_LOCK <= lock[c]
    BY <1>1, Levels
  <2>3. LockMove(c) /\ lock'[c] = NO_LOCK /\ \A d \in Conn \ {c} : lock'[d] = lock[d]
    BY <1>1, <2>1, <2>2, LockLowered
  <2>4. pager'[c].eState = "OPEN" /\ pager'[c].pc = "idle" /\ pager'[c].jfd = "closed"
    <3>1. pager'[c] = Closed(pager[c], TRUE)
      BY <1>2, <1>5
    <3>2. ASSUME NEW reset \in BOOLEAN
          PROVE  /\ Closed(pager[c], reset).eState = "OPEN" /\ Closed(pager[c], reset).pc = "idle"
                 /\ Closed(pager[c], reset).jfd = "closed"
      BY <1>1, ClosedFields
    <3> QED
      BY <3>1, <3>2
  <2>5. StateOK(pager'[c], lock'[c])
    BY <2>3, <2>4, Levels DEF StateOK, UndoPCs, HotPCs
  <2> QED
    BY <1>2, <1>4, <2>3, <2>5, ControlSevered
<1>6. CASE pager[c].eState # "OPEN"
  <2>1. lock' = [lock EXCEPT ![c] = SHARED_LOCK]
    BY <1>6 DEF FinalizeError
  <2>2. SHARED_LOCK \in 0..1 /\ SHARED_LOCK <= lock[c]
    BY <1>1, <1>4, Levels
  <2>3. LockMove(c) /\ lock'[c] = SHARED_LOCK /\ \A d \in Conn \ {c} : lock'[d] = lock[d]
    BY <1>1, <2>1, <2>2, LockLowered
  <2>4. /\ pager'[c].eState = "ERROR" /\ pager'[c].pc = "idle"
        /\ Kept(pager[c], pager'[c], {"eState", "pc"})
    BY <1>1, <1>2, <1>6, InErrorFields
  <2>5. pager'[c].jfd = pager[c].jfd
    BY <2>4 DEF Kept, Fields
  <2>6. StateOK(pager'[c], lock'[c])
    BY <1>1, <2>3, <2>4, <2>5, Levels DEF StateOK
  <2> QED
    BY <1>2, <1>4, <2>3, <2>6, ControlSevered
<1> QED
  BY <1>5, <1>6

LEMMA EndTransactionControl ==
  ASSUME Control, NEW c \in Conn, EndTransaction(c)
  PROVE  Control'
<1>1. /\ Types /\ LocksOK /\ StateOK(pager[c], lock[c]) /\ pager[c].eState \in EState
      /\ pager[c].pc = "unlock" /\ lock[c] \in 0..4 /\ pager[c].jfd \in Jfds
  BY ControlHere DEF EndTransaction, At
<1>2. /\ Types' /\ Rest(c)
      /\ pager'[c].eState = IF pager[c].eState = "OPEN" THEN "OPEN" ELSE "READER"
      /\ pager'[c].pc = IF pager[c].eState = "OPEN" THEN "vers" ELSE "idle"
      /\ pager'[c].jfd = IF pager[c].journalMode = "DELETE" THEN "closed" ELSE pager[c].jfd
  BY <1>1, EndTransactionStep
<1>3. pager'[c].journalMode = pager[c].journalMode
  BY <1>1, EndTransactionStep DEF Kept, Fields
<1>4. lock' = [lock EXCEPT ![c] = SHARED_LOCK]
  BY DEF EndTransaction
<1>5. pager[c].pc \in UndoPCs
  BY <1>1 DEF UndoPCs
<1>6. SHARED_LOCK \in 0..1 /\ SHARED_LOCK <= lock[c]
  BY <1>1, <1>5, UndoLock, Levels
<1>7. LockMove(c) /\ lock'[c] = SHARED_LOCK /\ \A d \in Conn \ {c} : lock'[d] = lock[d]
  BY <1>1, <1>4, <1>6, LockLowered
<1>8. StateOK(pager'[c], lock'[c])
  BY <1>1, <1>2, <1>3, <1>7, Levels DEF StateOK, EState, UndoPCs, HotPCs, SyncPCs
<1> QED
  BY <1>2, <1>7, <1>8, ControlRest

LEMMA UnlockingControl ==
  ASSUME Control, NEW c \in Conn,
         \/ HotGiveUp(c) \/ EndRead(c) \/ SharedLockError(c) \/ ErrorUnlock(c)
         \/ PlaybackError(c) /\ pager[c].eState = "OPEN"
  PROVE  Control'
<1>1. faults \in Nat
  BY DEF Control, Types
<1>2. UNCHANGED <<disk, txid>> /\ faults' \in Nat
  <2>1. UNCHANGED <<disk, txid>>
    BY DEF HotGiveUp, EndRead, SharedLockError, ErrorUnlock, PlaybackError
  <2>2. faults' = faults \/ faults' = faults + 1
    BY DEF HotGiveUp, EndRead, SharedLockError, ErrorUnlock, PlaybackError, Fault
  <2> QED
    BY <1>1, <2>1, <2>2
<1>3. Unlocked(c, TRUE) \/ Unlocked(c, FALSE) \/ Unlocked(c, At(c, "hot5"))
  BY DEF HotGiveUp, EndRead, SharedLockError, ErrorUnlock, PlaybackError
<1>4. At(c, "hot5") \in BOOLEAN
  BY DEF At
<1>5. \A reset \in BOOLEAN : Unlocked(c, reset) => Control'
  BY <1>2, UnlockedControl
<1> QED
  BY <1>3, <1>4, <1>5

LEMMA RestartedState ==
  ASSUME NEW P, PagerOK(P)
  PROVE  StateOK(Restarted(P), NO_LOCK)
<1>1. Restarted(P).eState = "OPEN" /\ Restarted(P).pc = "idle" /\ Restarted(P).jfd = "closed"
  BY RestartedFields DEF PagerOK
<1> QED
  BY <1>1 DEF StateOK, UndoPCs, HotPCs

LEMMA CrashControl ==
  ASSUME Control, NEW c \in Conn, Crash(c)
  PROVE  Control'
<1>1. Types /\ States /\ LocksOK /\ \A d \in Conn : PagerOK(pager[d]) /\ lock[d] \in 0..4
  BY DEF Control, Types
<1>2. /\ Types'
      /\ \A d \in Conn : \/ pager'[d] = Restarted(pager[d]) /\ lock'[d] = NO_LOCK
                         \/ pager'[d] = pager[d] /\ lock'[d] = lock[d]
  BY <1>1, CrashStep
<1>3. States'
  <2>1. ASSUME NEW d \in Conn PROVE StateOK(pager'[d], lock'[d])
    <3>1. CASE pager'[d] = Restarted(pager[d]) /\ lock'[d] = NO_LOCK
      BY <1>1, <3>1, RestartedState
    <3>2. CASE pager'[d] = pager[d] /\ lock'[d] = lock[d]
      BY <1>1, <3>2 DEF States
    <3> QED
      BY <1>2, <3>1, <3>2
  <2> QED
    BY <2>1 DEF States
<1>4. \A d \in Conn : lock'[d] = NO_LOCK \/ (lock'[d] = lock[d] /\ (Owner(d)' <=> Owner(d)))
  BY <1>2 DEF Owner
<1>5. \A d \in Conn : lock'[d] = NO_LOCK => ~Owner(d)'
  BY Levels DEF Owner
<1>6. LocksOK'
  BY <1>1, <1>4, <1>5, Levels DEF LocksOK
<1> QED
  BY <1>2, <1>3, <1>6 DEF Control

LEMMA PowerLossControl ==
  ASSUME Control, PowerLoss
  PROVE  Control'
<1>1. Types /\ \A d \in Conn : PagerOK(pager[d])
  BY DEF Control, Types
<1>2. Types' /\ \A d \in Conn : pager'[d] = Restarted(pager[d]) /\ lock'[d] = NO_LOCK
  BY <1>1, PowerLossStep
<1>3. States'
  BY <1>1, <1>2, RestartedState DEF States
<1>4. LocksOK'
  BY <1>2, Levels DEF LocksOK, Owner
<1> QED
  BY <1>2, <1>3, <1>4 DEF Control

LEMMA InitControl ==
  ASSUME Init
  PROVE  Control
<1>1. Types
  BY InitTypes
<1>2. \A c \in Conn : /\ pager[c].eState = "OPEN" /\ pager[c].pc = "idle"
                      /\ pager[c].jfd = "closed" /\ lock[c] = NO_LOCK
  <2>1. PICK mode \in [Conn -> JournalModes], full \in [Conn -> FullSyncs] :
          pager = [c \in Conn |-> NewPager(mode[c], full[c])]
    BY DEF Init
  <2>2. \A c \in Conn : pager[c] = NewPager(mode[c], full[c])
    BY <2>1
  <2>3. \A c \in Conn : lock[c] = NO_LOCK
    BY DEF Init
  <2>4. ASSUME NEW c \in Conn
        PROVE  pager[c].eState = "OPEN" /\ pager[c].pc = "idle" /\ pager[c].jfd = "closed"
    <3>1. pager[c] = NewPager(mode[c], full[c])
      BY <2>2
    <3> DEFINE m == mode[c]
               u == full[c]
    <3> HIDE DEF m, u
    <3>2. /\ NewPager(m, u).eState = "OPEN" /\ NewPager(m, u).pc = "idle"
          /\ NewPager(m, u).jfd = "closed"
      BY DEF NewPager
    <3> QED
      BY <3>1, <3>2 DEF m, u
  <2> QED
    BY <2>3, <2>4
<1>3. States
  BY <1>2 DEF States, StateOK, UndoPCs, HotPCs
<1>4. LocksOK
  BY <1>2, Levels DEF LocksOK, Owner
<1> QED
  BY <1>1, <1>3, <1>4 DEF Control

LEMMA ConnControl ==
  ASSUME Control, NEW c \in Conn,
         Read(c) \/ Modify(c) \/ Sync(c) \/ EndWrite(c) \/ Undo(c) \/ IoError(c) \/ Crash(c)
  PROVE  Control'
<1>1. CASE Read(c)
  BY <1>1, SharedLockControl, HotAccessControl, HotReservedControl, HotOpenControl,
     HotDeleteControl, HotExclusiveControl, HotBusyControl, UnlockingControl, HotReopenControl,
     CheckVersionControl, AcquireControl DEF Read, HotPageCount
<1>2. CASE Modify(c)
  BY <1>2, BeginControl, ReserveControl, ReserveBusyControl, OpenJournalControl,
     pager_writeControl, pager_writePlainControl, WriteOpenControl, WriteMoreControl,
     SpillControl DEF Modify
<1>3. CASE Sync(c)
  BY <1>3, SyncLockControl, SyncBusyControl, SyncRecordsControl, SyncHeaderControl,
     SyncDoneSpillControl, SyncDoneCommitControl, SpillWriteControl DEF Sync
<1>4. CASE EndWrite(c)
  BY <1>4, CommitControl, CommitBusyControl, CountDirectControl, CountJournalledControl,
     CountJournalledPlainControl, WritePagesControl, SyncDatabaseControl,
     CommitPhaseTwoControl, FinalizeControl, EndTransactionControl DEF EndWrite
<1>5. CASE Undo(c)
  BY <1>5, RollbackControl, PlaybackHeaderControl, PlaybackStopControl, PlaybackRecordControl,
     PlaybackBadRecordControl, PlaybackDoneControl DEF Undo
<1>6. CASE IoError(c)
  BY <1>6, UnlockingControl, OpenErrorControl, RecordErrorControl, SyncErrorControl,
     NewHeaderErrorControl, CountErrorControl, CountDirectErrorControl, SpillErrorControl,
     WritePagesErrorControl, SyncDatabaseErrorControl, PlaybackErrorOwnControl,
     FinalizeErrorControl DEF IoError
<1>7. CASE Crash(c)
  BY <1>7, CrashControl
<1> QED
  BY <1>1, <1>2, <1>3, <1>4, <1>5, <1>6, <1>7

LEMMA ControlNext ==
  ASSUME Control, [Next]_vars
  PROVE  Control'
<1>1. CASE Next
  BY <1>1, ConnControl, PowerLossControl DEF Next
<1>2. CASE UNCHANGED vars
  BY <1>2 DEF vars, Control, Types, DbTypes, States, LocksOK, Owner
<1> QED
  BY <1>1, <1>2

\* The state diagram of pager.c holds over every step, with the locks and the journal handle that
\* assert_pager_state() and the comments of the functions give each state and each place between
\* two calls: any connections, file system, journal modes, faults and crashes.
THEOREM PagerControl == Spec => []Control
<1>1. Init => Control
  BY InitControl
<1>2. Control /\ [Next]_vars => Control'
  BY ControlNext
<1> QED
  BY <1>1, <1>2, PTL DEF Spec

-----------------------------------------------------------------------------
\* No hot journal while a connection reads.

LEMMA HotHereIsSo ==
  ASSUME Control, HotOK, NEW c \in Conn
  PROVE  HotHere(c)
<1>1. Here(c) /\ PagerOK(pager[c]) /\ FieldsOK(pager[c]) /\ jrnl \in JournalSet
  BY HereIsSo, PagerFields DEF Here, Types
<1>2. jrnl.slot \in Seq(SlotSet)
  BY <1>1 DEF JournalSet
<1> QED
  BY <1>1, <1>2 DEF HotHere, Here, HotOK, FieldsOK

LEMMA MagicKept ==
  ASSUME jrnl'.exists <=> jrnl.exists, jrnl'.slot = jrnl.slot, db' = db
  PROVE  Magic' <=> Magic
BY DEF Magic, IsHot, FileSize

LEMMA Unchecked ==
  ASSUME NEW P, StateOK(P, NO_LOCK), P.eState \in EState
  PROVE  ~Checked(P, NO_LOCK)
BY Levels DEF StateOK, Checked, EState, WriterStates, UndoPCs, HotPCs, SyncPCs

LEMMA HotFrame ==
  ASSUME Control, Control', HotOK, NEW c \in Conn, Severed(c),
         \A d \in Conn \ {c} : lock'[d] = lock[d],
         Magic' => Magic \/ lock[c] = EXCLUSIVE_LOCK, jrnl'.exists \/ jrnl'.slot = <<>>,
         BufferOK(pager'[c]), Checked(pager'[c], lock'[c]) => ~Magic'
  PROVE  HotOK'
<1>1. ASSUME NEW d \in Conn \ {c} PROVE HotAt(d)'
  <2>1. HotAt(d) /\ lock'[d] = lock[d]
    BY DEF HotOK
  <2>2. /\ pager'[d].pc = pager[d].pc /\ pager'[d].eState = pager[d].eState
        /\ pager'[d].journalOff = pager[d].journalOff
        /\ \/ pager'[d] = pager[d]
           \/ pager'[d].jfd = "gone" /\ ~jrnl'.exists
    BY SeveredFields
  <2>3. BufferOK(pager'[d])
    BY <2>1, <2>2 DEF BufferOK, HotAt
  <2>4. ASSUME Checked(pager'[d], lock'[d]), Magic' PROVE FALSE
    <3>1. pager'[d] = pager[d]
      BY <2>2, <2>4 DEF Magic
    <3>2. ~Magic
      BY <2>1, <2>4, <3>1 DEF HotAt
    <3>3. lock[d] = NO_LOCK
      BY <2>4, <3>2 DEF Control, LocksOK
    <3>4. StateOK(pager[d], lock[d]) /\ pager[d].eState \in EState
      BY ControlHere
    <3> QED
      BY <2>1, <2>4, <3>1, <3>3, <3>4, Unchecked
  <2> QED
    BY <2>3, <2>4 DEF HotAt
<1>2. HotAt(c)'
  BY DEF HotAt
<1> QED
  BY <1>1, <1>2 DEF HotOK

LEMMA HotQuiet ==
  ASSUME Control, Control', HotOK, NEW c \in Conn, Rest(c),
         \A d \in Conn \ {c} : lock'[d] = lock[d],
         jrnl'.exists <=> jrnl.exists, jrnl'.slot = jrnl.slot, db' = db,
         BufferOK(pager'[c]),
         Checked(pager'[c], lock'[c]) => Checked(pager[c], lock[c]) \/ ~Magic
  PROVE  HotOK'
<1>1. Severed(c)
  BY RestSevered
<1>2. HotAt(c) /\ (jrnl'.exists \/ jrnl'.slot = <<>>) /\ (Magic' <=> Magic)
  BY MagicKept DEF HotOK
<1>3. Checked(pager'[c], lock'[c]) => ~Magic'
  BY <1>2 DEF HotAt
<1> QED
  BY <1>1, <1>2, <1>3, HotFrame

LEMMA BusyLow ==
  ASSUME Types, LocksOK, NEW c \in Conn, ExclusiveBusy(c)
  PROVE  lock[c] # EXCLUSIVE_LOCK
<1>1. \E d \in Conn \ {c} : lock[d] # NO_LOCK
  BY DEF ExclusiveBusy, LockFails, MayLock, FL!MayHold, FL!Others, EXCLUSIVE_LOCK,
         RESERVED_LOCK, SHARED_LOCK, NO_LOCK,
         FL!EXCLUSIVE_LOCK, FL!RESERVED_LOCK, FL!SHARED_LOCK, FL!NO_LOCK, FL!PENDING_LOCK
<1> QED
  BY <1>1 DEF LocksOK

LEMMA GotoPc ==
  ASSUME Types, NEW c \in Conn, NEW pc, Goto(c, pc)
  PROVE  pager'[c].pc = pc
BY PagerFields DEF Goto, IsRecord, Fields

\* A RESERVED lock says that no journal is hot.
LEMMA ReservedChecked ==
  ASSUME HotHyp, Control, HotOK, Vfs = "unix", \E d \in Conn : HasReserved(d)
  PROVE  ~Magic
<1>1. ~OneProcess
  BY DEF HotHyp
<1>2. PICK d \in Conn : HasReserved(d)
  OBVIOUS
<1>3. Checked(pager[d], lock[d])
  <2>1. StateOK(pager[d], lock[d]) /\ pager[d].eState \in EState
    BY ControlHere
  <2>2. lock[d] = RESERVED_LOCK => pager[d].pc # "hot6"
    BY <2>1, Levels DEF StateOK, EState, UndoPCs, HotPCs, SyncPCs
  <2> QED
    BY <1>1, <1>2, <2>2, Levels DEF HasReserved, Checked, At
<1> QED
  BY <1>3 DEF HotOK, HotAt

LEMMA SharedLockHot ==
  ASSUME HotHyp, Control, Control', HotOK, NEW c \in Conn, SharedLock(c)
  PROVE  HotOK'
<1>1. HotHere(c)
  BY HotHereIsSo
<1>2. pager[c].pc = "idle" /\ pager[c].eState = "OPEN"
  BY DEF SharedLock, In, At
<1>3. /\ Types' /\ Rest(c)
  BY <1>1, SharedLockStep DEF HotHere
<1>4. /\ pager'[c].eState = pager[c].eState
      /\ pager'[c].pc = "hot1"
      /\ pager'[c].jfd = pager[c].jfd
      /\ pager'[c].mem = pager[c].mem
      /\ pager'[c].journalOff = pager[c].journalOff
  BY <1>1, SharedLockStep DEF HotHere, Kept, Fields
<1>5. lock'[c] = SHARED_LOCK
  BY <1>1 DEF HotHere, SharedLock, Types
<1>6. \A d \in Conn \ {c} : lock'[d] = lock[d]
  BY <1>1 DEF HotHere, SharedLock, Types
<1>7. UNCHANGED <<db, jrnl>>
  BY DEF SharedLock, disk
<1>8. BufferOK(pager'[c])
  BY <1>1, <1>2, <1>4 DEF HotHere, HotAt, BufferOK, StateOK, EState, UndoPCs, HotPCs, SyncPCs
<1>9. Checked(pager'[c], lock'[c]) => Checked(pager[c], lock[c])
  BY <1>1, <1>2, <1>4, <1>5, Levels
     DEF HotHere, Checked, StateOK, EState, WriterStates, UndoPCs, HotPCs, SyncPCs
<1> QED
  BY <1>3, <1>6, <1>7, <1>8, <1>9, HotQuiet

LEMMA HotExclusiveHot ==
  ASSUME HotHyp, Control, Control', HotOK, NEW c \in Conn, HotExclusive(c)
  PROVE  HotOK'
<1>1. HotHere(c)
  BY HotHereIsSo
<1>2. pager[c].pc = "hot4"
  BY DEF HotExclusive, In, At
<1>3. /\ Types' /\ Rest(c)
  BY <1>1, HotExclusiveStep DEF HotHere
<1>4. /\ pager'[c].eState = pager[c].eState
      /\ pager'[c].pc = "hot5"
      /\ pager'[c].jfd = pager[c].jfd
      /\ pager'[c].mem = pager[c].mem
      /\ pager'[c].journalOff = pager[c].journalOff
  BY <1>1, HotExclusiveStep DEF HotHere, Kept, Fields
<1>5. lock'[c] = EXCLUSIVE_LOCK
  BY <1>1 DEF HotHere, HotExclusive, Types
<1>6. \A d \in Conn \ {c} : lock'[d] = lock[d]
  BY <1>1 DEF HotHere, HotExclusive, Types
<1>7. UNCHANGED <<db, jrnl>>
  BY DEF HotExclusive, disk
<1>8. BufferOK(pager'[c])
  BY <1>1, <1>2, <1>4 DEF HotHere, HotAt, BufferOK, StateOK, EState, UndoPCs, HotPCs, SyncPCs
<1>9. Checked(pager'[c], lock'[c]) => Checked(pager[c], lock[c])
  BY <1>1, <1>2, <1>4, <1>5, Levels
     DEF HotHere, Checked, StateOK, EState, WriterStates, UndoPCs, HotPCs, SyncPCs
<1> QED
  BY <1>3, <1>6, <1>7, <1>8, <1>9, HotQuiet

LEMMA HotBusyHot ==
  ASSUME HotHyp, Control, Control', HotOK, NEW c \in Conn, HotBusy(c)
  PROVE  HotOK'
<1>1. HotHere(c)
  BY HotHereIsSo
<1>2. pager[c].pc = "hot4"
  BY DEF HotBusy, In, At
<1>3. /\ Types' /\ Rest(c)
  BY <1>1, HotBusyStep DEF HotHere
<1>4. /\ pager'[c].eState = pager[c].eState
      /\ pager'[c].pc = "hot6"
      /\ pager'[c].jfd = pager[c].jfd
      /\ pager'[c].mem = pager[c].mem
      /\ pager'[c].journalOff = pager[c].journalOff
  BY <1>1, HotBusyStep DEF HotHere, Kept, Fields
<1>5. lock'[c] \in {lock[c], PENDING_LOCK} /\ lock[c] # EXCLUSIVE_LOCK
  <2>1. ExclusiveBusy(c)
    BY DEF HotBusy
  <2>2. lock'[c] \in {lock[c], PENDING_LOCK}
    BY <1>1, <2>1, ExclusiveBusyLock DEF HotHere
  <2>3. lock[c] # EXCLUSIVE_LOCK
    BY <1>1, <2>1, BusyLow DEF HotHere
  <2> QED
    BY <2>2, <2>3
<1>6. \A d \in Conn \ {c} : lock'[d] = lock[d]
  BY <1>1, ExclusiveBusyLock DEF HotHere, HotBusy, Types
<1>7. UNCHANGED <<db, jrnl>>
  BY DEF HotBusy, disk
<1>8. BufferOK(pager'[c])
  BY <1>1, <1>2, <1>4 DEF HotHere, HotAt, BufferOK, StateOK, EState, UndoPCs, HotPCs, SyncPCs
<1>9. Checked(pager'[c], lock'[c]) => Checked(pager[c], lock[c])
  BY <1>1, <1>2, <1>4, <1>5, Levels
     DEF HotHere, Checked, StateOK, EState, WriterStates, UndoPCs, HotPCs, SyncPCs
<1> QED
  BY <1>3, <1>6, <1>7, <1>8, <1>9, HotQuiet

LEMMA CheckVersionHot ==
  ASSUME HotHyp, Control, Control', HotOK, NEW c \in Conn, CheckVersion(c)
  PROVE  HotOK'
<1>1. HotHere(c)
  BY HotHereIsSo
<1>2. pager[c].pc = "vers"
  BY DEF CheckVersion, In, At
<1>3. /\ Types' /\ Rest(c)
      /\ Kept(pager[c], pager'[c], {"eState", "pc", "dbSize", "cache", "dbFileVers"})
      /\ pager'[c].eState = "READER"
      /\ pager'[c].pc = "idle"
  BY <1>1, CheckVersionStep DEF HotHere
<1>4. /\ pager'[c].eState = "READER"
      /\ pager'[c].pc = "idle"
      /\ pager'[c].jfd = pager[c].jfd
      /\ pager'[c].mem = pager[c].mem
      /\ pager'[c].journalOff = pager[c].journalOff
  BY <1>3 DEF Kept, Fields
<1>5. lock' = lock
  BY DEF CheckVersion
<1>6. \A d \in Conn \ {c} : lock'[d] = lock[d]
  BY <1>5
<1>7. UNCHANGED <<db, jrnl>>
  BY DEF CheckVersion, disk
<1>8. BufferOK(pager'[c])
  BY <1>1, <1>2, <1>4 DEF HotHere, HotAt, BufferOK, StateOK, EState, UndoPCs, HotPCs, SyncPCs
<1>9. Checked(pager'[c], lock'[c]) => Checked(pager[c], lock[c])
  BY <1>1, <1>2, <1>4, <1>5, Levels
     DEF HotHere, Checked, StateOK, EState, WriterStates, UndoPCs, HotPCs, SyncPCs
<1> QED
  BY <1>3, <1>6, <1>7, <1>8, <1>9, HotQuiet

LEMMA AcquireHot ==
  ASSUME HotHyp, Control, Control', HotOK, NEW c \in Conn, NEW p \in Page, Acquire(c, p)
  PROVE  HotOK'
<1>1. HotHere(c)
  BY HotHereIsSo
<1>2. pager[c].pc = "idle"
  BY DEF Acquire, In, At
<1>3. /\ Types' /\ Rest(c)
  BY <1>1, AcquireStep DEF HotHere
<1>4. /\ pager'[c].eState = pager[c].eState
      /\ pager'[c].pc = pager[c].pc
      /\ pager'[c].jfd = pager[c].jfd
      /\ pager'[c].mem = pager[c].mem
      /\ pager'[c].journalOff = pager[c].journalOff
  BY <1>1, AcquireStep DEF HotHere, Kept, Fields
<1>5. lock' = lock
  BY DEF Acquire
<1>6. \A d \in Conn \ {c} : lock'[d] = lock[d]
  BY <1>5
<1>7. UNCHANGED <<db, jrnl>>
  BY DEF Acquire, disk
<1>8. BufferOK(pager'[c])
  BY <1>1, <1>2, <1>4 DEF HotHere, HotAt, BufferOK, StateOK, EState, UndoPCs, HotPCs, SyncPCs
<1>9. Checked(pager'[c], lock'[c]) => Checked(pager[c], lock[c])
  BY <1>1, <1>2, <1>4, <1>5, Levels
     DEF HotHere, Checked, StateOK, EState, WriterStates, UndoPCs, HotPCs, SyncPCs
<1> QED
  BY <1>3, <1>6, <1>7, <1>8, <1>9, HotQuiet

LEMMA BeginHot ==
  ASSUME HotHyp, Control, Control', HotOK, NEW c \in Conn, Begin(c)
  PROVE  HotOK'
<1>1. HotHere(c)
  BY HotHereIsSo
<1>2. pager[c].pc = "idle" /\ pager[c].eState = "READER"
  BY DEF Begin, In, At
<1>3. /\ Types' /\ Rest(c)
  BY <1>1, BeginStep DEF HotHere
<1>4. /\ pager'[c].eState = pager[c].eState
      /\ pager'[c].pc = "reserve"
      /\ pager'[c].jfd = pager[c].jfd
      /\ pager'[c].mem = pager[c].mem
      /\ pager'[c].journalOff = pager[c].journalOff
  BY <1>1, BeginStep DEF HotHere, Kept, Fields
<1>5. lock' = lock
  BY DEF Begin
<1>6. \A d \in Conn \ {c} : lock'[d] = lock[d]
  BY <1>5
<1>7. UNCHANGED <<db, jrnl>>
  BY DEF Begin, disk
<1>8. BufferOK(pager'[c])
  BY <1>1, <1>2, <1>4 DEF HotHere, HotAt, BufferOK, StateOK, EState, UndoPCs, HotPCs, SyncPCs
<1>9. Checked(pager'[c], lock'[c]) => Checked(pager[c], lock[c])
  BY <1>1, <1>2, <1>4, <1>5, Levels
     DEF HotHere, Checked, StateOK, EState, WriterStates, UndoPCs, HotPCs, SyncPCs
<1> QED
  BY <1>3, <1>6, <1>7, <1>8, <1>9, HotQuiet

LEMMA ReserveBusyHot ==
  ASSUME HotHyp, Control, Control', HotOK, NEW c \in Conn, ReserveBusy(c)
  PROVE  HotOK'
<1>1. HotHere(c)
  BY HotHereIsSo
<1>2. pager[c].pc = "reserve"
  BY DEF ReserveBusy, In, At
<1>3. /\ Types' /\ Rest(c)
  BY <1>1, ReserveBusyStep DEF HotHere
<1>4. /\ pager'[c].eState = pager[c].eState
      /\ pager'[c].pc = "idle"
      /\ pager'[c].jfd = pager[c].jfd
      /\ pager'[c].mem = pager[c].mem
      /\ pager'[c].journalOff = pager[c].journalOff
  BY <1>1, ReserveBusyStep DEF HotHere, Kept, Fields
<1>5. lock' = lock
  BY DEF ReserveBusy
<1>6. \A d \in Conn \ {c} : lock'[d] = lock[d]
  BY <1>5
<1>7. UNCHANGED <<db, jrnl>>
  BY DEF ReserveBusy, disk
<1>8. BufferOK(pager'[c])
  BY <1>1, <1>2, <1>4 DEF HotHere, HotAt, BufferOK, StateOK, EState, UndoPCs, HotPCs, SyncPCs
<1>9. Checked(pager'[c], lock'[c]) => Checked(pager[c], lock[c])
  BY <1>1, <1>2, <1>4, <1>5, Levels
     DEF HotHere, Checked, StateOK, EState, WriterStates, UndoPCs, HotPCs, SyncPCs
<1> QED
  BY <1>3, <1>6, <1>7, <1>8, <1>9, HotQuiet

LEMMA ReserveHot ==
  ASSUME HotHyp, Control, Control', HotOK, NEW c \in Conn, Reserve(c)
  PROVE  HotOK'
<1>1. HotHere(c)
  BY HotHereIsSo
<1>2. pager[c].pc = "reserve"
  BY DEF Reserve, In, At
<1>3. /\ Types' /\ Rest(c)
  BY <1>1, ReserveStep DEF HotHere
<1>4. /\ pager'[c].eState = "WRITER_LOCKED"
      /\ pager'[c].pc = "idle"
      /\ pager'[c].jfd = pager[c].jfd
      /\ pager'[c].mem = pager[c].mem
      /\ pager'[c].journalOff = pager[c].journalOff
  BY <1>1, ReserveStep DEF HotHere, Kept, Fields
<1>5. lock'[c] = RESERVED_LOCK
  BY <1>1 DEF HotHere, Reserve, Types
<1>6. \A d \in Conn \ {c} : lock'[d] = lock[d]
  BY <1>1 DEF HotHere, Reserve, Types
<1>7. UNCHANGED <<db, jrnl>>
  BY DEF Reserve, disk
<1>8. BufferOK(pager'[c])
  BY <1>1, <1>2, <1>4 DEF HotHere, HotAt, BufferOK, StateOK, EState, UndoPCs, HotPCs, SyncPCs
<1>9. Checked(pager'[c], lock'[c]) => Checked(pager[c], lock[c])
  BY <1>1, <1>2, <1>4, <1>5, Levels
     DEF HotHere, Checked, StateOK, EState, WriterStates, UndoPCs, HotPCs, SyncPCs
<1> QED
  BY <1>3, <1>6, <1>7, <1>8, <1>9, HotQuiet

LEMMA pager_writePlainHot ==
  ASSUME HotHyp, Control, Control', HotOK, NEW c \in Conn, pager_write(c), ~NeedsRecord(pager[c],
         pager[c].pg)
  PROVE  HotOK'
<1>1. HotHere(c)
  BY HotHereIsSo
<1>2. pager[c].pc = "write"
  BY DEF pager_write, In, At, NeedsRecord
<1>3. /\ Types' /\ Rest(c)
      /\ Kept(pager[c], pager'[c], {"pc", "pg", "dirty", "cache", "dbSize", "needSync"})
      /\ pager'[c].pc = "idle"
  BY <1>1, pager_writePlain DEF HotHere
<1>4. /\ pager'[c].eState = pager[c].eState
      /\ pager'[c].pc = "idle"
      /\ pager'[c].jfd = pager[c].jfd
      /\ pager'[c].mem = pager[c].mem
      /\ pager'[c].journalOff = pager[c].journalOff
  BY <1>3 DEF Kept, Fields
<1>5. lock' = lock
  BY DEF pager_write
<1>6. \A d \in Conn \ {c} : lock'[d] = lock[d]
  BY <1>5
<1>7. UNCHANGED <<db, jrnl>>
  BY DEF pager_write, disk
<1>8. BufferOK(pager'[c])
  BY <1>1, <1>2, <1>4 DEF HotHere, HotAt, BufferOK, StateOK, EState, UndoPCs, HotPCs, SyncPCs
<1>9. Checked(pager'[c], lock'[c]) => Checked(pager[c], lock[c])
  BY <1>1, <1>2, <1>4, <1>5, Levels
     DEF HotHere, Checked, StateOK, EState, WriterStates, UndoPCs, HotPCs, SyncPCs
<1> QED
  BY <1>3, <1>6, <1>7, <1>8, <1>9, HotQuiet

LEMMA WriteOpenHot ==
  ASSUME HotHyp, Control, Control', HotOK, NEW c \in Conn, NEW p \in Page, Write(c, p),
         pager[c].eState = "WRITER_LOCKED"
  PROVE  HotOK'
<1>1. HotHere(c)
  BY HotHereIsSo
<1>2. pager[c].pc = "idle"
  BY DEF Write, In, At
<1>3. /\ Types' /\ Rest(c)
  BY <1>1, WriteOpen DEF HotHere
<1>4. /\ pager'[c].eState = pager[c].eState
      /\ pager'[c].pc = "open"
      /\ pager'[c].jfd = pager[c].jfd
      /\ pager'[c].mem = pager[c].mem
      /\ pager'[c].journalOff = pager[c].journalOff
  BY <1>1, WriteOpen DEF HotHere, Kept, Fields
<1>5. lock' = lock
  BY DEF Write
<1>6. \A d \in Conn \ {c} : lock'[d] = lock[d]
  BY <1>5
<1>7. UNCHANGED <<db, jrnl>>
  BY DEF Write, disk
<1>8. BufferOK(pager'[c])
  BY <1>1, <1>2, <1>4 DEF HotHere, HotAt, BufferOK, StateOK, EState, UndoPCs, HotPCs, SyncPCs
<1>9. Checked(pager'[c], lock'[c]) => Checked(pager[c], lock[c])
  BY <1>1, <1>2, <1>4, <1>5, Levels
     DEF HotHere, Checked, StateOK, EState, WriterStates, UndoPCs, HotPCs, SyncPCs
<1> QED
  BY <1>3, <1>6, <1>7, <1>8, <1>9, HotQuiet

LEMMA WriteMoreHot ==
  ASSUME HotHyp, Control, Control', HotOK, NEW c \in Conn, NEW p \in Page, Write(c, p),
         pager[c].eState # "WRITER_LOCKED"
  PROVE  HotOK'
<1>1. HotHere(c)
  BY HotHereIsSo
<1>2. pager[c].pc = "idle" /\ pager[c].eState \in {"WRITER_CACHEMOD", "WRITER_DBMOD"}
  BY DEF Write, In, At, Writing
<1>3. /\ Types' /\ Rest(c)
  BY <1>1, WriteMore DEF HotHere
<1>4. /\ pager'[c].eState = pager[c].eState
      /\ pager'[c].pc = "write"
      /\ pager'[c].jfd = pager[c].jfd
      /\ pager'[c].mem = pager[c].mem
      /\ pager'[c].journalOff = pager[c].journalOff
  BY <1>1, WriteMore DEF HotHere, Kept, Fields
<1>5. lock' = lock
  BY DEF Write
<1>6. \A d \in Conn \ {c} : lock'[d] = lock[d]
  BY <1>5
<1>7. UNCHANGED <<db, jrnl>>
  BY DEF Write, disk
<1>8. BufferOK(pager'[c])
  BY <1>1, <1>2, <1>4 DEF HotHere, HotAt, BufferOK, StateOK, EState, UndoPCs, HotPCs, SyncPCs
<1>9. Checked(pager'[c], lock'[c]) => Checked(pager[c], lock[c])
  BY <1>1, <1>2, <1>4, <1>5, Levels
     DEF HotHere, Checked, StateOK, EState, WriterStates, UndoPCs, HotPCs, SyncPCs
<1> QED
  BY <1>3, <1>6, <1>7, <1>8, <1>9, HotQuiet

LEMMA SpillHot ==
  ASSUME HotHyp, Control, Control', HotOK, NEW c \in Conn, NEW p \in Page, Spill(c, p)
  PROVE  HotOK'
<1>1. HotHere(c)
  BY HotHereIsSo
<1>2. pager[c].pc = "idle" /\ pager[c].eState \in {"WRITER_CACHEMOD", "WRITER_DBMOD"}
  BY DEF Spill, In, At, Writing
<1>3. /\ Types' /\ Rest(c)
  BY <1>1, SpillStep DEF HotHere
<1>4. /\ pager'[c].eState = pager[c].eState
      /\ pager'[c].pc = IF p \in pager[c].needSync \/ pager[c].eState = "WRITER_CACHEMOD"
                                THEN "sync1" ELSE "spill"
      /\ pager'[c].jfd = pager[c].jfd
      /\ pager'[c].mem = pager[c].mem
      /\ pager'[c].journalOff = pager[c].journalOff
  BY <1>1, SpillStep DEF HotHere, Kept, Fields
<1>5. lock' = lock
  BY DEF Spill
<1>6. \A d \in Conn \ {c} : lock'[d] = lock[d]
  BY <1>5
<1>7. UNCHANGED <<db, jrnl>>
  BY DEF Spill, disk
<1>8. BufferOK(pager'[c])
  BY <1>1, <1>2, <1>4 DEF HotHere, HotAt, BufferOK, StateOK, EState, UndoPCs, HotPCs, SyncPCs
<1>9. Checked(pager'[c], lock'[c]) => Checked(pager[c], lock[c])
  BY <1>1, <1>2, <1>4, <1>5, Levels
     DEF HotHere, Checked, StateOK, EState, WriterStates, UndoPCs, HotPCs, SyncPCs
<1> QED
  BY <1>3, <1>6, <1>7, <1>8, <1>9, HotQuiet

LEMMA SyncLockHot ==
  ASSUME HotHyp, Control, Control', HotOK, NEW c \in Conn, SyncLock(c)
  PROVE  HotOK'
<1>1. HotHere(c)
  BY HotHereIsSo
<1>2. pager[c].pc = "sync1"
  BY DEF SyncLock, In, At
<1>3. /\ Types' /\ Rest(c)
  BY <1>1, SyncLockStep DEF HotHere
<1>4. /\ pager'[c].eState = pager[c].eState
      /\ pager'[c].pc = "sync2"
      /\ pager'[c].jfd = pager[c].jfd
      /\ pager'[c].mem = pager[c].mem
      /\ pager'[c].journalOff = pager[c].journalOff
  BY <1>1, SyncLockStep DEF HotHere, Kept, Fields
<1>5. lock'[c] = EXCLUSIVE_LOCK
  BY <1>1 DEF HotHere, SyncLock, Types
<1>6. \A d \in Conn \ {c} : lock'[d] = lock[d]
  BY <1>1 DEF HotHere, SyncLock, Types
<1>7. UNCHANGED <<db, jrnl>>
  BY DEF SyncLock, disk
<1>8. BufferOK(pager'[c])
  BY <1>1, <1>2, <1>4 DEF HotHere, HotAt, BufferOK, StateOK, EState, UndoPCs, HotPCs, SyncPCs
<1>9. Checked(pager'[c], lock'[c]) => Checked(pager[c], lock[c])
  BY <1>1, <1>2, <1>4, <1>5, Levels
     DEF HotHere, Checked, StateOK, EState, WriterStates, UndoPCs, HotPCs, SyncPCs
<1> QED
  BY <1>3, <1>6, <1>7, <1>8, <1>9, HotQuiet

LEMMA SyncBusyHot ==
  ASSUME HotHyp, Control, Control', HotOK, NEW c \in Conn, SyncBusy(c)
  PROVE  HotOK'
<1>1. HotHere(c)
  BY HotHereIsSo
<1>2. pager[c].pc = "sync1"
  BY DEF SyncBusy, In, At
<1>3. /\ Types' /\ Rest(c)
  BY <1>1, SyncBusyStep DEF HotHere
<1>4. /\ pager'[c].eState = pager[c].eState
      /\ pager'[c].pc = "idle"
      /\ pager'[c].jfd = pager[c].jfd
      /\ pager'[c].mem = pager[c].mem
      /\ pager'[c].journalOff = pager[c].journalOff
  BY <1>1, SyncBusyStep DEF HotHere, Kept, Fields
<1>5. lock'[c] \in {lock[c], PENDING_LOCK} /\ lock[c] # EXCLUSIVE_LOCK
  <2>1. ExclusiveBusy(c)
    BY DEF SyncBusy
  <2>2. lock'[c] \in {lock[c], PENDING_LOCK}
    BY <1>1, <2>1, ExclusiveBusyLock DEF HotHere
  <2>3. lock[c] # EXCLUSIVE_LOCK
    BY <1>1, <2>1, BusyLow DEF HotHere
  <2> QED
    BY <2>2, <2>3
<1>6. \A d \in Conn \ {c} : lock'[d] = lock[d]
  BY <1>1, ExclusiveBusyLock DEF HotHere, SyncBusy, Types
<1>7. UNCHANGED <<db, jrnl>>
  BY DEF SyncBusy, disk
<1>8. BufferOK(pager'[c])
  BY <1>1, <1>2, <1>4 DEF HotHere, HotAt, BufferOK, StateOK, EState, UndoPCs, HotPCs, SyncPCs
<1>9. Checked(pager'[c], lock'[c]) => Checked(pager[c], lock[c])
  BY <1>1, <1>2, <1>4, <1>5, Levels
     DEF HotHere, Checked, StateOK, EState, WriterStates, UndoPCs, HotPCs, SyncPCs
<1> QED
  BY <1>3, <1>6, <1>7, <1>8, <1>9, HotQuiet

LEMMA CommitHot ==
  ASSUME HotHyp, Control, Control', HotOK, NEW c \in Conn, Commit(c)
  PROVE  HotOK'
<1>1. HotHere(c)
  BY HotHereIsSo
<1>2. pager[c].pc = "idle" /\ pager[c].eState \in {"WRITER_LOCKED", "WRITER_CACHEMOD",
        "WRITER_DBMOD"}
  BY DEF Commit, In, At, Writing
<1>3. /\ Types' /\ Rest(c)
  BY <1>1, CommitStep DEF HotHere
<1>4. /\ pager'[c].eState = pager[c].eState
      /\ pager'[c].jfd = pager[c].jfd
      /\ pager'[c].mem = pager[c].mem
      /\ pager'[c].journalOff = pager[c].journalOff
  BY <1>1, CommitStep DEF HotHere, Kept, Fields
<1>c. pager'[c].pc = IF pager[c].eState = "WRITER_LOCKED" THEN "final" ELSE "count"
  BY <1>1, GotoPc DEF HotHere, Commit
<1>5. lock'[c] = EXCLUSIVE_LOCK
  BY <1>1 DEF HotHere, Commit, Types
<1>6. \A d \in Conn \ {c} : lock'[d] = lock[d]
  BY <1>1 DEF HotHere, Commit, Types
<1>7. UNCHANGED <<db, jrnl>>
  BY DEF Commit, disk
<1>8. BufferOK(pager'[c])
  BY <1>1, <1>2, <1>c, <1>4 DEF HotHere, HotAt, BufferOK, StateOK, EState, UndoPCs, HotPCs,
     SyncPCs
<1>9. Checked(pager'[c], lock'[c]) => Checked(pager[c], lock[c])
  BY <1>1, <1>2, <1>4, <1>5, <1>c, Levels
     DEF HotHere, Checked, StateOK, EState, WriterStates, UndoPCs, HotPCs, SyncPCs
<1> QED
  BY <1>3, <1>6, <1>7, <1>8, <1>9, HotQuiet

LEMMA CommitPhaseTwoHot ==
  ASSUME HotHyp, Control, Control', HotOK, NEW c \in Conn, CommitPhaseTwo(c)
  PROVE  HotOK'
<1>1. HotHere(c)
  BY HotHereIsSo
<1>2. pager[c].pc = "idle" /\ pager[c].eState = "WRITER_FINISHED"
  BY DEF CommitPhaseTwo, In, At
<1>3. /\ Types' /\ Rest(c)
  BY <1>1, CommitPhaseTwoStep DEF HotHere
<1>4. /\ pager'[c].eState = pager[c].eState
      /\ pager'[c].pc = "final"
      /\ pager'[c].jfd = pager[c].jfd
      /\ pager'[c].mem = pager[c].mem
      /\ pager'[c].journalOff = pager[c].journalOff
  BY <1>1, CommitPhaseTwoStep DEF HotHere, Kept, Fields
<1>5. lock' = lock
  BY DEF CommitPhaseTwo
<1>6. \A d \in Conn \ {c} : lock'[d] = lock[d]
  BY <1>5
<1>7. UNCHANGED <<db, jrnl>>
  BY DEF CommitPhaseTwo, disk
<1>8. BufferOK(pager'[c])
  BY <1>1, <1>2, <1>4 DEF HotHere, HotAt, BufferOK, StateOK, EState, UndoPCs, HotPCs, SyncPCs
<1>9. Checked(pager'[c], lock'[c]) => Checked(pager[c], lock[c])
  BY <1>1, <1>2, <1>4, <1>5, Levels
     DEF HotHere, Checked, StateOK, EState, WriterStates, UndoPCs, HotPCs, SyncPCs, HotAt,
         BufferOK
<1> QED
  BY <1>3, <1>6, <1>7, <1>8, <1>9, HotQuiet

LEMMA RollbackHot ==
  ASSUME HotHyp, Control, Control', HotOK, NEW c \in Conn, Rollback(c)
  PROVE  HotOK'
<1>1. HotHere(c)
  BY HotHereIsSo
<1>2. pager[c].pc \in {"idle", "abort"}
  BY DEF Rollback, In, At
<1>3. /\ Types' /\ Rest(c)
  BY <1>1, RollbackStep DEF HotHere
<1>4. /\ pager'[c].eState = pager[c].eState
      /\ pager'[c].pc = IF pager[c].eState = "WRITER_LOCKED" THEN "final" ELSE "playback"
      /\ pager'[c].jfd = pager[c].jfd
      /\ pager'[c].mem = pager[c].mem
      /\ pager'[c].journalOff = IF pager[c].eState = "WRITER_LOCKED" THEN pager[c].journalOff
         ELSE 0
  BY <1>1, RollbackStep DEF HotHere, Kept, Fields
<1>5. lock' = lock
  BY DEF Rollback
<1>6. \A d \in Conn \ {c} : lock'[d] = lock[d]
  BY <1>5
<1>7. UNCHANGED <<db, jrnl>>
  BY DEF Rollback, disk
<1>8. BufferOK(pager'[c])
  BY <1>1, <1>2, <1>4 DEF HotHere, HotAt, BufferOK, StateOK, EState, UndoPCs, HotPCs, SyncPCs
<1>9. Checked(pager'[c], lock'[c]) => Checked(pager[c], lock[c])
  BY <1>1, <1>2, <1>4, <1>5, Levels
     DEF HotHere, Checked, StateOK, EState, WriterStates, UndoPCs, HotPCs, SyncPCs
<1> QED
  BY <1>3, <1>6, <1>7, <1>8, <1>9, HotQuiet

LEMMA PlaybackDoneHot ==
  ASSUME HotHyp, Control, Control', HotOK, NEW c \in Conn, PlaybackDone(c)
  PROVE  HotOK'
<1>1. HotHere(c)
  BY HotHereIsSo
<1>2. pager[c].pc = "restored"
  BY DEF PlaybackDone, In, At
<1>3. /\ Types' /\ Rest(c)
  BY <1>1, PlaybackDoneStep DEF HotHere
<1>4. /\ pager'[c].eState = pager[c].eState
      /\ pager'[c].pc = "final"
      /\ pager'[c].jfd = pager[c].jfd
      /\ pager'[c].mem = pager[c].mem
      /\ pager'[c].journalOff = pager[c].journalOff
  BY <1>1, PlaybackDoneStep DEF HotHere, Kept, Fields
<1>5. lock' = lock
  BY DEF PlaybackDone
<1>6. \A d \in Conn \ {c} : lock'[d] = lock[d]
  BY <1>5
<1>7. db' = db /\ jrnl' = jrnl
  BY DEF PlaybackDone, disk, DbSync
<1>8. BufferOK(pager'[c])
  BY <1>1, <1>2, <1>4 DEF HotHere, HotAt, BufferOK, StateOK, EState, UndoPCs, HotPCs, SyncPCs
<1>9. Checked(pager'[c], lock'[c]) => Checked(pager[c], lock[c])
  BY <1>1, <1>2, <1>4, <1>5, Levels
     DEF HotHere, Checked, StateOK, EState, WriterStates, UndoPCs, HotPCs, SyncPCs
<1> QED
  BY <1>3, <1>6, <1>7, <1>8, <1>9, HotQuiet

LEMMA SyncDatabaseHot ==
  ASSUME HotHyp, Control, Control', HotOK, NEW c \in Conn, SyncDatabase(c)
  PROVE  HotOK'
<1>1. HotHere(c)
  BY HotHereIsSo
<1>2. pager[c].pc = "pages"
  BY DEF SyncDatabase, In, At
<1>3. /\ Types' /\ Rest(c)
  BY <1>1, SyncDatabaseStep DEF HotHere
<1>4. /\ pager'[c].eState = "WRITER_FINISHED"
      /\ pager'[c].pc = "idle"
      /\ pager'[c].jfd = pager[c].jfd
      /\ pager'[c].mem = pager[c].mem
      /\ pager'[c].journalOff = pager[c].journalOff
  BY <1>1, SyncDatabaseStep DEF HotHere, Kept, Fields
<1>5. lock' = lock
  BY DEF SyncDatabase
<1>6. \A d \in Conn \ {c} : lock'[d] = lock[d]
  BY <1>5
<1>7. db' = db /\ jrnl' = jrnl
  BY DEF SyncDatabase, disk, DbSync
<1>8. BufferOK(pager'[c])
  BY <1>1, <1>2, <1>4 DEF HotHere, HotAt, BufferOK, StateOK, EState, UndoPCs, HotPCs, SyncPCs
<1>9. Checked(pager'[c], lock'[c]) => Checked(pager[c], lock[c])
  BY <1>1, <1>2, <1>4, <1>5, Levels
     DEF HotHere, Checked, StateOK, EState, WriterStates, UndoPCs, HotPCs, SyncPCs
<1> QED
  BY <1>3, <1>6, <1>7, <1>8, <1>9, HotQuiet

LEMMA PlaybackBadRecordHot ==
  ASSUME HotHyp, Control, Control', HotOK, NEW c \in Conn, PlaybackBadRecord(c)
  PROVE  HotOK'
<1>1. HotHere(c)
  BY HotHereIsSo
<1>2. pager[c].pc = "record"
  BY DEF PlaybackBadRecord, In, At
<1>3. /\ Types' /\ Rest(c)
  BY <1>1, PlaybackBadRecordStep DEF HotHere
<1>4. /\ pager'[c].eState = pager[c].eState
      /\ pager'[c].pc = "restored"
      /\ pager'[c].jfd = pager[c].jfd
      /\ pager'[c].mem = pager[c].mem
      /\ pager'[c].journalOff = pager[c].journalOff
  BY <1>1, PlaybackBadRecordStep DEF HotHere, Kept, Fields
<1>5. lock' = lock
  BY DEF PlaybackBadRecord
<1>6. \A d \in Conn \ {c} : lock'[d] = lock[d]
  BY <1>5
<1>7. UNCHANGED <<db, jrnl>>
  BY DEF PlaybackBadRecord, disk
<1>8. BufferOK(pager'[c])
  BY <1>1, <1>2, <1>4 DEF HotHere, HotAt, BufferOK, StateOK, EState, UndoPCs, HotPCs, SyncPCs
<1>9. Checked(pager'[c], lock'[c]) => Checked(pager[c], lock[c])
  BY <1>1, <1>2, <1>4, <1>5, Levels
     DEF HotHere, Checked, StateOK, EState, WriterStates, UndoPCs, HotPCs, SyncPCs, HotAt,
         BufferOK
<1> QED
  BY <1>3, <1>6, <1>7, <1>8, <1>9, HotQuiet

LEMMA SyncDatabaseErrorHot ==
  ASSUME HotHyp, Control, Control', HotOK, NEW c \in Conn, SyncDatabaseError(c)
  PROVE  HotOK'
<1>1. HotHere(c)
  BY HotHereIsSo
<1>2. pager[c].pc = "pages"
  BY DEF SyncDatabaseError, In, At
<1>3. /\ Types' /\ Rest(c)
  BY <1>1, SyncDatabaseErrorStep DEF HotHere
<1>4. /\ pager'[c].eState = pager[c].eState
      /\ pager'[c].pc = "abort"
      /\ pager'[c].jfd = pager[c].jfd
      /\ pager'[c].mem = pager[c].mem
      /\ pager'[c].journalOff = pager[c].journalOff
  BY <1>1, SyncDatabaseErrorStep DEF HotHere, Kept, Fields
<1>5. lock' = lock
  BY DEF SyncDatabaseError
<1>6. \A d \in Conn \ {c} : lock'[d] = lock[d]
  BY <1>5
<1>7. UNCHANGED <<db, jrnl>>
  BY DEF SyncDatabaseError, disk
<1>8. BufferOK(pager'[c])
  BY <1>1, <1>2, <1>4 DEF HotHere, HotAt, BufferOK, StateOK, EState, UndoPCs, HotPCs, SyncPCs
<1>9. Checked(pager'[c], lock'[c]) => Checked(pager[c], lock[c])
  BY <1>1, <1>2, <1>4, <1>5, Levels
     DEF HotHere, Checked, StateOK, EState, WriterStates, UndoPCs, HotPCs, SyncPCs
<1> QED
  BY <1>3, <1>6, <1>7, <1>8, <1>9, HotQuiet

LEMMA PlaybackErrorOwnHot ==
  ASSUME HotHyp, Control, Control', HotOK, NEW c \in Conn, PlaybackError(c),
         pager[c].eState # "OPEN"
  PROVE  HotOK'
<1>1. HotHere(c)
  BY HotHereIsSo
<1>2. pager[c].pc \in {"playback", "record", "restored"}
  BY DEF PlaybackError, In, At
<1>3. /\ Types' /\ Rest(c)
  BY <1>1, PlaybackErrorOwn DEF HotHere
<1>4. /\ pager'[c].eState = "ERROR"
      /\ pager'[c].pc = "idle"
      /\ pager'[c].jfd = pager[c].jfd
      /\ pager'[c].mem = pager[c].mem
      /\ pager'[c].journalOff = pager[c].journalOff
  BY <1>1, PlaybackErrorOwn DEF HotHere, Kept, Fields
<1>5. lock' = lock
  BY DEF PlaybackError
<1>6. \A d \in Conn \ {c} : lock'[d] = lock[d]
  BY <1>5
<1>7. UNCHANGED <<db, jrnl>>
  BY DEF PlaybackError, disk
<1>8. BufferOK(pager'[c])
  BY <1>1, <1>2, <1>4 DEF HotHere, HotAt, BufferOK, StateOK, EState, UndoPCs, HotPCs, SyncPCs
<1>9. Checked(pager'[c], lock'[c]) => Checked(pager[c], lock[c])
  BY <1>1, <1>2, <1>4, <1>5, Levels
     DEF HotHere, Checked, StateOK, EState, WriterStates, UndoPCs, HotPCs, SyncPCs
<1> QED
  BY <1>3, <1>6, <1>7, <1>8, <1>9, HotQuiet

LEMMA HotAccessHot ==
  ASSUME HotHyp, Control, Control', HotOK, NEW c \in Conn, HotAccess(c)
  PROVE  HotOK'
<1>1. HotHere(c)
  BY HotHereIsSo
<1>2. pager[c].pc = "hot1"
  BY DEF HotAccess, In, At
<1>3. /\ Types' /\ Rest(c)
  BY <1>1, HotAccessStep DEF HotHere
<1>4. /\ pager'[c].eState = pager[c].eState
      /\ pager'[c].pc \in {"hot2", "vers"}
      /\ pager'[c].jfd = pager[c].jfd
      /\ pager'[c].mem = pager[c].mem
      /\ pager'[c].journalOff = pager[c].journalOff
  BY <1>1, HotAccessStep DEF HotHere, Kept, Fields
<1>5. lock' = lock
  BY DEF HotAccess
<1>6. \A d \in Conn \ {c} : lock'[d] = lock[d]
  BY <1>5
<1>7. UNCHANGED <<db, jrnl>>
  BY DEF HotAccess, disk
<1>8. BufferOK(pager'[c])
  BY <1>1, <1>2, <1>4 DEF HotHere, HotAt, BufferOK, StateOK, EState, UndoPCs, HotPCs, SyncPCs
<1>m. pager'[c].pc = "vers" => ~Magic
  <2>1. pager'[c].pc = IF jrnl.exists THEN "hot2" ELSE "vers"
    BY <1>1, GotoPc DEF HotHere, HotAccess
  <2> QED
    BY <2>1 DEF Magic
<1>9. Checked(pager'[c], lock'[c]) => Checked(pager[c], lock[c]) \/ ~Magic
  BY <1>m, <1>1, <1>2, <1>4, <1>5, Levels
     DEF HotHere, Checked, StateOK, EState, WriterStates, UndoPCs, HotPCs, SyncPCs
<1> QED
  BY <1>3, <1>6, <1>7, <1>8, <1>9, HotQuiet

LEMMA HotReservedHot ==
  ASSUME HotHyp, Control, Control', HotOK, NEW c \in Conn, HotReserved(c)
  PROVE  HotOK'
<1>1. HotHere(c)
  BY HotHereIsSo
<1>2. pager[c].pc = "hot2"
  BY DEF HotReserved, In, At
<1>3. /\ Types' /\ Rest(c)
  BY <1>1, HotReservedStep DEF HotHere
<1>4. /\ pager'[c].eState = pager[c].eState
      /\ pager'[c].pc \in {"vers", "hot3"}
      /\ pager'[c].jfd = pager[c].jfd
      /\ pager'[c].mem = pager[c].mem
      /\ pager'[c].journalOff = pager[c].journalOff
  BY <1>1, HotReservedStep DEF HotHere, Kept, Fields
<1>5. lock' = lock
  BY DEF HotReserved
<1>6. \A d \in Conn \ {c} : lock'[d] = lock[d]
  BY <1>5
<1>7. UNCHANGED <<db, jrnl>>
  BY DEF HotReserved, disk
<1>8. BufferOK(pager'[c])
  BY <1>1, <1>2, <1>4 DEF HotHere, HotAt, BufferOK, StateOK, EState, UndoPCs, HotPCs, SyncPCs
<1>m. pager'[c].pc = "vers" => ~Magic
  <2>1. pager'[c].pc = IF CheckReservedLock(c) THEN "vers" ELSE "hot3"
    BY <1>1, GotoPc DEF HotHere, HotReserved
  <2>2. lock[c] = SHARED_LOCK
    BY <1>1, <1>2 DEF HotHere, StateOK, EState, UndoPCs, HotPCs, SyncPCs
  <2>3. CheckReservedLock(c) => ~Magic
    <3>1. CASE Vfs = "unix"
      BY <1>1, <3>1, ReservedChecked DEF HotHere, CheckReservedLock
    <3>2. CASE Vfs # "unix"
      BY <2>2, <3>2, Levels DEF CheckReservedLock
    <3> QED
      BY <3>1, <3>2
  <2> QED
    BY <2>1, <2>3
<1>9. Checked(pager'[c], lock'[c]) => Checked(pager[c], lock[c]) \/ ~Magic
  BY <1>m, <1>1, <1>2, <1>4, <1>5, Levels
     DEF HotHere, Checked, StateOK, EState, WriterStates, UndoPCs, HotPCs, SyncPCs
<1> QED
  BY <1>3, <1>6, <1>7, <1>8, <1>9, HotQuiet

LEMMA HotOpenHot ==
  ASSUME HotHyp, Control, Control', HotOK, NEW c \in Conn, HotOpen(c)
  PROVE  HotOK'
<1>1. HotHere(c)
  BY HotHereIsSo
<1>2. pager[c].pc = "hot3"
  BY DEF HotOpen, In, At
<1>3. /\ Types' /\ Rest(c)
  BY <1>1, HotOpenStep DEF HotHere
<1>4. /\ pager'[c].eState = pager[c].eState
      /\ pager'[c].pc \in {"hot4", "vers"}
      /\ pager'[c].jfd = pager[c].jfd
      /\ pager'[c].mem = pager[c].mem
      /\ pager'[c].journalOff = pager[c].journalOff
  BY <1>1, HotOpenStep DEF HotHere, Kept, Fields
<1>5. lock' = lock
  BY DEF HotOpen
<1>6. \A d \in Conn \ {c} : lock'[d] = lock[d]
  BY <1>5
<1>7. UNCHANGED <<db, jrnl>>
  BY DEF HotOpen, disk
<1>8. BufferOK(pager'[c])
  BY <1>1, <1>2, <1>4 DEF HotHere, HotAt, BufferOK, StateOK, EState, UndoPCs, HotPCs, SyncPCs
<1>m. pager'[c].pc = "vers" => ~Magic
  <2>1. PICK first \in (IF jrnl.exists THEN FirstByte ELSE {1}) :
          Goto(c, IF first # 0 THEN "hot4" ELSE "vers")
    BY DEF HotOpen
  <2>2. pager'[c].pc = IF first # 0 THEN "hot4" ELSE "vers"
    BY <1>1, <2>1, GotoPc DEF HotHere
  <2>3. jrnl.slot \in Seq(SlotSet)
    BY <1>1 DEF HotHere, Types, JournalSet
  <2>4. ASSUME first = 0 PROVE ~IsHot(jrnl.slot)
    <3>1. 0 \in FirstByte
      BY <2>1, <2>4
    <3>2. CASE jrnl.slot # <<>>
      <4>1. jrnl.slot[1] \in SlotSet
        BY <2>3, <3>2
      <4> QED
        BY <3>1, <3>2, <4>1 DEF FirstByte, IsHot, SlotSet
    <3> QED
      BY <3>2 DEF IsHot
  <2> QED
    BY <2>2, <2>4 DEF Magic
<1>9. Checked(pager'[c], lock'[c]) => Checked(pager[c], lock[c]) \/ ~Magic
  BY <1>m, <1>1, <1>2, <1>4, <1>5, Levels
     DEF HotHere, Checked, StateOK, EState, WriterStates, UndoPCs, HotPCs, SyncPCs
<1> QED
  BY <1>3, <1>6, <1>7, <1>8, <1>9, HotQuiet

LEMMA PlaybackStopHot ==
  ASSUME HotHyp, Control, Control', HotOK, NEW c \in Conn, PlaybackStop(c)
  PROVE  HotOK'
<1>1. HotHere(c)
  BY HotHereIsSo
<1>2. pager[c].pc = "playback" /\ ~HeaderAt(c, pager[c].journalOff + 1)
  BY DEF PlaybackStop, In, At
<1>3. /\ Types' /\ Rest(c)
  BY <1>1, PlaybackStopStep DEF HotHere
<1>4. /\ pager'[c].eState = pager[c].eState
      /\ pager'[c].pc = "restored"
      /\ pager'[c].jfd = pager[c].jfd
      /\ pager'[c].mem = pager[c].mem
      /\ pager'[c].journalOff = pager[c].journalOff
  BY <1>1, PlaybackStopStep DEF HotHere, Kept, Fields
<1>5. lock' = lock
  BY DEF PlaybackStop
<1>6. \A d \in Conn \ {c} : lock'[d] = lock[d]
  BY <1>5
<1>7. UNCHANGED <<db, jrnl>>
  BY DEF PlaybackStop, disk
<1>8. BufferOK(pager'[c])
  BY <1>1, <1>2, <1>4 DEF HotHere, HotAt, BufferOK, StateOK, EState, UndoPCs, HotPCs, SyncPCs
<1>m. pager[c].journalOff = 0 => ~Magic \/ Checked(pager[c], lock[c])
  <2>1. jrnl.slot \in Seq(SlotSet)
    BY <1>1 DEF HotHere, Types, JournalSet
  <2>2. CASE pager[c].jfd = "real"
    <3>1. ASSUME pager[c].journalOff = 0 PROVE ~IsHot(jrnl.slot)
      BY <1>2, <2>1, <2>2, <3>1 DEF HeaderAt, Jfile, IsHot
    <3> QED
      BY <3>1 DEF Magic
  <2>3. CASE pager[c].jfd # "real"
    BY <1>1, <1>2, <2>3, Levels DEF HotHere, Checked, StateOK, EState, WriterStates, UndoPCs,
       HotPCs, SyncPCs
  <2> QED
    BY <2>2, <2>3
<1>9. Checked(pager'[c], lock'[c]) => Checked(pager[c], lock[c]) \/ ~Magic
  BY <1>m, <1>1, <1>2, <1>4, <1>5, Levels
     DEF HotHere, Checked, StateOK, EState, WriterStates, UndoPCs, HotPCs, SyncPCs
<1> QED
  BY <1>3, <1>6, <1>7, <1>8, <1>9, HotQuiet

LEMMA HotPut ==
  ASSUME NEW s \in Seq(SlotSet), NEW i \in Nat \ {0}, NEW x \in SlotSet, ~x.magic
  PROVE  /\ IsHot(Put(s, i, x)) => IsHot(s)
         /\ i = 1 => ~IsHot(Put(s, i, x))
<1>1. CASE i <= Len(s)
  BY <1>1 DEF Put, IsHot
<1>2. CASE ~(i <= Len(s)) /\ s = <<>>
  BY <1>2 DEF Put, IsHot
<1>3. CASE ~(i <= Len(s)) /\ s # <<>>
  <2>1. Len(s) >= 1 /\ i # 1
    BY <1>3
  <2>2. Append(s, x)[1] = s[1]
    BY <2>1
  <2> QED
    BY <1>3, <2>1, <2>2 DEF Put, IsHot
<1> QED
  BY <1>1, <1>2, <1>3

LEMMA PutNotEmpty ==
  ASSUME NEW s \in Seq(SlotSet), NEW i \in Nat \ {0}, NEW x \in SlotSet
  PROVE  Put(s, i, x) # <<>>
BY DEF Put

LEMMA HotWriteSlot ==
  ASSUME NEW j \in JournalSet, NEW i \in Nat \ {0}, NEW x \in SlotSet, ~x.magic, NEW torn
  PROVE  /\ IsHot(WriteSlot(j, i, x, torn).slot) => IsHot(j.slot)
         /\ i = 1 => ~IsHot(WriteSlot(j, i, x, torn).slot)
<1>1. j.slot \in Seq(SlotSet)
  BY DEF JournalSet
<1>2. WriteSlot(j, i, x, torn).slot = Put(j.slot, i, x)
  BY DEF WriteSlot
<1> QED
  BY <1>1, <1>2, HotPut

LEMMA HotCreate ==
  ASSUME NEW j \in JournalSet, NEW mem \in Seq(SlotSet), ~IsHot(mem)
  PROVE  IsHot(createFile(j, mem).slot) => IsHot(j.slot)
<1> DEFINE hdr == IF Len(mem) >= 1 THEN WriteSlot(j, 1, mem[1], {Junk})
                  ELSE [j EXCEPT !.exists = TRUE]
<1>1. createFile(j, mem) = IF Len(mem) >= 2 THEN WriteSlot(hdr, 2, mem[2], {Junk}) ELSE hdr
  BY DEF createFile
<1>2. Len(mem) \in Nat
  OBVIOUS
<1>3. CASE Len(mem) = 0
  BY <1>1, <1>2, <1>3 DEF JournalSet
<1>4. CASE Len(mem) >= 1
  <2>1. mem[1] \in SlotSet /\ ~mem[1].magic /\ 1 \in Nat \ {0}
    BY <1>4 DEF IsHot
  <2>2. hdr.slot = Put(j.slot, 1, mem[1]) /\ j.slot \in Seq(SlotSet)
    BY <1>4 DEF WriteSlot, JournalSet
  <2> HIDE DEF hdr
  <2>3. /\ ~IsHot(hdr.slot) /\ hdr.slot # <<>>
    BY <2>1, <2>2, HotPut, PutNotEmpty
  <2>4. hdr.slot \in Seq(SlotSet)
    <3>1. \A k : k = (IF 1 <= Len(j.slot) THEN 1 ELSE Len(j.slot) + 1)
                 => Put(j.slot, 1, mem[1]) \in Seq(SlotSet)
      BY ZenonT(60), <2>1, <2>2, PutType
    <3> QED
      BY <2>2, <3>1
  <2>5. Len(hdr.slot) >= 1
    BY <2>3, <2>4
  <2>6. CASE Len(mem) >= 2
    <3>1. createFile(j, mem).slot = Put(hdr.slot, 2, mem[2])
      BY <1>1, <2>6 DEF WriteSlot
    <3>2. Put(hdr.slot, 2, mem[2])[1] = hdr.slot[1]
      BY <2>4, <2>5 DEF Put
    <3> QED
      BY <2>3, <3>1, <3>2 DEF IsHot
  <2>7. CASE ~(Len(mem) >= 2)
    BY <1>1, <2>3, <2>7
  <2> QED
    BY <2>6, <2>7
<1> QED
  BY <1>2, <1>3, <1>4

\* A write of a slot without magic makes no journal hot.
LEMMA WroteHot ==
  ASSUME NEW c, NEW jfd, NEW mem \in Seq(SlotSet), NEW j \in JournalSet, NEW i \in Nat \ {0},
         NEW x \in SlotSet, ~x.magic, NEW torn, Wrote(c, jfd, mem, j, i, x, torn)
  PROVE  /\ jfd = "mem" => ~IsHot(mem)
         => /\ IsHot(jrnl'.slot) => IsHot(j.slot)
            /\ pager'[c].jfd = "mem" => ~IsHot(pager'[c].mem)
<1> SUFFICES ASSUME jfd = "mem" => ~IsHot(mem)
             PROVE  /\ IsHot(jrnl'.slot) => IsHot(j.slot)
                    /\ pager'[c].jfd = "mem" => ~IsHot(pager'[c].mem)
  OBVIOUS
<1>1. CASE jfd = "gone" \/ (jfd = "mem" /\ i <= 2)
  <2>1. jrnl' = j /\ pager'[c].jfd = jfd /\ pager'[c].mem = Put(mem, i, x)
    BY <1>1 DEF Wrote
  <2>2. IsHot(Put(mem, i, x)) => IsHot(mem)
    BY HotPut
  <2> QED
    BY <2>1, <2>2
<1>2. CASE ~(jfd = "gone" \/ (jfd = "mem" /\ i <= 2))
  <2> DEFINE f == IF jfd = "mem" THEN createFile(j, mem) ELSE j
  <2>1. pager'[c].jfd = "real" /\ jrnl' = WriteSlot(f, i, x, torn)
    BY <1>2 DEF Wrote
  <2>2. f \in JournalSet /\ (IsHot(f.slot) => IsHot(j.slot))
    BY CreateFileType, HotCreate
  <2> HIDE DEF f
  <2>3. IsHot(WriteSlot(f, i, x, torn).slot) => IsHot(f.slot)
    BY <2>2, HotWriteSlot
  <2> QED
    BY <2>1, <2>2, <2>3
<1> QED
  BY <1>1, <1>2

LEMMA CutHot ==
  ASSUME NEW c, NEW jfd, NEW mem \in Seq(SlotSet), NEW j \in JournalSet, NEW i \in Nat \ {0},
         Cut(c, jfd, mem, j, i), j = jrnl
  PROVE  /\ (jfd = "mem" => ~IsHot(mem)) => (IsHot(jrnl'.slot) => IsHot(j.slot))
         /\ pager'[c].jfd = "mem" => ~IsHot(jrnl'.slot)
<1>1. Junk \in SlotSet /\ ~Junk.magic /\ 1 \in Nat \ {0}
  BY JunkType DEF Junk
<1>2. CASE jfd = "gone" /\ pager'[c].jfd = "gone" /\ jrnl' = jrnl
  BY <1>2
<1>3. CASE /\ jfd # "gone" /\ pager'[c].jfd = "real"
           /\ jrnl' = WriteSlot(IF jfd = "mem" THEN createFile(j, mem) ELSE j, i, Junk, {})
  <2> DEFINE f == IF jfd = "mem" THEN createFile(j, mem) ELSE j
  <2>1. f \in JournalSet /\ ((jfd = "mem" => ~IsHot(mem)) => (IsHot(f.slot) => IsHot(j.slot)))
    BY CreateFileType, HotCreate
  <2>2. jrnl' = WriteSlot(f, i, Junk, {})
    BY <1>3
  <2> HIDE DEF f
  <2>3. IsHot(WriteSlot(f, i, Junk, {}).slot) => IsHot(f.slot)
    BY <1>1, <2>1, HotWriteSlot
  <2> QED
    BY <1>3, <2>1, <2>2, <2>3
<1>4. CASE jfd = "mem" /\ pager'[c].jfd = "mem" /\ jrnl' = WriteSlot(j, 1, Junk, {})
  BY <1>1, <1>4, HotWriteSlot
<1> QED
  BY <1>2, <1>3, <1>4 DEF Cut

LEMMA HotWrite ==
  ASSUME Control, Control', HotOK, NEW c \in Conn, Rest(c), lock' = lock, db' = db,
         jrnl'.exists \/ jrnl' = jrnl, IsHot(jrnl'.slot) => IsHot(jrnl.slot),
         BufferOK(pager'[c]),
         Checked(pager'[c], lock[c]) => Checked(pager[c], lock[c]) \/ ~IsHot(jrnl'.slot)
  PROVE  HotOK'
<1>1. Severed(c) /\ \A d \in Conn \ {c} : lock'[d] = lock[d]
  BY RestSevered
<1>2. HotAt(c) /\ (jrnl.exists \/ jrnl.slot = <<>>)
  BY DEF HotOK
<1>3. jrnl'.exists \/ jrnl'.slot = <<>>
  BY <1>2
<1>4. IsHot(jrnl.slot) => jrnl.exists
  BY <1>2 DEF IsHot
<1>5. Magic' => Magic /\ IsHot(jrnl'.slot)
  <2>1. FileSize(db)' = FileSize(db)
    BY DEF FileSize
  <2>2. IsHot(jrnl.slot)' <=> IsHot(jrnl'.slot)
    BY DEF IsHot
  <2> QED
    BY <1>4, <2>1, <2>2 DEF Magic
<1>6. Checked(pager'[c], lock'[c]) => ~Magic'
  BY <1>2, <1>5 DEF HotAt
<1> QED
  BY <1>1, <1>3, <1>5, <1>6, HotFrame

LEMMA HotExcl ==
  ASSUME Control, Control', HotOK, NEW c \in Conn, Rest(c), lock' = lock,
         lock[c] = EXCLUSIVE_LOCK, jrnl'.exists \/ jrnl'.slot = <<>>,
         BufferOK(pager'[c]), ~Checked(pager'[c], lock[c])
  PROVE  HotOK'
<1>1. Severed(c) /\ \A d \in Conn \ {c} : lock'[d] = lock[d]
  BY RestSevered
<1> QED
  BY <1>1, HotFrame

LEMMA HotDb ==
  ASSUME Control, Control', HotOK, NEW c \in Conn, Rest(c), lock' = lock,
         lock[c] = EXCLUSIVE_LOCK, jrnl' = jrnl, BufferOK(pager'[c]),
         \/ ~Checked(pager'[c], lock[c])
         \/ Vfs = "unix" /\ Checked(pager[c], lock[c])
  PROVE  HotOK'
<1>0. jrnl'.exists \/ jrnl'.slot = <<>>
  BY DEF HotOK
<1>1. CASE ~Checked(pager'[c], lock[c])
  BY <1>0, <1>1, HotExcl
<1>2. CASE Vfs = "unix" /\ Checked(pager[c], lock[c])
  <2>1. Severed(c) /\ \A d \in Conn \ {c} : lock'[d] = lock[d]
    BY RestSevered
  <2>2. jrnl.exists \/ jrnl.slot = <<>>
    BY DEF HotOK
  <2>3. Magic' <=> Magic
    BY <1>2 DEF Magic, IsHot
  <2>4. ~Magic
    BY <1>2 DEF HotOK, HotAt
  <2> QED
    BY <2>1, <2>2, <2>3, <2>4, HotFrame
<1> QED
  BY <1>1, <1>2

LEMMA pager_writeHot ==
  ASSUME HotHyp, Control, Control', HotOK, NEW c \in Conn, pager_write(c), NeedsRecord(pager[c],
         pager[c].pg)
  PROVE  HotOK'
<1>1. HotHere(c)
  BY HotHereIsSo
<1>2. pager[c].pc = "write" /\ pager[c].pg \in Page
  BY <1>1, PagerFields DEF HotHere, pager_write, At, FieldsOK
<1>3. /\ Types' /\ Rest(c)
      /\ Kept(pager[c], pager'[c], {"pc", "pg", "dirty", "cache", "dbSize", "journalOff", "nRec",
         "inJournal", "needSync", "jfd", "mem"})
      /\ pager'[c].pc = "idle"
      /\ pager'[c].journalOff = pager[c].journalOff + 1
      /\ Wrote(c, pager[c].jfd, pager[c].mem, jrnl, pager[c].journalOff + 1,
           Record(pager[c].pg, pager[c].cache[pager[c].pg], pager[c].id), {Junk})
  BY <1>1, pager_writeStep DEF HotHere
<1>4. /\ pager'[c].eState = pager[c].eState
      /\ pager'[c].pc = "idle"
      /\ pager'[c].journalOff = pager[c].journalOff + 1
  BY <1>3 DEF Kept, Fields
<1>5. lock' = lock /\ db' = db
  BY DEF pager_write
<1>6. Record(pager[c].pg, pager[c].cache[pager[c].pg], pager[c].id) \in SlotSet
        /\ ~(Record(pager[c].pg, pager[c].cache[pager[c].pg], pager[c].id)).magic
  <2>1. pager[c].pg \in Nat /\ pager[c].cache[pager[c].pg] \in Int /\ pager[c].id \in Nat
    BY SMTT(30), <1>1, <1>2, PagerFields, Numbers DEF HotHere, FieldsOK
  <2> QED
    BY <2>1, RecordType DEF Record
<1>7. pager[c].journalOff + 1 \in Nat \ {0}
  BY <1>1 DEF HotHere
<1>8. /\ (pager[c].jfd = "mem" => ~IsHot(pager[c].mem)) =>
           /\ IsHot(jrnl'.slot) => IsHot(jrnl.slot)
           /\ pager'[c].jfd = "mem" => ~IsHot(pager'[c].mem)
  BY <1>1, <1>3, <1>6, <1>7, WroteHot DEF HotHere
<1>9. \/ pager'[c].jfd = "real" /\ jrnl'.exists
      \/ pager'[c].jfd = pager[c].jfd /\ pager[c].jfd # "real" /\ jrnl' = jrnl
  BY <1>1, <1>3 DEF HotHere, Wrote
<1>10. CASE pager[c].eState = "WRITER_CACHEMOD"
  <2>1. pager[c].jfd = "mem" => ~IsHot(pager[c].mem)
    BY <1>1, <1>2, <1>10 DEF HotHere, HotAt, BufferOK
  <2>2. BufferOK(pager'[c])
    BY <1>1, <1>2, <1>4, <1>8, <1>10, <2>1 DEF HotHere, HotAt, BufferOK, StateOK, EState,
       WriterStates, UndoPCs, HotPCs, SyncPCs
  <2>3. Checked(pager'[c], lock[c]) => Checked(pager[c], lock[c])
    BY <1>1, <1>2, <1>4, <1>9, <1>10, Levels DEF HotHere, Checked, StateOK, EState, WriterStates,
       UndoPCs, HotPCs, SyncPCs
  <2> QED
    BY <1>3, <1>5, <1>8, <1>9, <2>1, <2>2, <2>3, HotWrite
<1>11. CASE pager[c].eState # "WRITER_CACHEMOD"
  <2>1. pager[c].eState = "WRITER_DBMOD" /\ lock[c] = EXCLUSIVE_LOCK
    BY <1>1, <1>2, <1>11 DEF HotHere, StateOK, EState, WriterStates, UndoPCs, HotPCs, SyncPCs
  <2>2. BufferOK(pager'[c])
    BY <1>1, <1>2, <1>4, <2>1 DEF HotHere, HotAt, BufferOK, StateOK, EState, WriterStates,
       UndoPCs, HotPCs, SyncPCs
  <2>3. CASE pager'[c].jfd = "real" /\ jrnl'.exists
    <3>1. ~Checked(pager'[c], lock[c])
      BY <1>1, <1>4, <2>1, <2>3, Levels DEF HotHere, Checked, StateOK, EState, WriterStates,
         UndoPCs, HotPCs, SyncPCs
    <3> QED
      BY <1>3, <1>5, <2>1, <2>2, <2>3, <3>1, HotExcl
  <2>4. CASE pager[c].jfd # "real" /\ jrnl' = jrnl
    <3>1. Checked(pager[c], lock[c])
      BY <2>1, <2>4 DEF Checked, WriterStates
    <3> QED
      BY <1>3, <1>5, <2>2, <2>4, <3>1, HotWrite
  <2> QED
    BY <1>9, <2>3, <2>4
<1> QED
  BY <1>10, <1>11

LEMMA OpenJournalHot ==
  ASSUME HotHyp, Control, Control', HotOK, NEW c \in Conn, OpenJournal(c)
  PROVE  HotOK'
<1>1. HotHere(c)
  BY HotHereIsSo
<1>2. pager[c].pc = "open"
  BY DEF OpenJournal, In, At
<1>3. /\ Types' /\ Rest(c)
      /\ Wrote(c, (IF pager[c].jfd # "closed" THEN pager[c].jfd ELSE IF AtomicWrite THEN "mem"
         ELSE "real"), pager[c].mem, jrnl, 1,
           Header(FALSE, 0, pager[c].dbOrigSize, pager[c].id), {Junk})
  BY <1>1, OpenJournalStep DEF HotHere
<1>4. /\ pager'[c].eState = "WRITER_CACHEMOD"
      /\ pager'[c].pc = "write"
      /\ pager'[c].journalOff = 1
  BY <1>1, OpenJournalStep DEF HotHere, Kept, Fields
<1>5. lock' = lock /\ db' = db
  BY DEF OpenJournal
<1> DEFINE x == Header(FALSE, 0, pager[c].dbOrigSize, pager[c].id)
           jfd == (IF pager[c].jfd # "closed" THEN pager[c].jfd ELSE IF AtomicWrite THEN "mem"
                ELSE "real")
<1>6. x \in SlotSet /\ ~x.magic /\ 1 \in Nat \ {0}
  BY <1>1, PagerFields DEF HotHere, Header, SlotSet, FieldsOK
<1>7. Wrote(c, jfd, pager[c].mem, jrnl, 1, x, {Junk}) /\ jfd \in {"mem", "real", "gone"}
  BY <1>1, <1>3 DEF HotHere, Jfds
<1> HIDE DEF x, jfd
<1>8. \/ jrnl' = jrnl /\ ~IsHot(pager'[c].mem)
      \/ pager'[c].jfd = "real" /\ jrnl'.exists /\ ~IsHot(jrnl'.slot)
  <2>1. CASE jfd \in {"mem", "gone"}
    BY <1>1, <1>6, <1>7, <2>1, HotPut DEF HotHere, Wrote
  <2>2. CASE jfd = "real"
    BY <1>1, <1>6, <1>7, <2>2, HotWriteSlot DEF HotHere, Wrote
  <2> QED
    BY <1>7, <2>1, <2>2
<1>9. Checked(pager[c], lock[c])
  BY <1>1, <1>2 DEF HotHere, Checked, StateOK, EState, WriterStates, UndoPCs, HotPCs, SyncPCs
<1>10. BufferOK(pager'[c])
  BY <1>4, <1>8 DEF BufferOK
<1> QED
  BY <1>3, <1>5, <1>8, <1>9, <1>10, HotWrite

LEMMA SyncHeaderHot ==
  ASSUME HotHyp, Control, Control', HotOK, NEW c \in Conn, SyncHeader(c)
  PROVE  HotOK'
<1>1. HotHere(c)
  BY HotHereIsSo
<1>2. pager[c].pc = "sync3"
  BY DEF SyncHeader, In, At
<1>3. /\ Types' /\ Rest(c)
      /\ Wrote(c, pager[c].jfd, pager[c].mem, jrnl, pager[c].journalHdr + 1,
           Header(TRUE, pager[c].nRec, pager[c].dbOrigSize, pager[c].id), {})
  BY <1>1, SyncHeaderStep DEF HotHere
<1>4. /\ pager'[c].eState = pager[c].eState
      /\ pager'[c].pc = "sync4"
      /\ pager'[c].journalOff = pager[c].journalOff
  BY <1>1, SyncHeaderStep DEF HotHere, Kept, Fields
<1>5. lock' = lock /\ db' = db
  BY DEF SyncHeader
<1>6. lock[c] = EXCLUSIVE_LOCK
  BY <1>1, <1>2, Levels DEF HotHere, StateOK, EState, WriterStates, UndoPCs, HotPCs, SyncPCs
<1>7. \/ pager'[c].jfd = "real" /\ (jrnl'.exists \/ jrnl'.slot = <<>>)
      \/ pager'[c].jfd = pager[c].jfd /\ pager[c].jfd # "real" /\ jrnl' = jrnl
  BY <1>1, <1>3 DEF HotHere, Wrote
<1>8. BufferOK(pager'[c])
  BY <1>1, <1>2, <1>4, <1>6 DEF HotHere, HotAt, BufferOK, StateOK, EState, WriterStates, UndoPCs,
     HotPCs, SyncPCs
<1>9. CASE pager'[c].jfd = "real" /\ (jrnl'.exists \/ jrnl'.slot = <<>>)
  <2>1. ~Checked(pager'[c], lock[c])
    BY <1>1, <1>2, <1>4, <1>6, <1>9, Levels DEF HotHere, Checked, StateOK, EState, WriterStates,
       UndoPCs, HotPCs, SyncPCs
  <2> QED
    BY <1>3, <1>5, <1>6, <1>8, <1>9, <2>1, HotExcl
<1>10. CASE pager'[c].jfd = pager[c].jfd /\ pager[c].jfd # "real" /\ jrnl' = jrnl
  <2>1. Checked(pager'[c], lock[c]) => Checked(pager[c], lock[c])
    BY <1>1, <1>2, <1>4, <1>6, <1>10, Levels DEF HotHere, Checked, StateOK, EState, WriterStates,
       UndoPCs, HotPCs, SyncPCs
  <2> QED
    BY <1>3, <1>5, <1>8, <1>10, <2>1, HotWrite
<1> QED
  BY <1>7, <1>9, <1>10

LEMMA SyncDoneSpillHot ==
  ASSUME HotHyp, Control, Control', HotOK, NEW c \in Conn, SyncDone(c), pager[c].pg # 0
  PROVE  HotOK'
<1>1. HotHere(c)
  BY HotHereIsSo
<1>2. pager[c].pc = "sync4"
  BY DEF SyncDone, In, At
<1>3. /\ Types' /\ Rest(c)
      /\ Wrote(c, pager[c].jfd, pager[c].mem, HeaderSynced(pager[c]), pager[c].journalOff + 1,
           Header(FALSE, 0, pager[c].dbOrigSize, pager[c].id), {Junk})
  BY <1>1, SyncDoneSpill DEF HotHere
<1>4. /\ pager'[c].eState = "WRITER_DBMOD"
      /\ pager'[c].pc = "spill"
      /\ pager'[c].journalOff = pager[c].journalOff + 1
  BY <1>1, SyncDoneSpill DEF HotHere, Kept, Fields
<1>5. lock' = lock /\ db' = db
  BY DEF SyncDone
<1>6. lock[c] = EXCLUSIVE_LOCK
  BY <1>1, <1>2, Levels DEF HotHere, StateOK, EState, WriterStates, UndoPCs, HotPCs, SyncPCs
<1>7. \/ pager'[c].jfd = "real" /\ (jrnl'.exists \/ jrnl'.slot = <<>>)
      \/ pager'[c].jfd = pager[c].jfd /\ pager[c].jfd # "real" /\ jrnl' = jrnl
  BY <1>1, <1>3 DEF HotHere, Wrote, HeaderSynced
<1>8. BufferOK(pager'[c])
  BY <1>1, <1>2, <1>4, <1>6 DEF HotHere, HotAt, BufferOK, StateOK, EState, WriterStates, UndoPCs,
     HotPCs, SyncPCs
<1>9. CASE pager'[c].jfd = "real" /\ (jrnl'.exists \/ jrnl'.slot = <<>>)
  <2>1. ~Checked(pager'[c], lock[c])
    BY <1>1, <1>2, <1>4, <1>6, <1>9, Levels DEF HotHere, Checked, StateOK, EState, WriterStates,
       UndoPCs, HotPCs, SyncPCs
  <2> QED
    BY <1>3, <1>5, <1>6, <1>8, <1>9, <2>1, HotExcl
<1>10. CASE pager'[c].jfd = pager[c].jfd /\ pager[c].jfd # "real" /\ jrnl' = jrnl
  <2>1. Checked(pager'[c], lock[c]) => Checked(pager[c], lock[c])
    BY <1>1, <1>2, <1>4, <1>6, <1>10, Levels DEF HotHere, Checked, StateOK, EState, WriterStates,
       UndoPCs, HotPCs, SyncPCs
  <2> QED
    BY <1>3, <1>5, <1>8, <1>10, <2>1, HotWrite
<1> QED
  BY <1>7, <1>9, <1>10

LEMMA SyncDoneCommitHot ==
  ASSUME HotHyp, Control, Control', HotOK, NEW c \in Conn, SyncDone(c), pager[c].pg = 0
  PROVE  HotOK'
<1>1. HotHere(c)
  BY HotHereIsSo
<1>2. pager[c].pc = "sync4"
  BY DEF SyncDone, In, At
<1>3. /\ Types' /\ Rest(c)
  BY <1>1, SyncDoneCommit DEF HotHere
<1>4. /\ pager'[c].eState = "WRITER_DBMOD"
      /\ pager'[c].pc = "pages"
      /\ pager'[c].jfd = pager[c].jfd
      /\ pager'[c].mem = pager[c].mem
      /\ pager'[c].journalOff = pager[c].journalOff
  BY <1>1, SyncDoneCommit DEF HotHere, Kept, Fields
<1>5. lock' = lock /\ db' = db
  BY DEF SyncDone
<1>6. lock[c] = EXCLUSIVE_LOCK
  BY <1>1, <1>2, Levels DEF HotHere, StateOK, EState, WriterStates, UndoPCs, HotPCs, SyncPCs
<1>7. \/ pager'[c].jfd = "real" /\ (jrnl'.exists \/ jrnl'.slot = <<>>)
      \/ pager'[c].jfd = pager[c].jfd /\ pager[c].jfd # "real" /\ jrnl' = jrnl
  <2>1. jrnl' = HeaderSynced(pager[c]) /\ HeaderSynced(pager[c]) \in {jrnl, Synced(jrnl)}
    BY DEF SyncDone, HeaderSynced
  <2>2. Synced(jrnl).exists = jrnl.exists /\ Synced(jrnl).slot = jrnl.slot
    BY <1>1 DEF HotHere, Synced, JournalSet
  <2>3. pager[c].jfd # "real" => jrnl' = jrnl
    BY <2>1 DEF HeaderSynced
  <2> QED
    BY <1>4, <2>1, <2>2, <2>3 DEF HotOK
<1>8. BufferOK(pager'[c])
  BY <1>1, <1>2, <1>4, <1>6 DEF HotHere, HotAt, BufferOK, StateOK, EState, WriterStates, UndoPCs,
     HotPCs, SyncPCs
<1>9. CASE pager'[c].jfd = "real" /\ (jrnl'.exists \/ jrnl'.slot = <<>>)
  <2>1. ~Checked(pager'[c], lock[c])
    BY <1>1, <1>2, <1>4, <1>6, <1>9, Levels DEF HotHere, Checked, StateOK, EState, WriterStates,
       UndoPCs, HotPCs, SyncPCs
  <2> QED
    BY <1>3, <1>5, <1>6, <1>8, <1>9, <2>1, HotExcl
<1>10. CASE pager'[c].jfd = pager[c].jfd /\ pager[c].jfd # "real" /\ jrnl' = jrnl
  <2>1. Checked(pager'[c], lock[c]) => Checked(pager[c], lock[c])
    BY <1>1, <1>2, <1>4, <1>6, <1>10, Levels DEF HotHere, Checked, StateOK, EState, WriterStates,
       UndoPCs, HotPCs, SyncPCs
  <2> QED
    BY <1>3, <1>5, <1>8, <1>10, <2>1, HotWrite
<1> QED
  BY <1>7, <1>9, <1>10

LEMMA SyncRecordsHot ==
  ASSUME HotHyp, Control, Control', HotOK, NEW c \in Conn, SyncRecords(c)
  PROVE  HotOK'
<1>1. HotHere(c)
  BY HotHereIsSo
<1>2. pager[c].pc = "sync2"
  BY DEF SyncRecords, In, At
<1>3. /\ Types' /\ Rest(c)
  BY <1>1, SyncRecordsStep DEF HotHere
<1>4. /\ pager'[c].eState = pager[c].eState
      /\ pager'[c].pc = "sync3"
      /\ pager'[c].jfd = pager[c].jfd
      /\ pager'[c].mem = IF pager[c].jfd = "real" THEN pager[c].mem
                           ELSE StaleZeroed(Jfile(c), pager[c].journalOff + 1)
      /\ pager'[c].journalOff = pager[c].journalOff
  BY <1>1, SyncRecordsStep DEF HotHere, Kept, Fields
<1>5. lock' = lock /\ db' = db
  BY DEF SyncRecords
<1>6. lock[c] = EXCLUSIVE_LOCK
  BY <1>1, <1>2, Levels DEF HotHere, StateOK, EState, WriterStates, UndoPCs, HotPCs, SyncPCs
<1>7. \/ pager'[c].jfd = "real" /\ (jrnl'.exists \/ jrnl'.slot = <<>>)
      \/ pager'[c].jfd = pager[c].jfd /\ pager[c].jfd # "real" /\ jrnl' = jrnl
  <2> DEFINE next == pager[c].journalOff + 1
             zeroed == StaleZeroed(Jfile(c), next)
             file == IF pager[c].jfd = "real" /\ zeroed # jrnl.slot
                     THEN WriteSlot(jrnl, next, zeroed[next], {}) ELSE jrnl
  <2>1. jrnl' = IF pager[c].jfd = "real" /\ pager[c].fullSync /\ ~Sequential
                THEN Synced(file) ELSE file
    BY DEF SyncRecords
  <2>2. file.exists \/ file = jrnl
    BY DEF WriteSlot
  <2>3. Synced(file).exists = file.exists /\ Synced(file).slot = file.slot
    BY <1>1 DEF HotHere, Synced, JournalSet, WriteSlot
  <2>4. pager[c].jfd # "real" => file = jrnl
    OBVIOUS
  <2> HIDE DEF file
  <2> QED
    BY <1>4, <2>1, <2>2, <2>3, <2>4 DEF HotOK
<1>8. BufferOK(pager'[c])
  BY <1>1, <1>2, <1>4, <1>6 DEF HotHere, HotAt, BufferOK, StateOK, EState, WriterStates, UndoPCs,
     HotPCs, SyncPCs
<1>9. CASE pager'[c].jfd = "real" /\ (jrnl'.exists \/ jrnl'.slot = <<>>)
  <2>1. ~Checked(pager'[c], lock[c])
    BY <1>1, <1>2, <1>4, <1>6, <1>9, Levels DEF HotHere, Checked, StateOK, EState, WriterStates,
       UndoPCs, HotPCs, SyncPCs
  <2> QED
    BY <1>3, <1>5, <1>6, <1>8, <1>9, <2>1, HotExcl
<1>10. CASE pager'[c].jfd = pager[c].jfd /\ pager[c].jfd # "real" /\ jrnl' = jrnl
  <2>1. Checked(pager'[c], lock[c]) => Checked(pager[c], lock[c])
    BY <1>1, <1>2, <1>4, <1>6, <1>10, Levels DEF HotHere, Checked, StateOK, EState, WriterStates,
       UndoPCs, HotPCs, SyncPCs
  <2> QED
    BY <1>3, <1>5, <1>8, <1>10, <2>1, HotWrite
<1> QED
  BY <1>7, <1>9, <1>10

LEMMA CountJournalledHot ==
  ASSUME HotHyp, Control, Control', HotOK, NEW c \in Conn, CountJournalled(c),
         NeedsRecord(pager[c], 1)
  PROVE  HotOK'
<1>1. HotHere(c)
  BY HotHereIsSo
<1>2. pager[c].pc = "count"
  BY DEF CountJournalled, In, At
<1>3. /\ Types' /\ Rest(c)
      /\ Wrote(c, (IF pager[c].jfd = "mem" THEN "real" ELSE pager[c].jfd),
         (IF pager[c].jfd = "mem" THEN <<>> ELSE pager[c].mem), (IF pager[c].jfd = "mem"
             THEN createFile(jrnl, pager[c].mem) ELSE jrnl), pager[c].journalOff + 1,
           Record(1, pager[c].cache[1], pager[c].id), {Junk})
  BY <1>1, CountJournalledStep DEF HotHere
<1>4. /\ pager'[c].eState = pager[c].eState
      /\ pager'[c].pc = "sync2"
      /\ pager'[c].journalOff = pager[c].journalOff + 1
  BY <1>1, CountJournalledStep DEF HotHere, Kept, Fields
<1>5. lock' = lock /\ db' = db
  BY DEF CountJournalled
<1>6. lock[c] = EXCLUSIVE_LOCK
  BY <1>1, <1>2, Levels DEF HotHere, StateOK, EState, WriterStates, UndoPCs, HotPCs, SyncPCs
<1>7. \/ pager'[c].jfd = "real" /\ (jrnl'.exists \/ jrnl'.slot = <<>>)
      \/ pager'[c].jfd = pager[c].jfd /\ pager[c].jfd \notin {"real", "mem"} /\ jrnl' = jrnl
  BY <1>1, <1>3 DEF HotHere, Wrote
<1>8. BufferOK(pager'[c])
  BY <1>1, <1>2, <1>4, <1>6, <1>7 DEF HotHere, HotAt, BufferOK, StateOK, EState, WriterStates,
     UndoPCs, HotPCs, SyncPCs
<1>9. CASE pager'[c].jfd = "real" /\ (jrnl'.exists \/ jrnl'.slot = <<>>)
  <2>1. ~Checked(pager'[c], lock[c])
    BY <1>1, <1>2, <1>4, <1>6, <1>9, Levels DEF HotHere, Checked, StateOK, EState, WriterStates,
       UndoPCs, HotPCs, SyncPCs
  <2> QED
    BY <1>3, <1>5, <1>6, <1>8, <1>9, <2>1, HotExcl
<1>10. CASE pager'[c].jfd = pager[c].jfd /\ pager[c].jfd # "real" /\ jrnl' = jrnl
  <2>1. Checked(pager'[c], lock[c]) => Checked(pager[c], lock[c])
    BY <1>1, <1>2, <1>4, <1>6, <1>10, Levels DEF HotHere, Checked, StateOK, EState, WriterStates,
       UndoPCs, HotPCs, SyncPCs
  <2> QED
    BY <1>3, <1>5, <1>8, <1>10, <2>1, HotWrite
<1> QED
  BY <1>7, <1>9, <1>10

LEMMA CountJournalledPlainHot ==
  ASSUME HotHyp, Control, Control', HotOK, NEW c \in Conn, CountJournalled(c),
         ~NeedsRecord(pager[c], 1)
  PROVE  HotOK'
<1>1. HotHere(c)
  BY HotHereIsSo
<1>2. pager[c].pc = "count"
  BY DEF CountJournalled, In, At
<1>3. /\ Types' /\ Rest(c)
      /\ Kept(pager[c], pager'[c], {"pc", "dirty", "cache", "jfd", "mem"})
      /\ pager'[c].pc = "sync2"
      /\ pager'[c].jfd = IF pager[c].jfd = "mem" THEN "real" ELSE pager[c].jfd
      /\ pager'[c].mem = IF pager[c].jfd = "mem" THEN <<>> ELSE pager[c].mem
  BY <1>1, CountJournalledPlain DEF HotHere
<1>4. /\ pager'[c].eState = pager[c].eState
      /\ pager'[c].pc = "sync2"
      /\ pager'[c].jfd = IF pager[c].jfd = "mem" THEN "real" ELSE pager[c].jfd
      /\ pager'[c].mem = IF pager[c].jfd = "mem" THEN <<>> ELSE pager[c].mem
      /\ pager'[c].journalOff = pager[c].journalOff
  BY <1>3 DEF Kept, Fields
<1>5. lock' = lock /\ db' = db
  BY DEF CountJournalled
<1>6. lock[c] = EXCLUSIVE_LOCK
  BY <1>1, <1>2, Levels DEF HotHere, StateOK, EState, WriterStates, UndoPCs, HotPCs, SyncPCs
<1>7. \/ pager'[c].jfd = "real" /\ (jrnl'.exists \/ jrnl'.slot = <<>>)
      \/ pager'[c].jfd = pager[c].jfd /\ pager[c].jfd # "real" /\ jrnl' = jrnl
  <2>1. jrnl' = IF pager[c].jfd = "mem" THEN createFile(jrnl, pager[c].mem) ELSE jrnl
    BY DEF CountJournalled
  <2>2. createFile(jrnl, pager[c].mem).exists
    BY <1>1, CreateFileType DEF HotHere
  <2> QED
    BY <1>4, <2>1, <2>2 DEF HotOK
<1>8. BufferOK(pager'[c])
  BY <1>1, <1>2, <1>4, <1>6 DEF HotHere, HotAt, BufferOK, StateOK, EState, WriterStates, UndoPCs,
     HotPCs, SyncPCs
<1>9. CASE pager'[c].jfd = "real" /\ (jrnl'.exists \/ jrnl'.slot = <<>>)
  <2>1. ~Checked(pager'[c], lock[c])
    BY <1>1, <1>2, <1>4, <1>6, <1>9, Levels DEF HotHere, Checked, StateOK, EState, WriterStates,
       UndoPCs, HotPCs, SyncPCs
  <2> QED
    BY <1>3, <1>5, <1>6, <1>8, <1>9, <2>1, HotExcl
<1>10. CASE pager'[c].jfd = pager[c].jfd /\ pager[c].jfd # "real" /\ jrnl' = jrnl
  <2>1. Checked(pager'[c], lock[c]) => Checked(pager[c], lock[c])
    BY <1>1, <1>2, <1>4, <1>6, <1>10, Levels DEF HotHere, Checked, StateOK, EState, WriterStates,
       UndoPCs, HotPCs, SyncPCs
  <2> QED
    BY <1>3, <1>5, <1>8, <1>10, <2>1, HotWrite
<1> QED
  BY <1>7, <1>9, <1>10

LEMMA NewHeaderErrorHot ==
  ASSUME HotHyp, Control, Control', HotOK, NEW c \in Conn, NewHeaderError(c)
  PROVE  HotOK'
<1>1. HotHere(c)
  BY HotHereIsSo
<1>2. pager[c].pc = "sync4"
  BY DEF NewHeaderError, In, At
<1>3. /\ Types' /\ Rest(c)
      /\ Cut(c, pager[c].jfd, pager[c].mem, jrnl, pager[c].journalOff + 1)
  BY <1>1, NewHeaderErrorStep DEF HotHere
<1>4. /\ pager'[c].eState = "ERROR"
      /\ pager'[c].pc = "idle"
      /\ pager'[c].journalOff = pager[c].journalOff
  BY <1>1, NewHeaderErrorStep DEF HotHere, Kept, Fields
<1>5. lock' = lock
  BY DEF NewHeaderError
<1>6. lock[c] = EXCLUSIVE_LOCK
  BY <1>1, <1>2, Levels DEF HotHere, StateOK, EState, WriterStates, UndoPCs, HotPCs, SyncPCs
<1>7. jrnl'.exists \/ jrnl'.slot = <<>>
  BY <1>1, <1>3 DEF HotHere, Cut, HotOK, WriteSlot
<1>8. BufferOK(pager'[c])
  BY <1>1, <1>2, <1>4, <1>6 DEF HotHere, HotAt, BufferOK, StateOK, EState, WriterStates, UndoPCs,
     HotPCs, SyncPCs
<1>9. ~Checked(pager'[c], lock[c])
  BY <1>1, <1>2, <1>4, <1>6, Levels DEF HotHere, Checked, StateOK, EState, WriterStates, UndoPCs,
     HotPCs, SyncPCs, HotAt, BufferOK
<1> QED
  BY <1>3, <1>5, <1>6, <1>7, <1>8, <1>9, HotExcl

LEMMA HotReopenHot ==
  ASSUME HotHyp, Control, Control', HotOK, NEW c \in Conn, HotReopen(c)
  PROVE  HotOK'
<1>1. HotHere(c)
  BY HotHereIsSo
<1>2. /\ pager[c].pc = "hot5" /\ pager[c].eState = "OPEN" /\ lock[c] = EXCLUSIVE_LOCK
  BY <1>1 DEF HotHere, HotReopen, At, StateOK, EState, WriterStates, UndoPCs, HotPCs, SyncPCs
<1>3. CASE jrnl.exists
  <2>1. /\ Rest(c) /\ Kept(pager[c], pager'[c], {"pc", "jfd", "journalHdr"})
        /\ pager'[c].pc = "playback"
    BY <1>1, <1>3, HotReopenFound DEF HotHere
  <2>2. pager'[c].eState = "OPEN" /\ pager'[c].journalOff = pager[c].journalOff
    BY <1>2, <2>1 DEF Kept, Fields
  <2>3. lock' = lock /\ jrnl' = Synced(jrnl) /\ db' = db
    BY <1>3 DEF HotReopen
  <2>4. Synced(jrnl).exists = jrnl.exists /\ Synced(jrnl).slot = jrnl.slot
    BY <1>1 DEF HotHere, Synced, JournalSet
  <2>5. BufferOK(pager'[c])
    BY <2>1, <2>2 DEF BufferOK
  <2>6. ~Checked(pager'[c], lock'[c])
    BY <1>2, <2>1, <2>2, <2>3, Levels DEF Checked, WriterStates
  <2> QED
    BY <2>1, <2>3, <2>4, <2>5, <2>6, HotQuiet
<1>4. CASE ~jrnl.exists
  <2>1. Goto(c, "vers") /\ lock' = [lock EXCEPT ![c] = SHARED_LOCK] /\ jrnl' = jrnl /\ db' = db
    BY <1>4 DEF HotReopen
  <2>2. lock' \in [Conn -> 0..4] /\ faults' \in Nat /\ "vers" \in PCs
        /\ UNCHANGED <<disk, txid>>
    BY <1>1, <1>4, Levels DEF HotHere, Types, PCs, HotPCs, HotReopen, disk
  <2>3. Rest(c) /\ Kept(pager[c], pager'[c], {"pc"}) /\ pager'[c].pc = "vers"
    BY <1>1, <2>1, <2>2, GotoTypes DEF HotHere
  <2>4. pager'[c].eState = "OPEN" /\ \A d \in Conn \ {c} : lock'[d] = lock[d]
    BY <1>1, <1>2, <2>1, <2>3 DEF HotHere, Kept, Fields, Types
  <2>5. BufferOK(pager'[c])
    BY <2>3, <2>4 DEF BufferOK
  <2>6. ~Magic
    BY <1>4 DEF Magic
  <2> QED
    BY <2>1, <2>3, <2>4, <2>5, <2>6, HotQuiet
<1> QED
  BY <1>3, <1>4

LEMMA CommitBusyHot ==
  ASSUME HotHyp, Control, Control', HotOK, NEW c \in Conn, CommitBusy(c)
  PROVE  HotOK'
<1>1. HotHere(c)
  BY HotHereIsSo
<1>2. /\ pager[c].eState \in {"WRITER_LOCKED", "WRITER_CACHEMOD", "WRITER_DBMOD"}
      /\ pager[c].pc = "idle" /\ pager' = pager /\ ExclusiveBusy(c)
      /\ db' = db /\ jrnl' = jrnl
  BY DEF CommitBusy, In, At, Writing, disk
<1>3. /\ lock'[c] \in {lock[c], PENDING_LOCK} /\ lock[c] # EXCLUSIVE_LOCK
      /\ \A d \in Conn \ {c} : lock'[d] = lock[d]
  BY <1>1, <1>2, ExclusiveBusyLock, BusyLow DEF HotHere
<1>4. Checked(pager[c], lock[c])
  BY <1>1, <1>2, <1>3, Levels DEF HotHere, Checked, StateOK, EState, WriterStates, UndoPCs,
     HotPCs, SyncPCs
<1>5. Rest(c)
  BY <1>1, <1>2, PagerFields DEF HotHere, Rest
<1>6. BufferOK(pager'[c])
  BY <1>1, <1>2 DEF HotHere, HotAt
<1> QED
  BY <1>2, <1>3, <1>4, <1>5, <1>6, HotQuiet

LEMMA UnlockingHot ==
  ASSUME Control, Control', HotOK, NEW c \in Conn,
         \/ HotGiveUp(c) \/ EndRead(c) \/ SharedLockError(c) \/ ErrorUnlock(c)
         \/ PlaybackError(c) /\ pager[c].eState = "OPEN"
  PROVE  HotOK'
<1>1. Types /\ faults \in Nat
  BY DEF Control, Types
<1>2. UNCHANGED <<disk, txid>> /\ db' = db /\ jrnl' = jrnl
  BY DEF HotGiveUp, EndRead, SharedLockError, ErrorUnlock, PlaybackError, disk
<1>3. faults' \in Nat
  <2>1. faults' = faults \/ faults' = faults + 1
    BY DEF HotGiveUp, EndRead, SharedLockError, ErrorUnlock, PlaybackError, Fault
  <2> QED
    BY <1>1, <2>1
<1>4. Unlocked(c, TRUE) \/ Unlocked(c, FALSE) \/ Unlocked(c, At(c, "hot5"))
  BY DEF HotGiveUp, EndRead, SharedLockError, ErrorUnlock, PlaybackError
<1>5. At(c, "hot5") \in BOOLEAN
  BY DEF At
<1>6. ASSUME NEW reset \in BOOLEAN, Unlocked(c, reset) PROVE HotOK'
  <2>1. /\ Rest(c) /\ pager'[c].eState = "OPEN" /\ pager'[c].pc = "idle"
        /\ pager'[c].jfd = "closed" /\ lock' = [lock EXCEPT ![c] = NO_LOCK]
    BY <1>1, <1>2, <1>3, <1>6, UnlockedTypes
  <2>2. lock'[c] = NO_LOCK /\ \A d \in Conn \ {c} : lock'[d] = lock[d]
    BY <1>1, <2>1 DEF Types
  <2>3. BufferOK(pager'[c])
    BY <2>1 DEF BufferOK
  <2>4. ~Checked(pager'[c], lock'[c])
    BY <2>1, <2>2, Levels DEF Checked, WriterStates
  <2> QED
    BY <1>2, <2>1, <2>2, <2>3, <2>4, HotQuiet
<1> QED
  BY <1>4, <1>5, <1>6

LEMMA EndTransactionHot ==
  ASSUME HotHyp, Control, Control', HotOK, NEW c \in Conn, EndTransaction(c)
  PROVE  HotOK'
<1>1. HotHere(c)
  BY HotHereIsSo
<1>2. pager[c].pc = "unlock" /\ db' = db /\ jrnl' = jrnl
  BY DEF EndTransaction, At, disk
<1>3. /\ Rest(c)
      /\ pager'[c].eState = IF pager[c].eState = "OPEN" THEN "OPEN" ELSE "READER"
      /\ pager'[c].pc = IF pager[c].eState = "OPEN" THEN "vers" ELSE "idle"
  BY <1>1, EndTransactionStep DEF HotHere
<1>4. \A d \in Conn \ {c} : lock'[d] = lock[d]
  BY <1>1 DEF HotHere, EndTransaction, Types
<1>5. BufferOK(pager'[c])
  BY <1>3 DEF BufferOK
<1>6. Checked(pager[c], lock[c])
  BY <1>2 DEF Checked
<1> QED
  BY <1>2, <1>3, <1>4, <1>5, <1>6, HotQuiet

LEMMA HotDeleteHot ==
  ASSUME HotHyp, Control, Control', HotOK, NEW c \in Conn, HotDelete(c)
  PROVE  HotOK'
<1>1. HotHere(c)
  BY HotHereIsSo
<1>2. /\ pager[c].pc = "hot3" /\ lock' = lock /\ db' = db /\ FileSize(db) = 0
      /\ pager[c].eState = "OPEN"
  BY <1>1 DEF HotHere, HotDelete, At, StateOK, EState, WriterStates, UndoPCs, HotPCs, SyncPCs
<1>3. /\ Severed(c) /\ Kept(pager[c], pager'[c], {"pc"}) /\ pager'[c].pc = "vers"
  BY <1>1, HotDeleteStep DEF HotHere
<1>4. pager'[c].eState = "OPEN"
  BY <1>2, <1>3 DEF Kept, Fields
<1>5. BufferOK(pager'[c])
  BY <1>3, <1>4 DEF BufferOK
<1>6. jrnl'.exists \/ jrnl'.slot = <<>>
  BY <1>1 DEF HotHere, HotDelete, NoJournal
<1>7. ~Magic'
  <2>1. CASE Vfs = "vms"
    <3>1. FileSize(db)' = FileSize(db)
      BY <1>2 DEF FileSize
    <3>2. ~(FileSize(db)' > 0)
      BY <1>2, <3>1
    <3> QED
      BY <2>1, <3>2 DEF Magic
  <2>2. CASE Vfs = "unix" /\ MayLock(c, RESERVED_LOCK)
    BY <2>2 DEF HotDelete, NoJournal, Magic
  <2>3. CASE Vfs = "unix" /\ ~MayLock(c, RESERVED_LOCK)
    <3>1. ~Magic
      BY <2>3, ReservedChecked DEF MayLock
    <3>2. jrnl' = jrnl
      BY <2>3 DEF HotDelete
    <3> QED
      BY <1>2, <3>1, <3>2, MagicKept
  <2> QED
    BY <2>1, <2>2, <2>3 DEF HotHyp
<1> QED
  BY <1>2, <1>3, <1>5, <1>6, <1>7, HotFrame

\* A finalized journal is not hot.
LEMMA FinalizedCold ==
  ASSUME Control, HotOK, NEW c \in Conn, pager[c].pc = "final"
  PROVE  /\ Finalized(c).exists \/ Finalized(c).slot = <<>>
         /\ ~IsHot(Finalized(c).slot) \/ (Finalized(c) = jrnl /\ ~Magic)
<1>1. HotHere(c)
  BY HotHereIsSo
<1>2. CASE \/ pager[c].jfd # "real"
           \/ pager[c].journalMode # "DELETE" /\ pager[c].journalOff = 0
  <2>1. Finalized(c) = jrnl
    BY <1>2 DEF Finalized
  <2>2. Checked(pager[c], lock[c])
    BY <1>1, <1>2, Levels DEF HotHere, Checked, StateOK, EState, WriterStates, UndoPCs, HotPCs,
       SyncPCs
  <2> QED
    BY <1>1, <2>1, <2>2 DEF HotHere, HotAt
<1>3. CASE pager[c].jfd = "real" /\ pager[c].journalMode = "DELETE"
  BY <1>3 DEF Finalized, NoJournal, IsHot
<1>4. CASE /\ pager[c].jfd = "real" /\ pager[c].journalMode # "DELETE" /\ pager[c].journalOff # 0
           /\ pager[c].journalMode = "TRUNCATE"
  BY <1>4 DEF Finalized, IsHot
<1>5. CASE /\ pager[c].jfd = "real" /\ pager[c].journalMode # "DELETE"
           /\ pager[c].journalOff # 0 /\ pager[c].journalMode # "TRUNCATE"
  <2> DEFINE x == Header(FALSE, 0, 0, 0)
  <2>1. Finalized(c) = Synced(WriteSlot(jrnl, 1, x, {}))
    BY <1>5 DEF Finalized
  <2>2. x \in SlotSet /\ ~x.magic /\ 1 \in Nat \ {0}
    BY DEF Header, SlotSet
  <2> HIDE DEF x
  <2>3. /\ Synced(WriteSlot(jrnl, 1, x, {})).slot = WriteSlot(jrnl, 1, x, {}).slot
        /\ Synced(WriteSlot(jrnl, 1, x, {})).exists
    BY DEF Synced, WriteSlot
  <2>4. ~IsHot(WriteSlot(jrnl, 1, x, {}).slot)
    BY <1>1, <2>2, HotWriteSlot DEF HotHere
  <2> QED
    BY <2>1, <2>3, <2>4
<1>6. \/ pager[c].jfd # "real"
      \/ pager[c].journalMode # "DELETE" /\ pager[c].journalOff = 0
      \/ pager[c].jfd = "real" /\ pager[c].journalMode = "DELETE"
      \/ /\ pager[c].jfd = "real" /\ pager[c].journalMode # "DELETE"
         /\ pager[c].journalOff # 0 /\ pager[c].journalMode = "TRUNCATE"
      \/ /\ pager[c].jfd = "real" /\ pager[c].journalMode # "DELETE"
         /\ pager[c].journalOff # 0 /\ pager[c].journalMode # "TRUNCATE"
  OBVIOUS
<1> QED
  BY <1>2, <1>3, <1>4, <1>5, <1>6, Zenon

LEMMA FinalizedMagic ==
  ASSUME Control, HotOK, NEW c \in Conn, pager[c].pc = "final", db' = db,
         jrnl' \in {jrnl, Finalized(c)}
  PROVE  /\ jrnl'.exists \/ jrnl'.slot = <<>>
         /\ Magic' => Magic
         /\ jrnl' = Finalized(c) => ~Magic'
<1>1. /\ Finalized(c).exists \/ Finalized(c).slot = <<>>
      /\ ~IsHot(Finalized(c).slot) \/ (Finalized(c) = jrnl /\ ~Magic)
  BY FinalizedCold
<1>2. ~IsHot(jrnl'.slot) => ~Magic'
  BY DEF Magic, IsHot
<1>3. jrnl' = jrnl => (Magic' <=> Magic)
  BY MagicKept
<1> QED
  BY <1>1, <1>2, <1>3 DEF HotOK

LEMMA FinalizeHot ==
  ASSUME HotHyp, Control, Control', HotOK, NEW c \in Conn, Finalize(c)
  PROVE  HotOK'
<1>1. HotHere(c)
  BY HotHereIsSo
<1>2. pager[c].pc = "final" /\ lock' = lock /\ db' = db /\ jrnl' = Finalized(c)
  BY DEF Finalize, At
<1>3. /\ Severed(c) /\ Kept(pager[c], pager'[c], {"pc", "mem"}) /\ pager'[c].pc = "unlock"
  BY <1>1, FinalizeStep DEF HotHere
<1>4. BufferOK(pager'[c])
  BY <1>3 DEF BufferOK, UndoPCs
<1>5. ~Magic' /\ (jrnl'.exists \/ jrnl'.slot = <<>>)
  BY <1>2, FinalizedMagic
<1> QED
  BY <1>2, <1>3, <1>4, <1>5, HotFrame

LEMMA FinalizeErrorHot ==
  ASSUME HotHyp, Control, Control', HotOK, NEW c \in Conn, FinalizeError(c)
  PROVE  HotOK'
<1>1. HotHere(c)
  BY HotHereIsSo
<1>2. pager[c].pc = "final" /\ db' = db /\ jrnl' \in {jrnl, Finalized(c)}
      /\ lock' = [lock EXCEPT ![c] = IF pager[c].eState = "OPEN" THEN NO_LOCK ELSE SHARED_LOCK]
  BY DEF FinalizeError, At
<1>3. /\ Severed(c)
      /\ pager'[c] = IF pager[c].eState = "OPEN" THEN Closed(pager[c], TRUE)
                     ELSE InError(pager[c])
  BY <1>1, FinalizeErrorStep DEF HotHere
<1>4. pager'[c].eState \in {"OPEN", "ERROR"} /\ pager'[c].pc = "idle"
  <2>1. ASSUME NEW reset \in BOOLEAN
        PROVE  Closed(pager[c], reset).eState = "OPEN" /\ Closed(pager[c], reset).pc = "idle"
    BY <1>1, ClosedFields DEF HotHere
  <2>2. InError(pager[c]).eState = "ERROR" /\ InError(pager[c]).pc = "idle"
    BY <1>1, InErrorFields DEF HotHere
  <2> QED
    BY <1>3, <2>1, <2>2
<1>5. lock'[c] \in {NO_LOCK, SHARED_LOCK} /\ \A d \in Conn \ {c} : lock'[d] = lock[d]
  BY <1>1, <1>2 DEF HotHere, Types
<1>6. BufferOK(pager'[c])
  BY <1>4 DEF BufferOK
<1>7. ~Checked(pager'[c], lock'[c])
  BY <1>4, <1>5, Levels DEF Checked, WriterStates
<1>8. (Magic' => Magic) /\ (jrnl'.exists \/ jrnl'.slot = <<>>)
  BY <1>2, FinalizedMagic
<1> QED
  BY <1>3, <1>5, <1>6, <1>7, <1>8, HotFrame

LEMMA OpenErrorHot ==
  ASSUME HotHyp, Control, Control', HotOK, NEW c \in Conn, OpenError(c)
  PROVE  HotOK'
<1>1. HotHere(c)
  BY HotHereIsSo
<1>2. pager[c].pc = "open" /\ lock' = lock /\ db' = db
  BY DEF OpenError, At
<1>3. pager[c].eState = "WRITER_LOCKED"
  BY <1>1, <1>2 DEF HotHere, StateOK, EState, WriterStates, UndoPCs, HotPCs, SyncPCs
<1>4. /\ Rest(c) /\ pager'[c].pc = "abort" /\ pager'[c].eState = pager[c].eState
      /\ \/ jrnl' = jrnl
         \/ Cut(c, IF pager[c].jfd = "closed" THEN "real" ELSE pager[c].jfd, pager[c].mem, jrnl,
            1)
            /\ pager[c].jfd # "mem"
  <2>1. OpenError(c)
    OBVIOUS
  <2> QED
    BY <1>1, <2>1, OpenErrorStep DEF HotHere, Kept, Fields
<1>5. (IsHot(jrnl'.slot) => IsHot(jrnl.slot)) /\ (jrnl'.exists \/ jrnl' = jrnl)
  <2>1. CASE jrnl' = jrnl
    BY <2>1
  <2>2. CASE /\ Cut(c, IF pager[c].jfd = "closed" THEN "real" ELSE pager[c].jfd, pager[c].mem,
                jrnl, 1)
             /\ pager[c].jfd # "mem"
    <3> DEFINE jfd == IF pager[c].jfd = "closed" THEN "real" ELSE pager[c].jfd
    <3>1. Cut(c, jfd, pager[c].mem, jrnl, 1) /\ jfd # "mem" /\ 1 \in Nat \ {0}
      BY <2>2
    <3> HIDE DEF jfd
    <3>2. IsHot(jrnl'.slot) => IsHot(jrnl.slot)
      BY <1>1, <3>1, CutHot DEF HotHere
    <3> QED
      BY <3>1, <3>2 DEF Cut
  <2> QED
    BY <1>4, <2>1, <2>2
<1>6. BufferOK(pager'[c])
  BY <1>3, <1>4 DEF BufferOK
<1>7. Checked(pager[c], lock[c])
  BY <1>3 DEF Checked
<1> QED
  BY <1>2, <1>4, <1>5, <1>6, <1>7, HotWrite

LEMMA RecordErrorHot ==
  ASSUME HotHyp, Control, Control', HotOK, NEW c \in Conn, RecordError(c)
  PROVE  HotOK'
<1>1. HotHere(c)
  BY HotHereIsSo
<1>2. pager[c].pc = "write"
  BY DEF RecordError, In, At
<1>3. /\ Types' /\ Rest(c)
      /\ Cut(c, pager[c].jfd, pager[c].mem, jrnl, pager[c].journalOff + 1)
  BY <1>1, RecordErrorStep DEF HotHere
<1>4. /\ pager'[c].eState = pager[c].eState
      /\ pager'[c].pc = "abort"
      /\ pager'[c].journalOff = pager[c].journalOff
  BY <1>1, RecordErrorStep DEF HotHere, Kept, Fields
<1>5. lock' = lock /\ db' = db
  BY DEF RecordError
<1>6. /\ pager[c].journalOff + 1 \in Nat \ {0}
      /\ pager[c].eState \in {"WRITER_CACHEMOD", "WRITER_DBMOD"}
  BY <1>1, <1>2 DEF HotHere, StateOK, EState, WriterStates, UndoPCs, HotPCs, SyncPCs
<1>7. /\ (pager[c].jfd = "mem" => ~IsHot(pager[c].mem)) => (IsHot(jrnl'.slot) => IsHot(jrnl.slot))
      /\ pager'[c].jfd = "mem" => ~IsHot(jrnl'.slot)
  BY <1>1, <1>3, <1>6, CutHot DEF HotHere
<1>8. /\ jrnl'.exists \/ jrnl' = jrnl
      /\ \/ jrnl' = jrnl /\ pager[c].jfd = "gone" /\ pager'[c].jfd = "gone"
         \/ pager'[c].jfd = "real"
         \/ pager'[c].jfd = "mem"
  BY <1>3 DEF Cut
<1>9. BufferOK(pager'[c])
  BY <1>1, <1>2, <1>4, <1>6 DEF HotHere, HotAt, BufferOK, StateOK, EState, WriterStates, UndoPCs,
     HotPCs, SyncPCs
<1>10. CASE lock[c] = EXCLUSIVE_LOCK /\ pager'[c].jfd = "real"
  <2>1. ~Checked(pager'[c], lock[c])
    BY <1>4, <1>6, <1>10, Levels DEF Checked, WriterStates
  <2>2. jrnl'.exists \/ jrnl'.slot = <<>>
    BY <1>8 DEF HotOK
  <2> QED
    BY <1>3, <1>5, <1>9, <1>10, <2>1, <2>2, HotExcl
<1>11. CASE ~(lock[c] = EXCLUSIVE_LOCK /\ pager'[c].jfd = "real")
  <2>1. IsHot(jrnl'.slot) => IsHot(jrnl.slot)
    BY <1>1, <1>2, <1>6, <1>7, <1>8, <1>11 DEF HotHere, HotAt, BufferOK, StateOK, EState,
       WriterStates, UndoPCs, HotPCs, SyncPCs
  <2>2. Checked(pager'[c], lock[c]) => Checked(pager[c], lock[c]) \/ ~IsHot(jrnl'.slot)
    BY <1>1, <1>2, <1>4, <1>6, <1>7, <1>8, <1>11, Levels DEF HotHere, Checked, StateOK, EState,
       WriterStates, UndoPCs, HotPCs, SyncPCs
  <2> QED
    BY <1>3, <1>5, <1>8, <1>9, <2>1, <2>2, HotWrite
<1> QED
  BY <1>10, <1>11

LEMMA SyncErrorHot ==
  ASSUME HotHyp, Control, Control', HotOK, NEW c \in Conn, SyncError(c)
  PROVE  HotOK'
<1>1. HotHere(c)
  BY HotHereIsSo
<1>2. pager[c].pc \in {"sync2", "sync3", "sync4"} /\ pager[c].jfd # "mem"
  BY DEF SyncError, In, At
<1>3. /\ Types' /\ Rest(c)
      /\ \/ jrnl' = jrnl /\ pager'[c].jfd = pager[c].jfd
         \/ Wrote(c, pager[c].jfd, pager[c].mem, jrnl, pager[c].journalHdr + 1, Header(TRUE,
            pager[c].nRec, pager[c].dbOrigSize, pager[c].id), {})
  BY <1>1, SyncErrorStep DEF HotHere
<1>4. /\ pager'[c].eState = IF pager[c].pg # 0 THEN "ERROR" ELSE pager[c].eState
      /\ pager'[c].pc = IF pager[c].pg # 0 THEN "idle" ELSE "abort"
      /\ pager'[c].journalOff = pager[c].journalOff
  BY <1>1, SyncErrorStep DEF HotHere, Kept, Fields
<1>5. lock' = lock /\ db' = db
  BY DEF SyncError
<1>6. lock[c] = EXCLUSIVE_LOCK
  BY <1>1, <1>2, Levels DEF HotHere, StateOK, EState, WriterStates, UndoPCs, HotPCs, SyncPCs
<1>7. \/ pager'[c].jfd = "real" /\ (jrnl'.exists \/ jrnl'.slot = <<>>)
      \/ pager'[c].jfd = pager[c].jfd /\ pager[c].jfd # "real" /\ jrnl' = jrnl
  BY <1>1, <1>2, <1>3 DEF HotHere, Wrote, HotOK
<1>8. BufferOK(pager'[c])
  BY <1>1, <1>2, <1>4, <1>6, <1>7 DEF HotHere, HotAt, BufferOK, StateOK, EState, WriterStates,
     UndoPCs, HotPCs, SyncPCs
<1>9. CASE pager'[c].jfd = "real" /\ (jrnl'.exists \/ jrnl'.slot = <<>>)
  <2>1. ~Checked(pager'[c], lock[c])
    BY <1>1, <1>2, <1>4, <1>6, <1>9, Levels DEF HotHere, Checked, StateOK, EState, WriterStates,
       UndoPCs, HotPCs, SyncPCs
  <2> QED
    BY <1>3, <1>5, <1>6, <1>8, <1>9, <2>1, HotExcl
<1>10. CASE pager'[c].jfd = pager[c].jfd /\ pager[c].jfd # "real" /\ jrnl' = jrnl
  <2>1. Checked(pager'[c], lock[c]) => Checked(pager[c], lock[c])
    BY <1>1, <1>2, <1>4, <1>6, <1>10, Levels DEF HotHere, Checked, StateOK, EState, WriterStates,
       UndoPCs, HotPCs, SyncPCs
  <2> QED
    BY <1>3, <1>5, <1>8, <1>10, <2>1, HotWrite
<1> QED
  BY <1>7, <1>9, <1>10

LEMMA CountErrorHot ==
  ASSUME HotHyp, Control, Control', HotOK, NEW c \in Conn, CountError(c)
  PROVE  HotOK'
<1>1. HotHere(c)
  BY HotHereIsSo
<1>2. pager[c].pc = "count" /\ lock' = lock /\ db' = db
  BY DEF CountError, At
<1>3. /\ lock[c] = EXCLUSIVE_LOCK /\ pager[c].eState \in {"WRITER_CACHEMOD", "WRITER_DBMOD"}
      /\ pager[c].journalOff >= 1
  BY <1>1, <1>2 DEF HotHere, HotAt, BufferOK, StateOK, EState, WriterStates, UndoPCs, HotPCs,
     SyncPCs
<1>4. /\ Rest(c) /\ pager'[c].pc = "abort" /\ pager'[c].eState = pager[c].eState
      /\ pager'[c].journalOff = pager[c].journalOff
      /\ \/ pager[c].jfd = "mem" /\ jrnl' = WriteSlot(jrnl, 1, Junk, {})
         \/ Cut(c, IF pager[c].jfd = "mem" THEN "real" ELSE pager[c].jfd,
                 IF pager[c].jfd = "mem" THEN <<>> ELSE pager[c].mem,
                 IF pager[c].jfd = "mem" THEN createFile(jrnl, pager[c].mem) ELSE jrnl,
                 pager[c].journalOff + 1)
  <2>1. CountError(c)
    OBVIOUS
  <2> QED
    BY <1>1, <2>1, CountErrorStep DEF HotHere, Kept, Fields
<1>5. BufferOK(pager'[c])
  BY <1>3, <1>4 DEF BufferOK
<1>6. CASE pager[c].jfd = "mem" /\ jrnl' = WriteSlot(jrnl, 1, Junk, {})
  <2>1. Junk \in SlotSet /\ ~Junk.magic /\ 1 \in Nat \ {0}
    BY JunkType DEF Junk
  <2>2. ~IsHot(jrnl'.slot)
    BY <1>1, <1>6, <2>1, HotWriteSlot DEF HotHere
  <2>3. jrnl'.exists
    BY <1>6 DEF WriteSlot
  <2> QED
    BY <1>2, <1>4, <1>5, <2>2, <2>3, HotWrite
<1>7. CASE ~(pager[c].jfd = "mem" /\ jrnl' = WriteSlot(jrnl, 1, Junk, {}))
  <2>1. \/ jrnl' = jrnl /\ pager[c].jfd = "gone"
        \/ jrnl'.exists /\ pager'[c].jfd = "real"
    BY <1>4, <1>7 DEF Cut
  <2>2. CASE jrnl' = jrnl /\ pager[c].jfd = "gone"
    <3>1. Checked(pager[c], lock[c])
      BY <1>3, <2>2 DEF Checked, WriterStates
    <3> QED
      BY <1>2, <1>4, <1>5, <2>2, <3>1, HotWrite
  <2>3. CASE jrnl'.exists /\ pager'[c].jfd = "real"
    <3>1. ~Checked(pager'[c], lock[c])
      BY <1>3, <1>4, <2>3, Levels DEF Checked
    <3> QED
      BY <1>2, <1>3, <1>4, <1>5, <2>3, <3>1, HotExcl
  <2> QED
    BY <2>1, <2>2, <2>3
<1> QED
  BY <1>6, <1>7

LEMMA SpillWriteHot ==
  ASSUME HotHyp, Control, Control', HotOK, NEW c \in Conn, SpillWrite(c)
  PROVE  HotOK'
<1>1. HotHere(c)
  BY HotHereIsSo
<1>2. pager[c].pc = "spill"
  BY DEF SpillWrite, In, At
<1>3. /\ Types' /\ Rest(c)
      /\ Kept(pager[c], pager'[c], {"pc", "pg", "cache", "dirty"})
      /\ pager'[c].pc = "idle"
  BY <1>1, SpillWriteStep DEF HotHere
<1>4. /\ pager'[c].eState = pager[c].eState
      /\ pager'[c].pc = "idle"
      /\ pager'[c].jfd = pager[c].jfd
      /\ pager'[c].journalOff = pager[c].journalOff
  BY <1>3 DEF Kept, Fields
<1>5. lock' = lock /\ jrnl' = jrnl
  BY DEF SpillWrite
<1>6. lock[c] = EXCLUSIVE_LOCK
  BY <1>1, <1>2, Levels DEF HotHere, StateOK, EState, WriterStates, UndoPCs, HotPCs, SyncPCs
<1>7. Vfs = "unix" \/ pager[c].jfd = "real"
  BY <1>1, <1>2 DEF HotHere, HotHyp, StateOK, EState, WriterStates, UndoPCs, HotPCs, SyncPCs, Jfds
<1>9. pager'[c].mem = pager[c].mem
  BY <1>3 DEF Kept, Fields
<1>8. BufferOK(pager'[c])
  BY <1>1, <1>2, <1>4, <1>6, <1>9 DEF HotHere, HotAt, BufferOK, StateOK, EState, WriterStates,
     UndoPCs, HotPCs, SyncPCs
<1>10. Checked(pager'[c], lock[c]) => Vfs = "unix" /\ Checked(pager[c], lock[c])
  BY <1>1, <1>2, <1>4, <1>6, <1>7, Levels DEF HotHere, Checked, StateOK, EState, WriterStates,
     UndoPCs, HotPCs, SyncPCs
<1> QED
  BY <1>3, <1>5, <1>6, <1>8, <1>10, HotDb

LEMMA WritePagesHot ==
  ASSUME HotHyp, Control, Control', HotOK, NEW c \in Conn, WritePages(c)
  PROVE  HotOK'
<1>1. HotHere(c)
  BY HotHereIsSo
<1>2. pager[c].pc = "pages"
  BY DEF WritePages, In, At
<1>3. /\ Types' /\ Rest(c)
      /\ Kept(pager[c], pager'[c], {"dirty", "cache", "dbFileVers"})
  BY <1>1, WritePagesStep DEF HotHere
<1>4. /\ pager'[c].eState = pager[c].eState
      /\ pager'[c].pc = pager[c].pc
      /\ pager'[c].jfd = pager[c].jfd
      /\ pager'[c].journalOff = pager[c].journalOff
  BY <1>3 DEF Kept, Fields
<1>5. lock' = lock /\ jrnl' = jrnl
  BY DEF WritePages
<1>6. lock[c] = EXCLUSIVE_LOCK
  BY <1>1, <1>2, Levels DEF HotHere, StateOK, EState, WriterStates, UndoPCs, HotPCs, SyncPCs
<1>7. Vfs = "unix" \/ pager[c].jfd = "real"
  BY <1>1, <1>2 DEF HotHere, HotHyp, StateOK, EState, WriterStates, UndoPCs, HotPCs, SyncPCs, Jfds
<1>9. pager'[c].mem = pager[c].mem
  BY <1>3 DEF Kept, Fields
<1>8. BufferOK(pager'[c])
  BY <1>1, <1>2, <1>4, <1>6, <1>9 DEF HotHere, HotAt, BufferOK, StateOK, EState, WriterStates,
     UndoPCs, HotPCs, SyncPCs
<1>10. Checked(pager'[c], lock[c]) => Vfs = "unix" /\ Checked(pager[c], lock[c])
  BY <1>1, <1>2, <1>4, <1>6, <1>7, Levels DEF HotHere, Checked, StateOK, EState, WriterStates,
     UndoPCs, HotPCs, SyncPCs
<1> QED
  BY <1>3, <1>5, <1>6, <1>8, <1>10, HotDb

LEMMA SpillErrorHot ==
  ASSUME HotHyp, Control, Control', HotOK, NEW c \in Conn, SpillError(c)
  PROVE  HotOK'
<1>1. HotHere(c)
  BY HotHereIsSo
<1>2. pager[c].pc = "spill"
  BY DEF SpillError, In, At
<1>3. /\ Types' /\ Rest(c)
      /\ Kept(pager[c], pager'[c], {"eState", "pc"})
      /\ pager'[c].eState = "ERROR"
      /\ pager'[c].pc = "idle"
  BY <1>1, SpillErrorStep DEF HotHere
<1>4. /\ pager'[c].eState = "ERROR"
      /\ pager'[c].pc = "idle"
      /\ pager'[c].jfd = pager[c].jfd
      /\ pager'[c].journalOff = pager[c].journalOff
  BY <1>3 DEF Kept, Fields
<1>5. lock' = lock /\ jrnl' = jrnl
  BY DEF SpillError
<1>6. lock[c] = EXCLUSIVE_LOCK
  BY <1>1, <1>2, Levels DEF HotHere, StateOK, EState, WriterStates, UndoPCs, HotPCs, SyncPCs
<1>7. Vfs = "unix" \/ pager[c].jfd = "real"
  BY <1>1, <1>2 DEF HotHere, HotHyp, StateOK, EState, WriterStates, UndoPCs, HotPCs, SyncPCs, Jfds
<1>9. pager'[c].mem = pager[c].mem
  BY <1>3 DEF Kept, Fields
<1>8. BufferOK(pager'[c])
  BY <1>1, <1>2, <1>4, <1>6, <1>9 DEF HotHere, HotAt, BufferOK, StateOK, EState, WriterStates,
     UndoPCs, HotPCs, SyncPCs
<1>10. Checked(pager'[c], lock[c]) => Vfs = "unix" /\ Checked(pager[c], lock[c])
  BY <1>1, <1>2, <1>4, <1>6, <1>7, Levels DEF HotHere, Checked, StateOK, EState, WriterStates,
     UndoPCs, HotPCs, SyncPCs
<1> QED
  BY <1>3, <1>5, <1>6, <1>8, <1>10, HotDb

LEMMA WritePagesErrorHot ==
  ASSUME HotHyp, Control, Control', HotOK, NEW c \in Conn, WritePagesError(c)
  PROVE  HotOK'
<1>1. HotHere(c)
  BY HotHereIsSo
<1>2. pager[c].pc = "pages"
  BY DEF WritePagesError, In, At
<1>3. /\ Types' /\ Rest(c)
      /\ Kept(pager[c], pager'[c], {"pc", "cache", "dbFileVers"})
      /\ pager'[c].pc = "abort"
  BY <1>1, WritePagesErrorStep DEF HotHere
<1>4. /\ pager'[c].eState = pager[c].eState
      /\ pager'[c].pc = "abort"
      /\ pager'[c].jfd = pager[c].jfd
      /\ pager'[c].journalOff = pager[c].journalOff
  BY <1>3 DEF Kept, Fields
<1>5. lock' = lock /\ jrnl' = jrnl
  BY DEF WritePagesError
<1>6. lock[c] = EXCLUSIVE_LOCK
  BY <1>1, <1>2, Levels DEF HotHere, StateOK, EState, WriterStates, UndoPCs, HotPCs, SyncPCs
<1>7. Vfs = "unix" \/ pager[c].jfd = "real"
  BY <1>1, <1>2 DEF HotHere, HotHyp, StateOK, EState, WriterStates, UndoPCs, HotPCs, SyncPCs, Jfds
<1>9. pager'[c].mem = pager[c].mem
  BY <1>3 DEF Kept, Fields
<1>8. BufferOK(pager'[c])
  BY <1>1, <1>2, <1>4, <1>6, <1>9 DEF HotHere, HotAt, BufferOK, StateOK, EState, WriterStates,
     UndoPCs, HotPCs, SyncPCs
<1>10. Checked(pager'[c], lock[c]) => Vfs = "unix" /\ Checked(pager[c], lock[c])
  BY <1>1, <1>2, <1>4, <1>6, <1>7, Levels DEF HotHere, Checked, StateOK, EState, WriterStates,
     UndoPCs, HotPCs, SyncPCs
<1> QED
  BY <1>3, <1>5, <1>6, <1>8, <1>10, HotDb

LEMMA CountDirectHot ==
  ASSUME HotHyp, Control, Control', HotOK, NEW c \in Conn, CountDirect(c)
  PROVE  HotOK'
<1>1. HotHere(c)
  BY HotHereIsSo
<1>2. pager[c].pc = "count"
  BY DEF CountDirect, In, At
<1>3. /\ Types' /\ Rest(c)
      /\ Kept(pager[c], pager'[c], {"pc", "dbFileVers", "cache"})
      /\ pager'[c].pc = "sync2"
  BY <1>1, CountDirectStep DEF HotHere
<1>4. /\ pager'[c].eState = pager[c].eState
      /\ pager'[c].pc = "sync2"
      /\ pager'[c].jfd = pager[c].jfd
      /\ pager'[c].journalOff = pager[c].journalOff
  BY <1>3 DEF Kept, Fields
<1>5. lock' = lock /\ jrnl' = jrnl
  BY DEF CountDirect
<1>6. lock[c] = EXCLUSIVE_LOCK
  BY <1>1, <1>2, Levels DEF HotHere, StateOK, EState, WriterStates, UndoPCs, HotPCs, SyncPCs
<1>7. Vfs = "unix" \/ pager[c].jfd = "real"
  BY <1>1, <1>2 DEF HotHere, HotHyp, StateOK, EState, WriterStates, UndoPCs, HotPCs, SyncPCs, Jfds
<1>9. pager'[c].mem = pager[c].mem
  BY <1>3 DEF Kept, Fields
<1>8. BufferOK(pager'[c])
  BY <1>1, <1>2, <1>4, <1>6, <1>9 DEF HotHere, HotAt, BufferOK, StateOK, EState, WriterStates,
     UndoPCs, HotPCs, SyncPCs
<1>10. Checked(pager'[c], lock[c]) => Vfs = "unix" /\ Checked(pager[c], lock[c])
  BY <1>1, <1>2, <1>4, <1>6, <1>7, Levels DEF HotHere, Checked, StateOK, EState, WriterStates,
     UndoPCs, HotPCs, SyncPCs
<1> QED
  BY <1>3, <1>5, <1>6, <1>8, <1>10, HotDb

LEMMA CountDirectErrorHot ==
  ASSUME HotHyp, Control, Control', HotOK, NEW c \in Conn, CountDirectError(c)
  PROVE  HotOK'
<1>1. HotHere(c)
  BY HotHereIsSo
<1>2. pager[c].pc = "count"
  BY DEF CountDirectError, In, At
<1>3. /\ Types' /\ Rest(c)
      /\ Kept(pager[c], pager'[c], {"pc", "cache"})
      /\ pager'[c].pc = "abort"
  BY <1>1, CountDirectErrorStep DEF HotHere
<1>4. /\ pager'[c].eState = pager[c].eState
      /\ pager'[c].pc = "abort"
      /\ pager'[c].jfd = pager[c].jfd
      /\ pager'[c].journalOff = pager[c].journalOff
  BY <1>3 DEF Kept, Fields
<1>5. lock' = lock /\ jrnl' = jrnl
  BY DEF CountDirectError
<1>6. lock[c] = EXCLUSIVE_LOCK
  BY <1>1, <1>2, Levels DEF HotHere, StateOK, EState, WriterStates, UndoPCs, HotPCs, SyncPCs
<1>7. Vfs = "unix" \/ pager[c].jfd = "real"
  BY <1>1, <1>2 DEF HotHere, HotHyp, StateOK, EState, WriterStates, UndoPCs, HotPCs, SyncPCs, Jfds
<1>9. pager'[c].mem = pager[c].mem
  BY <1>3 DEF Kept, Fields
<1>8. BufferOK(pager'[c])
  BY <1>1, <1>2, <1>4, <1>6, <1>9 DEF HotHere, HotAt, BufferOK, StateOK, EState, WriterStates,
     UndoPCs, HotPCs, SyncPCs
<1>10. Checked(pager'[c], lock[c]) => Vfs = "unix" /\ Checked(pager[c], lock[c])
  BY <1>1, <1>2, <1>4, <1>6, <1>7, Levels DEF HotHere, Checked, StateOK, EState, WriterStates,
     UndoPCs, HotPCs, SyncPCs
<1> QED
  BY <1>3, <1>5, <1>6, <1>8, <1>10, HotDb

LEMMA PlaybackHeaderHot ==
  ASSUME HotHyp, Control, Control', HotOK, NEW c \in Conn, PlaybackHeader(c)
  PROVE  HotOK'
<1>1. HotHere(c)
  BY HotHereIsSo
<1>2. pager[c].pc = "playback" /\ lock' = lock /\ jrnl' = jrnl
  BY DEF PlaybackHeader, At
<1>3. /\ Rest(c) /\ pager'[c].eState = pager[c].eState /\ pager'[c].jfd = pager[c].jfd
      /\ pager'[c].journalOff = pager[c].journalOff + 1
      /\ pager'[c].pc \in {"playback", "record"}
  <2>1. Rest(c) /\ Kept(pager[c], pager'[c], {"journalOff", "id", "left", "pc", "dbSize"})
          /\ pager'[c].pc \in {"playback", "record"}
        /\ pager'[c].journalOff = pager[c].journalOff + 1
    BY <1>1, PlaybackHeaderStep DEF HotHere
  <2> QED
    BY <2>1 DEF Kept, Fields
<1>4. BufferOK(pager'[c])
  BY <1>1, <1>3 DEF HotHere, BufferOK, UndoPCs
<1>5. CASE pager[c].eState = "WRITER_CACHEMOD"
  <2>1. db' = db
    BY <1>5 DEF PlaybackHeader, RestoresFile
  <2>2. Checked(pager'[c], lock[c]) => Checked(pager[c], lock[c])
    BY <1>1, <1>2, <1>3, <1>5, Levels DEF HotHere, Checked, StateOK, EState, WriterStates,
       UndoPCs, HotPCs, SyncPCs
  <2> QED
    BY <1>2, <1>3, <1>4, <2>1, <2>2, HotQuiet
<1>6. CASE pager[c].eState # "WRITER_CACHEMOD"
  <2>1. lock[c] = EXCLUSIVE_LOCK
    BY <1>1, <1>2, <1>6 DEF HotHere, StateOK, EState, WriterStates, UndoPCs, HotPCs, SyncPCs
  <2>2. Vfs = "unix" \/ pager[c].jfd = "real"
    BY <1>1, <1>2 DEF HotHere, HotHyp, StateOK, EState, WriterStates, UndoPCs, HotPCs, SyncPCs,
       Jfds
  <2>3. Checked(pager'[c], lock[c]) => Vfs = "unix" /\ Checked(pager[c], lock[c])
    BY <1>1, <1>2, <1>3, <1>6, <2>1, <2>2, Levels DEF HotHere, Checked, StateOK, EState,
       WriterStates, UndoPCs, HotPCs, SyncPCs
  <2> QED
    BY <1>2, <1>3, <1>4, <2>1, <2>3, HotDb
<1> QED
  BY <1>5, <1>6

LEMMA PlaybackRecordHot ==
  ASSUME HotHyp, Control, Control', HotOK, NEW c \in Conn, PlaybackRecord(c)
  PROVE  HotOK'
<1>1. HotHere(c)
  BY HotHereIsSo
<1>2. pager[c].pc = "record" /\ lock' = lock /\ jrnl' = jrnl
  BY DEF PlaybackRecord, At
<1>3. /\ Rest(c) /\ pager'[c].eState = pager[c].eState /\ pager'[c].jfd = pager[c].jfd
      /\ pager'[c].journalOff = pager[c].journalOff + 1
      /\ pager'[c].pc \in {"playback", "record"}
  <2>1. Rest(c) /\ Kept(pager[c], pager'[c], {"journalOff", "left", "pc", "cache", "dirty",
          "dbFileVers"}) /\ pager'[c].pc \in {"playback", "record"}
        /\ pager'[c].journalOff = pager[c].journalOff + 1
    BY <1>1, PlaybackRecordStep DEF HotHere
  <2> QED
    BY <2>1 DEF Kept, Fields
<1>4. BufferOK(pager'[c])
  BY <1>1, <1>3 DEF HotHere, BufferOK, UndoPCs
<1>5. CASE pager[c].eState = "WRITER_CACHEMOD"
  <2>1. db' = db
    BY <1>5 DEF PlaybackRecord, RestoresFile
  <2>2. Checked(pager'[c], lock[c]) => Checked(pager[c], lock[c])
    BY <1>1, <1>2, <1>3, <1>5, Levels DEF HotHere, Checked, StateOK, EState, WriterStates,
       UndoPCs, HotPCs, SyncPCs
  <2> QED
    BY <1>2, <1>3, <1>4, <2>1, <2>2, HotQuiet
<1>6. CASE pager[c].eState # "WRITER_CACHEMOD"
  <2>1. lock[c] = EXCLUSIVE_LOCK
    BY <1>1, <1>2, <1>6 DEF HotHere, StateOK, EState, WriterStates, UndoPCs, HotPCs, SyncPCs
  <2>2. Vfs = "unix" \/ pager[c].jfd = "real"
    BY <1>1, <1>2 DEF HotHere, HotHyp, StateOK, EState, WriterStates, UndoPCs, HotPCs, SyncPCs,
       Jfds
  <2>3. Checked(pager'[c], lock[c]) => Vfs = "unix" /\ Checked(pager[c], lock[c])
    BY <1>1, <1>2, <1>3, <1>6, <2>1, <2>2, Levels DEF HotHere, Checked, StateOK, EState,
       WriterStates, UndoPCs, HotPCs, SyncPCs
  <2> QED
    BY <1>2, <1>3, <1>4, <2>1, <2>3, HotDb
<1> QED
  BY <1>5, <1>6

LEMMA RestartedHot ==
  ASSUME NEW P, PagerOK(P)
  PROVE  BufferOK(Restarted(P)) /\ ~Checked(Restarted(P), NO_LOCK)
<1>1. Restarted(P).eState = "OPEN" /\ Restarted(P).pc = "idle" /\ Restarted(P).jfd = "closed"
  BY RestartedFields DEF PagerOK
<1> QED
  BY <1>1, Levels DEF BufferOK, Checked, WriterStates

LEMMA CrashHot ==
  ASSUME Control, HotOK, NEW c \in Conn, Crash(c)
  PROVE  HotOK'
<1>1. Types /\ \A d \in Conn : PagerOK(pager[d])
  BY DEF Control, Types
<1>2. /\ \A d \in Conn : \/ pager'[d] = Restarted(pager[d]) /\ lock'[d] = NO_LOCK
                         \/ pager'[d] = pager[d] /\ lock'[d] = lock[d]
      /\ UNCHANGED <<db, jrnl>>
  BY <1>1, CrashStep DEF disk
<1>3. Magic' <=> Magic
  BY <1>2, MagicKept
<1>4. ASSUME NEW d \in Conn PROVE HotAt(d)'
  <2>1. CASE pager'[d] = Restarted(pager[d]) /\ lock'[d] = NO_LOCK
    BY <1>1, <2>1, RestartedHot DEF HotAt
  <2>2. CASE pager'[d] = pager[d] /\ lock'[d] = lock[d]
    BY <1>3, <2>2 DEF HotOK, HotAt
  <2> QED
    BY <1>2, <2>1, <2>2
<1> QED
  BY <1>2, <1>4 DEF HotOK

LEMMA PowerLossHot ==
  ASSUME Control, HotOK, PowerLoss
  PROVE  HotOK'
<1>1. Types /\ \A d \in Conn : PagerOK(pager[d])
  BY DEF Control, Types
<1>2. /\ Types' /\ \A d \in Conn : pager'[d] = Restarted(pager[d]) /\ lock'[d] = NO_LOCK
      /\ (jrnl'.exists <=> jrnl.exists) /\ Len(jrnl'.slot) = Len(jrnl.slot)
  BY <1>1, PowerLossStep
<1>3. \A d \in Conn : HotAt(d)'
  BY <1>1, <1>2, RestartedHot DEF HotAt
<1>4. jrnl.slot \in Seq(SlotSet) /\ jrnl'.slot \in Seq(SlotSet)
  BY <1>1, <1>2 DEF Types, JournalSet
<1>5. jrnl'.exists \/ jrnl'.slot = <<>>
  <2>1. jrnl.slot = <<>> => Len(jrnl.slot) = 0
    OBVIOUS
  <2>2. Len(jrnl'.slot) = 0 => jrnl'.slot = <<>>
    BY <1>4
  <2> QED
    BY <1>2, <2>1, <2>2 DEF HotOK
<1> QED
  BY <1>3, <1>5 DEF HotOK

LEMMA InitHot ==
  ASSUME Init
  PROVE  HotOK
<1>1. jrnl = NoJournal /\ lock = [c \in Conn |-> NO_LOCK]
  BY DEF Init
<1>2. ~Magic /\ jrnl.slot = <<>>
  BY <1>1 DEF Magic, NoJournal
<1>3. Control
  BY InitControl
<1>4. ASSUME NEW c \in Conn PROVE BufferOK(pager[c])
  <2>1. /\ StateOK(pager[c], lock[c]) /\ lock[c] = NO_LOCK /\ pager[c].eState \in EState
    BY <1>1, <1>3, ControlHere
  <2> QED
    BY <2>1, Levels DEF BufferOK, StateOK, EState, UndoPCs, HotPCs, SyncPCs
<1> QED
  BY <1>2, <1>4 DEF HotOK, HotAt

LEMMA ConnHot ==
  ASSUME HotHyp, Control, Control', HotOK, NEW c \in Conn,
         Read(c) \/ Modify(c) \/ Sync(c) \/ EndWrite(c) \/ Undo(c) \/ IoError(c) \/ Crash(c)
  PROVE  HotOK'
<1>1. CASE Read(c)
  BY <1>1, SharedLockHot, HotAccessHot, HotReservedHot, HotOpenHot, HotDeleteHot,
     HotExclusiveHot, HotBusyHot, UnlockingHot, HotReopenHot, CheckVersionHot, AcquireHot
     DEF Read, HotPageCount
<1>2. CASE Modify(c)
  BY <1>2, BeginHot, ReserveHot, ReserveBusyHot, OpenJournalHot, pager_writeHot,
     pager_writePlainHot, WriteOpenHot, WriteMoreHot, SpillHot DEF Modify
<1>3. CASE Sync(c)
  BY <1>3, SyncLockHot, SyncBusyHot, SyncRecordsHot, SyncHeaderHot, SyncDoneSpillHot,
     SyncDoneCommitHot, SpillWriteHot DEF Sync
<1>4. CASE EndWrite(c)
  BY <1>4, CommitHot, CommitBusyHot, CountDirectHot, CountJournalledHot,
     CountJournalledPlainHot, WritePagesHot, SyncDatabaseHot, CommitPhaseTwoHot, FinalizeHot,
     EndTransactionHot DEF EndWrite
<1>5. CASE Undo(c)
  BY <1>5, RollbackHot, PlaybackHeaderHot, PlaybackStopHot, PlaybackRecordHot,
     PlaybackBadRecordHot, PlaybackDoneHot DEF Undo
<1>6. CASE IoError(c)
  BY <1>6, UnlockingHot, OpenErrorHot, RecordErrorHot, SyncErrorHot, NewHeaderErrorHot,
     CountErrorHot, CountDirectErrorHot, SpillErrorHot, WritePagesErrorHot,
     SyncDatabaseErrorHot, PlaybackErrorOwnHot, FinalizeErrorHot DEF IoError
<1>7. CASE Crash(c)
  BY <1>7, CrashHot
<1> QED
  BY <1>1, <1>2, <1>3, <1>4, <1>5, <1>6, <1>7

LEMMA HotNext ==
  ASSUME HotHyp, Control, Control', HotOK, [Next]_vars
  PROVE  HotOK'
<1>1. CASE Next
  BY <1>1, ConnHot, PowerLossHot DEF Next
<1>2. CASE UNCHANGED vars
  <2>1. /\ pager' = pager /\ lock' = lock /\ jrnl' = jrnl /\ db' = db
    BY <1>2 DEF vars
  <2>2. Magic' <=> Magic
    BY <2>1, MagicKept
  <2> QED
    BY <2>1, <2>2 DEF HotOK, HotAt
<1> QED
  BY <1>1, <1>2

\* What hasHotJournal() and the lock that follows it establish for READER in the comment of
\* pager.c: while a connection reads there is no hot journal, but that of a live writer.
THEOREM NoHotJournal ==
  ASSUME HotHyp
  PROVE  Spec => []NoHotJournalWhileReading
<1>1. Init => Control /\ HotOK
  BY InitControl, InitHot
<1>2. Control /\ HotOK /\ [Next]_vars => Control' /\ HotOK'
  BY ControlNext, HotNext
<1>3. Control /\ HotOK => NoHotJournalWhileReading
  BY DEF HotOK, HotAt, Checked, Magic, HotJournal, NoHotJournalWhileReading
<1> QED
  BY <1>1, <1>2, <1>3, PTL DEF Spec

-----------------------------------------------------------------------------
\* The journal is synced before the database file is written.

LEMMA SyncHereIsSo ==
  ASSUME Control, SyncOK, NEW c \in Conn
  PROVE  SyncHere(c)
<1>1. Here(c) /\ FieldsOK(pager[c]) /\ jrnl \in JournalSet
  BY HereIsSo, PagerFields DEF Here, Types
<1> QED
  BY <1>1 DEF SyncHere, Here, SyncOK, FieldsOK

LEMMA SyncFrame ==
  ASSUME SyncHyp, Control, Control', SyncOK, NEW c \in Conn, Severed(c),
         \A d \in Conn \ {c} : lock'[d] = lock[d],
         jrnl' = jrnl \/ lock[c] # NO_LOCK,
         Rest(c) \/ \A d \in Conn \ {c} : ~Owner(d),
         SyncAt(c)'
  PROVE  SyncOK'
<1>1. ASSUME NEW d \in Conn \ {c} PROVE SyncAt(d)'
  <2>1. /\ StateOK(pager[d], lock[d]) /\ pager[d].eState \in EState /\ SyncAt(d)
        /\ lock[d] \in 0..4 /\ FieldsOK(pager[d])
    BY ControlHere, PagerFields DEF SyncOK
  <2>2. StateOK(pager'[d], lock'[d]) /\ lock'[d] = lock[d]
    BY DEF Control, States
  <2>3. /\ \A f \in Fields \ {"jfd", "mem"} : pager'[d][f] = pager[d][f]
        /\ \/ pager'[d] = pager[d]
           \/ pager[d].jfd = "real" /\ pager'[d].jfd = "gone"
    BY SeveredFields
  <2>4. /\ pager'[d].pc = pager[d].pc /\ pager'[d].eState = pager[d].eState
        /\ pager'[d].journalOff = pager[d].journalOff /\ pager'[d].id = pager[d].id
        /\ pager'[d].journalHdr = pager[d].journalHdr
    BY <2>3 DEF Fields
  <2>5. pager'[d].eState # "ERROR" => pager'[d].jfd \in {"closed", "real"}
    <3>1. CASE pager'[d] = pager[d]
      BY <2>1, <3>1 DEF SyncAt
    <3>2. CASE pager'[d] # pager[d]
      <4>1. Vfs # "vms"
        BY <2>2, <2>3, <3>2 DEF StateOK
      <4>2. pager[d].journalMode = "DELETE"
        BY <2>1, <4>1 DEF SyncHyp, FieldsOK
      <4>3. ~Owner(d)
        BY <3>2 DEF Rest
      <4>4. pager[d].eState = "ERROR"
        BY <2>1, <2>3, <3>2, <4>2, <4>3, Levels DEF StateOK, Owner, EState, UndoPCs, HotPCs,
           SyncPCs
      <4> QED
        BY <2>4, <4>4
    <3> QED
      BY <3>1, <3>2
  <2>6. CASE lock[d] = EXCLUSIVE_LOCK
    <3>1. lock[c] = NO_LOCK
      BY <2>6 DEF Control, LocksOK
    <3>2. jrnl' = jrnl
      BY <3>1
    <3> QED
      BY <2>1, <2>4, <2>5, <3>2 DEF SyncAt, HeadMagic, HeadSynced
  <2>7. CASE lock[d] # EXCLUSIVE_LOCK
    <3>1. /\ pager[d].eState # "WRITER_DBMOD"
          /\ pager[d].eState = "WRITER_CACHEMOD" => pager[d].pc # "sync4"
      BY <2>1, <2>7 DEF StateOK, SyncPCs
    <3> QED
      BY <2>1, <2>4, <2>5, <3>1 DEF SyncAt
  <2> QED
    BY <2>6, <2>7
<1> QED
  BY <1>1 DEF SyncOK

LEMMA SyncQuiet ==
  ASSUME SyncHyp, Control, Control', SyncOK, NEW c \in Conn, Rest(c),
         \A d \in Conn \ {c} : lock'[d] = lock[d],
         jrnl' = jrnl \/ lock[c] # NO_LOCK, SyncAt(c)'
  PROVE  SyncOK'
BY RestSevered, SyncFrame

\* A write of a slot behind the first header leaves the header alone.
LEMMA HeadKept ==
  ASSUME NEW j \in JournalSet, NEW i \in Nat, i >= 2, NEW x, NEW torn, j.slot # <<>>
  PROVE  LET k == WriteSlot(j, i, x, torn)
         IN  k.slot # <<>> /\ k.slot[1] = j.slot[1] /\ k.alt[1] = j.alt[1]
<1>1. /\ j.slot \in Seq(SlotSet) /\ j.alt \in Seq(SUBSET SlotSet) /\ Len(j.alt) = Len(j.slot)
      /\ Len(j.slot) >= 1
  BY DEF JournalSet
<1>2. ASSUME NEW S, NEW s \in Seq(S), Len(s) >= 1, NEW y
      PROVE  Put(s, i, y) # <<>> /\ Put(s, i, y)[1] = s[1]
  <2>1. CASE i <= Len(s)
    BY <1>2, <2>1 DEF Put
  <2>2. CASE ~(i <= Len(s))
    <3>1. Append(s, y)[1] = s[1] /\ Append(s, y) # <<>>
      BY <1>2
    <3> QED
      BY <2>2, <3>1 DEF Put
  <2> QED
    BY <2>1, <2>2
<1>3. /\ WriteSlot(j, i, x, torn).slot = Put(j.slot, i, x)
      /\ \E y : WriteSlot(j, i, x, torn).alt = Put(j.alt, i, y)
  BY DEF WriteSlot
<1> QED
  BY <1>1, <1>2, <1>3

LEMMA SharedLockSync ==
  ASSUME SyncHyp, Control, Control', SyncOK, NEW c \in Conn, SharedLock(c)
  PROVE  SyncOK'
<1>1. SyncHere(c)
  BY SyncHereIsSo
<1>2. pager[c].pc = "idle" /\ pager[c].eState = "OPEN"
  BY <1>1, PagerFields DEF SyncHere, SharedLock, In, At
<1>3. /\ Types' /\ Rest(c)
  BY <1>1, SharedLockStep DEF SyncHere
<1>4. /\ pager'[c].eState = pager[c].eState
      /\ pager'[c].pc = "hot1"
      /\ pager'[c].jfd = pager[c].jfd
      /\ pager'[c].journalOff = pager[c].journalOff
      /\ pager'[c].journalHdr = pager[c].journalHdr
      /\ pager'[c].id = pager[c].id
  BY <1>1, SharedLockStep DEF SyncHere, Kept, Fields
<1>5. \A d \in Conn \ {c} : lock'[d] = lock[d]
  BY <1>1 DEF SyncHere, SharedLock, Types
<1>6. jrnl' = jrnl
  BY DEF SharedLock, disk
<1>7. SyncAt(c)'
  BY <1>1, <1>2, <1>4, <1>6 DEF SyncHere, SyncAt, HeadMagic, HeadSynced, StateOK, EState, UndoPCs,
     HotPCs, SyncPCs, Writing
<1> QED
  BY <1>3, <1>5, <1>6, <1>7, SyncQuiet

LEMMA HotAccessSync ==
  ASSUME SyncHyp, Control, Control', SyncOK, NEW c \in Conn, HotAccess(c)
  PROVE  SyncOK'
<1>1. SyncHere(c)
  BY SyncHereIsSo
<1>2. pager[c].pc = "hot1"
  BY <1>1, PagerFields DEF SyncHere, HotAccess, In, At
<1>3. /\ Types' /\ Rest(c)
  BY <1>1, HotAccessStep DEF SyncHere
<1>4. /\ pager'[c].eState = pager[c].eState
      /\ pager'[c].pc \in {"hot2", "vers"}
      /\ pager'[c].jfd = pager[c].jfd
      /\ pager'[c].journalOff = pager[c].journalOff
      /\ pager'[c].journalHdr = pager[c].journalHdr
      /\ pager'[c].id = pager[c].id
  BY <1>1, HotAccessStep DEF SyncHere, Kept, Fields
<1>5. \A d \in Conn \ {c} : lock'[d] = lock[d]
  BY DEF HotAccess
<1>6. jrnl' = jrnl
  BY DEF HotAccess, disk
<1>7. SyncAt(c)'
  BY <1>1, <1>2, <1>4, <1>6 DEF SyncHere, SyncAt, HeadMagic, HeadSynced, StateOK, EState, UndoPCs,
     HotPCs, SyncPCs, Writing
<1> QED
  BY <1>3, <1>5, <1>6, <1>7, SyncQuiet

LEMMA HotReservedSync ==
  ASSUME SyncHyp, Control, Control', SyncOK, NEW c \in Conn, HotReserved(c)
  PROVE  SyncOK'
<1>1. SyncHere(c)
  BY SyncHereIsSo
<1>2. pager[c].pc = "hot2"
  BY <1>1, PagerFields DEF SyncHere, HotReserved, In, At
<1>3. /\ Types' /\ Rest(c)
  BY <1>1, HotReservedStep DEF SyncHere
<1>4. /\ pager'[c].eState = pager[c].eState
      /\ pager'[c].pc \in {"vers", "hot3"}
      /\ pager'[c].jfd = pager[c].jfd
      /\ pager'[c].journalOff = pager[c].journalOff
      /\ pager'[c].journalHdr = pager[c].journalHdr
      /\ pager'[c].id = pager[c].id
  BY <1>1, HotReservedStep DEF SyncHere, Kept, Fields
<1>5. \A d \in Conn \ {c} : lock'[d] = lock[d]
  BY DEF HotReserved
<1>6. jrnl' = jrnl
  BY DEF HotReserved, disk
<1>7. SyncAt(c)'
  BY <1>1, <1>2, <1>4, <1>6 DEF SyncHere, SyncAt, HeadMagic, HeadSynced, StateOK, EState, UndoPCs,
     HotPCs, SyncPCs, Writing
<1> QED
  BY <1>3, <1>5, <1>6, <1>7, SyncQuiet

LEMMA HotOpenSync ==
  ASSUME SyncHyp, Control, Control', SyncOK, NEW c \in Conn, HotOpen(c)
  PROVE  SyncOK'
<1>1. SyncHere(c)
  BY SyncHereIsSo
<1>2. pager[c].pc = "hot3"
  BY <1>1, PagerFields DEF SyncHere, HotOpen, In, At
<1>3. /\ Types' /\ Rest(c)
  BY <1>1, HotOpenStep DEF SyncHere
<1>4. /\ pager'[c].eState = pager[c].eState
      /\ pager'[c].pc \in {"hot4", "vers"}
      /\ pager'[c].jfd = pager[c].jfd
      /\ pager'[c].journalOff = pager[c].journalOff
      /\ pager'[c].journalHdr = pager[c].journalHdr
      /\ pager'[c].id = pager[c].id
  BY <1>1, HotOpenStep DEF SyncHere, Kept, Fields
<1>5. \A d \in Conn \ {c} : lock'[d] = lock[d]
  BY DEF HotOpen
<1>6. jrnl' = jrnl
  BY DEF HotOpen, disk
<1>7. SyncAt(c)'
  BY <1>1, <1>2, <1>4, <1>6 DEF SyncHere, SyncAt, HeadMagic, HeadSynced, StateOK, EState, UndoPCs,
     HotPCs, SyncPCs, Writing
<1> QED
  BY <1>3, <1>5, <1>6, <1>7, SyncQuiet

LEMMA HotExclusiveSync ==
  ASSUME SyncHyp, Control, Control', SyncOK, NEW c \in Conn, HotExclusive(c)
  PROVE  SyncOK'
<1>1. SyncHere(c)
  BY SyncHereIsSo
<1>2. pager[c].pc = "hot4"
  BY <1>1, PagerFields DEF SyncHere, HotExclusive, In, At
<1>3. /\ Types' /\ Rest(c)
  BY <1>1, HotExclusiveStep DEF SyncHere
<1>4. /\ pager'[c].eState = pager[c].eState
      /\ pager'[c].pc = "hot5"
      /\ pager'[c].jfd = pager[c].jfd
      /\ pager'[c].journalOff = pager[c].journalOff
      /\ pager'[c].journalHdr = pager[c].journalHdr
      /\ pager'[c].id = pager[c].id
  BY <1>1, HotExclusiveStep DEF SyncHere, Kept, Fields
<1>5. \A d \in Conn \ {c} : lock'[d] = lock[d]
  BY <1>1 DEF SyncHere, HotExclusive, Types
<1>6. jrnl' = jrnl
  BY DEF HotExclusive, disk
<1>7. SyncAt(c)'
  BY <1>1, <1>2, <1>4, <1>6 DEF SyncHere, SyncAt, HeadMagic, HeadSynced, StateOK, EState, UndoPCs,
     HotPCs, SyncPCs, Writing
<1> QED
  BY <1>3, <1>5, <1>6, <1>7, SyncQuiet

LEMMA HotBusySync ==
  ASSUME SyncHyp, Control, Control', SyncOK, NEW c \in Conn, HotBusy(c)
  PROVE  SyncOK'
<1>1. SyncHere(c)
  BY SyncHereIsSo
<1>2. pager[c].pc = "hot4"
  BY <1>1, PagerFields DEF SyncHere, HotBusy, In, At
<1>3. /\ Types' /\ Rest(c)
  BY <1>1, HotBusyStep DEF SyncHere
<1>4. /\ pager'[c].eState = pager[c].eState
      /\ pager'[c].pc = "hot6"
      /\ pager'[c].jfd = pager[c].jfd
      /\ pager'[c].journalOff = pager[c].journalOff
      /\ pager'[c].journalHdr = pager[c].journalHdr
      /\ pager'[c].id = pager[c].id
  BY <1>1, HotBusyStep DEF SyncHere, Kept, Fields
<1>5. \A d \in Conn \ {c} : lock'[d] = lock[d]
  BY <1>1, ExclusiveBusyLock DEF SyncHere, HotBusy, Types
<1>6. jrnl' = jrnl
  BY DEF HotBusy, disk
<1>7. SyncAt(c)'
  BY <1>1, <1>2, <1>4, <1>6 DEF SyncHere, SyncAt, HeadMagic, HeadSynced, StateOK, EState, UndoPCs,
     HotPCs, SyncPCs, Writing
<1> QED
  BY <1>3, <1>5, <1>6, <1>7, SyncQuiet

LEMMA CheckVersionSync ==
  ASSUME SyncHyp, Control, Control', SyncOK, NEW c \in Conn, CheckVersion(c)
  PROVE  SyncOK'
<1>1. SyncHere(c)
  BY SyncHereIsSo
<1>2. pager[c].pc = "vers"
  BY <1>1, PagerFields DEF SyncHere, CheckVersion, In, At
<1>3. /\ Types' /\ Rest(c)
      /\ Kept(pager[c], pager'[c], {"eState", "pc", "dbSize", "cache", "dbFileVers"})
      /\ pager'[c].eState = "READER"
      /\ pager'[c].pc = "idle"
  BY <1>1, CheckVersionStep DEF SyncHere
<1>4. /\ pager'[c].eState = "READER"
      /\ pager'[c].pc = "idle"
      /\ pager'[c].jfd = pager[c].jfd
      /\ pager'[c].journalOff = pager[c].journalOff
      /\ pager'[c].journalHdr = pager[c].journalHdr
      /\ pager'[c].id = pager[c].id
  BY <1>3 DEF Kept, Fields
<1>5. \A d \in Conn \ {c} : lock'[d] = lock[d]
  BY DEF CheckVersion
<1>6. jrnl' = jrnl
  BY DEF CheckVersion, disk
<1>7. SyncAt(c)'
  BY <1>1, <1>2, <1>4, <1>6 DEF SyncHere, SyncAt, HeadMagic, HeadSynced, StateOK, EState, UndoPCs,
     HotPCs, SyncPCs, Writing
<1> QED
  BY <1>3, <1>5, <1>6, <1>7, SyncQuiet

LEMMA AcquireSync ==
  ASSUME SyncHyp, Control, Control', SyncOK, NEW c \in Conn, NEW p \in Page, Acquire(c, p)
  PROVE  SyncOK'
<1>1. SyncHere(c)
  BY SyncHereIsSo
<1>2. pager[c].pc = "idle"
  BY <1>1, PagerFields DEF SyncHere, Acquire, In, At
<1>3. /\ Types' /\ Rest(c)
  BY <1>1, AcquireStep DEF SyncHere
<1>4. /\ pager'[c].eState = pager[c].eState
      /\ pager'[c].pc = pager[c].pc
      /\ pager'[c].jfd = pager[c].jfd
      /\ pager'[c].journalOff = pager[c].journalOff
      /\ pager'[c].journalHdr = pager[c].journalHdr
      /\ pager'[c].id = pager[c].id
  BY <1>1, AcquireStep DEF SyncHere, Kept, Fields
<1>5. \A d \in Conn \ {c} : lock'[d] = lock[d]
  BY DEF Acquire
<1>6. jrnl' = jrnl
  BY DEF Acquire, disk
<1>7. SyncAt(c)'
  BY <1>1, <1>2, <1>4, <1>6 DEF SyncHere, SyncAt, HeadMagic, HeadSynced, StateOK, EState, UndoPCs,
     HotPCs, SyncPCs, Writing
<1> QED
  BY <1>3, <1>5, <1>6, <1>7, SyncQuiet

LEMMA BeginSync ==
  ASSUME SyncHyp, Control, Control', SyncOK, NEW c \in Conn, Begin(c)
  PROVE  SyncOK'
<1>1. SyncHere(c)
  BY SyncHereIsSo
<1>2. pager[c].pc = "idle" /\ pager[c].eState = "READER"
  BY <1>1, PagerFields DEF SyncHere, Begin, In, At
<1>3. /\ Types' /\ Rest(c)
  BY <1>1, BeginStep DEF SyncHere
<1>4. /\ pager'[c].eState = pager[c].eState
      /\ pager'[c].pc = "reserve"
      /\ pager'[c].jfd = pager[c].jfd
      /\ pager'[c].journalOff = pager[c].journalOff
      /\ pager'[c].journalHdr = pager[c].journalHdr
      /\ pager'[c].id = pager[c].id
  BY <1>1, BeginStep DEF SyncHere, Kept, Fields
<1>5. \A d \in Conn \ {c} : lock'[d] = lock[d]
  BY DEF Begin
<1>6. jrnl' = jrnl
  BY DEF Begin, disk
<1>7. SyncAt(c)'
  BY <1>1, <1>2, <1>4, <1>6 DEF SyncHere, SyncAt, HeadMagic, HeadSynced, StateOK, EState, UndoPCs,
     HotPCs, SyncPCs, Writing
<1> QED
  BY <1>3, <1>5, <1>6, <1>7, SyncQuiet

LEMMA ReserveBusySync ==
  ASSUME SyncHyp, Control, Control', SyncOK, NEW c \in Conn, ReserveBusy(c)
  PROVE  SyncOK'
<1>1. SyncHere(c)
  BY SyncHereIsSo
<1>2. pager[c].pc = "reserve"
  BY <1>1, PagerFields DEF SyncHere, ReserveBusy, In, At
<1>3. /\ Types' /\ Rest(c)
  BY <1>1, ReserveBusyStep DEF SyncHere
<1>4. /\ pager'[c].eState = pager[c].eState
      /\ pager'[c].pc = "idle"
      /\ pager'[c].jfd = pager[c].jfd
      /\ pager'[c].journalOff = pager[c].journalOff
      /\ pager'[c].journalHdr = pager[c].journalHdr
      /\ pager'[c].id = pager[c].id
  BY <1>1, ReserveBusyStep DEF SyncHere, Kept, Fields
<1>5. \A d \in Conn \ {c} : lock'[d] = lock[d]
  BY DEF ReserveBusy
<1>6. jrnl' = jrnl
  BY DEF ReserveBusy, disk
<1>7. SyncAt(c)'
  BY <1>1, <1>2, <1>4, <1>6 DEF SyncHere, SyncAt, HeadMagic, HeadSynced, StateOK, EState, UndoPCs,
     HotPCs, SyncPCs, Writing
<1> QED
  BY <1>3, <1>5, <1>6, <1>7, SyncQuiet

LEMMA ReserveSync ==
  ASSUME SyncHyp, Control, Control', SyncOK, NEW c \in Conn, Reserve(c)
  PROVE  SyncOK'
<1>1. SyncHere(c)
  BY SyncHereIsSo
<1>2. pager[c].pc = "reserve"
  BY <1>1, PagerFields DEF SyncHere, Reserve, In, At
<1>3. /\ Types' /\ Rest(c)
  BY <1>1, ReserveStep DEF SyncHere
<1>4. /\ pager'[c].eState = "WRITER_LOCKED"
      /\ pager'[c].pc = "idle"
      /\ pager'[c].jfd = pager[c].jfd
      /\ pager'[c].journalOff = pager[c].journalOff
      /\ pager'[c].journalHdr = pager[c].journalHdr
      /\ pager'[c].id = pager[c].id
  BY <1>1, ReserveStep DEF SyncHere, Kept, Fields
<1>5. \A d \in Conn \ {c} : lock'[d] = lock[d]
  BY <1>1 DEF SyncHere, Reserve, Types
<1>6. jrnl' = jrnl
  BY DEF Reserve, disk
<1>7. SyncAt(c)'
  BY <1>1, <1>2, <1>4, <1>6 DEF SyncHere, SyncAt, HeadMagic, HeadSynced, StateOK, EState, UndoPCs,
     HotPCs, SyncPCs, Writing
<1> QED
  BY <1>3, <1>5, <1>6, <1>7, SyncQuiet

LEMMA pager_writePlainSync ==
  ASSUME SyncHyp, Control, Control', SyncOK, NEW c \in Conn, pager_write(c),
         ~NeedsRecord(pager[c], pager[c].pg)
  PROVE  SyncOK'
<1>1. SyncHere(c)
  BY SyncHereIsSo
<1>2. pager[c].pc = "write"
  BY <1>1, PagerFields DEF SyncHere, pager_write, In, At, NeedsRecord
<1>3. /\ Types' /\ Rest(c)
      /\ Kept(pager[c], pager'[c], {"pc", "pg", "dirty", "cache", "dbSize", "needSync"})
      /\ pager'[c].pc = "idle"
  BY <1>1, pager_writePlain DEF SyncHere
<1>4. /\ pager'[c].eState = pager[c].eState
      /\ pager'[c].pc = "idle"
      /\ pager'[c].jfd = pager[c].jfd
      /\ pager'[c].journalOff = pager[c].journalOff
      /\ pager'[c].journalHdr = pager[c].journalHdr
      /\ pager'[c].id = pager[c].id
  BY <1>3 DEF Kept, Fields
<1>5. \A d \in Conn \ {c} : lock'[d] = lock[d]
  BY DEF pager_write
<1>6. jrnl' = jrnl
  BY DEF pager_write, disk
<1>7. SyncAt(c)'
  BY <1>1, <1>2, <1>4, <1>6 DEF SyncHere, SyncAt, HeadMagic, HeadSynced, StateOK, EState, UndoPCs,
     HotPCs, SyncPCs, Writing
<1> QED
  BY <1>3, <1>5, <1>6, <1>7, SyncQuiet

LEMMA WriteOpenSync ==
  ASSUME SyncHyp, Control, Control', SyncOK, NEW c \in Conn, NEW p \in Page, Write(c, p),
         pager[c].eState = "WRITER_LOCKED"
  PROVE  SyncOK'
<1>1. SyncHere(c)
  BY SyncHereIsSo
<1>2. pager[c].pc = "idle"
  BY <1>1, PagerFields DEF SyncHere, Write, In, At
<1>3. /\ Types' /\ Rest(c)
  BY <1>1, WriteOpen DEF SyncHere
<1>4. /\ pager'[c].eState = pager[c].eState
      /\ pager'[c].pc = "open"
      /\ pager'[c].jfd = pager[c].jfd
      /\ pager'[c].journalOff = pager[c].journalOff
      /\ pager'[c].journalHdr = pager[c].journalHdr
      /\ pager'[c].id = txid + 1
  BY <1>1, WriteOpen DEF SyncHere, Kept, Fields
<1>5. \A d \in Conn \ {c} : lock'[d] = lock[d]
  BY DEF Write
<1>6. jrnl' = jrnl
  BY DEF Write, disk
<1>7. SyncAt(c)'
  BY <1>1, <1>2, <1>4, <1>6 DEF SyncHere, SyncAt, HeadMagic, HeadSynced, StateOK, EState, UndoPCs,
     HotPCs, SyncPCs, Writing
<1> QED
  BY <1>3, <1>5, <1>6, <1>7, SyncQuiet

LEMMA WriteMoreSync ==
  ASSUME SyncHyp, Control, Control', SyncOK, NEW c \in Conn, NEW p \in Page, Write(c, p),
         pager[c].eState # "WRITER_LOCKED"
  PROVE  SyncOK'
<1>1. SyncHere(c)
  BY SyncHereIsSo
<1>2. pager[c].pc = "idle" /\ pager[c].eState \in {"WRITER_CACHEMOD", "WRITER_DBMOD"}
  BY <1>1, PagerFields DEF SyncHere, Write, In, At, Writing
<1>3. /\ Types' /\ Rest(c)
  BY <1>1, WriteMore DEF SyncHere
<1>4. /\ pager'[c].eState = pager[c].eState
      /\ pager'[c].pc = "write"
      /\ pager'[c].jfd = pager[c].jfd
      /\ pager'[c].journalOff = pager[c].journalOff
      /\ pager'[c].journalHdr = pager[c].journalHdr
      /\ pager'[c].id = pager[c].id
  BY <1>1, WriteMore DEF SyncHere, Kept, Fields
<1>5. \A d \in Conn \ {c} : lock'[d] = lock[d]
  BY DEF Write
<1>6. jrnl' = jrnl
  BY DEF Write, disk
<1>7. SyncAt(c)'
  BY <1>1, <1>2, <1>4, <1>6 DEF SyncHere, SyncAt, HeadMagic, HeadSynced, StateOK, EState, UndoPCs,
     HotPCs, SyncPCs, Writing
<1> QED
  BY <1>3, <1>5, <1>6, <1>7, SyncQuiet

LEMMA SpillSync ==
  ASSUME SyncHyp, Control, Control', SyncOK, NEW c \in Conn, NEW p \in Page, Spill(c, p)
  PROVE  SyncOK'
<1>1. SyncHere(c)
  BY SyncHereIsSo
<1>2. pager[c].pc = "idle" /\ pager[c].eState \in {"WRITER_CACHEMOD", "WRITER_DBMOD"}
  BY <1>1, PagerFields DEF SyncHere, Spill, In, At, Writing
<1>3. /\ Types' /\ Rest(c)
  BY <1>1, SpillStep DEF SyncHere
<1>4. /\ pager'[c].eState = pager[c].eState
      /\ pager'[c].pc = IF p \in pager[c].needSync \/ pager[c].eState = "WRITER_CACHEMOD"
                                THEN "sync1" ELSE "spill"
      /\ pager'[c].jfd = pager[c].jfd
      /\ pager'[c].journalOff = pager[c].journalOff
      /\ pager'[c].journalHdr = pager[c].journalHdr
      /\ pager'[c].id = pager[c].id
  BY <1>1, SpillStep DEF SyncHere, Kept, Fields
<1>5. \A d \in Conn \ {c} : lock'[d] = lock[d]
  BY DEF Spill
<1>6. jrnl' = jrnl
  BY DEF Spill, disk
<1>7. SyncAt(c)'
  BY <1>1, <1>2, <1>4, <1>6 DEF SyncHere, SyncAt, HeadMagic, HeadSynced, StateOK, EState, UndoPCs,
     HotPCs, SyncPCs, Writing
<1> QED
  BY <1>3, <1>5, <1>6, <1>7, SyncQuiet

LEMMA SyncLockSync ==
  ASSUME SyncHyp, Control, Control', SyncOK, NEW c \in Conn, SyncLock(c)
  PROVE  SyncOK'
<1>1. SyncHere(c)
  BY SyncHereIsSo
<1>2. pager[c].pc = "sync1"
  BY <1>1, PagerFields DEF SyncHere, SyncLock, In, At
<1>3. /\ Types' /\ Rest(c)
  BY <1>1, SyncLockStep DEF SyncHere
<1>4. /\ pager'[c].eState = pager[c].eState
      /\ pager'[c].pc = "sync2"
      /\ pager'[c].jfd = pager[c].jfd
      /\ pager'[c].journalOff = pager[c].journalOff
      /\ pager'[c].journalHdr = pager[c].journalHdr
      /\ pager'[c].id = pager[c].id
  BY <1>1, SyncLockStep DEF SyncHere, Kept, Fields
<1>5. \A d \in Conn \ {c} : lock'[d] = lock[d]
  BY <1>1 DEF SyncHere, SyncLock, Types
<1>6. jrnl' = jrnl
  BY DEF SyncLock, disk
<1>7. SyncAt(c)'
  BY <1>1, <1>2, <1>4, <1>6 DEF SyncHere, SyncAt, HeadMagic, HeadSynced, StateOK, EState, UndoPCs,
     HotPCs, SyncPCs, Writing
<1> QED
  BY <1>3, <1>5, <1>6, <1>7, SyncQuiet

LEMMA SyncBusySync ==
  ASSUME SyncHyp, Control, Control', SyncOK, NEW c \in Conn, SyncBusy(c)
  PROVE  SyncOK'
<1>1. SyncHere(c)
  BY SyncHereIsSo
<1>2. pager[c].pc = "sync1"
  BY <1>1, PagerFields DEF SyncHere, SyncBusy, In, At
<1>3. /\ Types' /\ Rest(c)
  BY <1>1, SyncBusyStep DEF SyncHere
<1>4. /\ pager'[c].eState = pager[c].eState
      /\ pager'[c].pc = "idle"
      /\ pager'[c].jfd = pager[c].jfd
      /\ pager'[c].journalOff = pager[c].journalOff
      /\ pager'[c].journalHdr = pager[c].journalHdr
      /\ pager'[c].id = pager[c].id
  BY <1>1, SyncBusyStep DEF SyncHere, Kept, Fields
<1>5. \A d \in Conn \ {c} : lock'[d] = lock[d]
  BY <1>1, ExclusiveBusyLock DEF SyncHere, SyncBusy, Types
<1>6. jrnl' = jrnl
  BY DEF SyncBusy, disk
<1>7. SyncAt(c)'
  BY <1>1, <1>2, <1>4, <1>6 DEF SyncHere, SyncAt, HeadMagic, HeadSynced, StateOK, EState, UndoPCs,
     HotPCs, SyncPCs, Writing
<1> QED
  BY <1>3, <1>5, <1>6, <1>7, SyncQuiet

LEMMA SpillWriteSync ==
  ASSUME SyncHyp, Control, Control', SyncOK, NEW c \in Conn, SpillWrite(c)
  PROVE  SyncOK'
<1>1. SyncHere(c)
  BY SyncHereIsSo
<1>2. pager[c].pc = "spill"
  BY <1>1, PagerFields DEF SyncHere, SpillWrite, In, At
<1>3. /\ Types' /\ Rest(c)
      /\ Kept(pager[c], pager'[c], {"pc", "pg", "cache", "dirty"})
      /\ pager'[c].pc = "idle"
  BY <1>1, SpillWriteStep DEF SyncHere
<1>4. /\ pager'[c].eState = pager[c].eState
      /\ pager'[c].pc = "idle"
      /\ pager'[c].jfd = pager[c].jfd
      /\ pager'[c].journalOff = pager[c].journalOff
      /\ pager'[c].journalHdr = pager[c].journalHdr
      /\ pager'[c].id = pager[c].id
  BY <1>3 DEF Kept, Fields
<1>5. \A d \in Conn \ {c} : lock'[d] = lock[d]
  BY DEF SpillWrite
<1>6. jrnl' = jrnl
  BY DEF SpillWrite, disk
<1>7. SyncAt(c)'
  BY <1>1, <1>2, <1>4, <1>6 DEF SyncHere, SyncAt, HeadMagic, HeadSynced, StateOK, EState, UndoPCs,
     HotPCs, SyncPCs, Writing
<1> QED
  BY <1>3, <1>5, <1>6, <1>7, SyncQuiet

LEMMA CommitSync ==
  ASSUME SyncHyp, Control, Control', SyncOK, NEW c \in Conn, Commit(c)
  PROVE  SyncOK'
<1>1. SyncHere(c)
  BY SyncHereIsSo
<1>2. pager[c].pc = "idle" /\ pager[c].eState \in {"WRITER_LOCKED", "WRITER_CACHEMOD",
        "WRITER_DBMOD"}
  BY <1>1, PagerFields DEF SyncHere, Commit, In, At, Writing
<1>3. /\ Types' /\ Rest(c)
  BY <1>1, CommitStep DEF SyncHere
<1>4. /\ pager'[c].eState = pager[c].eState
      /\ pager'[c].pc \in {"final", "count"}
      /\ pager'[c].jfd = pager[c].jfd
      /\ pager'[c].journalOff = pager[c].journalOff
      /\ pager'[c].journalHdr = pager[c].journalHdr
      /\ pager'[c].id = pager[c].id
  BY <1>1, CommitStep DEF SyncHere, Kept, Fields
<1>5. \A d \in Conn \ {c} : lock'[d] = lock[d]
  BY <1>1 DEF SyncHere, Commit, Types
<1>6. jrnl' = jrnl
  BY DEF Commit, disk
<1>p. pager'[c].pc = IF pager[c].eState = "WRITER_LOCKED" THEN "final" ELSE "count"
  BY <1>1, GotoPc DEF SyncHere, Commit
<1>7. SyncAt(c)'
  BY <1>1, <1>2, <1>4, <1>6, <1>p DEF SyncHere, SyncAt, HeadMagic, HeadSynced, StateOK, EState,
     UndoPCs, HotPCs, SyncPCs, Writing
<1> QED
  BY <1>3, <1>5, <1>6, <1>7, SyncQuiet

LEMMA CountDirectSync ==
  ASSUME SyncHyp, Control, Control', SyncOK, NEW c \in Conn, CountDirect(c)
  PROVE  SyncOK'
<1>1. SyncHere(c)
  BY SyncHereIsSo
<1>2. pager[c].pc = "count"
  BY <1>1, PagerFields DEF SyncHere, CountDirect, In, At
<1>3. /\ Types' /\ Rest(c)
      /\ Kept(pager[c], pager'[c], {"pc", "dbFileVers", "cache"})
      /\ pager'[c].pc = "sync2"
  BY <1>1, CountDirectStep DEF SyncHere
<1>4. /\ pager'[c].eState = pager[c].eState
      /\ pager'[c].pc = "sync2"
      /\ pager'[c].jfd = pager[c].jfd
      /\ pager'[c].journalOff = pager[c].journalOff
      /\ pager'[c].journalHdr = pager[c].journalHdr
      /\ pager'[c].id = pager[c].id
  BY <1>3 DEF Kept, Fields
<1>5. \A d \in Conn \ {c} : lock'[d] = lock[d]
  BY DEF CountDirect
<1>6. jrnl' = jrnl
  BY DEF CountDirect, disk
<1>7. SyncAt(c)'
  BY <1>1, <1>2, <1>4, <1>6 DEF SyncHere, SyncAt, HeadMagic, HeadSynced, StateOK, EState, UndoPCs,
     HotPCs, SyncPCs, Writing
<1> QED
  BY <1>3, <1>5, <1>6, <1>7, SyncQuiet

LEMMA WritePagesSync ==
  ASSUME SyncHyp, Control, Control', SyncOK, NEW c \in Conn, WritePages(c)
  PROVE  SyncOK'
<1>1. SyncHere(c)
  BY SyncHereIsSo
<1>2. pager[c].pc = "pages"
  BY <1>1, PagerFields DEF SyncHere, WritePages, In, At
<1>3. /\ Types' /\ Rest(c)
      /\ Kept(pager[c], pager'[c], {"dirty", "cache", "dbFileVers"})
  BY <1>1, WritePagesStep DEF SyncHere
<1>4. /\ pager'[c].eState = pager[c].eState
      /\ pager'[c].pc = pager[c].pc
      /\ pager'[c].jfd = pager[c].jfd
      /\ pager'[c].journalOff = pager[c].journalOff
      /\ pager'[c].journalHdr = pager[c].journalHdr
      /\ pager'[c].id = pager[c].id
  BY <1>3 DEF Kept, Fields
<1>5. \A d \in Conn \ {c} : lock'[d] = lock[d]
  BY DEF WritePages
<1>6. jrnl' = jrnl
  BY DEF WritePages, disk
<1>7. SyncAt(c)'
  BY <1>1, <1>2, <1>4, <1>6 DEF SyncHere, SyncAt, HeadMagic, HeadSynced, StateOK, EState, UndoPCs,
     HotPCs, SyncPCs, Writing
<1> QED
  BY <1>3, <1>5, <1>6, <1>7, SyncQuiet

LEMMA SyncDatabaseSync ==
  ASSUME SyncHyp, Control, Control', SyncOK, NEW c \in Conn, SyncDatabase(c)
  PROVE  SyncOK'
<1>1. SyncHere(c)
  BY SyncHereIsSo
<1>2. pager[c].pc = "pages"
  BY <1>1, PagerFields DEF SyncHere, SyncDatabase, In, At
<1>3. /\ Types' /\ Rest(c)
  BY <1>1, SyncDatabaseStep DEF SyncHere
<1>4. /\ pager'[c].eState = "WRITER_FINISHED"
      /\ pager'[c].pc = "idle"
      /\ pager'[c].jfd = pager[c].jfd
      /\ pager'[c].journalOff = pager[c].journalOff
      /\ pager'[c].journalHdr = pager[c].journalHdr
      /\ pager'[c].id = pager[c].id
  BY <1>1, SyncDatabaseStep DEF SyncHere, Kept, Fields
<1>5. \A d \in Conn \ {c} : lock'[d] = lock[d]
  BY DEF SyncDatabase
<1>6. jrnl' = jrnl
  BY DEF SyncDatabase, disk
<1>7. SyncAt(c)'
  BY <1>1, <1>2, <1>4, <1>6 DEF SyncHere, SyncAt, HeadMagic, HeadSynced, StateOK, EState, UndoPCs,
     HotPCs, SyncPCs, Writing
<1> QED
  BY <1>3, <1>5, <1>6, <1>7, SyncQuiet

LEMMA CommitPhaseTwoSync ==
  ASSUME SyncHyp, Control, Control', SyncOK, NEW c \in Conn, CommitPhaseTwo(c)
  PROVE  SyncOK'
<1>1. SyncHere(c)
  BY SyncHereIsSo
<1>2. pager[c].pc = "idle" /\ pager[c].eState = "WRITER_FINISHED"
  BY <1>1, PagerFields DEF SyncHere, CommitPhaseTwo, In, At
<1>3. /\ Types' /\ Rest(c)
  BY <1>1, CommitPhaseTwoStep DEF SyncHere
<1>4. /\ pager'[c].eState = pager[c].eState
      /\ pager'[c].pc = "final"
      /\ pager'[c].jfd = pager[c].jfd
      /\ pager'[c].journalOff = pager[c].journalOff
      /\ pager'[c].journalHdr = pager[c].journalHdr
      /\ pager'[c].id = pager[c].id
  BY <1>1, CommitPhaseTwoStep DEF SyncHere, Kept, Fields
<1>5. \A d \in Conn \ {c} : lock'[d] = lock[d]
  BY DEF CommitPhaseTwo
<1>6. jrnl' = jrnl
  BY DEF CommitPhaseTwo, disk
<1>7. SyncAt(c)'
  BY <1>1, <1>2, <1>4, <1>6 DEF SyncHere, SyncAt, HeadMagic, HeadSynced, StateOK, EState, UndoPCs,
     HotPCs, SyncPCs, Writing
<1> QED
  BY <1>3, <1>5, <1>6, <1>7, SyncQuiet

LEMMA EndTransactionSync ==
  ASSUME SyncHyp, Control, Control', SyncOK, NEW c \in Conn, EndTransaction(c)
  PROVE  SyncOK'
<1>1. SyncHere(c)
  BY SyncHereIsSo
<1>2. pager[c].pc = "unlock"
  BY <1>1, PagerFields DEF SyncHere, EndTransaction, In, At
<1>3. /\ Types' /\ Rest(c)
  BY <1>1, EndTransactionStep DEF SyncHere
<1>4. /\ pager'[c].eState = IF pager[c].eState = "OPEN" THEN "OPEN" ELSE "READER"
      /\ pager'[c].pc = IF pager[c].eState = "OPEN" THEN "vers" ELSE "idle"
      /\ pager'[c].jfd = IF pager[c].journalMode = "DELETE" THEN "closed" ELSE pager[c].jfd
  BY <1>1, EndTransactionStep DEF SyncHere, Kept, Fields
<1>5. \A d \in Conn \ {c} : lock'[d] = lock[d]
  BY <1>1 DEF SyncHere, EndTransaction, Types
<1>6. jrnl' = jrnl
  BY DEF EndTransaction, disk
<1>7. SyncAt(c)'
  BY <1>1, <1>2, <1>4, <1>6 DEF SyncHere, SyncAt, HeadMagic, HeadSynced, StateOK, EState, UndoPCs,
     HotPCs, SyncPCs, Writing
<1> QED
  BY <1>3, <1>5, <1>6, <1>7, SyncQuiet

LEMMA RollbackSync ==
  ASSUME SyncHyp, Control, Control', SyncOK, NEW c \in Conn, Rollback(c)
  PROVE  SyncOK'
<1>1. SyncHere(c)
  BY SyncHereIsSo
<1>2. pager[c].pc \in {"idle", "abort"}
  BY <1>1, PagerFields DEF SyncHere, Rollback, In, At
<1>3. /\ Types' /\ Rest(c)
  BY <1>1, RollbackStep DEF SyncHere
<1>4. /\ pager'[c].eState = pager[c].eState
      /\ pager'[c].pc = IF pager[c].eState = "WRITER_LOCKED" THEN "final" ELSE "playback"
      /\ pager'[c].jfd = pager[c].jfd
      /\ pager'[c].journalOff = IF pager[c].eState = "WRITER_LOCKED" THEN pager[c].journalOff
         ELSE 0
      /\ pager'[c].journalHdr = pager[c].journalHdr
      /\ pager'[c].id = pager[c].id
  BY <1>1, RollbackStep DEF SyncHere, Kept, Fields
<1>5. \A d \in Conn \ {c} : lock'[d] = lock[d]
  BY DEF Rollback
<1>6. jrnl' = jrnl
  BY DEF Rollback, disk
<1>7. SyncAt(c)'
  BY <1>1, <1>2, <1>4, <1>6 DEF SyncHere, SyncAt, HeadMagic, HeadSynced, StateOK, EState, UndoPCs,
     HotPCs, SyncPCs, Writing
<1> QED
  BY <1>3, <1>5, <1>6, <1>7, SyncQuiet

LEMMA PlaybackHeaderSync ==
  ASSUME SyncHyp, Control, Control', SyncOK, NEW c \in Conn, PlaybackHeader(c)
  PROVE  SyncOK'
<1>1. SyncHere(c)
  BY SyncHereIsSo
<1>2. pager[c].pc = "playback"
  BY <1>1, PagerFields DEF SyncHere, PlaybackHeader, In, At
<1>3. /\ Types' /\ Rest(c)
  BY <1>1, PlaybackHeaderStep DEF SyncHere
<1>4. /\ pager'[c].eState = pager[c].eState
      /\ pager'[c].jfd = pager[c].jfd
      /\ pager'[c].journalHdr = pager[c].journalHdr
  BY <1>1, PlaybackHeaderStep DEF SyncHere, Kept, Fields
<1>5. \A d \in Conn \ {c} : lock'[d] = lock[d]
  BY DEF PlaybackHeader
<1>6. jrnl' = jrnl
  BY DEF PlaybackHeader, disk
<1>p. pager'[c].pc \in {"playback", "record"}
  BY <1>1, PlaybackHeaderStep DEF SyncHere
<1>7. SyncAt(c)'
  BY <1>1, <1>2, <1>4, <1>6, <1>p DEF SyncHere, SyncAt, HeadMagic, HeadSynced, StateOK, EState,
     UndoPCs, HotPCs, SyncPCs, Writing
<1> QED
  BY <1>3, <1>5, <1>6, <1>7, SyncQuiet

LEMMA PlaybackStopSync ==
  ASSUME SyncHyp, Control, Control', SyncOK, NEW c \in Conn, PlaybackStop(c)
  PROVE  SyncOK'
<1>1. SyncHere(c)
  BY SyncHereIsSo
<1>2. pager[c].pc = "playback"
  BY <1>1, PagerFields DEF SyncHere, PlaybackStop, In, At
<1>3. /\ Types' /\ Rest(c)
  BY <1>1, PlaybackStopStep DEF SyncHere
<1>4. /\ pager'[c].eState = pager[c].eState
      /\ pager'[c].pc = "restored"
      /\ pager'[c].jfd = pager[c].jfd
      /\ pager'[c].journalOff = pager[c].journalOff
      /\ pager'[c].journalHdr = pager[c].journalHdr
      /\ pager'[c].id = pager[c].id
  BY <1>1, PlaybackStopStep DEF SyncHere, Kept, Fields
<1>5. \A d \in Conn \ {c} : lock'[d] = lock[d]
  BY DEF PlaybackStop
<1>6. jrnl' = jrnl
  BY DEF PlaybackStop, disk
<1>7. SyncAt(c)'
  BY <1>1, <1>2, <1>4, <1>6 DEF SyncHere, SyncAt, HeadMagic, HeadSynced, StateOK, EState, UndoPCs,
     HotPCs, SyncPCs, Writing
<1> QED
  BY <1>3, <1>5, <1>6, <1>7, SyncQuiet

LEMMA PlaybackRecordSync ==
  ASSUME SyncHyp, Control, Control', SyncOK, NEW c \in Conn, PlaybackRecord(c)
  PROVE  SyncOK'
<1>1. SyncHere(c)
  BY SyncHereIsSo
<1>2. pager[c].pc = "record"
  BY <1>1, PagerFields DEF SyncHere, PlaybackRecord, In, At
<1>3. /\ Types' /\ Rest(c)
      /\ Kept(pager[c], pager'[c], {"journalOff", "left", "pc", "cache", "dirty", "dbFileVers"})
      /\ pager'[c].pc = IF pager[c].left = 1 THEN "playback" ELSE "record"
      /\ pager'[c].journalOff = pager[c].journalOff + 1
  BY <1>1, PlaybackRecordStep DEF SyncHere
<1>4. /\ pager'[c].eState = pager[c].eState
      /\ pager'[c].pc = IF pager[c].left = 1 THEN "playback" ELSE "record"
      /\ pager'[c].jfd = pager[c].jfd
      /\ pager'[c].journalOff = pager[c].journalOff + 1
      /\ pager'[c].journalHdr = pager[c].journalHdr
      /\ pager'[c].id = pager[c].id
  BY <1>3 DEF Kept, Fields
<1>5. \A d \in Conn \ {c} : lock'[d] = lock[d]
  BY DEF PlaybackRecord
<1>6. jrnl' = jrnl
  BY DEF PlaybackRecord, disk
<1>7. SyncAt(c)'
  BY <1>1, <1>2, <1>4, <1>6 DEF SyncHere, SyncAt, HeadMagic, HeadSynced, StateOK, EState, UndoPCs,
     HotPCs, SyncPCs, Writing
<1> QED
  BY <1>3, <1>5, <1>6, <1>7, SyncQuiet

LEMMA PlaybackBadRecordSync ==
  ASSUME SyncHyp, Control, Control', SyncOK, NEW c \in Conn, PlaybackBadRecord(c)
  PROVE  SyncOK'
<1>1. SyncHere(c)
  BY SyncHereIsSo
<1>2. pager[c].pc = "record"
  BY <1>1, PagerFields DEF SyncHere, PlaybackBadRecord, In, At
<1>3. /\ Types' /\ Rest(c)
  BY <1>1, PlaybackBadRecordStep DEF SyncHere
<1>4. /\ pager'[c].eState = pager[c].eState
      /\ pager'[c].pc = "restored"
      /\ pager'[c].jfd = pager[c].jfd
      /\ pager'[c].journalOff = pager[c].journalOff
      /\ pager'[c].journalHdr = pager[c].journalHdr
      /\ pager'[c].id = pager[c].id
  BY <1>1, PlaybackBadRecordStep DEF SyncHere, Kept, Fields
<1>5. \A d \in Conn \ {c} : lock'[d] = lock[d]
  BY DEF PlaybackBadRecord
<1>6. jrnl' = jrnl
  BY DEF PlaybackBadRecord, disk
<1>7. SyncAt(c)'
  BY <1>1, <1>2, <1>4, <1>6 DEF SyncHere, SyncAt, HeadMagic, HeadSynced, StateOK, EState, UndoPCs,
     HotPCs, SyncPCs, Writing
<1> QED
  BY <1>3, <1>5, <1>6, <1>7, SyncQuiet

LEMMA PlaybackDoneSync ==
  ASSUME SyncHyp, Control, Control', SyncOK, NEW c \in Conn, PlaybackDone(c)
  PROVE  SyncOK'
<1>1. SyncHere(c)
  BY SyncHereIsSo
<1>2. pager[c].pc = "restored"
  BY <1>1, PagerFields DEF SyncHere, PlaybackDone, In, At
<1>3. /\ Types' /\ Rest(c)
  BY <1>1, PlaybackDoneStep DEF SyncHere
<1>4. /\ pager'[c].eState = pager[c].eState
      /\ pager'[c].pc = "final"
      /\ pager'[c].jfd = pager[c].jfd
      /\ pager'[c].journalOff = pager[c].journalOff
      /\ pager'[c].journalHdr = pager[c].journalHdr
      /\ pager'[c].id = pager[c].id
  BY <1>1, PlaybackDoneStep DEF SyncHere, Kept, Fields
<1>5. \A d \in Conn \ {c} : lock'[d] = lock[d]
  BY DEF PlaybackDone
<1>6. jrnl' = jrnl
  BY DEF PlaybackDone, disk
<1>7. SyncAt(c)'
  BY <1>1, <1>2, <1>4, <1>6 DEF SyncHere, SyncAt, HeadMagic, HeadSynced, StateOK, EState, UndoPCs,
     HotPCs, SyncPCs, Writing
<1> QED
  BY <1>3, <1>5, <1>6, <1>7, SyncQuiet

LEMMA CountDirectErrorSync ==
  ASSUME SyncHyp, Control, Control', SyncOK, NEW c \in Conn, CountDirectError(c)
  PROVE  SyncOK'
<1>1. SyncHere(c)
  BY SyncHereIsSo
<1>2. pager[c].pc = "count"
  BY <1>1, PagerFields DEF SyncHere, CountDirectError, In, At
<1>3. /\ Types' /\ Rest(c)
  BY <1>1, CountDirectErrorStep DEF SyncHere
<1>4. /\ pager'[c].eState = pager[c].eState
      /\ pager'[c].pc = "abort"
      /\ pager'[c].jfd = pager[c].jfd
      /\ pager'[c].journalOff = pager[c].journalOff
      /\ pager'[c].journalHdr = pager[c].journalHdr
      /\ pager'[c].id = pager[c].id
  BY <1>1, CountDirectErrorStep DEF SyncHere, Kept, Fields
<1>5. \A d \in Conn \ {c} : lock'[d] = lock[d]
  BY DEF CountDirectError
<1>6. jrnl' = jrnl
  BY DEF CountDirectError, disk
<1>7. SyncAt(c)'
  BY <1>1, <1>2, <1>4, <1>6 DEF SyncHere, SyncAt, HeadMagic, HeadSynced, StateOK, EState, UndoPCs,
     HotPCs, SyncPCs, Writing
<1> QED
  BY <1>3, <1>5, <1>6, <1>7, SyncQuiet

LEMMA SpillErrorSync ==
  ASSUME SyncHyp, Control, Control', SyncOK, NEW c \in Conn, SpillError(c)
  PROVE  SyncOK'
<1>1. SyncHere(c)
  BY SyncHereIsSo
<1>2. pager[c].pc = "spill"
  BY <1>1, PagerFields DEF SyncHere, SpillError, In, At
<1>3. /\ Types' /\ Rest(c)
  BY <1>1, SpillErrorStep DEF SyncHere
<1>4. /\ pager'[c].eState = "ERROR"
      /\ pager'[c].pc = "idle"
      /\ pager'[c].jfd = pager[c].jfd
      /\ pager'[c].journalOff = pager[c].journalOff
      /\ pager'[c].journalHdr = pager[c].journalHdr
      /\ pager'[c].id = pager[c].id
  BY <1>1, SpillErrorStep DEF SyncHere, Kept, Fields
<1>5. \A d \in Conn \ {c} : lock'[d] = lock[d]
  BY DEF SpillError
<1>6. jrnl' = jrnl
  BY DEF SpillError, disk
<1>7. SyncAt(c)'
  BY <1>1, <1>2, <1>4, <1>6 DEF SyncHere, SyncAt, HeadMagic, HeadSynced, StateOK, EState, UndoPCs,
     HotPCs, SyncPCs, Writing
<1> QED
  BY <1>3, <1>5, <1>6, <1>7, SyncQuiet

LEMMA WritePagesErrorSync ==
  ASSUME SyncHyp, Control, Control', SyncOK, NEW c \in Conn, WritePagesError(c)
  PROVE  SyncOK'
<1>1. SyncHere(c)
  BY SyncHereIsSo
<1>2. pager[c].pc = "pages"
  BY <1>1, PagerFields DEF SyncHere, WritePagesError, In, At
<1>3. /\ Types' /\ Rest(c)
      /\ Kept(pager[c], pager'[c], {"pc", "cache", "dbFileVers"})
      /\ pager'[c].pc = "abort"
  BY <1>1, WritePagesErrorStep DEF SyncHere
<1>4. /\ pager'[c].eState = pager[c].eState
      /\ pager'[c].pc = "abort"
      /\ pager'[c].jfd = pager[c].jfd
      /\ pager'[c].journalOff = pager[c].journalOff
      /\ pager'[c].journalHdr = pager[c].journalHdr
      /\ pager'[c].id = pager[c].id
  BY <1>3 DEF Kept, Fields
<1>5. \A d \in Conn \ {c} : lock'[d] = lock[d]
  BY DEF WritePagesError
<1>6. jrnl' = jrnl
  BY DEF WritePagesError, disk
<1>7. SyncAt(c)'
  BY <1>1, <1>2, <1>4, <1>6 DEF SyncHere, SyncAt, HeadMagic, HeadSynced, StateOK, EState, UndoPCs,
     HotPCs, SyncPCs, Writing
<1> QED
  BY <1>3, <1>5, <1>6, <1>7, SyncQuiet

LEMMA SyncDatabaseErrorSync ==
  ASSUME SyncHyp, Control, Control', SyncOK, NEW c \in Conn, SyncDatabaseError(c)
  PROVE  SyncOK'
<1>1. SyncHere(c)
  BY SyncHereIsSo
<1>2. pager[c].pc = "pages"
  BY <1>1, PagerFields DEF SyncHere, SyncDatabaseError, In, At
<1>3. /\ Types' /\ Rest(c)
  BY <1>1, SyncDatabaseErrorStep DEF SyncHere
<1>4. /\ pager'[c].eState = pager[c].eState
      /\ pager'[c].pc = "abort"
      /\ pager'[c].jfd = pager[c].jfd
      /\ pager'[c].journalOff = pager[c].journalOff
      /\ pager'[c].journalHdr = pager[c].journalHdr
      /\ pager'[c].id = pager[c].id
  BY <1>1, SyncDatabaseErrorStep DEF SyncHere, Kept, Fields
<1>5. \A d \in Conn \ {c} : lock'[d] = lock[d]
  BY DEF SyncDatabaseError
<1>6. jrnl' = jrnl
  BY DEF SyncDatabaseError, disk
<1>7. SyncAt(c)'
  BY <1>1, <1>2, <1>4, <1>6 DEF SyncHere, SyncAt, HeadMagic, HeadSynced, StateOK, EState, UndoPCs,
     HotPCs, SyncPCs, Writing
<1> QED
  BY <1>3, <1>5, <1>6, <1>7, SyncQuiet

LEMMA PlaybackErrorOwnSync ==
  ASSUME SyncHyp, Control, Control', SyncOK, NEW c \in Conn, PlaybackError(c),
         pager[c].eState # "OPEN"
  PROVE  SyncOK'
<1>1. SyncHere(c)
  BY SyncHereIsSo
<1>2. pager[c].pc \in {"playback", "record", "restored"}
  BY <1>1, PagerFields DEF SyncHere, PlaybackError, In, At
<1>3. /\ Types' /\ Rest(c)
  BY <1>1, PlaybackErrorOwn DEF SyncHere
<1>4. /\ pager'[c].eState = "ERROR"
      /\ pager'[c].pc = "idle"
      /\ pager'[c].jfd = pager[c].jfd
      /\ pager'[c].journalOff = pager[c].journalOff
      /\ pager'[c].journalHdr = pager[c].journalHdr
      /\ pager'[c].id = pager[c].id
  BY <1>1, PlaybackErrorOwn DEF SyncHere, Kept, Fields
<1>5. \A d \in Conn \ {c} : lock'[d] = lock[d]
  BY DEF PlaybackError
<1>6. jrnl' = jrnl
  BY DEF PlaybackError, disk
<1>7. SyncAt(c)'
  BY <1>1, <1>2, <1>4, <1>6 DEF SyncHere, SyncAt, HeadMagic, HeadSynced, StateOK, EState, UndoPCs,
     HotPCs, SyncPCs, Writing
<1> QED
  BY <1>3, <1>5, <1>6, <1>7, SyncQuiet

\* The writes of c behind the first header, when it has a journal of its own.
LEMMA WroteKept ==
  ASSUME NEW c \in Conn, NEW jfd, NEW mem, NEW j \in JournalSet, NEW i \in Nat, i >= 2, NEW x,
         NEW torn, j.slot # <<>>, jfd = "real",
         Wrote(c, jfd, mem, j, i, x, torn) \/ Cut(c, jfd, mem, j, i)
  PROVE  /\ pager'[c].jfd = "real" /\ jrnl'.slot # <<>>
         /\ jrnl'.slot[1] = j.slot[1] /\ jrnl'.alt[1] = j.alt[1]
<1>1. /\ pager'[c].jfd = "real"
      /\ jrnl' = WriteSlot(j, i, x, torn) \/ jrnl' = WriteSlot(j, i, Junk, {})
  BY DEF Wrote, Cut
<1>2. CASE jrnl' = WriteSlot(j, i, x, torn)
  BY <1>1, <1>2, HeadKept
<1>3. CASE jrnl' = WriteSlot(j, i, Junk, {})
  BY <1>1, <1>3, HeadKept
<1> QED
  BY <1>1, <1>2, <1>3

LEMMA WroteReal ==
  ASSUME NEW c \in Conn, NEW jfd, NEW mem, NEW j, NEW i, NEW x, NEW torn, jfd = "real",
         Wrote(c, jfd, mem, j, i, x, torn) \/ Cut(c, jfd, mem, j, i)
  PROVE  pager'[c].jfd = "real"
BY DEF Wrote, Cut

LEMMA pager_writeSync ==
  ASSUME SyncHyp, Control, Control', SyncOK, NEW c \in Conn, pager_write(c), NeedsRecord(pager[c],
         pager[c].pg)
  PROVE  SyncOK'
<1>1. SyncHere(c)
  BY SyncHereIsSo
<1>2. pager[c].pc = "write"
  BY <1>1, PagerFields DEF SyncHere, pager_write, In, At
<1>3. /\ Types' /\ Rest(c)
      /\ Kept(pager[c], pager'[c], {"pc", "pg", "dirty", "cache", "dbSize", "journalOff", "nRec",
         "inJournal", "needSync", "jfd", "mem"})
      /\ pager'[c].pc = "idle"
      /\ pager'[c].journalOff = pager[c].journalOff + 1
      /\ Wrote(c, pager[c].jfd, pager[c].mem, jrnl, pager[c].journalOff + 1,
           Record(pager[c].pg, pager[c].cache[pager[c].pg], pager[c].id), {Junk})
  BY <1>1, pager_writeStep DEF SyncHere
<1>4. /\ pager'[c].eState = pager[c].eState
      /\ pager'[c].pc = "idle"
      /\ pager'[c].journalOff = pager[c].journalOff + 1
      /\ pager'[c].journalHdr = pager[c].journalHdr
      /\ pager'[c].id = pager[c].id
  BY <1>3 DEF Kept, Fields
<1>5. \A d \in Conn \ {c} : lock'[d] = lock[d]
  BY DEF pager_write
<1>l. lock[c] # NO_LOCK
  BY <1>1, <1>2, Levels DEF SyncHere, StateOK, EState, UndoPCs, HotPCs, SyncPCs, Writing
<1>6. pager[c].jfd = "real" /\ pager[c].journalOff + 1 \in Nat /\ (pager[c].journalOff >= 1)
  BY <1>1, <1>2 DEF SyncHere, SyncAt, StateOK, EState, UndoPCs, HotPCs, SyncPCs, Writing
<1>7. pager'[c].jfd = "real"
  BY <1>3, <1>6, WroteReal
<1>8. jrnl.slot # <<>> /\ pager[c].journalOff + 1 >= 2 =>
        jrnl'.slot # <<>> /\ jrnl'.slot[1] = jrnl.slot[1] /\ jrnl'.alt[1] = jrnl.alt[1]
  BY <1>1, <1>3, <1>6, WroteKept DEF SyncHere
<1>9. SyncAt(c)'
  BY <1>1, <1>2, <1>4, <1>6, <1>7, <1>8 DEF SyncHere, SyncAt, HeadMagic, HeadSynced, StateOK,
     EState, UndoPCs, HotPCs, SyncPCs, Writing
<1> QED
  BY <1>3, <1>5, <1>l, <1>9, SyncQuiet

LEMMA RecordErrorSync ==
  ASSUME SyncHyp, Control, Control', SyncOK, NEW c \in Conn, RecordError(c)
  PROVE  SyncOK'
<1>1. SyncHere(c)
  BY SyncHereIsSo
<1>2. pager[c].pc = "write"
  BY <1>1, PagerFields DEF SyncHere, RecordError, In, At
<1>3. /\ Types' /\ Rest(c)
      /\ Cut(c, pager[c].jfd, pager[c].mem, jrnl, pager[c].journalOff + 1)
  BY <1>1, RecordErrorStep DEF SyncHere
<1>4. /\ pager'[c].eState = pager[c].eState
      /\ pager'[c].pc = "abort"
      /\ pager'[c].journalOff = pager[c].journalOff
      /\ pager'[c].journalHdr = pager[c].journalHdr
      /\ pager'[c].id = pager[c].id
  BY <1>1, RecordErrorStep DEF SyncHere, Kept, Fields
<1>5. \A d \in Conn \ {c} : lock'[d] = lock[d]
  BY DEF RecordError
<1>l. lock[c] # NO_LOCK
  BY <1>1, <1>2, Levels DEF SyncHere, StateOK, EState, UndoPCs, HotPCs, SyncPCs, Writing
<1>6. pager[c].jfd = "real" /\ pager[c].journalOff + 1 \in Nat /\ (pager[c].journalOff >= 1)
  BY <1>1, <1>2 DEF SyncHere, SyncAt, StateOK, EState, UndoPCs, HotPCs, SyncPCs, Writing
<1>7. pager'[c].jfd = "real"
  BY <1>3, <1>6, WroteReal
<1>8. jrnl.slot # <<>> /\ pager[c].journalOff + 1 >= 2 =>
        jrnl'.slot # <<>> /\ jrnl'.slot[1] = jrnl.slot[1] /\ jrnl'.alt[1] = jrnl.alt[1]
  BY <1>1, <1>3, <1>6, WroteKept DEF SyncHere
<1>9. SyncAt(c)'
  BY <1>1, <1>2, <1>4, <1>6, <1>7, <1>8 DEF SyncHere, SyncAt, HeadMagic, HeadSynced, StateOK,
     EState, UndoPCs, HotPCs, SyncPCs, Writing
<1> QED
  BY <1>3, <1>5, <1>l, <1>9, SyncQuiet

LEMMA NewHeaderErrorSync ==
  ASSUME SyncHyp, Control, Control', SyncOK, NEW c \in Conn, NewHeaderError(c)
  PROVE  SyncOK'
<1>1. SyncHere(c)
  BY SyncHereIsSo
<1>2. pager[c].pc = "sync4"
  BY <1>1, PagerFields DEF SyncHere, NewHeaderError, In, At
<1>3. /\ Types' /\ Rest(c)
      /\ Cut(c, pager[c].jfd, pager[c].mem, jrnl, pager[c].journalOff + 1)
  BY <1>1, NewHeaderErrorStep DEF SyncHere
<1>4. /\ pager'[c].eState = "ERROR"
      /\ pager'[c].pc = "idle"
      /\ pager'[c].journalOff = pager[c].journalOff
      /\ pager'[c].journalHdr = pager[c].journalOff
      /\ pager'[c].id = pager[c].id
  BY <1>1, NewHeaderErrorStep DEF SyncHere, Kept, Fields
<1>5. \A d \in Conn \ {c} : lock'[d] = lock[d]
  BY DEF NewHeaderError
<1>l. lock[c] # NO_LOCK
  BY <1>1, <1>2, Levels DEF SyncHere, StateOK, EState, UndoPCs, HotPCs, SyncPCs, Writing
<1>6. pager[c].jfd = "real" /\ pager[c].journalOff + 1 \in Nat /\ (pager[c].journalOff >= 1)
  BY <1>1, <1>2 DEF SyncHere, SyncAt, StateOK, EState, UndoPCs, HotPCs, SyncPCs, Writing
<1>7. pager'[c].jfd = "real"
  BY <1>3, <1>6, WroteReal
<1>8. jrnl.slot # <<>> /\ pager[c].journalOff + 1 >= 2 =>
        jrnl'.slot # <<>> /\ jrnl'.slot[1] = jrnl.slot[1] /\ jrnl'.alt[1] = jrnl.alt[1]
  BY <1>1, <1>3, <1>6, WroteKept DEF SyncHere
<1>9. SyncAt(c)'
  BY <1>1, <1>2, <1>4, <1>6, <1>7, <1>8 DEF SyncHere, SyncAt, HeadMagic, HeadSynced, StateOK,
     EState, UndoPCs, HotPCs, SyncPCs, Writing
<1> QED
  BY <1>3, <1>5, <1>l, <1>9, SyncQuiet

LEMMA OpenJournalSync ==
  ASSUME SyncHyp, Control, Control', SyncOK, NEW c \in Conn, OpenJournal(c)
  PROVE  SyncOK'
<1>1. SyncHere(c)
  BY SyncHereIsSo
<1>2. pager[c].pc = "open"
  BY <1>1, PagerFields DEF SyncHere, OpenJournal, In, At
<1>3. /\ Types' /\ Rest(c)
      /\ Wrote(c, (IF pager[c].jfd # "closed" THEN pager[c].jfd ELSE IF AtomicWrite THEN "mem"
         ELSE "real"), pager[c].mem, jrnl, 1,
           Header(FALSE, 0, pager[c].dbOrigSize, pager[c].id), {Junk})
  BY <1>1, OpenJournalStep DEF SyncHere
<1>4. /\ pager'[c].eState = "WRITER_CACHEMOD"
      /\ pager'[c].pc = "write"
      /\ pager'[c].journalOff = 1
      /\ pager'[c].journalHdr = 0
      /\ pager'[c].id = pager[c].id
  BY <1>1, OpenJournalStep DEF SyncHere, Kept, Fields
<1>5. \A d \in Conn \ {c} : lock'[d] = lock[d]
  BY DEF OpenJournal
<1>l. lock[c] # NO_LOCK
  BY <1>1, <1>2, Levels DEF SyncHere, StateOK, EState, UndoPCs, HotPCs, SyncPCs, Writing
<1>6. ~AtomicWrite /\ pager[c].jfd \in {"closed", "real"}
  BY <1>1, <1>2 DEF SyncHere, SyncHyp, SyncAt, StateOK, EState, UndoPCs, HotPCs, SyncPCs, Writing
<1>7. pager'[c].jfd = "real"
  BY <1>3, <1>6 DEF Wrote
<1>8. SyncAt(c)'
  BY <1>4, <1>7 DEF SyncAt, Writing
<1> QED
  BY <1>3, <1>5, <1>l, <1>8, SyncQuiet

LEMMA SyncRecordsSync ==
  ASSUME SyncHyp, Control, Control', SyncOK, NEW c \in Conn, SyncRecords(c)
  PROVE  SyncOK'
<1>1. SyncHere(c)
  BY SyncHereIsSo
<1>2. pager[c].pc = "sync2"
  BY <1>1, PagerFields DEF SyncHere, SyncRecords, In, At
<1>3. /\ Types' /\ Rest(c)
  BY <1>1, SyncRecordsStep DEF SyncHere
<1>4. /\ pager'[c].eState = pager[c].eState
      /\ pager'[c].pc = "sync3"
      /\ pager'[c].jfd = pager[c].jfd
      /\ pager'[c].journalOff = pager[c].journalOff
      /\ pager'[c].journalHdr = pager[c].journalHdr
      /\ pager'[c].id = pager[c].id
  BY <1>1, SyncRecordsStep DEF SyncHere, Kept, Fields
<1>5. \A d \in Conn \ {c} : lock'[d] = lock[d]
  BY DEF SyncRecords
<1>l. lock[c] # NO_LOCK
  BY <1>1, <1>2, Levels DEF SyncHere, StateOK, EState, UndoPCs, HotPCs, SyncPCs, Writing
<1>6. pager[c].jfd = "real" /\ pager[c].journalOff + 1 \in Nat /\ pager[c].journalOff >= 1
  BY <1>1, <1>2 DEF SyncHere, SyncAt, StateOK, EState, UndoPCs, HotPCs, SyncPCs, Writing
<1>7. jrnl.slot # <<>> =>
        /\ jrnl'.slot # <<>> /\ jrnl'.slot[1] = jrnl.slot[1]
        /\ HeadSynced => jrnl'.alt[1] = {jrnl.slot[1]}
  <2> SUFFICES ASSUME jrnl.slot # <<>>
               PROVE  /\ jrnl'.slot # <<>> /\ jrnl'.slot[1] = jrnl.slot[1]
                      /\ HeadSynced => jrnl'.alt[1] = {jrnl.slot[1]}
    OBVIOUS
  <2> DEFINE next == pager[c].journalOff + 1
             zeroed == StaleZeroed(Jfile(c), next)
             y == zeroed[next]
             file == IF pager[c].jfd = "real" /\ zeroed # jrnl.slot
                     THEN WriteSlot(jrnl, next, y, {}) ELSE jrnl
  <2>1. jrnl' = IF pager[c].jfd = "real" /\ pager[c].fullSync /\ ~Sequential
                THEN Synced(file) ELSE file
    BY DEF SyncRecords
  <2>2. /\ file.slot # <<>> /\ file.slot[1] = jrnl.slot[1] /\ file.alt[1] = jrnl.alt[1]
    <3>1. next \in Nat /\ next >= 2
      BY <1>1, <1>6 DEF SyncHere
    <3> HIDE DEF next, y
    <3> QED
      BY <1>1, <3>1, HeadKept DEF SyncHere
  <2>3. file.slot \in Seq(SlotSet)
    <3>1. jrnl' \in JournalSet
      BY <1>3 DEF Types
    <3>2. jrnl'.slot \in Seq(SlotSet)
      BY <3>1, JournalType
    <3>3. jrnl'.slot = file.slot
      BY <1>1, <2>1, JournalType DEF SyncHere, Synced, WriteSlot, JournalSet
    <3> QED
      BY <3>2, <3>3
  <2> HIDE DEF file
  <2>4. Synced(file).slot = file.slot
          /\ Synced(file).alt = [i \in 1..Len(file.slot) |-> {file.slot[i]}]
    <3>1. file = jrnl \/ \E k, x : file = WriteSlot(jrnl, k, x, {})
      BY DEF file
    <3> QED
      BY <1>1, <3>1 DEF SyncHere, Synced, JournalSet, WriteSlot
  <2>5. 1 \in 1..Len(file.slot)
    BY <2>2, <2>3
  <2> QED
    BY <2>1, <2>2, <2>4, <2>5 DEF HeadSynced
<1>8. SyncAt(c)'
  <2>1. CASE pager[c].eState = "WRITER_DBMOD"
    <3>1. jrnl.slot # <<>> /\ jrnl.slot[1].magic /\ jrnl.slot[1].nonce = pager[c].id /\ HeadSynced
      BY <1>1, <1>2, <2>1 DEF SyncHere, SyncAt, HeadMagic, UndoPCs
    <3>2. HeadMagic(pager[c])' /\ HeadSynced'
      BY <1>4, <1>7, <3>1 DEF HeadMagic, HeadSynced
    <3> QED
      BY <1>1, <1>2, <1>4, <2>1, <3>2 DEF SyncHere, SyncAt, Writing, UndoPCs
  <2>2. CASE pager[c].eState # "WRITER_DBMOD"
    BY <1>1, <1>2, <1>4, <2>2 DEF SyncHere, SyncAt, Writing, UndoPCs
  <2> QED
    BY <2>1, <2>2
<1> QED
  BY <1>3, <1>5, <1>l, <1>8, SyncQuiet

\* The first header gets its magic.
LEMMA HeadWritten ==
  ASSUME NEW j \in JournalSet, NEW x \in SlotSet
  PROVE  LET k == WriteSlot(j, 1, x, {})
         IN  k.slot # <<>> /\ k.slot[1] = x /\ (WriteThrough => k.alt[1] = {x})
<1>1. /\ j.slot \in Seq(SlotSet) /\ j.alt \in Seq(SUBSET SlotSet) /\ Len(j.alt) = Len(j.slot)
  BY DEF JournalSet
<1>2. ASSUME NEW S, NEW s \in Seq(S), NEW y PROVE Put(s, 1, y) # <<>> /\ Put(s, 1, y)[1] = y
  <2>1. CASE 1 <= Len(s)
    BY <2>1 DEF Put
  <2>2. CASE ~(1 <= Len(s))
    <3>1. Len(s) = 0 /\ Len(s) \in Nat
      BY <2>2
    <3>2. s = <<>>
      BY <3>1
    <3>3. Append(<<>>, y) = <<y>> /\ <<y>> # <<>> /\ <<y>>[1] = y
      OBVIOUS
    <3> QED
      BY <2>2, <3>2, <3>3 DEF Put
  <2> QED
    BY <2>1, <2>2
<1>3. /\ WriteSlot(j, 1, x, {}).slot = Put(j.slot, 1, x)
      /\ WriteThrough => WriteSlot(j, 1, x, {}).alt = Put(j.alt, 1, {x})
  BY DEF WriteSlot
<1> QED
  BY <1>1, <1>2, <1>3

LEMMA SyncHeaderSync ==
  ASSUME SyncHyp, Control, Control', SyncOK, NEW c \in Conn, SyncHeader(c)
  PROVE  SyncOK'
<1>1. SyncHere(c)
  BY SyncHereIsSo
<1>2. pager[c].pc = "sync3"
  BY <1>1, PagerFields DEF SyncHere, SyncHeader, In, At
<1>3. /\ Types' /\ Rest(c)
      /\ Wrote(c, pager[c].jfd, pager[c].mem, jrnl, pager[c].journalHdr + 1,
           Header(TRUE, pager[c].nRec, pager[c].dbOrigSize, pager[c].id), {})
  BY <1>1, SyncHeaderStep DEF SyncHere
<1>4. /\ pager'[c].eState = pager[c].eState
      /\ pager'[c].pc = "sync4"
      /\ pager'[c].journalOff = pager[c].journalOff
      /\ pager'[c].journalHdr = pager[c].journalHdr
      /\ pager'[c].id = pager[c].id
  BY <1>1, SyncHeaderStep DEF SyncHere, Kept, Fields
<1>5. \A d \in Conn \ {c} : lock'[d] = lock[d]
  BY DEF SyncHeader
<1>l. lock[c] # NO_LOCK
  BY <1>1, <1>2, Levels DEF SyncHere, StateOK, EState, UndoPCs, HotPCs, SyncPCs, Writing
<1> DEFINE x == Header(TRUE, pager[c].nRec, pager[c].dbOrigSize, pager[c].id)
<1>6. pager[c].jfd = "real" /\ pager[c].journalHdr + 1 \in Nat /\ pager[c].eState \in Writing
  BY <1>1, <1>2 DEF SyncHere, SyncAt, StateOK, EState, UndoPCs, HotPCs, SyncPCs, Writing
<1>x. x \in SlotSet /\ x.magic /\ x.nonce = pager[c].id
  BY <1>1, PagerFields DEF SyncHere, Header, SlotSet, FieldsOK
<1>w. Wrote(c, pager[c].jfd, pager[c].mem, jrnl, pager[c].journalHdr + 1, x, {})
  BY <1>3
<1> HIDE DEF x
<1>7. pager'[c].jfd = "real"
  BY <1>w, <1>6, WroteReal
<1>8. CASE pager[c].eState = "WRITER_CACHEMOD"
  <2>1. pager[c].journalHdr = 0
    BY <1>1, <1>8 DEF SyncHere, SyncAt
  <2>2. jrnl' = WriteSlot(jrnl, 1, x, {})
    BY <1>6, <1>w, <2>1 DEF Wrote
  <2>3. jrnl'.slot # <<>> /\ jrnl'.slot[1] = x /\ (WriteThrough => jrnl'.alt[1] = {x})
    BY <1>1, <1>x, <2>2, HeadWritten DEF SyncHere
  <2>4. SyncAt(c)'
    BY <1>1, <1>2, <1>4, <1>7, <1>8, <1>x, <2>1, <2>3 DEF SyncHere, SyncAt, HeadMagic, HeadSynced,
       StateOK, EState, UndoPCs, HotPCs, SyncPCs, Writing
  <2> QED
    BY <1>3, <1>5, <1>l, <2>4, SyncQuiet
<1>9. CASE pager[c].eState # "WRITER_CACHEMOD"
  <2>1. /\ pager[c].eState = "WRITER_DBMOD" /\ pager[c].journalHdr + 1 >= 2
        /\ jrnl.slot # <<>>
    BY <1>1, <1>2, <1>6, <1>9 DEF SyncHere, SyncAt, HeadMagic, HeadSynced, StateOK, EState,
       UndoPCs, HotPCs, SyncPCs, Writing
  <2>2. jrnl'.slot # <<>> /\ jrnl'.slot[1] = jrnl.slot[1] /\ jrnl'.alt[1] = jrnl.alt[1]
    BY <1>1, <1>w, <1>6, <2>1, WroteKept DEF SyncHere
  <2>3. SyncAt(c)'
    BY <1>1, <1>2, <1>4, <1>7, <2>1, <2>2 DEF SyncHere, SyncAt, HeadMagic, HeadSynced, StateOK,
       EState, UndoPCs, HotPCs, SyncPCs, Writing
  <2> QED
    BY <1>3, <1>5, <1>l, <2>3, SyncQuiet
<1> QED
  BY <1>8, <1>9

\* syncJournal() has synced the header.
LEMMA HeaderIsSynced ==
  ASSUME SyncHyp, Types, NEW c \in Conn, SyncAt(c), pager[c].pc = "sync4",
         pager[c].eState \in Writing,
         pager[c].jfd = "real"
  PROVE  LET j == HeaderSynced(pager[c])
         IN  /\ j \in JournalSet /\ j.slot # <<>> /\ j.slot[1].magic
             /\ j.slot[1].nonce = pager[c].id /\ j.alt[1] = {j.slot[1]}
<1>1. jrnl \in JournalSet /\ jrnl.slot \in Seq(SlotSet)
  BY DEF Types, JournalSet
<1>2. HeadMagic(pager[c]) /\ (WriteThrough => HeadSynced)
  BY DEF SyncAt, Writing, UndoPCs
<1>3. CASE Sequential
  <2>1. HeaderSynced(pager[c]) = jrnl /\ WriteThrough
    BY <1>3, PagerAssumption DEF HeaderSynced
  <2> QED
    BY <1>1, <1>2, <2>1 DEF HeadMagic, HeadSynced
<1>4. CASE ~Sequential
  <2>1. HeaderSynced(pager[c]) = Synced(jrnl)
    BY <1>4 DEF HeaderSynced
  <2>2. Synced(jrnl) \in JournalSet
    BY <1>1, SyncedType
  <2>3. Synced(jrnl).slot = jrnl.slot
          /\ Synced(jrnl).alt = [i \in 1..Len(jrnl.slot) |-> {jrnl.slot[i]}]
    BY <1>1 DEF Synced, JournalSet
  <2>4. 1 \in 1..Len(jrnl.slot)
    BY <1>1, <1>2 DEF HeadMagic
  <2> QED
    BY <1>2, <2>1, <2>2, <2>3, <2>4 DEF HeadMagic
<1> QED
  BY <1>3, <1>4

LEMMA SyncDoneCommitSync ==
  ASSUME SyncHyp, Control, Control', SyncOK, NEW c \in Conn, SyncDone(c), pager[c].pg = 0
  PROVE  SyncOK'
<1>1. SyncHere(c)
  BY SyncHereIsSo
<1>2. pager[c].pc = "sync4"
  BY <1>1, PagerFields DEF SyncHere, SyncDone, In, At
<1>3. /\ Types' /\ Rest(c)
      /\ Kept(pager[c], pager'[c], {"journalHdr", "needSync", "ownHdr", "eState", "pc"})
      /\ pager'[c].eState = "WRITER_DBMOD"
      /\ pager'[c].pc = "pages"
      /\ pager'[c].journalHdr = pager[c].journalOff
  BY <1>1, SyncDoneCommit DEF SyncHere
<1>4. /\ pager'[c].eState = "WRITER_DBMOD"
      /\ pager'[c].pc = "pages"
      /\ pager'[c].journalOff = pager[c].journalOff
      /\ pager'[c].journalHdr = pager[c].journalOff
      /\ pager'[c].id = pager[c].id
  BY <1>3 DEF Kept, Fields
<1>5. \A d \in Conn \ {c} : lock'[d] = lock[d]
  BY DEF SyncDone
<1>l. lock[c] # NO_LOCK
  BY <1>1, <1>2, Levels DEF SyncHere, StateOK, EState, UndoPCs, HotPCs, SyncPCs, Writing
<1>6. pager[c].jfd = "real" /\ pager[c].journalOff >= 1 /\ pager[c].eState \in Writing
  BY <1>1, <1>2 DEF SyncHere, SyncAt, StateOK, EState, UndoPCs, HotPCs, SyncPCs, Writing
<1> DEFINE j == HeaderSynced(pager[c])
<1>7. /\ j \in JournalSet /\ j.slot # <<>> /\ j.slot[1].magic
      /\ j.slot[1].nonce = pager[c].id /\ j.alt[1] = {j.slot[1]}
  BY <1>1, <1>2, <1>6, HeaderIsSynced DEF SyncHere
<1>8. jrnl' = j /\ pager'[c].jfd = "real"
  BY <1>3, <1>6 DEF SyncDone, Kept, Fields
<1> HIDE DEF j
<1>10. SyncAt(c)'
  BY <1>1, <1>2, <1>4, <1>6, <1>7, <1>8 DEF SyncHere, SyncAt, HeadMagic, HeadSynced, StateOK,
     EState, UndoPCs, HotPCs, SyncPCs, Writing
<1> QED
  BY <1>3, <1>5, <1>l, <1>10, SyncQuiet

LEMMA SyncDoneSpillSync ==
  ASSUME SyncHyp, Control, Control', SyncOK, NEW c \in Conn, SyncDone(c), pager[c].pg # 0
  PROVE  SyncOK'
<1>1. SyncHere(c)
  BY SyncHereIsSo
<1>2. pager[c].pc = "sync4"
  BY <1>1, PagerFields DEF SyncHere, SyncDone, In, At
<1>3. /\ Types' /\ Rest(c)
      /\ Kept(pager[c], pager'[c], {"journalHdr", "needSync", "ownHdr", "eState", "pc", "nRec",
         "journalOff", "jfd", "mem"})
      /\ pager'[c].eState = "WRITER_DBMOD"
      /\ pager'[c].pc = "spill"
      /\ pager'[c].journalOff = pager[c].journalOff + 1
      /\ pager'[c].journalHdr = pager[c].journalOff
      /\ Wrote(c, pager[c].jfd, pager[c].mem, HeaderSynced(pager[c]), pager[c].journalOff + 1,
           Header(FALSE, 0, pager[c].dbOrigSize, pager[c].id), {Junk})
  BY <1>1, SyncDoneSpill DEF SyncHere
<1>4. /\ pager'[c].eState = "WRITER_DBMOD"
      /\ pager'[c].pc = "spill"
      /\ pager'[c].journalOff = pager[c].journalOff + 1
      /\ pager'[c].journalHdr = pager[c].journalOff
      /\ pager'[c].id = pager[c].id
  BY <1>3 DEF Kept, Fields
<1>5. \A d \in Conn \ {c} : lock'[d] = lock[d]
  BY DEF SyncDone
<1>l. lock[c] # NO_LOCK
  BY <1>1, <1>2, Levels DEF SyncHere, StateOK, EState, UndoPCs, HotPCs, SyncPCs, Writing
<1>6. pager[c].jfd = "real" /\ pager[c].journalOff >= 1 /\ pager[c].eState \in Writing
  BY <1>1, <1>2 DEF SyncHere, SyncAt, StateOK, EState, UndoPCs, HotPCs, SyncPCs, Writing
<1> DEFINE j == HeaderSynced(pager[c])
<1>7. /\ j \in JournalSet /\ j.slot # <<>> /\ j.slot[1].magic
      /\ j.slot[1].nonce = pager[c].id /\ j.alt[1] = {j.slot[1]}
  BY <1>1, <1>2, <1>6, HeaderIsSynced DEF SyncHere
<1>w. Wrote(c, pager[c].jfd, pager[c].mem, j, pager[c].journalOff + 1,
            Header(FALSE, 0, pager[c].dbOrigSize, pager[c].id), {Junk})
  BY <1>3
<1> HIDE DEF j
<1>9. pager[c].journalOff + 1 \in Nat /\ pager[c].journalOff + 1 >= 2
  BY <1>1, <1>6 DEF SyncHere
<1>8. /\ pager'[c].jfd = "real" /\ jrnl'.slot # <<>>
      /\ jrnl'.slot[1] = j.slot[1] /\ jrnl'.alt[1] = j.alt[1]
  BY <1>6, <1>7, <1>9, <1>w, WroteKept
<1>10. SyncAt(c)'
  BY <1>1, <1>2, <1>4, <1>6, <1>7, <1>8 DEF SyncHere, SyncAt, HeadMagic, HeadSynced, StateOK,
     EState, UndoPCs, HotPCs, SyncPCs, Writing
<1> QED
  BY <1>3, <1>5, <1>l, <1>10, SyncQuiet

LEMMA CountJournalledSync ==
  ASSUME SyncHyp, Control, Control', SyncOK, NEW c \in Conn, CountJournalled(c),
         NeedsRecord(pager[c], 1)
  PROVE  SyncOK'
<1>1. SyncHere(c)
  BY SyncHereIsSo
<1>2. pager[c].pc = "count"
  BY <1>1, PagerFields DEF SyncHere, CountJournalled, In, At
<1>3. /\ Types' /\ Rest(c)
      /\ Kept(pager[c], pager'[c], {"pc", "dirty", "cache", "journalOff", "nRec", "inJournal",
         "needSync", "jfd", "mem"})
      /\ pager'[c].pc = "sync2"
      /\ pager'[c].journalOff = pager[c].journalOff + 1
      /\ Wrote(c, (IF pager[c].jfd = "mem" THEN "real" ELSE pager[c].jfd),
         (IF pager[c].jfd = "mem" THEN <<>> ELSE pager[c].mem), (IF pager[c].jfd = "mem"
             THEN createFile(jrnl, pager[c].mem) ELSE jrnl), pager[c].journalOff + 1,
           Record(1, pager[c].cache[1], pager[c].id), {Junk})
  BY <1>1, CountJournalledStep DEF SyncHere
<1>4. /\ pager'[c].eState = pager[c].eState
      /\ pager'[c].pc = "sync2"
      /\ pager'[c].journalOff = pager[c].journalOff + 1
      /\ pager'[c].journalHdr = pager[c].journalHdr
      /\ pager'[c].id = pager[c].id
  BY <1>3 DEF Kept, Fields
<1>5. \A d \in Conn \ {c} : lock'[d] = lock[d]
  BY DEF CountJournalled
<1>l. lock[c] # NO_LOCK
  BY <1>1, <1>2, Levels DEF SyncHere, StateOK, EState, UndoPCs, HotPCs, SyncPCs, Writing
<1>6. pager[c].jfd = "real" /\ pager[c].journalOff + 1 \in Nat /\ pager[c].journalOff >= 1
  BY <1>1, <1>2 DEF SyncHere, SyncAt, StateOK, EState, UndoPCs, HotPCs, SyncPCs, Writing
<1>w. Wrote(c, pager[c].jfd, pager[c].mem, jrnl, pager[c].journalOff + 1, Record(1,
        pager[c].cache[1], pager[c].id), {Junk})
  BY <1>3, <1>6
<1>7. pager'[c].jfd = "real"
  BY <1>w, <1>6, WroteReal
<1>8. jrnl.slot # <<>> =>
        jrnl'.slot # <<>> /\ jrnl'.slot[1] = jrnl.slot[1] /\ jrnl'.alt[1] = jrnl.alt[1]
  BY <1>1, <1>w, <1>6, WroteKept DEF SyncHere
<1>9. SyncAt(c)'
  BY <1>1, <1>2, <1>4, <1>6, <1>7, <1>8 DEF SyncHere, SyncAt, HeadMagic, HeadSynced, StateOK,
     EState, UndoPCs, HotPCs, SyncPCs, Writing
<1> QED
  BY <1>3, <1>5, <1>l, <1>9, SyncQuiet

LEMMA CountJournalledPlainSync ==
  ASSUME SyncHyp, Control, Control', SyncOK, NEW c \in Conn, CountJournalled(c),
         ~NeedsRecord(pager[c], 1)
  PROVE  SyncOK'
<1>1. SyncHere(c)
  BY SyncHereIsSo
<1>2. pager[c].pc = "count"
  BY <1>1, PagerFields DEF SyncHere, CountJournalled, In, At
<1>3. /\ Types' /\ Rest(c)
      /\ Kept(pager[c], pager'[c], {"pc", "dirty", "cache", "jfd", "mem"})
      /\ pager'[c].pc = "sync2"
  BY <1>1, CountJournalledPlain DEF SyncHere
<1>4. /\ pager'[c].eState = pager[c].eState
      /\ pager'[c].pc = "sync2"
      /\ pager'[c].journalOff = pager[c].journalOff
      /\ pager'[c].journalHdr = pager[c].journalHdr
      /\ pager'[c].id = pager[c].id
  BY <1>3 DEF Kept, Fields
<1>5. \A d \in Conn \ {c} : lock'[d] = lock[d]
  BY DEF CountJournalled
<1>6. pager[c].jfd = "real"
  BY <1>1, <1>2 DEF SyncHere, SyncAt, StateOK, EState, UndoPCs, HotPCs, SyncPCs, Writing
<1>7. jrnl' = jrnl /\ pager'[c].jfd = "real"
  <2>1. jrnl' = jrnl
    BY <1>6 DEF CountJournalled
  <2>2. pager'[c].jfd = IF pager[c].jfd = "mem" THEN "real" ELSE pager[c].jfd
    BY <1>1, CountJournalledPlain DEF SyncHere
  <2> QED
    BY <1>6, <2>1, <2>2
<1>8. SyncAt(c)'
  BY <1>1, <1>2, <1>4, <1>6, <1>7 DEF SyncHere, SyncAt, HeadMagic, HeadSynced, StateOK, EState,
     UndoPCs, HotPCs, SyncPCs, Writing
<1> QED
  BY <1>3, <1>5, <1>7, <1>8, SyncQuiet

LEMMA SyncErrorSync ==
  ASSUME SyncHyp, Control, Control', SyncOK, NEW c \in Conn, SyncError(c)
  PROVE  SyncOK'
<1>1. SyncHere(c)
  BY SyncHereIsSo
<1>2. pager[c].pc \in {"sync2", "sync3", "sync4"}
  BY <1>1, PagerFields DEF SyncHere, SyncError, In, At
<1>3. /\ Types' /\ Rest(c)
      /\ \/ jrnl' = jrnl /\ pager'[c].jfd = pager[c].jfd
         \/ Wrote(c, pager[c].jfd, pager[c].mem, jrnl, pager[c].journalHdr + 1,
                  Header(TRUE, pager[c].nRec, pager[c].dbOrigSize, pager[c].id), {})
  BY <1>1, SyncErrorStep DEF SyncHere
<1>4. /\ pager'[c].eState = IF pager[c].pg # 0 THEN "ERROR" ELSE pager[c].eState
      /\ pager'[c].pc = IF pager[c].pg # 0 THEN "idle" ELSE "abort"
      /\ pager'[c].journalOff = pager[c].journalOff
      /\ pager'[c].journalHdr = pager[c].journalHdr
      /\ pager'[c].id = pager[c].id
  BY <1>1, SyncErrorStep DEF SyncHere, Kept, Fields
<1>5. \A d \in Conn \ {c} : lock'[d] = lock[d]
  BY DEF SyncError
<1>l. lock[c] # NO_LOCK
  BY <1>1, <1>2, Levels DEF SyncHere, StateOK, EState, UndoPCs, HotPCs, SyncPCs, Writing
<1>6. pager[c].jfd = "real" /\ pager[c].journalHdr + 1 \in Nat /\ pager[c].journalOff >= 1
  BY <1>1, <1>2 DEF SyncHere, SyncAt, StateOK, EState, UndoPCs, HotPCs, SyncPCs, Writing
<1>7. pager'[c].jfd = "real"
  BY <1>3, <1>6, WroteReal
<1>8. jrnl.slot # <<>> /\ pager[c].journalHdr + 1 >= 2 =>
        jrnl'.slot # <<>> /\ jrnl'.slot[1] = jrnl.slot[1] /\ jrnl'.alt[1] = jrnl.alt[1]
  BY <1>1, <1>3, <1>6, WroteKept DEF SyncHere
<1>9. SyncAt(c)'
  BY <1>1, <1>2, <1>4, <1>6, <1>7, <1>8 DEF SyncHere, SyncAt, HeadMagic, HeadSynced, StateOK,
     EState, UndoPCs, HotPCs, SyncPCs, Writing
<1> QED
  BY <1>3, <1>5, <1>l, <1>9, SyncQuiet

LEMMA CountErrorSync ==
  ASSUME SyncHyp, Control, Control', SyncOK, NEW c \in Conn, CountError(c)
  PROVE  SyncOK'
<1>1. SyncHere(c)
  BY SyncHereIsSo
<1>2. pager[c].pc = "count" /\ lock' = lock
  BY DEF CountError, At
<1>3. /\ lock[c] # NO_LOCK /\ pager[c].eState \in Writing /\ pager[c].jfd = "real"
      /\ pager[c].journalOff >= 1 /\ pager[c].journalOff + 1 \in Nat
         /\ pager[c].journalOff + 1 >= 2
  BY <1>1, <1>2, Levels DEF SyncHere, SyncAt, StateOK, EState, UndoPCs, HotPCs, SyncPCs, Writing
<1>4. /\ Rest(c) /\ pager'[c].pc = "abort" /\ pager'[c].eState = pager[c].eState
      /\ pager'[c].journalOff = pager[c].journalOff /\ pager'[c].journalHdr = pager[c].journalHdr
      /\ pager'[c].id = pager[c].id
      /\ Cut(c, pager[c].jfd, pager[c].mem, jrnl, pager[c].journalOff + 1)
  <2>1. CountError(c)
    OBVIOUS
  <2> QED
    BY <1>1, <1>3, <2>1, CountErrorStep DEF SyncHere, Kept, Fields
<1>7. pager'[c].jfd = "real"
  BY <1>3, <1>4, WroteReal
<1>8. jrnl.slot # <<>> =>
        jrnl'.slot # <<>> /\ jrnl'.slot[1] = jrnl.slot[1] /\ jrnl'.alt[1] = jrnl.alt[1]
  BY <1>1, <1>3, <1>4, WroteKept DEF SyncHere
<1>9. SyncAt(c)'
  BY <1>1, <1>2, <1>3, <1>4, <1>7, <1>8 DEF SyncHere, SyncAt, HeadMagic, HeadSynced, StateOK,
     EState, UndoPCs, HotPCs, SyncPCs, Writing
<1> QED
  BY <1>2, <1>3, <1>4, <1>9, SyncQuiet

LEMMA OpenErrorSync ==
  ASSUME SyncHyp, Control, Control', SyncOK, NEW c \in Conn, OpenError(c)
  PROVE  SyncOK'
<1>1. SyncHere(c)
  BY SyncHereIsSo
<1>2. pager[c].pc = "open" /\ lock' = lock
  BY DEF OpenError, At
<1>3. /\ lock[c] # NO_LOCK /\ pager[c].eState = "WRITER_LOCKED" /\ pager[c].jfd \in {"closed",
         "real"}
  BY <1>1, <1>2, Levels DEF SyncHere, SyncAt, StateOK, EState, UndoPCs, HotPCs, SyncPCs, Writing
<1>4. /\ Rest(c) /\ pager'[c].pc = "abort" /\ pager'[c].eState = pager[c].eState
      /\ \/ pager'[c].jfd = pager[c].jfd
         \/ Cut(c, IF pager[c].jfd = "closed" THEN "real" ELSE pager[c].jfd, pager[c].mem, jrnl,
            1)
  <2>1. OpenError(c)
    OBVIOUS
  <2> QED
    BY <1>1, <1>3, <2>1, OpenErrorStep DEF SyncHere, Kept, Fields
<1>5. pager'[c].jfd \in {"closed", "real"}
  BY <1>3, <1>4 DEF Cut
<1>6. SyncAt(c)'
  BY <1>3, <1>4, <1>5 DEF SyncAt, Writing
<1> QED
  BY <1>2, <1>3, <1>4, <1>6, SyncQuiet

LEMMA HotReopenSync ==
  ASSUME SyncHyp, Control, Control', SyncOK, NEW c \in Conn, HotReopen(c)
  PROVE  SyncOK'
<1>1. SyncHere(c)
  BY SyncHereIsSo
<1>2. /\ pager[c].pc = "hot5" /\ pager[c].eState = "OPEN" /\ lock[c] # NO_LOCK
      /\ pager[c].jfd = "closed"
  BY <1>1, Levels DEF SyncHere, HotReopen, At, StateOK, EState, UndoPCs, HotPCs, SyncPCs, Writing
<1>3. CASE jrnl.exists
  <2>1. /\ Rest(c) /\ Kept(pager[c], pager'[c], {"pc", "jfd", "journalHdr"})
           /\ pager'[c].jfd = "real"
    BY <1>1, <1>3, HotReopenFound DEF SyncHere
  <2>2. pager'[c].eState = "OPEN"
    BY <1>2, <2>1 DEF Kept, Fields
  <2>3. lock' = lock
    BY <1>3 DEF HotReopen
  <2>4. SyncAt(c)'
    BY <2>1, <2>2 DEF SyncAt, Writing
  <2> QED
    BY <1>2, <2>1, <2>3, <2>4, SyncQuiet
<1>4. CASE ~jrnl.exists
  <2>1. Goto(c, "vers") /\ lock' = [lock EXCEPT ![c] = SHARED_LOCK]
    BY <1>4 DEF HotReopen
  <2>2. lock' \in [Conn -> 0..4] /\ faults' \in Nat /\ "vers" \in PCs
        /\ UNCHANGED <<disk, txid>>
    BY <1>1, <1>4, Levels DEF SyncHere, Types, PCs, HotPCs, HotReopen, disk
  <2>3. Rest(c) /\ Kept(pager[c], pager'[c], {"pc"})
    BY <1>1, <2>1, <2>2, GotoTypes DEF SyncHere
  <2>4. /\ pager'[c].eState = "OPEN" /\ pager'[c].jfd = "closed"
        /\ \A d \in Conn \ {c} : lock'[d] = lock[d]
    BY <1>1, <1>2, <2>1, <2>3 DEF SyncHere, Kept, Fields, Types
  <2>5. SyncAt(c)'
    BY <2>4 DEF SyncAt, Writing
  <2> QED
    BY <1>2, <2>3, <2>4, <2>5, SyncQuiet
<1> QED
  BY <1>3, <1>4

LEMMA CommitBusySync ==
  ASSUME SyncHyp, Control, Control', SyncOK, NEW c \in Conn, CommitBusy(c)
  PROVE  SyncOK'
<1>1. SyncHere(c)
  BY SyncHereIsSo
<1>2. pager' = pager /\ ExclusiveBusy(c) /\ jrnl' = jrnl
  BY DEF CommitBusy, disk
<1>3. \A d \in Conn \ {c} : lock'[d] = lock[d]
  BY <1>1, <1>2, ExclusiveBusyLock DEF SyncHere
<1>4. Rest(c)
  BY <1>1, <1>2, PagerFields DEF SyncHere, Rest
<1>5. SyncAt(c)'
  BY <1>1, <1>2 DEF SyncHere, SyncAt, HeadMagic, HeadSynced
<1> QED
  BY <1>2, <1>3, <1>4, <1>5, SyncQuiet

LEMMA UnlockingSync ==
  ASSUME SyncHyp, Control, Control', SyncOK, NEW c \in Conn,
         \/ HotGiveUp(c) \/ EndRead(c) \/ SharedLockError(c) \/ ErrorUnlock(c)
         \/ PlaybackError(c) /\ pager[c].eState = "OPEN"
  PROVE  SyncOK'
<1>1. Types /\ faults \in Nat
  BY DEF Control, Types
<1>2. UNCHANGED <<disk, txid>> /\ jrnl' = jrnl
  BY DEF HotGiveUp, EndRead, SharedLockError, ErrorUnlock, PlaybackError, disk
<1>3. faults' \in Nat
  <2>1. faults' = faults \/ faults' = faults + 1
    BY DEF HotGiveUp, EndRead, SharedLockError, ErrorUnlock, PlaybackError, Fault
  <2> QED
    BY <1>1, <2>1
<1>4. Unlocked(c, TRUE) \/ Unlocked(c, FALSE) \/ Unlocked(c, At(c, "hot5"))
  BY DEF HotGiveUp, EndRead, SharedLockError, ErrorUnlock, PlaybackError
<1>5. At(c, "hot5") \in BOOLEAN
  BY DEF At
<1>6. ASSUME NEW reset \in BOOLEAN, Unlocked(c, reset) PROVE SyncOK'
  <2>1. /\ Rest(c) /\ pager'[c].eState = "OPEN" /\ pager'[c].jfd = "closed"
        /\ lock' = [lock EXCEPT ![c] = NO_LOCK]
    BY <1>1, <1>2, <1>3, <1>6, UnlockedTypes
  <2>2. \A d \in Conn \ {c} : lock'[d] = lock[d]
    BY <1>1, <2>1 DEF Types
  <2>3. SyncAt(c)'
    BY <2>1 DEF SyncAt, Writing
  <2> QED
    BY <1>2, <2>1, <2>2, <2>3, SyncQuiet
<1> QED
  BY <1>4, <1>5, <1>6

LEMMA HotDeleteSync ==
  ASSUME SyncHyp, Control, Control', SyncOK, NEW c \in Conn, HotDelete(c)
  PROVE  SyncOK'
<1>1. SyncHere(c)
  BY SyncHereIsSo
<1>2. /\ pager[c].pc = "hot3" /\ lock' = lock /\ lock[c] = SHARED_LOCK
      /\ pager[c].eState = "OPEN" /\ pager[c].jfd = "closed"
  BY <1>1 DEF SyncHere, HotDelete, At, StateOK, EState, UndoPCs, HotPCs, SyncPCs, Writing
<1>3. /\ Severed(c) /\ Kept(pager[c], pager'[c], {"pc"})
  BY <1>1, HotDeleteStep DEF SyncHere
<1>4. pager'[c].eState = "OPEN" /\ pager'[c].jfd = "closed"
  BY <1>2, <1>3 DEF Kept, Fields
<1>5. SyncAt(c)'
  BY <1>4 DEF SyncAt, Writing
<1>6. CASE MayLock(c, RESERVED_LOCK)
  <2>1. ASSUME NEW d \in Conn \ {c} PROVE ~Owner(d)
    <3>1. lock[d] # EXCLUSIVE_LOCK /\ lock[d] \in 0..4
      BY <1>1, <1>2, Levels DEF SyncHere, LocksOK, Types
    <3>2. ~HasReserved(d) \/ lock[d] = NO_LOCK
      BY <1>6, Levels DEF MayLock
    <3> QED
      BY <3>1, <3>2, Levels DEF Owner, HasReserved, At
  <2> QED
    BY <1>2, <1>3, <1>5, <2>1, Levels, SyncFrame
<1>7. CASE ~MayLock(c, RESERVED_LOCK)
  <2>1. jrnl' = jrnl
    BY <1>7 DEF HotDelete
  <2>2. Rest(c)
    BY <1>3, <2>1, SeveredRest
  <2> QED
    BY <1>2, <1>5, <2>1, <2>2, SyncQuiet
<1> QED
  BY <1>6, <1>7

LEMMA FinalizeSync ==
  ASSUME SyncHyp, Control, Control', SyncOK, NEW c \in Conn, Finalize(c)
  PROVE  SyncOK'
<1>1. SyncHere(c)
  BY SyncHereIsSo
<1>2. pager[c].pc = "final" /\ lock' = lock
  BY DEF Finalize, At
<1>3. /\ Severed(c) /\ Kept(pager[c], pager'[c], {"pc", "mem"}) /\ pager'[c].pc = "unlock"
  BY <1>1, FinalizeStep DEF SyncHere
<1>4. /\ pager'[c].eState = pager[c].eState /\ pager'[c].jfd = pager[c].jfd
      /\ pager'[c].journalHdr = pager[c].journalHdr
  BY <1>3 DEF Kept, Fields
<1>5. SyncAt(c)'
  BY <1>1, <1>3, <1>4 DEF SyncHere, SyncAt, Writing, UndoPCs
<1>6. lock[c] # NO_LOCK /\ \A d \in Conn \ {c} : ~Owner(d)
  <2>1. pager[c].pc \in UndoPCs
    BY <1>2 DEF UndoPCs
  <2>2. Owner(c) /\ lock[c] >= SHARED_LOCK
    BY <2>1, UndoLock
  <2> QED
    BY <1>1, <2>2, Levels DEF SyncHere, LocksOK
<1> QED
  BY <1>2, <1>3, <1>5, <1>6, SyncFrame

LEMMA FinalizeErrorSync ==
  ASSUME SyncHyp, Control, Control', SyncOK, NEW c \in Conn, FinalizeError(c)
  PROVE  SyncOK'
<1>1. SyncHere(c)
  BY SyncHereIsSo
<1>2. pager[c].pc = "final"
      /\ lock' = [lock EXCEPT ![c] = IF pager[c].eState = "OPEN" THEN NO_LOCK ELSE SHARED_LOCK]
  BY DEF FinalizeError, At
<1>3. /\ Severed(c)
      /\ pager'[c] = IF pager[c].eState = "OPEN" THEN Closed(pager[c], TRUE)
                     ELSE InError(pager[c])
  BY <1>1, FinalizeErrorStep DEF SyncHere
<1>4. pager'[c].eState = "ERROR" \/ (pager'[c].eState = "OPEN" /\ pager'[c].jfd = "closed")
  <2>0. PagerOK(pager[c])
    BY <1>1 DEF SyncHere, Types
  <2>1. ASSUME NEW reset \in BOOLEAN
        PROVE  Closed(pager[c], reset).eState = "OPEN" /\ Closed(pager[c], reset).jfd = "closed"
    BY <2>0, ClosedFields
  <2>2. InError(pager[c]).eState = "ERROR"
    BY <2>0, InErrorFields
  <2> QED
    BY <1>3, <2>1, <2>2
<1>5. SyncAt(c)'
  BY <1>4 DEF SyncAt, Writing
<1>6. lock[c] # NO_LOCK /\ \A d \in Conn \ {c} : ~Owner(d)
  <2>1. pager[c].pc \in UndoPCs
    BY <1>2 DEF UndoPCs
  <2>2. Owner(c) /\ lock[c] >= SHARED_LOCK
    BY <2>1, UndoLock
  <2> QED
    BY <1>1, <2>2, Levels DEF SyncHere, LocksOK
<1>7. \A d \in Conn \ {c} : lock'[d] = lock[d]
  BY <1>1, <1>2 DEF SyncHere, Types
<1> QED
  BY <1>3, <1>5, <1>6, <1>7, SyncFrame

LEMMA RestartedSync ==
  ASSUME Types, NEW c \in Conn, pager'[c] = Restarted(pager[c])
  PROVE  SyncAt(c)'
<1>1. PagerOK(pager[c])
  BY DEF Types
<1>2. pager'[c].eState = "OPEN" /\ pager'[c].jfd = "closed"
  BY <1>1, RestartedFields DEF PagerOK
<1> QED
  BY <1>2 DEF SyncAt, Writing

LEMMA CrashSync ==
  ASSUME Control, SyncOK, NEW c \in Conn, Crash(c)
  PROVE  SyncOK'
<1>1. Types
  BY DEF Control
<1>2. /\ \A d \in Conn : pager'[d] = Restarted(pager[d]) \/ pager'[d] = pager[d]
      /\ jrnl' = jrnl
  BY <1>1, CrashStep DEF disk
<1>3. ASSUME NEW d \in Conn PROVE SyncAt(d)'
  <2>1. CASE pager'[d] = Restarted(pager[d])
    BY <1>1, <2>1, RestartedSync
  <2>2. CASE pager'[d] = pager[d]
    BY <1>2, <2>2 DEF SyncOK, SyncAt, HeadMagic, HeadSynced
  <2> QED
    BY <1>2, <2>1, <2>2
<1> QED
  BY <1>3 DEF SyncOK

LEMMA PowerLossSync ==
  ASSUME Control, PowerLoss
  PROVE  SyncOK'
<1>1. Types
  BY DEF Control
<1>2. \A d \in Conn : pager'[d] = Restarted(pager[d])
  BY <1>1, PowerLossStep
<1> QED
  BY <1>1, <1>2, RestartedSync DEF SyncOK

LEMMA InitSync ==
  ASSUME Init
  PROVE  SyncOK
<1>1. lock = [c \in Conn |-> NO_LOCK] /\ Control
  BY InitControl DEF Init
<1>2. ASSUME NEW c \in Conn PROVE SyncAt(c)
  <2>1. /\ StateOK(pager[c], lock[c]) /\ lock[c] = NO_LOCK /\ pager[c].eState \in EState
    BY <1>1, ControlHere
  <2>2. pager[c].eState = "OPEN" /\ pager[c].jfd = "closed"
    BY <2>1, Levels DEF StateOK, EState, UndoPCs, HotPCs, SyncPCs
  <2> QED
    BY <2>2 DEF SyncAt, Writing
<1> QED
  BY <1>2 DEF SyncOK

LEMMA ConnSync ==
  ASSUME SyncHyp, Control, Control', SyncOK, NEW c \in Conn,
         Read(c) \/ Modify(c) \/ Sync(c) \/ EndWrite(c) \/ Undo(c) \/ IoError(c) \/ Crash(c)
  PROVE  SyncOK'
<1>1. CASE Read(c)
  BY <1>1, SharedLockSync, HotAccessSync, HotReservedSync, HotOpenSync, HotDeleteSync,
     HotExclusiveSync, HotBusySync, UnlockingSync, HotReopenSync, CheckVersionSync, AcquireSync
     DEF Read, HotPageCount
<1>2. CASE Modify(c)
  BY <1>2, BeginSync, ReserveSync, ReserveBusySync, OpenJournalSync, pager_writeSync,
     pager_writePlainSync, WriteOpenSync, WriteMoreSync, SpillSync DEF Modify
<1>3. CASE Sync(c)
  BY <1>3, SyncLockSync, SyncBusySync, SyncRecordsSync, SyncHeaderSync, SyncDoneSpillSync,
     SyncDoneCommitSync, SpillWriteSync DEF Sync
<1>4. CASE EndWrite(c)
  BY <1>4, CommitSync, CommitBusySync, CountDirectSync, CountJournalledSync,
     CountJournalledPlainSync, WritePagesSync, SyncDatabaseSync, CommitPhaseTwoSync, FinalizeSync,
     EndTransactionSync DEF EndWrite
<1>5. CASE Undo(c)
  BY <1>5, RollbackSync, PlaybackHeaderSync, PlaybackStopSync, PlaybackRecordSync,
     PlaybackBadRecordSync, PlaybackDoneSync DEF Undo
<1>6. CASE IoError(c)
  BY <1>6, UnlockingSync, OpenErrorSync, RecordErrorSync, SyncErrorSync, NewHeaderErrorSync,
     CountErrorSync, CountDirectErrorSync, SpillErrorSync, WritePagesErrorSync,
     SyncDatabaseErrorSync, PlaybackErrorOwnSync, FinalizeErrorSync DEF IoError
<1>7. CASE Crash(c)
  BY <1>7, CrashSync
<1> QED
  BY <1>1, <1>2, <1>3, <1>4, <1>5, <1>6, <1>7

LEMMA SyncNext ==
  ASSUME SyncHyp, Control, Control', SyncOK, [Next]_vars
  PROVE  SyncOK'
<1>1. CASE Next
  BY <1>1, ConnSync, PowerLossSync DEF Next
<1>2. CASE UNCHANGED vars
  BY <1>2 DEF vars, SyncOK, SyncAt, HeadMagic, HeadSynced
<1> QED
  BY <1>1, <1>2

\* What pager.c says of WRITER_DBMOD: before the database file is modified the first header of
\* the journal is written and synced, whoever interleaves, fails or crashes.
THEOREM JournalFirst ==
  ASSUME SyncHyp
  PROVE  Spec => []JournalSyncedFirst
<1>1. Init => Control /\ SyncOK
  BY InitControl, InitSync
<1>2. Control /\ SyncOK /\ [Next]_vars => Control' /\ SyncOK'
  BY ControlNext, SyncNext
<1>3. ASSUME Control, SyncOK, NEW c \in Conn, In(c, {"WRITER_DBMOD"})
      PROVE  pager[c].jfd = "real" /\ \A h \in jrnl.alt[1] : h.magic /\ h.nonce = pager[c].id
  <2>1. StateOK(pager[c], lock[c]) /\ SyncAt(c)
    BY <1>3, ControlHere DEF SyncOK
  <2> QED
    BY <1>3, <2>1 DEF In, At, SyncAt, StateOK, HeadMagic, HeadSynced, UndoPCs
<1>4. Control /\ SyncOK => JournalSyncedFirst
  BY <1>3 DEF JournalSyncedFirst
<1> QED
  BY <1>1, <1>2, <1>4, PTL DEF Spec

=============================================================================
