------------------------- MODULE TransactionsProofs -------------------------
(***************************************************************************)
(* Proofs about the modules of the run Transactions.  MasterJournal: a     *)
(* transaction in several files is committed in all of them or in none,    *)
(* for every number of files, of processes, of transactions and of faults. *)
(* Backup: the destination of a backup that is done is the source as one   *)
(* read transaction sees it, for every number of pages, of transactions    *)
(* and of faults.  BtreePages: no page whose content a rollback needs is   *)
(* handed out unread, for every number of pages and layout of the file.    *)
(***************************************************************************)
EXTENDS Transactions, SequenceTheorems, WellFoundedInduction, TLAPS

-----------------------------------------------------------------------------
\* Types.

Value == Nat \cup {Torn}
JournalType == [open : BOOLEAN, orig : Value, master : 0 .. MaxTxn]
MasterType == {{}, File}

Ats == {"idle", "playback", "sync", "end", "delmaster", "children", "write",
        "commit", "master", "name", "syncJournal", "pages", "syncDb", "delete", "two"}
PcType == [at : Ats, txn : 0 .. MaxTxn, f : File, master : 0 .. MaxTxn, left : SUBSET File]
LockType == {NO_LOCK, SHARED_LOCK, RESERVED_LOCK, EXCLUSIVE_LOCK}

DiskType == [db : [File -> Value], journal : [File -> JournalType],
             master : [1 .. MaxTxn -> MasterType]]
MayType == [db : [File -> SUBSET Value], journal : [File -> SUBSET JournalType],
            master : [1 .. MaxTxn -> SUBSET MasterType]]

TypeOK ==
  /\ disk \in DiskType
  /\ may \in MayType
  /\ lock \in [File -> [Proc -> LockType]]
  /\ pc \in [Proc -> PcType]
  /\ txn \in 0 .. MaxTxn
  /\ done \in Nat

\* What is shown may survive.
Shown ==
  /\ \A f \in File : disk.db[f] \in may.db[f] /\ disk.journal[f] \in may.journal[f]
  /\ \A t \in 1 .. MaxTxn : disk.master[t] \in may.master[t]

-----------------------------------------------------------------------------
(***************************************************************************)
(* The files.  v is the last committed transaction.  A file is stable when *)
(* it holds v whatever survives, and protected when it is rolled back to v *)
(* whatever survives.  A journal is cold when its master journal is gone   *)
(* for good, and restores for sure when it has none or one that stays.     *)
(***************************************************************************)
Sure(m) == m = None \/ may.master[m] = {File}
Cold(m) == m # None /\ may.master[m] = {{}}

Stable(f, v) ==
  /\ may.db[f] = {v}
  /\ \A j \in may.journal[f] : j.open => j.orig = v \/ Cold(j.master)

Protected(f, v) ==
  \A j \in may.journal[f] :
    /\ j.open /\ j.orig = v /\ Sure(j.master)
    /\ j.master # None => j = disk.journal[f]

FileOK(f, v) == Stable(f, v) \/ Protected(f, v)

\* No journal names a master journal of a transaction still to come.
NamesKnown == \A f \in File : \A j \in may.journal[f] : j.master <= txn

-----------------------------------------------------------------------------
\* The locks: the rules of os.h, and who reads or has reserved a file leaves it stable.

LocksOK(v) ==
  \A f \in File, p \in Proc :
    /\ lock[f][p] = EXCLUSIVE_LOCK => \A q \in Proc \ {p} : lock[f][q] = NO_LOCK
    /\ lock[f][p] = RESERVED_LOCK =>
         \A q \in Proc \ {p} : lock[f][q] \in {NO_LOCK, SHARED_LOCK}
    /\ lock[f][p] \in {SHARED_LOCK, RESERVED_LOCK} => Stable(f, v)

\* The files a process has for itself.
CommitAts == {"commit", "master", "name", "syncJournal", "pages", "syncDb", "delete"}
Working(p, g) ==
  \/ pc[p].at = "write" /\ g < pc[p].f
  \/ pc[p].at \in CommitAts
  \/ pc[p].at = "two" /\ g >= pc[p].f
  \/ pc[p].at \in {"playback", "sync", "end"} /\ g = pc[p].f
  \/ /\ pc[p].at \in {"playback", "sync", "end", "delmaster", "children"}
     /\ pc[p].txn > 0 /\ g > pc[p].f

Reserved(p, g) == lock[g][p] \in {RESERVED_LOCK, EXCLUSIVE_LOCK}

-----------------------------------------------------------------------------
\* The processes, by where they are.

Fresh(t) == \A f \in File : \A j \in may.journal[f] : j.master # t

\* File g is written and synced, its journal names the transaction.
WrittenTo(p, g, v) ==
  may.db[g] = {pc[p].txn} /\ may.journal[g] = {Journal(v, pc[p].txn)}

Untouched(g, v) == disk.journal[g] = Journal(v, None)

Begun(p, v) ==
  /\ pc[p].at \in CommitAts \cup {"write"} => v < pc[p].txn /\ pc[p].txn <= txn
  /\ pc[p].at \in {"write", "commit", "master"} => Fresh(pc[p].txn)
  /\ pc[p].at = "write" =>
       /\ pc[p].f > 1
       /\ \A g \in File : IF g < pc[p].f THEN Untouched(g, v) ELSE lock[g][p] = SHARED_LOCK
  /\ pc[p].at \in {"commit", "master"} => pc[p].f = 1 /\ \A g \in File : Untouched(g, v)

Committing(p, v) ==
  /\ pc[p].at \in CommitAts \ {"commit"} => \A g \in File : lock[g][p] = EXCLUSIVE_LOCK
  /\ pc[p].at = "master" => disk.master[pc[p].txn] = File
  /\ pc[p].at \in {"name", "syncJournal", "pages", "syncDb", "delete"} =>
       may.master[pc[p].txn] = {File}
  /\ pc[p].at \in {"name", "syncJournal", "pages", "syncDb"} =>
       \A g \in File : /\ g < pc[p].f => WrittenTo(p, g, v)
                       /\ g > pc[p].f => Untouched(g, v)
  /\ pc[p].at = "name" => Untouched(pc[p].f, v)
  /\ pc[p].at = "syncJournal" => disk.journal[pc[p].f] = Journal(v, pc[p].txn)
  /\ pc[p].at \in {"pages", "syncDb"} => may.journal[pc[p].f] = {Journal(v, pc[p].txn)}
  /\ pc[p].at = "syncDb" => disk.db[pc[p].f] = pc[p].txn
  /\ pc[p].at = "delete" => pc[p].f = 1 /\ \A g \in File : WrittenTo(p, g, v)
  /\ pc[p].at = "two" =>
       /\ v = pc[p].txn
       /\ \A g \in File : g >= pc[p].f => lock[g][p] = EXCLUSIVE_LOCK /\ Stable(g, v)

Restoring(p, v) ==
  /\ pc[p].at \in {"playback", "sync", "end", "delmaster", "children"} =>
       \A g \in File : Working(p, g) => disk.journal[g].open
  /\ pc[p].at \in {"delmaster", "children"} =>
       lock[pc[p].f][p] = SHARED_LOCK /\ pc[p].master # None
  /\ pc[p].at = "sync" => disk.db[pc[p].f] = v
  /\ pc[p].at = "end" => Stable(pc[p].f, v)
  /\ pc[p].at = "children" =>
       \A g \in File \ pc[p].left : ~NamesMaster(g, pc[p].master)

ProcOK(p, v) ==
  /\ \A g \in File : Reserved(p, g) <=> Working(p, g)
  /\ Begun(p, v) /\ Committing(p, v) /\ Restoring(p, v)

Inv(v) ==
  /\ \A f \in File : FileOK(f, v)
  /\ done <= v /\ v <= txn
  /\ LocksOK(v)
  /\ \A p \in Proc : ProcOK(p, v)

All(v) == TypeOK /\ Shown /\ NamesKnown /\ Inv(v)

\* The inductive invariant.
IInv == \E v \in 0 .. MaxTxn : All(v)

-----------------------------------------------------------------------------
\* What the steps of the model change, field by field.

NFileOK == NFile \in Nat \ {0} /\ MaxTxn \in Nat

SameFile(g) ==
  /\ disk'.db[g] = disk.db[g] /\ disk'.journal[g] = disk.journal[g]
  /\ may'.db[g] = may.db[g] /\ may'.journal[g] = may.journal[g]

SameMaster(m) == disk'.master[m] = disk.master[m] /\ may'.master[m] = may.master[m]

DbEffect(f, d, D) ==
  /\ disk' \in DiskType /\ may' \in MayType
  /\ disk'.db[f] = d /\ may'.db[f] = D
  /\ disk'.journal[f] = disk.journal[f] /\ may'.journal[f] = may.journal[f]
  /\ \A g \in File \ {f} : SameFile(g)
  /\ \A m \in 1 .. MaxTxn : SameMaster(m)

JournalEffect(f, j, J) ==
  /\ disk' \in DiskType /\ may' \in MayType
  /\ disk'.journal[f] = j /\ may'.journal[f] = J
  /\ disk'.db[f] = disk.db[f] /\ may'.db[f] = may.db[f]
  /\ \A g \in File \ {f} : SameFile(g)
  /\ \A m \in 1 .. MaxTxn : SameMaster(m)

MasterEffect(m, x, X) ==
  /\ disk' \in DiskType /\ may' \in MayType
  /\ disk'.master[m] = x /\ may'.master[m] = X
  /\ \A g \in File : SameFile(g)
  /\ \A n \in (1 .. MaxTxn) \ {m} : SameMaster(n)

LEMMA DbChange ==
  ASSUME TypeOK, NEW f \in File, NEW d \in Value, NEW D \in SUBSET Value,
         disk' = [disk EXCEPT !["db"][f] = d], may' = [may EXCEPT !["db"][f] = D]
  PROVE  DbEffect(f, d, D)
<1>1. /\ disk' \in DiskType /\ disk'.db[f] = d /\ disk'.journal = disk.journal
      /\ disk'.master = disk.master /\ \A g \in File \ {f} : disk'.db[g] = disk.db[g]
  BY DEF TypeOK, DiskType
<1>2. /\ may' \in MayType /\ may'.db[f] = D /\ may'.journal = may.journal
      /\ may'.master = may.master /\ \A g \in File \ {f} : may'.db[g] = may.db[g]
  BY DEF TypeOK, MayType
<1> QED
  BY <1>1, <1>2 DEF DbEffect, SameFile, SameMaster

LEMMA JournalChange ==
  ASSUME TypeOK, NEW f \in File, NEW j \in JournalType, NEW J \in SUBSET JournalType,
         disk' = [disk EXCEPT !["journal"][f] = j], may' = [may EXCEPT !["journal"][f] = J]
  PROVE  JournalEffect(f, j, J)
<1>1. /\ disk' \in DiskType /\ disk'.journal[f] = j /\ disk'.db = disk.db
      /\ disk'.master = disk.master /\ \A g \in File \ {f} : disk'.journal[g] = disk.journal[g]
  BY DEF TypeOK, DiskType
<1>2. /\ may' \in MayType /\ may'.journal[f] = J /\ may'.db = may.db
      /\ may'.master = may.master /\ \A g \in File \ {f} : may'.journal[g] = may.journal[g]
  BY DEF TypeOK, MayType
<1> QED
  BY <1>1, <1>2 DEF JournalEffect, SameFile, SameMaster

LEMMA MasterChange ==
  ASSUME TypeOK, NEW m \in 1 .. MaxTxn, NEW x \in MasterType, NEW X \in SUBSET MasterType,
         disk' = [disk EXCEPT !["master"][m] = x], may' = [may EXCEPT !["master"][m] = X]
  PROVE  MasterEffect(m, x, X)
<1>1. /\ disk' \in DiskType /\ disk'.master[m] = x /\ disk'.db = disk.db
      /\ disk'.journal = disk.journal
      /\ \A n \in (1 .. MaxTxn) \ {m} : disk'.master[n] = disk.master[n]
  BY DEF TypeOK, DiskType
<1>2. /\ may' \in MayType /\ may'.master[m] = X /\ may'.db = may.db
      /\ may'.journal = may.journal
      /\ \A n \in (1 .. MaxTxn) \ {m} : may'.master[n] = may.master[n]
  BY DEF TypeOK, MayType
<1> QED
  BY <1>1, <1>2 DEF MasterEffect, SameFile, SameMaster

\* The sync of a file: what is shown does not change.
LEMMA NoDiskChange ==
  ASSUME TypeOK, NEW f \in File, NEW m \in 1 .. MaxTxn
  PROVE  /\ disk = [disk EXCEPT !["db"][f] = disk.db[f]]
         /\ disk = [disk EXCEPT !["journal"][f] = disk.journal[f]]
         /\ disk = [disk EXCEPT !["master"][m] = disk.master[m]]
BY DEF TypeOK, DiskType

LockEffect(p, f, l) ==
  /\ lock' \in [File -> [Proc -> LockType]]
  /\ lock'[f][p] = l
  /\ \A g \in File, q \in Proc : g # f \/ q # p => lock'[g][q] = lock[g][q]

LEMMA LockChange ==
  ASSUME TypeOK, NEW f \in File, NEW p \in Proc, NEW l \in LockType, SetLock(p, f, l)
  PROVE  LockEffect(p, f, l)
BY DEF TypeOK, SetLock, LockEffect

PcEffect(p, r) ==
  /\ pc' \in [Proc -> PcType] /\ pc'[p] = r
  /\ \A q \in Proc \ {p} : pc'[q] = pc[q]

LEMMA PcChange ==
  ASSUME TypeOK, NEW p \in Proc, NEW r \in PcType, pc' = [pc EXCEPT ![p] = r]
  PROVE  PcEffect(p, r)
BY DEF TypeOK, PcEffect

LEMMA GotoChange ==
  ASSUME TypeOK, NEW p \in Proc, NEW at \in Ats, Goto(p, at)
  PROVE  PcEffect(p, [pc[p] EXCEPT !.at = at])
<1>1. pc[p] \in PcType
  BY DEF TypeOK
<1>2. [pc[p] EXCEPT !.at = at] \in PcType
  BY <1>1 DEF PcType
<1>3. pc' = [pc EXCEPT ![p] = [pc[p] EXCEPT !.at = at]]
  BY DEF Goto, TypeOK
<1> QED
  BY <1>2, <1>3, PcChange

-----------------------------------------------------------------------------
LEMMA LockRules ==
  ASSUME NEW f, NEW p \in Proc
  PROVE  /\ Locks(f)!MayHold(p, SHARED_LOCK) <=> \A q \in Proc \ {p} : lock[f][q] < 3
         /\ Locks(f)!MayHold(p, RESERVED_LOCK) <=> \A q \in Proc \ {p} : lock[f][q] < 2
         /\ Locks(f)!MayHold(p, EXCLUSIVE_LOCK) <=> \A q \in Proc \ {p} : lock[f][q] = 0
BY DEF Locks!MayHold, Locks!Others, Locks!SHARED_LOCK, Locks!RESERVED_LOCK,
   Locks!PENDING_LOCK, Locks!EXCLUSIVE_LOCK, Locks!NO_LOCK, SHARED_LOCK,
   RESERVED_LOCK, EXCLUSIVE_LOCK

-----------------------------------------------------------------------------
\* What a step of one process leaves true of the files and of the others.

ColdKept ==
  \A g \in File : \A j \in may.journal[g] : Cold(j.master) => Cold(j.master)'

LEMMA StableKept ==
  ASSUME NEW g \in File, NEW v, SameFile(g), ColdKept, Stable(g, v)
  PROVE  Stable(g, v)'
BY DEF Stable, SameFile, ColdKept

LEMMA ProtectedKept ==
  ASSUME NEW g \in File, NEW v, SameFile(g), Protected(g, v),
         \A j \in may.journal[g] : Sure(j.master) => Sure(j.master)'
  PROVE  Protected(g, v)'
BY DEF Protected, SameFile

Undisturbed(q) ==
  /\ pc'[q] = pc[q] /\ \A g \in File : lock'[g][q] = lock[g][q]
  /\ \A g \in File : Reserved(q, g) => SameFile(g)
  /\ ColdKept
  /\ pc[q].at \in CommitAts \ {"commit"} => SameMaster(pc[q].txn)
  /\ pc[q].at \in {"write", "commit", "master"} => Fresh(pc[q].txn)'
  /\ pc[q].at = "children" =>
       \A g \in File : NamesMaster(g, pc[q].master)' => NamesMaster(g, pc[q].master)
  /\ txn <= txn'

LEMMA OtherProc ==
  ASSUME NFileOK, TypeOK, TypeOK', NEW v \in 0 .. MaxTxn, NEW q \in Proc,
         ProcOK(q, v), Undisturbed(q)
  PROVE  ProcOK(q, v)'
<1>1. /\ pc[q] \in PcType /\ pc'[q] = pc[q]
      /\ \A g \in File : lock'[g][q] = lock[g][q]
  BY DEF TypeOK, Undisturbed
<1>2. \A g \in File : (Working(q, g)' <=> Working(q, g)) /\ (Reserved(q, g)' <=> Reserved(q, g))
  BY <1>1 DEF Working, Reserved
<1>3. \A g \in File : Reserved(q, g)' <=> Working(q, g)'
  BY <1>2 DEF ProcOK
<1>4. \A g \in File : Working(q, g) => SameFile(g)
  BY DEF ProcOK, Undisturbed
<1>5. pc[q].f \in File /\ pc[q].txn \in 0 .. MaxTxn /\ txn \in Int /\ txn' \in Int /\ txn <= txn'
  BY <1>1 DEF TypeOK, PcType, Undisturbed
<1>6. Begun(q, v)'
  <2>1. pc[q].at \in CommitAts \cup {"write"} => v < pc[q].txn /\ pc[q].txn <= txn'
    BY <1>5 DEF ProcOK, Begun
  <2>2. pc[q].at \in {"write", "commit", "master"} => Fresh(pc[q].txn)'
    BY DEF Undisturbed
  <2>3. ASSUME pc[q].at = "write"
        PROVE  /\ pc[q].f > 1
               /\ \A g \in File : IF g < pc[q].f THEN Untouched(g, v)' ELSE lock'[g][q] = SHARED_LOCK
    BY <1>1, <1>4, <2>3 DEF ProcOK, Begun, Working, SameFile, Untouched
  <2>4. ASSUME pc[q].at \in {"commit", "master"}
        PROVE  pc[q].f = 1 /\ \A g \in File : Untouched(g, v)'
    BY <1>4, <2>4 DEF ProcOK, Begun, Working, SameFile, Untouched, CommitAts
  <2> QED
    BY <1>1, <2>1, <2>2, <2>3, <2>4 DEF Begun
<1>7. Committing(q, v)'
  <2>1. ASSUME pc[q].at \in CommitAts \ {"commit"}
        PROVE  \A g \in File : lock'[g][q] = EXCLUSIVE_LOCK /\ SameFile(g)
    BY <1>1, <1>4, <2>1 DEF ProcOK, Committing, Working
  <2>2. ASSUME pc[q].at \in CommitAts \ {"commit"}
        PROVE  /\ pc[q].at = "master" => disk'.master[pc[q].txn] = File
               /\ pc[q].at \in {"name", "syncJournal", "pages", "syncDb", "delete"} =>
                    may'.master[pc[q].txn] = {File}
    BY <2>2 DEF ProcOK, Committing, Undisturbed, SameMaster
  <2>3. ASSUME pc[q].at = "two"
        PROVE  /\ v = pc[q].txn
               /\ \A g \in File : g >= pc[q].f => lock'[g][q] = EXCLUSIVE_LOCK /\ Stable(g, v)'
    <3>1. \A g \in File : g >= pc[q].f => SameFile(g)
      BY <1>4, <2>3 DEF Working
    <3>2. ColdKept
      BY DEF Undisturbed
    <3> QED
      BY <1>1, <2>3, <3>1, <3>2, StableKept DEF ProcOK, Committing
  <2>4. ASSUME pc[q].at \in {"name", "syncJournal", "pages", "syncDb"}, NEW g \in File
        PROVE  /\ g < pc[q].f => WrittenTo(q, g, v)'
               /\ g > pc[q].f => Untouched(g, v)'
    <3>1. SameFile(g)
      BY <2>1, <2>4 DEF CommitAts
    <3> QED
      BY <1>1, <2>4, <3>1 DEF ProcOK, Committing, WrittenTo, Untouched, SameFile
  <2>5. ASSUME pc[q].at = "delete", NEW g \in File
        PROVE  WrittenTo(q, g, v)'
    <3>1. SameFile(g)
      BY <2>1, <2>5 DEF CommitAts
    <3> QED
      BY <1>1, <2>5, <3>1 DEF ProcOK, Committing, WrittenTo, SameFile
  <2>6. ASSUME pc[q].at \in {"name", "syncJournal", "pages", "syncDb"}
        PROVE  /\ pc[q].at = "name" => Untouched(pc[q].f, v)'
               /\ pc[q].at = "syncJournal" => disk'.journal[pc[q].f] = Journal(v, pc[q].txn)
               /\ pc[q].at \in {"pages", "syncDb"} => may'.journal[pc[q].f] = {Journal(v, pc[q].txn)}
               /\ pc[q].at = "syncDb" => disk'.db[pc[q].f] = pc[q].txn
    <3>1. SameFile(pc[q].f)
      BY <1>5, <2>1, <2>6 DEF CommitAts
    <3> QED
      BY <1>1, <1>5, <2>6, <3>1 DEF ProcOK, Committing, Untouched, SameFile
  <2>7. pc[q].at = "delete" => pc[q].f = 1
    BY DEF ProcOK, Committing
  <2> QED
    BY <1>1, <2>1, <2>2, <2>3, <2>4, <2>5, <2>6, <2>7 DEF Committing, CommitAts
<1>8. Restoring(q, v)'
  <2>1. ASSUME pc[q].at \in {"playback", "sync", "end", "delmaster", "children"},
               NEW g \in File, Working(q, g)
        PROVE  disk'.journal[g].open
    BY <1>4, <2>1 DEF ProcOK, Restoring, SameFile
  <2>2. ASSUME pc[q].at \in {"sync", "end"}
        PROVE  /\ pc[q].at = "sync" => disk'.db[pc[q].f] = v
               /\ pc[q].at = "end" => Stable(pc[q].f, v)'
    <3>1. SameFile(pc[q].f)
      BY <1>4, <1>5, <2>2 DEF Working
    <3>2. pc[q].at = "end" => Stable(pc[q].f, v)'
      BY <1>5, <3>1, StableKept DEF ProcOK, Restoring, Undisturbed
    <3> QED
      BY <3>1, <3>2 DEF ProcOK, Restoring, SameFile
  <2>3. ASSUME pc[q].at = "children", NEW g \in File \ pc[q].left
        PROVE  ~NamesMaster(g, pc[q].master)'
    <3>1. ~NamesMaster(g, pc[q].master)
      BY <2>3 DEF ProcOK, Restoring
    <3> QED
      BY <2>3, <3>1 DEF Undisturbed
  <2>4. ASSUME pc[q].at \in {"delmaster", "children"}
        PROVE  lock'[pc[q].f][q] = SHARED_LOCK /\ pc[q].master # None
    BY <1>1, <1>5, <2>4 DEF ProcOK, Restoring
  <2>5. (pc[q].at = "children" => \A g \in File \ pc[q].left : ~NamesMaster(g, pc[q].master))'
    BY <1>1, <2>3
  <2>6. (pc[q].at \in {"playback", "sync", "end", "delmaster", "children"} =>
          \A g \in File : Working(q, g) => disk.journal[g].open)'
    BY <1>1, <1>2, <2>1
  <2> QED
    BY <1>1, <2>2, <2>4, <2>5, <2>6 DEF Restoring
<1> QED
  BY <1>3, <1>6, <1>7, <1>8 DEF ProcOK

\* A process between its EXCLUSIVE locks and the end of phase one is alone.
LEMMA Alone ==
  ASSUME NFileOK, TypeOK, NEW v, LocksOK(v), NEW p \in Proc, ProcOK(p, v),
         pc[p].at \in CommitAts \ {"commit"}, NEW q \in Proc \ {p}, ProcOK(q, v)
  PROVE  pc[q].at = "idle" /\ \A g \in File : lock[g][q] = NO_LOCK
<1>1. \A g \in File : lock[g][q] = NO_LOCK
  BY DEF ProcOK, Committing, LocksOK
<1>2. \A g \in File : ~Working(q, g)
  BY <1>1 DEF ProcOK, Reserved, NO_LOCK, RESERVED_LOCK, EXCLUSIVE_LOCK
<1>3. pc[q] \in PcType /\ pc[q].f \in File /\ pc[q].at \in Ats
  BY DEF TypeOK, PcType
<1>4. pc[q].at \notin {"delmaster", "children"}
  BY <1>1, <1>3 DEF ProcOK, Restoring, NO_LOCK, SHARED_LOCK
<1>5. pc[q].at # "write"
  BY <1>1, <1>3 DEF ProcOK, Begun, NO_LOCK, SHARED_LOCK, File
<1>6. pc[q].at \notin CommitAts \cup {"two", "playback", "sync", "end"}
  BY <1>2, <1>3 DEF Working, File, NFileOK
<1> QED
  BY <1>1, <1>3, <1>4, <1>5, <1>6 DEF Ats, CommitAts

LEMMA LocksKept ==
  ASSUME TypeOK, NEW v, LocksOK(v), NEW p \in Proc, NEW f \in File, NEW l \in LockType,
         LockEffect(p, f, l),
         l = EXCLUSIVE_LOCK => \A q \in Proc \ {p} : lock[f][q] = NO_LOCK,
         l = RESERVED_LOCK => \A q \in Proc \ {p} : lock[f][q] \in {NO_LOCK, SHARED_LOCK},
         l = SHARED_LOCK => \A q \in Proc \ {p} : lock[f][q] # EXCLUSIVE_LOCK,
         l \in {SHARED_LOCK, RESERVED_LOCK} => Stable(f, v)',
         \A g \in File, q \in Proc :
           (g # f \/ q # p) /\ lock[g][q] \in {SHARED_LOCK, RESERVED_LOCK} => Stable(g, v)'
  PROVE  LocksOK(v)'
<1> USE DEF NO_LOCK, SHARED_LOCK, RESERVED_LOCK, EXCLUSIVE_LOCK, LockType
<1> SUFFICES ASSUME NEW g \in File, NEW r \in Proc
             PROVE  /\ lock'[g][r] = EXCLUSIVE_LOCK => \A q \in Proc \ {r} : lock'[g][q] = NO_LOCK
                    /\ lock'[g][r] = RESERVED_LOCK =>
                         \A q \in Proc \ {r} : lock'[g][q] \in {NO_LOCK, SHARED_LOCK}
                    /\ lock'[g][r] \in {SHARED_LOCK, RESERVED_LOCK} => Stable(g, v)'
  BY DEF LocksOK
<1>1. /\ lock[g][r] = EXCLUSIVE_LOCK => \A q \in Proc \ {r} : lock[g][q] = NO_LOCK
      /\ lock[g][r] = RESERVED_LOCK =>
           \A q \in Proc \ {r} : lock[g][q] \in {NO_LOCK, SHARED_LOCK}
      /\ lock[g][r] \in {SHARED_LOCK, RESERVED_LOCK} => Stable(g, v)
  BY DEF LocksOK
<1>2. CASE g # f
  <2>1. \A q \in Proc : lock'[g][q] = lock[g][q]
    BY <1>2 DEF LockEffect
  <2> QED
    BY <1>1, <1>2, <2>1
<1>3. CASE g = f /\ r = p
  BY <1>3 DEF LockEffect
<1>4. CASE g = f /\ r # p
  <2>1. lock'[f][r] = lock[f][r] /\ lock'[f][p] = l
    BY <1>4 DEF LockEffect
  <2>2. \A q \in Proc \ {p} : lock'[f][q] = lock[f][q]
    BY DEF LockEffect
  <2>3. lock'[f][r] \in {SHARED_LOCK, RESERVED_LOCK} => Stable(f, v)'
    BY <1>4, <2>1
  <2>4. lock[f][r] = EXCLUSIVE_LOCK =>
          l = NO_LOCK /\ \A q \in Proc \ {p, r} : lock[f][q] = NO_LOCK
    BY <1>1, <1>4
  <2>5. lock[f][r] = RESERVED_LOCK =>
          /\ l \in {NO_LOCK, SHARED_LOCK}
          /\ \A q \in Proc \ {p, r} : lock[f][q] \in {NO_LOCK, SHARED_LOCK}
    BY <1>1, <1>4
  <2> QED
    BY <1>4, <2>1, <2>2, <2>3, <2>4, <2>5
<1> QED
  BY <1>2, <1>3, <1>4

(***************************************************************************)
(* A step of process p that changes nothing of the database files and      *)
(* journals but those of f, which nobody else has reserved, and takes away *)
(* no master journal that protects another file.                           *)
(***************************************************************************)
LEMMA ProcStep ==
  ASSUME NFileOK, NEW v \in 0 .. MaxTxn, All(v), TypeOK',
         NEW p \in Proc, NEW f \in File, NEW l \in LockType, LockEffect(p, f, l),
         \A q \in Proc \ {p} : pc'[q] = pc[q],
         \A g \in File \ {f} : SameFile(g),
         SameFile(f) \/ \A q \in Proc \ {p} : ~Reserved(q, f),
         \A q \in Proc \ {p} : pc[q].at \in CommitAts \ {"commit"} => SameMaster(pc[q].txn),
         ColdKept,
         \A g \in File \ {f} : Protected(g, v) =>
           \A j \in may.journal[g] : Sure(j.master) => Sure(j.master)',
         FileOK(f, v)', Shown',
         \A q \in Proc \ {p} : lock[f][q] \in {SHARED_LOCK, RESERVED_LOCK} => Stable(f, v)',
         \A j \in may'.journal[f] :
           \/ j \in may.journal[f] \/ j.master = None
           \/ j.master = pc[p].txn /\ pc[p].at = "name",
         l = EXCLUSIVE_LOCK => \A q \in Proc \ {p} : lock[f][q] = NO_LOCK,
         l = RESERVED_LOCK => \A q \in Proc \ {p} : lock[f][q] \in {NO_LOCK, SHARED_LOCK},
         l = SHARED_LOCK => \A q \in Proc \ {p} : lock[f][q] # EXCLUSIVE_LOCK,
         l \in {SHARED_LOCK, RESERVED_LOCK} => Stable(f, v)',
         \A m \in 1 .. MaxTxn : NamesMaster(f, m)' =>
           NamesMaster(f, m) \/ pc[p].at = "name",
         txn <= txn', done' <= v, v <= txn',
         ProcOK(p, v)'
  PROVE  All(v)'
<1>1. TypeOK /\ Shown /\ NamesKnown /\ Inv(v) /\ LocksOK(v) /\ \A q \in Proc : ProcOK(q, v)
  BY DEF All, Inv
<1>2. \A g \in File \ {f} : Stable(g, v) => Stable(g, v)'
  BY <1>1, StableKept
<1>3. \A g \in File : FileOK(g, v)'
  <2> SUFFICES ASSUME NEW g \in File \ {f} PROVE FileOK(g, v)'
    OBVIOUS
  <2>1. FileOK(g, v) /\ SameFile(g)
    BY <1>1 DEF Inv
  <2>2. Protected(g, v) => Protected(g, v)'
    BY <2>1, ProtectedKept
  <2> QED
    BY <1>2, <2>1, <2>2 DEF FileOK
<1>4. LocksOK(v)'
  <2>1. \A g \in File, q \in Proc :
          (g # f \/ q # p) /\ lock[g][q] \in {SHARED_LOCK, RESERVED_LOCK} => Stable(g, v)'
    BY <1>1, <1>2 DEF LocksOK
  <2> QED
    BY <1>1, <2>1, LocksKept
<1>5. txn \in Int /\ txn' \in Int /\ pc[p] \in PcType /\ pc[p].txn \in Int
  BY <1>1 DEF TypeOK, PcType
<1>6. NamesKnown'
  <2> SUFFICES ASSUME NEW g \in File, NEW j \in may'.journal[g] PROVE j.master <= txn'
    BY DEF NamesKnown
  <2>1. j.master \in 0 .. MaxTxn
    BY DEF TypeOK, MayType, JournalType
  <2>2. CASE j \in may.journal[g]
    BY <1>1, <1>5, <2>1, <2>2 DEF NamesKnown
  <2>3. CASE j.master = None
    BY <1>5, <2>3 DEF TypeOK, None
  <2>4. CASE j.master = pc[p].txn /\ pc[p].at = "name"
    <3>1. pc[p].txn <= txn
      BY <1>1, <2>4 DEF ProcOK, Begun, CommitAts
    <3> QED
      BY <1>5, <2>4, <3>1
  <2> QED
    BY <2>2, <2>3, <2>4 DEF SameFile
<1>7. ASSUME NEW q \in Proc \ {p} PROVE ProcOK(q, v)'
  <2>1. pc'[q] = pc[q] /\ \A g \in File : lock'[g][q] = lock[g][q]
    BY DEF LockEffect
  <2>2. \A g \in File : Reserved(q, g) => SameFile(g)
    OBVIOUS
  <2>3. pc[p].at = "name" => pc[q].at = "idle"
    BY <1>1, Alone DEF CommitAts
  <2>4. ASSUME pc[q].at \in {"write", "commit", "master"} PROVE Fresh(pc[q].txn)'
    <3>1. pc[q].txn > 0 /\ Fresh(pc[q].txn) /\ pc[p].at # "name"
      BY <1>1, <2>3, <2>4 DEF ProcOK, Begun, CommitAts, TypeOK, PcType
    <3>2. ASSUME NEW g \in File, NEW j \in may'.journal[g] PROVE j.master # pc[q].txn
      <4>1. j \in may.journal[g] \/ j.master = None
        BY <3>1 DEF SameFile
      <4> QED
        BY <3>1, <4>1 DEF Fresh, None
    <3> QED
      BY <2>1, <3>2 DEF Fresh
  <2>5. ASSUME pc[q].at = "children", NEW g \in File, NamesMaster(g, pc[q].master)'
        PROVE  NamesMaster(g, pc[q].master)
    <3>1. pc[q].master \in 1 .. MaxTxn
      BY <1>1, <2>5 DEF ProcOK, Restoring, TypeOK, PcType, None
    <3>2. CASE g # f
      BY <2>1, <2>5, <3>2 DEF SameFile, NamesMaster
    <3>3. CASE g = f
      <4>1. pc[p].at # "name"
        BY <2>3, <2>5
      <4>2. disk'.journal[f].open /\ disk'.journal[f].master = pc[q].master
        BY <2>1, <2>5, <3>3 DEF NamesMaster
      <4> QED
        BY <3>1, <3>3, <4>1, <4>2 DEF NamesMaster
    <3> QED
      BY <3>2, <3>3
  <2>6. Undisturbed(q)
    BY <2>1, <2>2, <2>4, <2>5 DEF Undisturbed
  <2> QED
    BY <1>1, <2>6, OtherProc
<1> QED
  BY <1>3, <1>4, <1>6, <1>7 DEF All, Inv

-----------------------------------------------------------------------------
\* The four kinds of steps: of no file, of a journal, of a database, of a master journal.

Legal(p, f, l) ==
  /\ l = EXCLUSIVE_LOCK => \A q \in Proc \ {p} : lock[f][q] = NO_LOCK
  /\ l = RESERVED_LOCK => \A q \in Proc \ {p} : lock[f][q] \in {NO_LOCK, SHARED_LOCK}
  /\ l = SHARED_LOCK => \A q \in Proc \ {p} : lock[f][q] # EXCLUSIVE_LOCK

Counts(v) ==
  txn' \in 0 .. MaxTxn /\ done' \in Nat /\ txn <= txn' /\ done' <= v /\ v <= txn'

StepOf(p, f, l, v) ==
  /\ l \in LockType /\ LockEffect(p, f, l) /\ Legal(p, f, l) /\ Counts(v)
  /\ pc' \in [Proc -> PcType] /\ \A q \in Proc \ {p} : pc'[q] = pc[q]

LEMMA Types ==
  ASSUME NFileOK, NEW v \in 0 .. MaxTxn, All(v), NEW p \in Proc
  PROVE  /\ pc[p] \in PcType /\ pc[p].at \in Ats /\ pc[p].txn \in 0 .. MaxTxn
         /\ pc[p].f \in File /\ pc[p].f \in 1 .. NFile /\ pc[p].master \in 0 .. MaxTxn
         /\ pc[p].left \in SUBSET File
         /\ txn \in 0 .. MaxTxn /\ done \in Nat /\ 1 \in File /\ File # {}
         /\ v \in Nat /\ v \in Value /\ NoJournal \in JournalType
         /\ TypeOK /\ Shown /\ NamesKnown /\ Inv(v) /\ LocksOK(v) /\ ProcOK(p, v)
         /\ done <= v /\ v <= txn /\ NFile \in Nat /\ MaxTxn \in Nat
<1>1. TypeOK /\ Shown /\ NamesKnown /\ Inv(v) /\ LocksOK(v) /\ ProcOK(p, v)
      /\ done <= v /\ v <= txn
  BY DEF All, Inv
<1>2. pc[p] \in PcType /\ txn \in 0 .. MaxTxn /\ done \in Nat
  BY <1>1 DEF TypeOK
<1>3. pc[p].at \in Ats /\ pc[p].txn \in 0 .. MaxTxn
      /\ pc[p].f \in File /\ pc[p].master \in 0 .. MaxTxn /\ pc[p].left \in SUBSET File
  BY <1>2 DEF PcType
<1>4. 1 \in File /\ NFile \in Nat /\ MaxTxn \in Nat
  BY DEF File, NFileOK
<1>5. v \in Nat /\ v \in Value /\ NoJournal \in JournalType
  BY <1>4 DEF Value, NoJournal, JournalType, None
<1> QED
  BY <1>1, <1>2, <1>3, <1>4, <1>5 DEF File

LEMMA FileTypes ==
  ASSUME NFileOK, NEW v \in 0 .. MaxTxn, All(v), NEW g \in File
  PROVE  /\ disk.db[g] \in Value /\ disk.journal[g] \in JournalType
         /\ may.db[g] \in SUBSET Value /\ may.journal[g] \in SUBSET JournalType
         /\ disk.db[g] \in may.db[g] /\ disk.journal[g] \in may.journal[g]
         /\ FileOK(g, v) /\ disk \in DiskType /\ may \in MayType
         /\ \A p \in Proc : lock[g][p] \in LockType
BY DEF All, Inv, TypeOK, Shown, DiskType, MayType

LEMMA QuietStep ==
  ASSUME NFileOK, NEW v \in 0 .. MaxTxn, All(v), NEW p \in Proc, NEW f \in File, NEW l,
         StepOf(p, f, l, v), disk' = disk, may' = may,
         l \in {SHARED_LOCK, RESERVED_LOCK} => Stable(f, v), ProcOK(p, v)'
  PROVE  All(v)'
<1>1. TypeOK /\ Shown /\ Inv(v) /\ LocksOK(v)
  BY DEF All, Inv
<1>2. TypeOK'
  BY <1>1 DEF TypeOK, StepOf, LockEffect, Counts
<1>3. (\A g \in File : SameFile(g)) /\ (\A m : SameMaster(m)) /\ ColdKept
  BY DEF SameFile, SameMaster, ColdKept, Cold
<1>4. Shown'
  BY <1>1 DEF Shown
<1>5. Stable(f, v) => Stable(f, v)'
  BY <1>3, StableKept
<1>6. FileOK(f, v)'
  BY <1>1 DEF Inv, FileOK, Stable, Protected, Cold, Sure
<1>7. \A m : Sure(m) => Sure(m)'
  BY DEF Sure
<1>8. \A q \in Proc \ {p} : lock[f][q] \in {SHARED_LOCK, RESERVED_LOCK} => Stable(f, v)'
  BY <1>1, <1>5 DEF LocksOK
<1>9. \A m : NamesMaster(f, m)' => NamesMaster(f, m)
  BY DEF NamesMaster
<1> QED
  BY <1>2, <1>3, <1>4, <1>5, <1>6, <1>7, <1>8, <1>9, ProcStep DEF StepOf, Legal, Counts

LEMMA MastersKept ==
  ASSUME NFileOK, NEW v \in 0 .. MaxTxn, All(v), \A m \in 1 .. MaxTxn : SameMaster(m)
  PROVE  /\ ColdKept
         /\ \A g \in File : \A i \in may.journal[g] : Sure(i.master) => Sure(i.master)'
         /\ \A q \in Proc : pc[q].at \in CommitAts \ {"commit"} => SameMaster(pc[q].txn)
<1>1. \A g \in File : may.journal[g] \in SUBSET JournalType
  BY FileTypes
<1>2. ColdKept
  <2> SUFFICES ASSUME NEW g \in File, NEW i \in may.journal[g], Cold(i.master)
               PROVE  Cold(i.master)'
    BY DEF ColdKept
  <2>1. i.master \in 0 .. MaxTxn /\ i.master # 0
    BY <1>1 DEF JournalType, Cold, None
  <2>2. i.master \in 1 .. MaxTxn
    BY <2>1 DEF NFileOK
  <2> QED
    BY <2>2 DEF Cold, SameMaster
<1>3. ASSUME NEW g \in File, NEW i \in may.journal[g], Sure(i.master)
      PROVE  Sure(i.master)'
  <2>1. i.master \in 0 .. MaxTxn
    BY <1>1 DEF JournalType
  <2>2. i.master = 0 \/ i.master \in 1 .. MaxTxn
    BY <2>1 DEF NFileOK
  <2> QED
    BY <1>3, <2>2 DEF Sure, SameMaster, None
<1>4. ASSUME NEW q \in Proc, pc[q].at \in CommitAts \ {"commit"}
      PROVE  SameMaster(pc[q].txn)
  <2>1. pc[q].txn \in 0 .. MaxTxn /\ v \in Nat /\ v < pc[q].txn
    BY <1>4, Types DEF ProcOK, Begun
  <2> QED
    BY <2>1 DEF NFileOK
<1> QED
  BY <1>2, <1>3, <1>4

LEMMA JournalStep ==
  ASSUME NFileOK, NEW v \in 0 .. MaxTxn, All(v), NEW p \in Proc, NEW f \in File, NEW l,
         NEW j, NEW J, j \in J, StepOf(p, f, l, v), JournalEffect(f, j, J),
         \A q \in Proc \ {p} : ~Reserved(q, f),
         J \subseteq may.journal[f] \cup {j},
         \/ j = disk.journal[f] \/ j.master = None
         \/ j.master = pc[p].txn /\ pc[p].at = "name",
         FileOK(f, v)', Stable(f, v) => Stable(f, v)',
         l \in {SHARED_LOCK, RESERVED_LOCK} => Stable(f, v), ProcOK(p, v)'
  PROVE  All(v)'
<1>1. TypeOK /\ Shown /\ Inv(v) /\ LocksOK(v)
  BY DEF All, Inv
<1>2. TypeOK'
  BY <1>1 DEF TypeOK, StepOf, LockEffect, Counts, JournalEffect
<1>3. \A m \in 1 .. MaxTxn : SameMaster(m)
  BY DEF JournalEffect
<1>4. /\ ColdKept
      /\ \A g \in File : \A i \in may.journal[g] : Sure(i.master) => Sure(i.master)'
      /\ \A q \in Proc \ {p} : pc[q].at \in CommitAts \ {"commit"} => SameMaster(pc[q].txn)
  BY <1>3, MastersKept
<1>6. Shown'
  BY <1>1, <1>3 DEF Shown, JournalEffect, SameFile, SameMaster
<1>8. \A q \in Proc \ {p} : lock[f][q] \in {SHARED_LOCK, RESERVED_LOCK} => Stable(f, v)'
  BY <1>1 DEF LocksOK
<1>10. \A i \in may'.journal[f] :
           \/ i \in may.journal[f] \/ i.master = None
           \/ i.master = pc[p].txn /\ pc[p].at = "name"
  BY <1>1 DEF JournalEffect, Shown
<1>11. ASSUME NEW m \in 1 .. MaxTxn, NamesMaster(f, m)'
       PROVE  NamesMaster(f, m) \/ pc[p].at = "name"
  BY <1>11 DEF NamesMaster, JournalEffect, None
<1>12. (\A g \in File \ {f} : SameFile(g)) /\ \A q \in Proc \ {p} : pc'[q] = pc[q]
  BY DEF JournalEffect, StepOf
<1> QED
  BY <1>2, <1>4, <1>6, <1>8, <1>10, <1>11, <1>12, ProcStep DEF StepOf, Legal, Counts

LEMMA DbStep ==
  ASSUME NFileOK, NEW v \in 0 .. MaxTxn, All(v), NEW p \in Proc, NEW f \in File, NEW l,
         NEW d, NEW D, d \in D, StepOf(p, f, l, v), DbEffect(f, d, D),
         \A q \in Proc \ {p} : ~Reserved(q, f),
         FileOK(f, v)',
         \/ Stable(f, v) => Stable(f, v)'
         \/ lock[f][p] = EXCLUSIVE_LOCK /\ l = EXCLUSIVE_LOCK,
         l \in {SHARED_LOCK, RESERVED_LOCK} => Stable(f, v), ProcOK(p, v)'
  PROVE  All(v)'
<1>1. TypeOK /\ Shown /\ Inv(v) /\ LocksOK(v)
  BY DEF All, Inv
<1>2. TypeOK'
  BY <1>1 DEF TypeOK, StepOf, LockEffect, Counts, DbEffect
<1>3. \A m \in 1 .. MaxTxn : SameMaster(m)
  BY DEF DbEffect
<1>4. /\ ColdKept
      /\ \A g \in File : \A i \in may.journal[g] : Sure(i.master) => Sure(i.master)'
      /\ \A q \in Proc \ {p} : pc[q].at \in CommitAts \ {"commit"} => SameMaster(pc[q].txn)
  BY <1>3, MastersKept
<1>5. Shown'
  BY <1>1, <1>3 DEF Shown, DbEffect, SameFile, SameMaster
<1>6. /\ \A q \in Proc \ {p} : lock[f][q] \in {SHARED_LOCK, RESERVED_LOCK} => Stable(f, v)'
      /\ l \in {SHARED_LOCK, RESERVED_LOCK} => Stable(f, v)'
  BY <1>1 DEF LocksOK, NO_LOCK, SHARED_LOCK, RESERVED_LOCK, EXCLUSIVE_LOCK
<1>7. \A m : NamesMaster(f, m)' => NamesMaster(f, m)
  BY DEF NamesMaster, DbEffect
<1>8. may'.journal[f] = may.journal[f] /\ (\A g \in File \ {f} : SameFile(g))
      /\ \A q \in Proc \ {p} : pc'[q] = pc[q]
  BY DEF DbEffect, StepOf
<1> QED
  BY <1>2, <1>4, <1>5, <1>6, <1>7, <1>8, ProcStep DEF StepOf, Legal, Counts

LEMMA MasterStep ==
  ASSUME NFileOK, NEW v \in 0 .. MaxTxn, All(v), NEW p \in Proc, NEW f \in File, NEW l,
         NEW m \in 1 .. MaxTxn, NEW x, NEW X, x \in X, StepOf(p, f, l, v), MasterEffect(m, x, X),
         \A q \in Proc \ {p} : pc[q].at \notin CommitAts \ {"commit"},
         Fresh(m) \/ (X = may.master[m] \cup {{}} /\ \A g \in File : ~NamesMaster(g, m)),
         l \in {SHARED_LOCK, RESERVED_LOCK} => Stable(f, v), ProcOK(p, v)'
  PROVE  All(v)'
<1>1. TypeOK /\ Shown /\ Inv(v) /\ LocksOK(v)
  BY DEF All, Inv
<1>2. TypeOK'
  BY <1>1 DEF TypeOK, StepOf, LockEffect, Counts, MasterEffect
<1>3. \A g \in File : SameFile(g)
  BY DEF MasterEffect
<1>4. \A g \in File : \A i \in may.journal[g] :
        i.master = m \/ i.master = 0 \/ (i.master \in 1 .. MaxTxn /\ SameMaster(i.master))
  <2> SUFFICES ASSUME NEW g \in File, NEW i \in may.journal[g], i.master # m, i.master # 0
               PROVE  i.master \in 1 .. MaxTxn /\ SameMaster(i.master)
    OBVIOUS
  <2>1. i.master \in 0 .. MaxTxn
    BY FileTypes DEF JournalType
  <2>2. i.master \in 1 .. MaxTxn
    BY <2>1 DEF NFileOK
  <2> QED
    BY <2>2 DEF MasterEffect
<1>5. ColdKept
  <2> SUFFICES ASSUME NEW g \in File, NEW i \in may.journal[g], Cold(i.master)
               PROVE  Cold(i.master)'
    BY DEF ColdKept
  <2>1. CASE i.master = m
    BY <2>1 DEF Fresh, MasterEffect, Cold
  <2>2. CASE i.master # m
    BY <1>4, <2>2 DEF Cold, SameMaster, None
  <2> QED
    BY <2>1, <2>2
<1>6. ASSUME NEW g \in File, Protected(g, v), NEW i \in may.journal[g], Sure(i.master)
      PROVE  Sure(i.master)'
  <2>1. CASE i.master = m
    <3>1. i = disk.journal[g] /\ i.open
      BY <1>6, <2>1 DEF Protected, None
    <3> QED
      BY <2>1, <3>1 DEF Fresh, NamesMaster
  <2>2. CASE i.master # m
    BY <1>4, <1>6, <2>2 DEF Sure, SameMaster, None
  <2> QED
    BY <2>1, <2>2
<1>7. Shown'
  BY <1>1, <1>3 DEF Shown, MasterEffect, SameFile, SameMaster
<1>8. Stable(f, v) => Stable(f, v)'
  BY <1>3, <1>5, StableKept
<1>9. FileOK(f, v)'
  <2>1. Protected(f, v) => Protected(f, v)'
    BY <1>3, <1>6, ProtectedKept
  <2> QED
    BY <1>1, <1>8, <2>1 DEF Inv, FileOK
<1>10. \A q \in Proc \ {p} : lock[f][q] \in {SHARED_LOCK, RESERVED_LOCK} => Stable(f, v)'
  BY <1>1, <1>8 DEF LocksOK
<1>11. \A n : NamesMaster(f, n)' => NamesMaster(f, n)
  BY <1>3 DEF NamesMaster, SameFile
<1>12. may'.journal[f] = may.journal[f] /\ \A q \in Proc \ {p} : pc'[q] = pc[q]
  BY <1>3 DEF SameFile, StepOf
<1> QED
  BY <1>2, <1>3, <1>5, <1>6, <1>7, <1>8, <1>9, <1>10, <1>11, <1>12, ProcStep
     DEF StepOf, Legal, Counts

-----------------------------------------------------------------------------
\* Locks that stay, and the locks of the others on a file p has reserved.

LEMMA LockSame ==
  ASSUME NFileOK, NEW v \in 0 .. MaxTxn, All(v), NEW p \in Proc, NEW f \in File, lock' = lock
  PROVE  /\ lock[f][p] \in LockType
         /\ LockEffect(p, f, lock[f][p]) /\ Legal(p, f, lock[f][p])
         /\ lock[f][p] \in {SHARED_LOCK, RESERVED_LOCK} => Stable(f, v)
<1>1. lock \in [File -> [Proc -> LockType]] /\ LocksOK(v)
  BY DEF All, TypeOK, Inv
<1>2. \A q \in Proc : lock[f][q] \in LockType
  BY <1>1
<1>3. LockEffect(p, f, lock[f][p])
  BY <1>1 DEF LockEffect
<1>4. lock[f][p] \in {SHARED_LOCK, RESERVED_LOCK} => Stable(f, v)
  BY <1>1 DEF LocksOK
<1>5. lock[f][p] = SHARED_LOCK => \A q \in Proc \ {p} : lock[f][q] # EXCLUSIVE_LOCK
  BY <1>1 DEF LocksOK, SHARED_LOCK, NO_LOCK
<1> QED
  BY <1>1, <1>2, <1>3, <1>4, <1>5 DEF Legal, LocksOK

LEMMA Owner ==
  ASSUME NFileOK, NEW v \in 0 .. MaxTxn, All(v), NEW p \in Proc, NEW f \in File, Reserved(p, f)
  PROVE  \A q \in Proc \ {p} : ~Reserved(q, f) /\ lock[f][q] # EXCLUSIVE_LOCK
<1>1. LocksOK(v)
  BY DEF All, Inv
<1> QED
  BY <1>1 DEF LocksOK, Reserved, NO_LOCK, SHARED_LOCK, RESERVED_LOCK, EXCLUSIVE_LOCK

LEMMA CountsSame ==
  ASSUME NFileOK, NEW v \in 0 .. MaxTxn, All(v), txn' = txn, done' = done
  PROVE  Counts(v)
BY DEF All, Inv, TypeOK, Counts

LEMMA IdleOK ==
  ASSUME NEW v, NEW p \in Proc, pc'[p].at = "idle", \A g \in File : ~Reserved(p, g)'
  PROVE  ProcOK(p, v)'
<1>1. \A g \in File : ~Working(p, g)'
  <2>1. pc'[p].at = "idle"
    BY SMTT(30)
  <2> QED
    BY ONLY <2>1 DEF Working, CommitAts
<1> QED
  BY <1>1 DEF ProcOK, Begun, Committing, Restoring, CommitAts

LEMMA IdleType ==
  ASSUME NFileOK
  PROVE  /\ Idle \in PcType /\ Idle.at = "idle"
         /\ \A f \in File, at \in Ats : [Idle EXCEPT !.at = at, !.f = f] \in PcType
<1>1. 1 \in File /\ 0 \in 0 .. MaxTxn
  BY DEF NFileOK, File
<1> QED
  BY <1>1, ZenonT(30) DEF Idle, PcType, None, Ats

Back == {"playback", "sync", "end", "delmaster", "children"}

LEMMA RolledBackOK ==
  ASSUME NFileOK, NEW v \in 0 .. MaxTxn, All(v), NEW p \in Proc, NEW f \in File,
         pc[p].f = f, pc[p].at \in Back, RolledBack(p, f),
         NEW l \in {NO_LOCK, SHARED_LOCK}, LockEffect(p, f, l),
         \A g \in File \ {f} : disk'.journal[g] = disk.journal[g]
  PROVE  /\ ProcOK(p, v)' /\ pc' \in [Proc -> PcType]
         /\ \A q \in Proc \ {p} : pc'[q] = pc[q]
<1>1. pc \in [Proc -> PcType] /\ pc[p] \in PcType /\ f \in 1 .. NFile /\ ProcOK(p, v)
      /\ pc[p].txn \in 0 .. MaxTxn /\ NFile \in Nat /\ MaxTxn \in Nat
  BY Types DEF TypeOK
<1>2. ~Reserved(p, f)'
  BY DEF Reserved, LockEffect, NO_LOCK, SHARED_LOCK, RESERVED_LOCK, EXCLUSIVE_LOCK
<1>3. \A g \in File \ {f} : Reserved(p, g)' <=> Reserved(p, g)
  BY DEF Reserved, LockEffect
<1>4. \A g \in File \ {f} : Reserved(p, g) <=> pc[p].txn > 0 /\ g > f
  BY <1>1 DEF ProcOK, Working, CommitAts, Back
<1>5. \A g \in File : Reserved(p, g)' <=> pc[p].txn > 0 /\ g > f
  BY <1>1, <1>2, <1>3, <1>4
<1>6. CASE pc[p].txn > 0 /\ f < NFile
  <2> DEFINE r == [pc[p] EXCEPT !.at = "playback", !.f = f + 1, !.master = None, !.left = {}]
  <2>1. f + 1 \in File
    BY <1>1, <1>6 DEF File
  <2>2. r \in PcType /\ r.at = "playback" /\ r.f = f + 1 /\ r.txn = pc[p].txn
    <3>1. "playback" \in Ats /\ None \in 0 .. MaxTxn /\ {} \in SUBSET File
      BY <1>1 DEF Ats, None
    <3> QED
      BY <1>1, <2>1, <3>1 DEF PcType
  <2>3. pc' = [pc EXCEPT ![p] = r]
    BY <1>6 DEF RolledBack
  <2> HIDE DEF r
  <2>4. PcEffect(p, r)
    BY <1>1, <2>2, <2>3 DEF PcEffect
  <2>5. pc'[p].at = "playback" /\ pc'[p].f = f + 1 /\ pc'[p].txn = pc[p].txn
    BY <2>2, <2>4 DEF PcEffect
  <2>6. \A g \in File : Working(p, g)' <=> g = f + 1 \/ g > f + 1
    BY <1>6, <2>5 DEF Working, CommitAts
  <2>7. \A g \in File : Working(p, g)' <=> g > f
    BY <1>1, <2>6 DEF File
  <2>8. \A g \in File : Working(p, g)' => disk'.journal[g].open
    <3> SUFFICES ASSUME NEW g \in File, g > f PROVE disk'.journal[g].open
      BY <2>7
    <3>1. g # f /\ Working(p, g)
      BY <1>1, <1>4, <1>6 DEF ProcOK
    <3>2. disk.journal[g].open
      BY <1>1, <3>1 DEF ProcOK, Restoring, Back
    <3> QED
      BY <3>1, <3>2
  <2>9. ProcOK(p, v)'
    BY <1>5, <1>6, <2>5, <2>7, <2>8 DEF ProcOK, Begun, Committing, Restoring, CommitAts
  <2> QED
    BY <2>4, <2>9 DEF PcEffect
<1>7. CASE ~(pc[p].txn > 0 /\ f < NFile)
  <2>1. pc' = [pc EXCEPT ![p] = Idle]
    BY <1>7 DEF RolledBack
  <2>2. Idle \in PcType /\ Idle.at = "idle"
    BY IdleType
  <2>3. PcEffect(p, Idle)
    BY <1>1, <2>1, <2>2 DEF PcEffect
  <2>4. \A g \in File : ~Reserved(p, g)'
    BY <1>1, <1>5, <1>7 DEF File
  <2>5. ProcOK(p, v)'
    BY <2>2, <2>3, <2>4, IdleOK DEF PcEffect
  <2> QED
    BY <2>3, <2>5 DEF PcEffect
<1> QED
  BY <1>6, <1>7

\* The sync of a journal leaves what the file was.
LEMMA SubsetJournal ==
  ASSUME NFileOK, NEW v \in 0 .. MaxTxn, All(v), NEW f \in File,
         JournalEffect(f, disk.journal[f], {disk.journal[f]})
  PROVE  (Stable(f, v) => Stable(f, v)') /\ FileOK(f, v)'
<1>1. disk.journal[f] \in may.journal[f] /\ FileOK(f, v)
  BY FileTypes
<1>2. /\ disk'.journal[f] = disk.journal[f] /\ may'.journal[f] = {disk.journal[f]}
      /\ may'.db[f] = may.db[f] /\ \A m \in 1 .. MaxTxn : SameMaster(m)
  BY DEF JournalEffect
<1>3. ColdKept /\ (Sure(disk.journal[f].master) => Sure(disk.journal[f].master)')
  BY <1>1, <1>2, MastersKept
<1>4. Stable(f, v) => Stable(f, v)'
  BY <1>1, <1>2, <1>3 DEF Stable, ColdKept
<1>5. Protected(f, v) => Protected(f, v)'
  BY <1>1, <1>2, <1>3 DEF Protected
<1> QED
  BY <1>1, <1>4, <1>5 DEF FileOK

-----------------------------------------------------------------------------
\* The actions, one lemma each: readers and recovery.

LEMMA AccessOK ==
  ASSUME NFileOK, NEW v \in 0 .. MaxTxn, All(v), NEW p \in Proc, NEW f \in File, Access(p, f)
  PROVE  All(v)'
<1>1. /\ pc[p].at = "idle" /\ lock[f][p] = NO_LOCK /\ txn' = txn /\ done' = done
      /\ \A q \in Proc \ {p} : lock[f][q] < 3
  BY LockRules DEF Access
<1>2. Counts(v)
  BY <1>1, CountsSame
<1>3. TypeOK /\ LocksOK(v) /\ ProcOK(p, v) /\ pc \in [Proc -> PcType]
  BY Types DEF TypeOK
<1>4. \A g \in File : ~Reserved(p, g)
  BY <1>1, <1>3 DEF ProcOK, Working, CommitAts
<1> DEFINE hot == disk.journal[f].open /\ \A q \in Proc : lock[f][q] < RESERVED_LOCK
<1>5. CASE ~hot
  <2>1. SetLock(p, f, SHARED_LOCK) /\ pc' = pc /\ disk' = disk /\ may' = may
    BY <1>5 DEF Access
  <2>2. LockEffect(p, f, SHARED_LOCK)
    BY <1>3, <2>1, LockChange DEF LockType
  <2>3. Legal(p, f, SHARED_LOCK)
    BY <1>1 DEF Legal, SHARED_LOCK, RESERVED_LOCK, EXCLUSIVE_LOCK
  <2>4. StepOf(p, f, SHARED_LOCK, v)
    BY <1>2, <1>3, <2>1, <2>2, <2>3 DEF StepOf, LockType
  <2>5. Stable(f, v)
    <3>1. CASE ~disk.journal[f].open
      BY <3>1, FileTypes DEF FileOK, Protected
    <3>2. CASE disk.journal[f].open
      <4>1. PICK q \in Proc : ~(lock[f][q] < RESERVED_LOCK)
        BY <1>5, <3>2
      <4>2. q # p /\ lock[f][q] \in LockType
        BY <1>1, <4>1, FileTypes DEF NO_LOCK, RESERVED_LOCK
      <4>3. lock[f][q] < 3 /\ lock[f][q] = RESERVED_LOCK
        BY <1>1, <4>1, <4>2 DEF LockType, NO_LOCK, SHARED_LOCK, RESERVED_LOCK, EXCLUSIVE_LOCK
      <4> QED
        BY <1>3, <4>3 DEF LocksOK
    <3> QED
      BY <3>1, <3>2
  <2>6. \A g \in File : ~Reserved(p, g)'
    BY <1>4, <2>2 DEF Reserved, LockEffect, SHARED_LOCK, RESERVED_LOCK, EXCLUSIVE_LOCK
  <2>7. ProcOK(p, v)'
    BY <1>1, <2>1, <2>6, IdleOK
  <2> QED
    BY <2>1, <2>4, <2>5, <2>7, QuietStep
<1>6. CASE hot
  <2> DEFINE r == [Idle EXCEPT !.at = "playback", !.f = f]
  <2>1. /\ Locks(f)!MayHold(p, EXCLUSIVE_LOCK) /\ SetLock(p, f, EXCLUSIVE_LOCK)
        /\ pc' = [pc EXCEPT ![p] = r] /\ Sync("journal", f)
    BY <1>6 DEF Access
  <2>2. r \in PcType /\ r.at = "playback" /\ r.f = f /\ r.txn = 0
    <3>1. "playback" \in Ats
      BY DEF Ats
    <3>2. r \in PcType
      BY <3>1, IdleType
    <3> QED
      BY <3>2 DEF Idle
  <2> HIDE DEF r
  <2>3. LockEffect(p, f, EXCLUSIVE_LOCK) /\ PcEffect(p, r)
    BY <1>3, <2>1, <2>2, LockChange, PcChange DEF LockType
  <2>4. \A q \in Proc \ {p} : lock[f][q] = NO_LOCK
    BY <2>1, LockRules DEF NO_LOCK
  <2>5. StepOf(p, f, EXCLUSIVE_LOCK, v)
    BY <1>2, <2>3, <2>4 DEF StepOf, Legal, PcEffect, LockType, SHARED_LOCK, RESERVED_LOCK, EXCLUSIVE_LOCK
  <2>6. JournalEffect(f, disk.journal[f], {disk.journal[f]})
    <3>1. disk' = [disk EXCEPT !["journal"][f] = disk.journal[f]]
      BY <1>3, <2>1 DEF Sync, TypeOK, DiskType
    <3>2. may' = [may EXCEPT !["journal"][f] = {disk.journal[f]}]
      BY <2>1 DEF Sync
    <3> QED
      BY <1>3, <3>1, <3>2, FileTypes, JournalChange
  <2>7. \A q \in Proc \ {p} : ~Reserved(q, f)
    BY <2>4 DEF Reserved, NO_LOCK, RESERVED_LOCK, EXCLUSIVE_LOCK
  <2>8. (Stable(f, v) => Stable(f, v)') /\ FileOK(f, v)'
    BY <2>6, SubsetJournal, FileTypes
  <2>9. \A g \in File : Reserved(p, g)' <=> g = f
    BY <1>4, <2>3 DEF Reserved, LockEffect
  <2>10. \A g \in File : Working(p, g)' <=> g = f
    BY <2>2, <2>3 DEF Working, PcEffect, CommitAts
  <2>11. disk'.journal[f].open
    BY <1>6, <2>6 DEF JournalEffect
  <2>12. ProcOK(p, v)'
    BY <2>2, <2>3, <2>9, <2>10, <2>11
       DEF ProcOK, Begun, Committing, Restoring, PcEffect, CommitAts
  <2>13. disk.journal[f] \in {disk.journal[f]} /\ {disk.journal[f]} \subseteq may.journal[f] \cup {disk.journal[f]}
    OBVIOUS
  <2>14. EXCLUSIVE_LOCK \notin {SHARED_LOCK, RESERVED_LOCK}
    BY DEF SHARED_LOCK, RESERVED_LOCK, EXCLUSIVE_LOCK
  <2> QED
    BY <2>5, <2>6, <2>7, <2>8, <2>12, <2>13, <2>14, JournalStep
<1> QED
  BY <1>5, <1>6

LEMMA ReleaseOK ==
  ASSUME NFileOK, NEW v \in 0 .. MaxTxn, All(v), NEW p \in Proc, NEW f \in File, Release(p, f)
  PROVE  All(v)'
<1>1. /\ pc[p].at = "idle" /\ txn' = txn /\ done' = done /\ disk' = disk /\ may' = may
      /\ SetLock(p, f, NO_LOCK) /\ pc' = pc
  BY DEF Release
<1>2. Counts(v)
  BY <1>1, CountsSame
<1>3. TypeOK /\ ProcOK(p, v) /\ pc \in [Proc -> PcType]
  BY Types DEF TypeOK
<1>4. LockEffect(p, f, NO_LOCK)
  BY <1>1, <1>3, LockChange DEF LockType
<1>5. StepOf(p, f, NO_LOCK, v)
  BY <1>1, <1>2, <1>3, <1>4 DEF StepOf, Legal, LockType, NO_LOCK, SHARED_LOCK, RESERVED_LOCK, EXCLUSIVE_LOCK
<1>6. \A g \in File : ~Reserved(p, g)'
  BY <1>1, <1>3, <1>4
     DEF ProcOK, Working, CommitAts, Reserved, LockEffect, NO_LOCK, RESERVED_LOCK, EXCLUSIVE_LOCK
<1>7. ProcOK(p, v)'
  BY <1>1, <1>6, IdleOK
<1>8. NO_LOCK \notin {SHARED_LOCK, RESERVED_LOCK}
  BY DEF NO_LOCK, SHARED_LOCK, RESERVED_LOCK
<1> QED
  BY <1>1, <1>5, <1>7, <1>8, QuietStep

LEMMA PlaybackOK ==
  ASSUME NFileOK, NEW v \in 0 .. MaxTxn, All(v), NEW p \in Proc, NEW f \in File,
         f = pc[p].f, pager_playback(p)
  PROVE  All(v)'
<1> DEFINE m == disk.journal[f].master
           z == IF Restores(f) THEN m ELSE None
           r == [pc[p] EXCEPT !.at = "sync", !.master = z]
<1>1. /\ pc[p].at = "playback" /\ txn' = txn /\ done' = done /\ lock' = lock
      /\ pc' = [pc EXCEPT ![p].at = "sync", ![p].master = z]
  BY DEF pager_playback
<1>2. Counts(v)
  BY <1>1, CountsSame
<1>3. TypeOK /\ LocksOK(v) /\ ProcOK(p, v) /\ pc \in [Proc -> PcType] /\ pc[p] \in PcType /\ f \in File
      /\ Shown /\ v \in Value
  BY Types DEF TypeOK
<1>4. /\ disk.journal[f] \in JournalType /\ disk.journal[f] \in may.journal[f] /\ FileOK(f, v)
      /\ disk.db[f] \in may.db[f] /\ may.db[f] \in SUBSET Value
  BY <1>3, FileTypes
<1>5. m \in 0 .. MaxTxn /\ z \in 0 .. MaxTxn /\ "sync" \in Ats /\ (m # None => m \in 1 .. MaxTxn)
  BY <1>4 DEF JournalType, None, Ats, NFileOK
<1> HIDE DEF m, z
<1>6. r \in PcType /\ r.at = "sync" /\ r.f = f /\ r.txn = pc[p].txn
  BY <1>3, <1>5 DEF PcType
<1>7. pc' = [pc EXCEPT ![p] = r]
  BY <1>1, <1>3 DEF PcType
<1> HIDE DEF r
<1>8. PcEffect(p, r)
  BY <1>3, <1>6, <1>7, PcChange
<1>9. pc'[p].at = "sync" /\ pc'[p].f = f /\ pc'[p].txn = pc[p].txn
  BY <1>6, <1>8 DEF PcEffect
<1>10. Working(p, f) /\ Reserved(p, f) /\ disk.journal[f].open
  BY <1>1, <1>3 DEF ProcOK, Working, Restoring
<1>11. \A q \in Proc \ {p} : ~Reserved(q, f)
  BY <1>3, <1>10, Owner
<1>12. /\ StepOf(p, f, lock[f][p], v)
       /\ lock[f][p] \in {SHARED_LOCK, RESERVED_LOCK} => Stable(f, v)
  BY <1>1, <1>2, <1>3, <1>8, LockSame DEF StepOf, PcEffect
<1>13. ASSUME \A g \in File : disk'.journal[g] = disk.journal[g], disk'.db[f] = v
       PROVE  ProcOK(p, v)'
  <2>1. \A g \in File : (Reserved(p, g)' <=> Reserved(p, g)) /\ (Working(p, g)' <=> Working(p, g))
    BY <1>1, <1>9 DEF Reserved, Working, CommitAts
  <2>2. \A g \in File : Working(p, g) => disk'.journal[g].open
    BY <1>1, <1>3, <1>13 DEF ProcOK, Restoring
  <2>3. \A g \in File : Reserved(p, g)' <=> Working(p, g)'
    BY <1>3, <2>1 DEF ProcOK
  <2>4. \A g \in File : Working(p, g)' => disk'.journal[g].open
    BY <2>1, <2>2
  <2> QED
    BY <1>9, <1>13, <2>3, <2>4 DEF ProcOK, Begun, Committing, Restoring, CommitAts
<1>14. CASE Restores(f)
  <2>1. disk.journal[f].orig = v
    <3>1. ~Cold(m)
      BY <1>3, <1>5, <1>14 DEF Cold, Restores, MasterExists, Shown, m
    <3>2. FileOK(f, v) /\ disk.journal[f] \in may.journal[f]
      BY <1>4
    <3> QED
      BY ONLY <1>10, <3>1, <3>2, SMTT(30) DEF FileOK, Stable, Protected, m
  <2> DEFINE D == may.db[f] \cup (IF may.db[f] = {v} THEN {} ELSE {v, Torn})
  <2>2. WriteDb(f, v)
    BY <1>14, <2>1 DEF pager_playback
  <2>3. disk' = [disk EXCEPT !["db"][f] = v] /\ may' = [may EXCEPT !["db"][f] = D]
    <3>1. may' = [may EXCEPT !["db"][f] = @ \cup (IF may.db[f] = {v} THEN {} ELSE {v, Torn})]
      BY <2>2 DEF WriteDb, Write
    <3> QED
      BY <2>2, <3>1 DEF WriteDb, Write
  <2>4. D \in SUBSET Value /\ v \in D
    BY <1>3, <1>4 DEF Value, Torn
  <2>5. may.db[f] = {v} => D = {v}
    OBVIOUS
  <2> HIDE DEF D
  <2>6. DbEffect(f, v, D)
    BY <1>3, <2>3, <2>4, DbChange
  <2>7. ColdKept /\ \A j \in may.journal[f] : Sure(j.master) => Sure(j.master)'
    BY <1>3, <2>6, MastersKept DEF DbEffect
  <2>8. Stable(f, v) => Stable(f, v)'
    BY <1>3, <2>5, <2>6, <2>7 DEF Stable, ColdKept, DbEffect
  <2>9. Protected(f, v) => Protected(f, v)'
    BY <2>6, <2>7 DEF Protected, DbEffect
  <2>10. ProcOK(p, v)'
    BY <1>3, <1>13, <2>6 DEF DbEffect, SameFile
  <2> QED
    BY <1>3, <1>4, <1>11, <1>12, <2>4, <2>6, <2>8, <2>9, <2>10, DbStep DEF FileOK
<1>15. CASE ~Restores(f)
  <2>1. disk' = disk /\ may' = may
    <3>1. pager_playback(p) /\ f = pc[p].f
      BY SMTT(30)
    <3> QED
      BY ONLY <1>15, <3>1 DEF pager_playback
  <2>2. m # None /\ disk.master[m] = {}
    BY <1>15 DEF Restores, MasterExists, m
  <2>3. ~Sure(m)
    <3>1. disk.master[m] \in may.master[m] /\ File # {}
      BY <1>3, <1>5, <2>2, Types DEF Shown
    <3> QED
      BY <2>2, <3>1 DEF Sure
  <2>4. Stable(f, v)
    BY <1>4, <2>3 DEF FileOK, Protected, m
  <2>5. disk'.db[f] = v
    BY <1>4, <2>1, <2>4 DEF Stable
  <2>6. ProcOK(p, v)'
    BY <1>13, <2>1, <2>5
  <2> QED
    BY <1>3, <1>12, <2>1, <2>6, QuietStep
<1> QED
  BY <1>14, <1>15

LEMMA PlaybackSyncOK ==
  ASSUME NFileOK, NEW v \in 0 .. MaxTxn, All(v), NEW p \in Proc, NEW f \in File,
         f = pc[p].f, PlaybackSync(p)
  PROVE  All(v)'
<1> DEFINE r == [pc[p] EXCEPT !.at = "end"]
<1>1. /\ pc[p].at = "sync" /\ txn' = txn /\ done' = done /\ lock' = lock
      /\ Sync("db", f) /\ Goto(p, "end")
  BY DEF PlaybackSync
<1>2. Counts(v)
  BY <1>1, CountsSame
<1>3. TypeOK /\ ProcOK(p, v) /\ pc \in [Proc -> PcType] /\ pc[p] \in PcType /\ f \in File /\ v \in Value
  BY Types DEF TypeOK
<1>4. PcEffect(p, r) /\ r.at = "end" /\ r.f = f /\ r.txn = pc[p].txn
  BY <1>1, <1>3, GotoChange DEF Ats, PcType
<1> HIDE DEF r
<1>5. pc'[p].at = "end" /\ pc'[p].f = f /\ pc'[p].txn = pc[p].txn
  BY <1>4 DEF PcEffect
<1>6. Reserved(p, f) /\ disk.db[f] = v
  BY <1>1, <1>3 DEF ProcOK, Working, Restoring
<1>7. \A q \in Proc \ {p} : ~Reserved(q, f)
  BY <1>3, <1>6, Owner
<1>8. /\ StepOf(p, f, lock[f][p], v)
      /\ lock[f][p] \in {SHARED_LOCK, RESERVED_LOCK} => Stable(f, v)
  BY <1>1, <1>2, <1>3, <1>4, LockSame DEF StepOf, PcEffect
<1>9. DbEffect(f, v, {v})
  <2>1. disk' = [disk EXCEPT !["db"][f] = v]
    BY <1>1, <1>3, <1>6, NoDiskChange DEF Sync, TypeOK, DiskType
  <2>2. may' = [may EXCEPT !["db"][f] = {v}]
    BY <1>1, <1>6 DEF Sync
  <2> QED
    BY <1>3, <2>1, <2>2, DbChange
<1>10. ColdKept
  BY <1>3, <1>9, MastersKept DEF DbEffect
<1>11. Stable(f, v)'
  <2>1. FileOK(f, v)
    BY <1>3, FileTypes
  <2>2. \A j \in may.journal[f] : j.open => j.orig = v \/ Cold(j.master)
    BY <2>1 DEF FileOK, Stable, Protected
  <2> QED
    BY <1>3, <1>9, <1>10, <2>2 DEF Stable, ColdKept, DbEffect
<1>12. \A g \in File : (Reserved(p, g)' <=> Reserved(p, g)) /\ (Working(p, g)' <=> Working(p, g))
  BY <1>1, <1>5 DEF Reserved, Working, CommitAts
<1>13. \A g \in File : Reserved(p, g)' <=> Working(p, g)'
  BY <1>3, <1>12 DEF ProcOK
<1>14. \A g \in File : Working(p, g)' => disk'.journal[g].open
  BY <1>1, <1>3, <1>9, <1>12 DEF ProcOK, Restoring, DbEffect, SameFile
<1>15. ProcOK(p, v)'
  BY <1>5, <1>11, <1>13, <1>14 DEF ProcOK, Begun, Committing, Restoring, CommitAts
<1>16. v \in {v}
  OBVIOUS
<1> QED
  BY <1>3, <1>7, <1>8, <1>9, <1>11, <1>15, <1>16, DbStep DEF FileOK

LEMMA EndPlaybackOK ==
  ASSUME NFileOK, NEW v \in 0 .. MaxTxn, All(v), NEW p \in Proc, NEW f \in File,
         f = pc[p].f, EndPlayback(p)
  PROVE  All(v)'
<1>1. /\ pc[p].at = "end" /\ txn' = txn /\ done' = done
      /\ WriteJournal(f, NoJournal) /\ SetLock(p, f, SHARED_LOCK)
      /\ IF pc[p].master = None THEN RolledBack(p, f) ELSE Goto(p, "delmaster")
  BY DEF EndPlayback
<1>2. Counts(v)
  BY <1>1, CountsSame
<1>3. /\ TypeOK /\ ProcOK(p, v) /\ pc \in [Proc -> PcType] /\ pc[p] \in PcType
      /\ NoJournal \in JournalType
  BY Types DEF TypeOK
<1>4. Reserved(p, f) /\ Stable(f, v)
  BY <1>1, <1>3 DEF ProcOK, Working, Restoring
<1>5. \A q \in Proc \ {p} : ~Reserved(q, f) /\ lock[f][q] # EXCLUSIVE_LOCK
  BY <1>4, Owner
<1>6. LockEffect(p, f, SHARED_LOCK)
  BY <1>1, <1>3, LockChange DEF LockType
<1> DEFINE J == may.journal[f] \cup {NoJournal}
<1>7. JournalEffect(f, NoJournal, J)
  <2>1. J \in SUBSET JournalType
    BY <1>3, FileTypes
  <2>2. disk' = [disk EXCEPT !["journal"][f] = NoJournal] /\ may' = [may EXCEPT !["journal"][f] = J]
    BY <1>1 DEF WriteJournal, Write
  <2> QED
    BY <1>3, <2>1, <2>2, JournalChange
<1>8. Stable(f, v)'
  <2>1. ColdKept
    BY <1>7, MastersKept DEF JournalEffect
  <2>2. ~NoJournal.open
    BY DEF NoJournal
  <2> QED
    BY <1>4, <1>7, <2>1, <2>2 DEF Stable, ColdKept, JournalEffect
<1>9. \A g \in File \ {f} : disk'.journal[g] = disk.journal[g]
  BY <1>7 DEF JournalEffect, SameFile
<1>10. /\ ProcOK(p, v)' /\ pc' \in [Proc -> PcType]
       /\ \A q \in Proc \ {p} : pc'[q] = pc[q]
  <2>1. CASE pc[p].master = None
    BY <1>1, <1>6, <1>9, <2>1, RolledBackOK DEF Back
  <2>2. CASE pc[p].master # None
    <3> DEFINE r == [pc[p] EXCEPT !.at = "delmaster"]
    <3>1. PcEffect(p, r) /\ r.at = "delmaster" /\ r.f = f /\ r.txn = pc[p].txn /\ r.master = pc[p].master
      BY <1>1, <1>3, <2>2, GotoChange DEF Ats, PcType
    <3> HIDE DEF r
    <3>2. /\ pc'[p].at = "delmaster" /\ pc'[p].f = f /\ pc'[p].txn = pc[p].txn
          /\ pc'[p].master = pc[p].master
      BY <3>1 DEF PcEffect
    <3>3. \A g \in File \ {f} : /\ Reserved(p, g)' <=> Reserved(p, g)
                                /\ Working(p, g)' <=> Working(p, g)
      BY <1>1, <1>6, <3>2 DEF Reserved, Working, CommitAts, LockEffect
    <3>4. ~Reserved(p, f)' /\ ~Working(p, f)'
      BY <1>6, <3>2 DEF Reserved, Working, CommitAts, LockEffect, File, SHARED_LOCK, RESERVED_LOCK, EXCLUSIVE_LOCK
    <3>5. \A g \in File : Reserved(p, g)' <=> Working(p, g)'
      BY <1>3, <3>3, <3>4 DEF ProcOK
    <3>6. \A g \in File : Working(p, g)' => disk'.journal[g].open
      BY <1>1, <1>3, <1>9, <3>3, <3>4 DEF ProcOK, Restoring
    <3>7. lock'[f][p] = SHARED_LOCK
      BY <1>6 DEF LockEffect
    <3>8. ProcOK(p, v)'
      BY <2>2, <3>2, <3>5, <3>6, <3>7 DEF ProcOK, Begun, Committing, Restoring, CommitAts
    <3> QED
      BY <3>1, <3>8 DEF PcEffect
  <2> QED
    BY <2>1, <2>2
<1>11. StepOf(p, f, SHARED_LOCK, v)
  BY <1>2, <1>5, <1>6, <1>10 DEF StepOf, Legal, LockType, SHARED_LOCK, RESERVED_LOCK, EXCLUSIVE_LOCK
<1>12. NoJournal \in J /\ J \subseteq may.journal[f] \cup {NoJournal} /\ NoJournal.master = None
  BY DEF NoJournal
<1> HIDE DEF J
<1> QED
  BY <1>4, <1>5, <1>7, <1>8, <1>10, <1>11, <1>12, JournalStep DEF FileOK

LEMMA DelmasterOK ==
  ASSUME NFileOK, NEW v \in 0 .. MaxTxn, All(v), NEW p \in Proc, NEW f \in File,
         f = pc[p].f, pager_delmaster(p)
  PROVE  All(v)'
<1> DEFINE m == pc[p].master
<1>1. /\ pc[p].at = "delmaster" /\ txn' = txn /\ done' = done /\ disk' = disk /\ may' = may
      /\ IF MasterExists(m)
         THEN /\ pc' = [pc EXCEPT ![p].at = "children", ![p].left = disk.master[m]]
              /\ lock' = lock
         ELSE RolledBack(p, f) /\ SetLock(p, f, NO_LOCK)
  BY DEF pager_delmaster
<1>2. Counts(v)
  BY <1>1, CountsSame
<1>3. /\ TypeOK /\ ProcOK(p, v) /\ pc \in [Proc -> PcType] /\ pc[p] \in PcType
      /\ m \in 0 .. MaxTxn
  BY Types DEF TypeOK
<1>4. CASE MasterExists(m)
  <2>1. disk.master[m] = File
    <3>1. m \in 1 .. MaxTxn
      BY <1>1, <1>3 DEF ProcOK, Restoring, None, NFileOK
    <3>2. disk.master[m] \in MasterType
      BY <1>3, <3>1 DEF TypeOK, DiskType
    <3> QED
      BY <1>4, <3>2 DEF MasterType, MasterExists
  <2> DEFINE r == [pc[p] EXCEPT !.at = "children", !.left = File]
  <2>2. /\ r \in PcType /\ r.at = "children" /\ r.f = f /\ r.txn = pc[p].txn
        /\ r.master = m /\ r.left = File
    <3>1. "children" \in Ats /\ File \in SUBSET File
      BY DEF Ats
    <3> QED
      BY <1>3, <3>1 DEF PcType
  <2>3. pc' = [pc EXCEPT ![p] = r]
    BY <1>1, <1>3, <1>4, <2>1 DEF PcType
  <2> HIDE DEF r
  <2>4. PcEffect(p, r)
    BY <1>3, <2>2, <2>3, PcChange
  <2>5. pc'[p].at = "children" /\ pc'[p].f = f /\ pc'[p].txn = pc[p].txn /\ pc'[p].master = m
        /\ pc'[p].left = File
    BY <2>2, <2>4 DEF PcEffect
  <2>6. \A g \in File : (Reserved(p, g)' <=> Reserved(p, g)) /\ (Working(p, g)' <=> Working(p, g))
    BY <1>1, <1>4, <2>5 DEF Reserved, Working, CommitAts
  <2>7. \A g \in File : Reserved(p, g)' <=> Working(p, g)'
    BY <1>3, <2>6 DEF ProcOK
  <2>8. \A g \in File : Working(p, g)' => disk'.journal[g].open
    BY <1>1, <1>3, <2>6 DEF ProcOK, Restoring
  <2>9. lock'[f][p] = SHARED_LOCK /\ m # None
    BY <1>1, <1>3, <1>4 DEF ProcOK, Restoring
  <2>10. ProcOK(p, v)'
    BY <2>5, <2>7, <2>8, <2>9 DEF ProcOK, Begun, Committing, Restoring, CommitAts
  <2>11. /\ StepOf(p, f, lock[f][p], v)
         /\ lock[f][p] \in {SHARED_LOCK, RESERVED_LOCK} => Stable(f, v)
    BY <1>1, <1>2, <1>4, <2>4, LockSame DEF StepOf, PcEffect
  <2> QED
    BY <1>1, <2>10, <2>11, QuietStep
<1>5. CASE ~MasterExists(m)
  <2>1. LockEffect(p, f, NO_LOCK)
    BY <1>1, <1>3, <1>5, LockChange DEF LockType
  <2>2. RolledBack(p, f) /\ pc[p].at \in Back
    BY <1>1, <1>5 DEF Back
  <2>3. /\ ProcOK(p, v)' /\ pc' \in [Proc -> PcType]
        /\ \A q \in Proc \ {p} : pc'[q] = pc[q]
    BY <1>1, <2>1, <2>2, RolledBackOK
  <2>4. StepOf(p, f, NO_LOCK, v)
    BY <1>2, <2>1, <2>3 DEF StepOf, Legal, LockType, NO_LOCK, SHARED_LOCK, RESERVED_LOCK, EXCLUSIVE_LOCK
  <2>5. NO_LOCK \notin {SHARED_LOCK, RESERVED_LOCK}
    BY DEF NO_LOCK, SHARED_LOCK, RESERVED_LOCK
  <2> QED
    BY <1>1, <2>3, <2>4, <2>5, QuietStep
<1> QED
  BY <1>4, <1>5

LEMMA PlaybackFailsOK ==
  ASSUME NFileOK, NEW v \in 0 .. MaxTxn, All(v), NEW p \in Proc, NEW f \in File,
         f = pc[p].f, PlaybackFails(p)
  PROVE  All(v)'
<1>1. /\ pc[p].at \in Back /\ txn' = txn /\ done' = done /\ disk' = disk /\ may' = may
      /\ RolledBack(p, f) /\ SetLock(p, f, NO_LOCK)
  BY DEF PlaybackFails, Back
<1>2. Counts(v)
  BY <1>1, CountsSame
<1>3. LockEffect(p, f, NO_LOCK)
  BY <1>1, LockChange, Types DEF LockType
<1>4. /\ ProcOK(p, v)' /\ pc' \in [Proc -> PcType]
      /\ \A q \in Proc \ {p} : pc'[q] = pc[q]
  BY <1>1, <1>3, RolledBackOK
<1>5. StepOf(p, f, NO_LOCK, v)
  BY <1>2, <1>3, <1>4 DEF StepOf, Legal, LockType, NO_LOCK, SHARED_LOCK, RESERVED_LOCK, EXCLUSIVE_LOCK
<1>6. NO_LOCK \notin {SHARED_LOCK, RESERVED_LOCK}
  BY DEF NO_LOCK, SHARED_LOCK, RESERVED_LOCK
<1> QED
  BY <1>1, <1>4, <1>5, <1>6, QuietStep

LEMMA DelmasterCheckOK ==
  ASSUME NFileOK, NEW v \in 0 .. MaxTxn, All(v), NEW p \in Proc, NEW f \in File,
         f = pc[p].f, DelmasterCheck(p)
  PROVE  All(v)'
<1> DEFINE m == pc[p].master
<1>1. /\ pc[p].at = "children" /\ txn' = txn /\ done' = done /\ disk' = disk /\ may' = may
      /\ lock' = lock
  BY DEF DelmasterCheck
<1>2. Counts(v)
  BY <1>1, CountsSame
<1>3. /\ TypeOK /\ ProcOK(p, v) /\ pc \in [Proc -> PcType] /\ pc[p] \in PcType
      /\ pc[p].left \in SUBSET File
  BY Types DEF TypeOK
<1>4. /\ LockEffect(p, f, lock[f][p]) /\ Legal(p, f, lock[f][p]) /\ lock[f][p] \in LockType
      /\ lock[f][p] \in {SHARED_LOCK, RESERVED_LOCK} => Stable(f, v)
  BY <1>1, LockSame
<1>5. lock[f][p] = SHARED_LOCK /\ m # None /\ \A g \in File \ pc[p].left : ~NamesMaster(g, m)
  BY <1>1, <1>3 DEF ProcOK, Restoring
<1>6. PICK h \in pc[p].left :
        IF NamesMaster(h, m) THEN RolledBack(p, f) ELSE pc' = [pc EXCEPT ![p].left = @ \ {h}]
  BY DEF DelmasterCheck
<1>7. /\ ProcOK(p, v)' /\ pc' \in [Proc -> PcType]
      /\ \A q \in Proc \ {p} : pc'[q] = pc[q]
  <2>1. CASE NamesMaster(h, m)
    <3>1. lock[f][p] \in {NO_LOCK, SHARED_LOCK} /\ pc[p].at \in Back
      BY <1>1, <1>5 DEF Back
    <3> QED
      BY <1>1, <1>4, <1>6, <2>1, <3>1, RolledBackOK
  <2>2. CASE ~NamesMaster(h, m)
    <3> DEFINE r == [pc[p] EXCEPT !.left = pc[p].left \ {h}]
    <3>1. /\ r \in PcType /\ r.at = "children" /\ r.f = f /\ r.txn = pc[p].txn
          /\ r.master = m /\ r.left = pc[p].left \ {h}
      BY <1>1, <1>3 DEF PcType
    <3>2. pc' = [pc EXCEPT ![p] = r]
      BY <1>3, <1>6, <2>2 DEF PcType
    <3> HIDE DEF r
    <3>3. PcEffect(p, r)
      BY <1>3, <3>1, <3>2, PcChange
    <3>4. pc'[p].at = "children" /\ pc'[p].f = f /\ pc'[p].txn = pc[p].txn /\ pc'[p].master = m
          /\ pc'[p].left = pc[p].left \ {h}
      BY <3>1, <3>3 DEF PcEffect
    <3>5. \A g \in File : (Reserved(p, g)' <=> Reserved(p, g)) /\ (Working(p, g)' <=> Working(p, g))
      BY <1>1, <3>4 DEF Reserved, Working, CommitAts
    <3>6. \A g \in File : Reserved(p, g)' <=> Working(p, g)'
      BY <1>3, <3>5 DEF ProcOK
    <3>7. \A g \in File : Working(p, g)' => disk'.journal[g].open
      BY <1>1, <1>3, <3>5 DEF ProcOK, Restoring
    <3>8. (\A g \in File \ pc[p].left : ~NamesMaster(g, pc[p].master))'
      BY <1>1, <1>5, <2>2, <3>4 DEF NamesMaster
    <3>9. ProcOK(p, v)'
      BY <1>1, <1>5, <3>4, <3>6, <3>7, <3>8 DEF ProcOK, Begun, Committing, Restoring, CommitAts
    <3> QED
      BY <3>3, <3>9 DEF PcEffect
  <2> QED
    BY <2>1, <2>2
<1>8. StepOf(p, f, lock[f][p], v)
  BY <1>2, <1>4, <1>7 DEF StepOf
<1> QED
  BY <1>1, <1>4, <1>7, <1>8, QuietStep

LEMMA DelmasterDeleteOK ==
  ASSUME NFileOK, NEW v \in 0 .. MaxTxn, All(v), NEW p \in Proc, NEW f \in File,
         f = pc[p].f, DelmasterDelete(p)
  PROVE  All(v)'
<1> DEFINE m == pc[p].master
           X == may.master[m] \cup {{}}
<1>1. /\ pc[p].at = "children" /\ pc[p].left = {} /\ txn' = txn /\ done' = done
      /\ Write("master", m, {}, {{}}) /\ RolledBack(p, f)
      /\ IF MasterExists(m) THEN lock' = lock ELSE SetLock(p, f, NO_LOCK)
  BY DEF DelmasterDelete
<1>2. Counts(v)
  BY <1>1, CountsSame
<1>3. /\ TypeOK /\ ProcOK(p, v) /\ LocksOK(v) /\ m \in 0 .. MaxTxn
  BY Types
<1>4. m \in 1 .. MaxTxn /\ lock[f][p] = SHARED_LOCK /\ \A g \in File : ~NamesMaster(g, m)
  BY <1>1, <1>3 DEF ProcOK, Restoring, None, NFileOK
<1>5. /\ LockEffect(p, f, lock[f][p]) \/ LockEffect(p, f, NO_LOCK)
      /\ Legal(p, f, lock[f][p]) /\ Stable(f, v)
  <2>1. lock' = lock => LockEffect(p, f, lock[f][p])
    BY LockSame
  <2>2. SetLock(p, f, NO_LOCK) => LockEffect(p, f, NO_LOCK)
    BY <1>3, LockChange DEF LockType
  <2>3. Legal(p, f, lock[f][p])
    BY <1>3, <1>4 DEF Legal, LocksOK, NO_LOCK, SHARED_LOCK, RESERVED_LOCK, EXCLUSIVE_LOCK
  <2>4. Stable(f, v)
    BY <1>3, <1>4 DEF LocksOK
  <2> QED
    BY <1>1, <2>1, <2>2, <2>3, <2>4
<1>6. PICK l \in {NO_LOCK, SHARED_LOCK} : LockEffect(p, f, l) /\ Legal(p, f, l)
  <2>1. Legal(p, f, NO_LOCK)
    BY DEF Legal, NO_LOCK, SHARED_LOCK, RESERVED_LOCK, EXCLUSIVE_LOCK
  <2> QED
    BY <1>4, <1>5, <2>1
<1>7. MasterEffect(m, {}, X)
  <2>1. X \in SUBSET MasterType /\ {} \in MasterType
    BY <1>3, <1>4 DEF TypeOK, MayType, MasterType
  <2>2. disk' = [disk EXCEPT !["master"][m] = {}] /\ may' = [may EXCEPT !["master"][m] = X]
    BY <1>1 DEF Write
  <2> QED
    BY <1>3, <1>4, <2>1, <2>2, MasterChange
<1>8. \A g \in File \ {f} : disk'.journal[g] = disk.journal[g]
  BY <1>7 DEF MasterEffect, SameFile
<1>9. /\ ProcOK(p, v)' /\ pc' \in [Proc -> PcType]
      /\ \A q \in Proc \ {p} : pc'[q] = pc[q]
  BY <1>1, <1>6, <1>8, RolledBackOK DEF Back
<1>10. StepOf(p, f, l, v)
  BY <1>2, <1>6, <1>9 DEF StepOf, LockType
<1>11. \A q \in Proc \ {p} : pc[q].at \notin CommitAts \ {"commit"}
  <2> SUFFICES ASSUME NEW q \in Proc \ {p}, pc[q].at \in CommitAts \ {"commit"} PROVE FALSE
    OBVIOUS
  <2>1. pc[p].at = "idle"
    BY <1>3, Types, Alone
  <2> QED
    BY <1>1, <2>1
<1>12. {} \in X
  OBVIOUS
<1>13. X = may.master[m] \cup {{}}
  OBVIOUS
<1>14. PICK n : n = m
  OBVIOUS
<1>15. n \in 1 .. MaxTxn /\ MasterEffect(n, {}, X) /\ X = may.master[n] \cup {{}}
       /\ \A g \in File : ~NamesMaster(g, n)
  BY <1>4, <1>7, <1>14
<1> HIDE DEF X, m
<1> QED
  BY <1>5, <1>9, <1>10, <1>11, <1>12, <1>15, MasterStep

-----------------------------------------------------------------------------
\* The transaction, up to its commit.

LEMMA BeginOK ==
  ASSUME NFileOK, NEW v \in 0 .. MaxTxn, All(v), NEW p \in Proc, NEW f \in File, Begin(p, f)
  PROVE  All(v)'
<1>1. /\ \/ pc[p].at = "idle" /\ f = 1 /\ txn < MaxTxn /\ Holds(p, SHARED_LOCK)
         \/ pc[p].at = "write" /\ pc[p].f = f /\ f > 1
      /\ \A q \in Proc \ {p} : lock[f][q] < 2
      /\ SetLock(p, f, RESERVED_LOCK) /\ done' = done
      /\ WriteJournal(f, Journal(disk.db[f], None))
  BY LockRules DEF Begin
<1>2. /\ TypeOK /\ ProcOK(p, v) /\ LocksOK(v) /\ NamesKnown /\ pc \in [Proc -> PcType] /\ pc[p] \in PcType
      /\ txn \in 0 .. MaxTxn /\ v \in Nat /\ v \in Value /\ done \in Nat /\ done <= v /\ v <= txn
      /\ NFile \in Nat /\ MaxTxn \in Nat /\ pc[p].txn \in 0 .. MaxTxn /\ f \in 1 .. NFile /\ 1 \in File
  BY Types DEF TypeOK, File
<1>3. /\ \A g \in File : g >= f => lock[g][p] = SHARED_LOCK
      /\ \A g \in File : g < f => Untouched(g, v) /\ Reserved(p, g)
  <2>1. CASE pc[p].at = "idle"
    BY <1>1, <1>2, <2>1 DEF Holds, File
  <2>2. CASE pc[p].at = "write"
    BY <1>1, <1>2, <2>2 DEF ProcOK, Begun, Working, File
  <2> QED
    BY <1>1, <2>1, <2>2
<1>4. Stable(f, v) /\ disk.db[f] = v
  <2>1. lock[f][p] = SHARED_LOCK
    BY <1>2, <1>3
  <2>2. Stable(f, v)
    BY <1>2, <2>1 DEF LocksOK
  <2> QED
    BY <2>2, FileTypes DEF Stable
<1> DEFINE t == IF f = 1 THEN txn + 1 ELSE pc[p].txn
           at == IF f < NFile THEN "write" ELSE "commit"
           nf == IF f < NFile THEN f + 1 ELSE 1
           r == [Idle EXCEPT !.at = at, !.txn = t, !.f = nf]
           j == Journal(v, None)
           J == may.journal[f] \cup {j}
<1>5. pc' = [pc EXCEPT ![p] = r] /\ txn' = IF f = 1 THEN t ELSE txn
  BY DEF Begin
<1>6. /\ t \in 1 .. MaxTxn /\ v < t /\ t <= txn' /\ Fresh(t) /\ txn <= txn' /\ txn' \in 0 .. MaxTxn
  <2>1. CASE f = 1
    <3>1. t = txn + 1 /\ txn' = txn + 1 /\ txn < MaxTxn
      BY <1>1, <1>5, <2>1
    <3>2. Fresh(txn + 1)
      <4> SUFFICES ASSUME NEW g \in File, NEW i \in may.journal[g] PROVE i.master # txn + 1
        BY DEF Fresh
      <4>1. i.master <= txn /\ i.master \in 0 .. MaxTxn
        BY <1>2, FileTypes DEF NamesKnown, JournalType
      <4> QED
        BY <1>2, <4>1
    <3> QED
      BY <1>2, <3>1, <3>2
  <2>2. CASE f # 1
    <3>1. t = pc[p].txn /\ txn' = txn /\ pc[p].at = "write"
      BY <1>1, <1>5, <2>2
    <3>2. v < t /\ t <= txn /\ Fresh(t)
      BY <1>2, <3>1 DEF ProcOK, Begun
    <3> QED
      BY <1>2, <3>1, <3>2
  <2> QED
    BY <2>1, <2>2
<1>7. at \in Ats /\ nf \in File
  BY <1>2 DEF Ats, File
<1>8. r \in PcType /\ r.at = at /\ r.f = nf /\ r.txn = t
  <2> HIDE DEF at, nf, t
  <2>1. t \in 0 .. MaxTxn
    BY <1>6
  <2>2. Idle \in PcType
    BY IdleType
  <2> QED
    BY <1>7, <2>1, <2>2 DEF PcType
<1> HIDE DEF r
<1>9. PcEffect(p, r)
  BY <1>2, <1>5, <1>8, PcChange
<1>10. LockEffect(p, f, RESERVED_LOCK)
  BY <1>1, <1>2, LockChange DEF LockType
<1>11. \A q \in Proc \ {p} : lock[f][q] \in {NO_LOCK, SHARED_LOCK}
  BY <1>1, FileTypes DEF LockType, NO_LOCK, SHARED_LOCK, RESERVED_LOCK, EXCLUSIVE_LOCK
<1>12. Counts(v)
  BY <1>1, <1>2, <1>6 DEF Counts
<1>13. StepOf(p, f, RESERVED_LOCK, v)
  BY <1>9, <1>10, <1>11, <1>12 DEF StepOf, Legal, PcEffect, LockType, SHARED_LOCK, RESERVED_LOCK, EXCLUSIVE_LOCK
<1>14. j \in JournalType /\ j.master = None /\ j.orig = v /\ j.open
  BY <1>2 DEF Journal, JournalType, None
<1>15. JournalEffect(f, j, J)
  <2>1. J \in SUBSET JournalType
    BY <1>14, FileTypes
  <2>2. disk' = [disk EXCEPT !["journal"][f] = j] /\ may' = [may EXCEPT !["journal"][f] = J]
    BY <1>1, <1>4 DEF WriteJournal, Write
  <2> QED
    BY <1>2, <1>14, <2>1, <2>2, JournalChange
<1>16. Stable(f, v)'
  <2>1. ColdKept
    BY <1>15, MastersKept DEF JournalEffect
  <2> QED
    BY <1>4, <1>14, <1>15, <2>1 DEF Stable, ColdKept, JournalEffect
<1>17. \A g \in File : (Reserved(p, g)' <=> g <= f) /\ (g <= f => Untouched(g, v)')
                       /\ (g > f => lock'[g][p] = SHARED_LOCK)
  <2> SUFFICES ASSUME NEW g \in File
               PROVE  (Reserved(p, g)' <=> g <= f) /\ (g <= f => Untouched(g, v)')
                      /\ (g > f => lock'[g][p] = SHARED_LOCK)
    OBVIOUS
  <2>1. CASE g = f
    BY <1>2, <1>10, <1>15, <2>1 DEF LockEffect, Reserved, JournalEffect, Untouched
  <2>2. CASE g < f
    BY <1>2, <1>3, <1>10, <1>15, <2>2 DEF LockEffect, Reserved, JournalEffect, SameFile, Untouched, File
  <2>3. CASE g > f
    BY <1>2, <1>3, <1>10, <2>3 DEF LockEffect, Reserved, File, SHARED_LOCK, RESERVED_LOCK, EXCLUSIVE_LOCK
  <2> QED
    BY <1>2, <2>1, <2>2, <2>3 DEF File
<1>18. Fresh(pc[p].txn)'
  <2>1. PICK n : n = t
    OBVIOUS
  <2>2. pc'[p].txn = n /\ n \in 1 .. MaxTxn /\ Fresh(n)
    BY <1>6, <1>8, <1>9, <2>1 DEF PcEffect
  <2>3. Fresh(n)'
    BY <1>14, <1>15, <2>2 DEF Fresh, JournalEffect, SameFile, None
  <2> QED
    BY <2>2, <2>3
<1>19. pc'[p].at = at /\ pc'[p].f = nf /\ pc'[p].txn = t /\ v < t /\ t <= txn'
  BY <1>6, <1>8, <1>9 DEF PcEffect
<1> HIDE DEF t, j, J
<1>20. ProcOK(p, v)'
  <2>1. CASE f < NFile
    <3>1. pc'[p].at = "write" /\ pc'[p].f = f + 1
      BY <1>19, <2>1
    <3>2. \A g \in File : Reserved(p, g)' <=> Working(p, g)'
      BY <1>2, <1>17, <3>1 DEF Working, CommitAts, File
    <3>3. Begun(p, v)'
      BY <1>2, <1>17, <1>18, <1>19, <3>1 DEF Begun, CommitAts, File
    <3> QED
      BY <3>1, <3>2, <3>3 DEF ProcOK, Committing, Restoring, CommitAts
  <2>2. CASE ~(f < NFile)
    <3>1. pc'[p].at = "commit" /\ pc'[p].f = 1
      BY <1>19, <2>2
    <3>2. \A g \in File : g <= f
      BY <1>2, <2>2 DEF File
    <3>3. \A g \in File : Reserved(p, g)' <=> Working(p, g)'
      BY <1>17, <3>1, <3>2 DEF Working, CommitAts
    <3>4. Begun(p, v)'
      BY <1>17, <1>18, <1>19, <3>1, <3>2 DEF Begun, CommitAts
    <3> QED
      BY <3>1, <3>3, <3>4 DEF ProcOK, Committing, Restoring, CommitAts
  <2> QED
    BY <2>1, <2>2
<1>21. j \in J /\ J \subseteq may.journal[f] \cup {j}
  BY DEF J
<1>22. \A q \in Proc \ {p} : ~Reserved(q, f)
  BY <1>11 DEF Reserved, NO_LOCK, SHARED_LOCK, RESERVED_LOCK, EXCLUSIVE_LOCK
<1> QED
  BY <1>4, <1>13, <1>14, <1>15, <1>16, <1>20, <1>21, <1>22, JournalStep DEF FileOK

LEMMA ExclusiveLockOK ==
  ASSUME NFileOK, NEW v \in 0 .. MaxTxn, All(v), NEW p \in Proc, NEW f \in File,
         ExclusiveLock(p, f)
  PROVE  All(v)'
<1>1. /\ pc[p].at = "commit" /\ txn' = txn /\ done' = done /\ disk' = disk /\ may' = may
      /\ pc' = pc /\ SetLock(p, f, EXCLUSIVE_LOCK) /\ \A q \in Proc \ {p} : lock[f][q] = NO_LOCK
  BY LockRules DEF ExclusiveLock, NO_LOCK
<1>2. Counts(v)
  BY <1>1, CountsSame
<1>3. TypeOK /\ ProcOK(p, v) /\ pc \in [Proc -> PcType]
  BY Types DEF TypeOK
<1>4. LockEffect(p, f, EXCLUSIVE_LOCK)
  BY <1>1, <1>3, LockChange DEF LockType
<1>5. StepOf(p, f, EXCLUSIVE_LOCK, v)
  BY <1>1, <1>2, <1>3, <1>4 DEF StepOf, Legal, LockType, SHARED_LOCK, RESERVED_LOCK, EXCLUSIVE_LOCK
<1>6. \A g \in File : Reserved(p, g)' /\ Working(p, g)'
  BY <1>1, <1>3, <1>4 DEF ProcOK, Working, CommitAts, Reserved, LockEffect
<1>7. Begun(p, v)'
  BY <1>1, <1>3 DEF ProcOK, Begun, Fresh, Untouched, CommitAts
<1>8. ProcOK(p, v)'
  BY <1>1, <1>6, <1>7 DEF ProcOK, Committing, Restoring, CommitAts
<1>9. EXCLUSIVE_LOCK \notin {SHARED_LOCK, RESERVED_LOCK}
  BY DEF SHARED_LOCK, RESERVED_LOCK, EXCLUSIVE_LOCK
<1> QED
  BY <1>1, <1>5, <1>8, <1>9, QuietStep

LEMMA SpillOK ==
  ASSUME NFileOK, NEW v \in 0 .. MaxTxn, All(v), NEW p \in Proc, NEW f \in File, Spill(p, f)
  PROVE  All(v)'
<1>1. /\ pc[p].at = "commit" /\ lock[f][p] = EXCLUSIVE_LOCK
      /\ lock' = lock /\ pc' = pc /\ txn' = txn /\ done' = done
      /\ disk' = [disk EXCEPT !.db[f] = Torn]
      /\ may' = [may EXCEPT !.db[f] = @ \cup {Torn}, !.journal[f] = {disk.journal[f]}]
  BY DEF Spill
<1>2. /\ TypeOK /\ Shown /\ ProcOK(p, v) /\ LocksOK(v) /\ txn \in 0 .. MaxTxn /\ done \in Nat
      /\ done <= v /\ v <= txn
  BY Types
<1>3. /\ disk.db[f] \in Value /\ disk.journal[f] \in JournalType
      /\ may.db[f] \in SUBSET Value /\ disk.journal[f] \in may.journal[f]
  BY FileTypes
<1>4. /\ disk' \in DiskType /\ disk'.db[f] = Torn /\ disk'.journal = disk.journal
      /\ disk'.master = disk.master /\ \A g \in File \ {f} : disk'.db[g] = disk.db[g]
  BY <1>1, <1>2 DEF TypeOK, DiskType, Value
<1>5. /\ may' \in MayType /\ may'.db[f] = may.db[f] \cup {Torn}
      /\ may'.journal[f] = {disk.journal[f]} /\ may'.master = may.master
      /\ \A g \in File \ {f} : may'.db[g] = may.db[g] /\ may'.journal[g] = may.journal[g]
  BY <1>1, <1>2, <1>3 DEF TypeOK, MayType, Value
<1>6. TypeOK'
  BY <1>1, <1>2, <1>4, <1>5 DEF TypeOK
<1>7. (\A g \in File \ {f} : SameFile(g)) /\ \A m : SameMaster(m)
  BY <1>4, <1>5 DEF SameFile, SameMaster
<1>8. /\ ColdKept
      /\ \A g \in File : \A i \in may.journal[g] : Sure(i.master) => Sure(i.master)'
      /\ \A q \in Proc : pc[q].at \in CommitAts \ {"commit"} => SameMaster(pc[q].txn)
  BY <1>7, MastersKept
<1>9. Shown'
  BY <1>2, <1>4, <1>5 DEF Shown
<1>10. disk.journal[f] = Journal(v, None)
  BY <1>1, <1>2 DEF ProcOK, Begun, Untouched
<1>11. FileOK(f, v)'
  BY <1>5, <1>10 DEF FileOK, Protected, Journal, Sure, None
<1>12. \A q \in Proc \ {p} : lock[f][q] = NO_LOCK
  BY <1>1, <1>2 DEF LocksOK
<1>13. \A q \in Proc \ {p} : ~Reserved(q, f) /\ lock[f][q] \notin {SHARED_LOCK, RESERVED_LOCK}
  BY <1>12 DEF Reserved, NO_LOCK, SHARED_LOCK, RESERVED_LOCK, EXCLUSIVE_LOCK
<1>14. LockEffect(p, f, EXCLUSIVE_LOCK) /\ EXCLUSIVE_LOCK \in LockType
  BY <1>1, LockSame
<1>15. \A m : NamesMaster(f, m)' => NamesMaster(f, m)
  BY <1>4 DEF NamesMaster
<1>16. \A g \in File : Reserved(p, g)' <=> Working(p, g)'
  BY <1>1, <1>2 DEF ProcOK, Working, CommitAts, Reserved
<1>17. Begun(p, v)'
  <2>1. \A g \in File : may'.journal[g] \subseteq may.journal[g]
    BY <1>3, <1>5
  <2>2. Fresh(pc[p].txn) /\ \A g \in File : Untouched(g, v)
    BY <1>1, <1>2 DEF ProcOK, Begun
  <2>3. Fresh(pc[p].txn)'
    BY <1>1, <2>1, <2>2 DEF Fresh
  <2>4. \A g \in File : Untouched(g, v)'
    BY <1>4, <2>2 DEF Untouched
  <2> QED
    BY <1>1, <1>2, <2>3, <2>4 DEF ProcOK, Begun, CommitAts
<1>18. ProcOK(p, v)'
  BY <1>1, <1>16, <1>17 DEF ProcOK, Committing, Restoring, CommitAts
<1>19. may'.journal[f] \subseteq may.journal[f]
  BY <1>3, <1>5
<1>20. EXCLUSIVE_LOCK # SHARED_LOCK /\ EXCLUSIVE_LOCK # RESERVED_LOCK
  BY DEF SHARED_LOCK, RESERVED_LOCK, EXCLUSIVE_LOCK
<1>21. txn <= txn' /\ done' <= v /\ v <= txn' /\ \A q \in Proc \ {p} : pc'[q] = pc[q]
  BY <1>1, <1>2
<1> QED
  BY <1>6, <1>7, <1>8, <1>9, <1>11, <1>12, <1>13, <1>14, <1>15, <1>18, <1>19, <1>20, <1>21, ProcStep

-----------------------------------------------------------------------------
\* The first phase of the commit.  The process is alone with all the files.

LEMMA CommitStep ==
  ASSUME NFileOK, NEW v \in 0 .. MaxTxn, All(v), NEW p \in Proc, NEW f \in File,
         \A g \in File : lock[g][p] = EXCLUSIVE_LOCK, pc[p].at \in CommitAts,
         lock' = lock, txn' = txn, done' = done, NEW r \in PcType, PcEffect(p, r)
  PROVE  /\ StepOf(p, f, EXCLUSIVE_LOCK, v) /\ pc'[p] = r
         /\ EXCLUSIVE_LOCK \notin {SHARED_LOCK, RESERVED_LOCK}
         /\ \A q \in Proc \ {p} : ~Reserved(q, f) /\ pc[q].at \notin CommitAts \ {"commit"}
         /\ pc[p].txn \in 1 .. MaxTxn /\ v < pc[p].txn /\ pc[p].txn <= txn'
         /\ \A g \in File : Reserved(p, g)' /\ lock'[g][p] = EXCLUSIVE_LOCK
<1>1. Counts(v)
  BY CountsSame
<1>2. TypeOK /\ ProcOK(p, v) /\ pc[p].txn \in 0 .. MaxTxn /\ v \in Nat /\ MaxTxn \in Nat /\ LocksOK(v)
  BY Types
<1>3. v < pc[p].txn /\ pc[p].txn <= txn /\ pc[p].txn \in 1 .. MaxTxn
  BY <1>2 DEF ProcOK, Begun
<1>4. StepOf(p, f, EXCLUSIVE_LOCK, v)
  BY <1>1, LockSame DEF StepOf, PcEffect
<1>5. EXCLUSIVE_LOCK \notin {SHARED_LOCK, RESERVED_LOCK} /\ NO_LOCK \notin {RESERVED_LOCK, EXCLUSIVE_LOCK}
  BY DEF NO_LOCK, SHARED_LOCK, RESERVED_LOCK, EXCLUSIVE_LOCK
<1>6. ASSUME NEW q \in Proc \ {p} PROVE ~Reserved(q, f) /\ pc[q].at \notin CommitAts \ {"commit"}
  <2>1. lock[f][q] = NO_LOCK
    BY <1>2 DEF LocksOK
  <2>2. ProcOK(q, v)
    BY Types
  <2> QED
    BY <1>5, <2>1, <2>2 DEF Reserved, ProcOK, Committing
<1>7. \A g \in File : Reserved(p, g)' /\ lock'[g][p] = EXCLUSIVE_LOCK
  BY DEF Reserved
<1> QED
  BY <1>3, <1>4, <1>5, <1>6, <1>7 DEF PcEffect

LEMMA CreateMasterOK ==
  ASSUME NFileOK, NEW v \in 0 .. MaxTxn, All(v), NEW p \in Proc, NEW t, t = pc[p].txn,
         CreateMaster(p)
  PROVE  All(v)'
<1> DEFINE r == [pc[p] EXCEPT !.at = "master"]
           X == may.master[t] \cup {File}
<1>1. /\ pc[p].at = "commit" /\ \A g \in File : lock[g][p] = EXCLUSIVE_LOCK
      /\ txn' = txn /\ done' = done /\ lock' = lock /\ Goto(p, "master")
      /\ Write("master", t, File, {File})
  BY DEF CreateMaster, Holds
<1>2. TypeOK /\ ProcOK(p, v) /\ pc[p] \in PcType /\ 1 \in File
  BY Types
<1>3. PcEffect(p, r) /\ r \in PcType /\ r.at = "master" /\ r.f = pc[p].f /\ r.txn = t
  BY <1>1, <1>2, GotoChange DEF Ats, PcType
<1> HIDE DEF r
<1>4. /\ StepOf(p, 1, EXCLUSIVE_LOCK, v) /\ pc'[p] = r
      /\ EXCLUSIVE_LOCK \notin {SHARED_LOCK, RESERVED_LOCK}
      /\ \A q \in Proc \ {p} : pc[q].at \notin CommitAts \ {"commit"}
      /\ t \in 1 .. MaxTxn /\ v < t /\ t <= txn'
      /\ \A g \in File : Reserved(p, g)' /\ lock'[g][p] = EXCLUSIVE_LOCK
  BY <1>1, <1>2, <1>3, CommitStep DEF CommitAts
<1>5. MasterEffect(t, File, X)
  <2>1. X \in SUBSET MasterType /\ File \in MasterType
    BY <1>2, <1>4 DEF TypeOK, MayType, MasterType
  <2>2. disk' = [disk EXCEPT !["master"][t] = File] /\ may' = [may EXCEPT !["master"][t] = X]
    BY <1>1 DEF Write
  <2> QED
    BY <1>2, <1>4, <2>1, <2>2, MasterChange
<1>6. Fresh(t) /\ pc[p].f = 1 /\ \A g \in File : Untouched(g, v)
  BY <1>1, <1>2 DEF ProcOK, Begun
<1>7. Fresh(t)' /\ \A g \in File : Untouched(g, v)'
  BY <1>5, <1>6 DEF Fresh, Untouched, MasterEffect, SameFile
<1>8. \A g \in File : Working(p, g)'
  BY <1>3, <1>4 DEF Working, CommitAts
<1>9. Begun(p, v)'
  BY <1>3, <1>4, <1>6, <1>7 DEF Begun, CommitAts
<1>10. disk'.master[t] = File
  BY <1>5 DEF MasterEffect
<1>11. ProcOK(p, v)'
  BY <1>3, <1>4, <1>8, <1>9, <1>10 DEF ProcOK, Committing, Restoring, CommitAts
<1>12. File \in X
  OBVIOUS
<1> HIDE DEF X
<1> QED
  BY <1>2, <1>4, <1>5, <1>6, <1>11, <1>12, MasterStep

LEMMA SyncMasterOK ==
  ASSUME NFileOK, NEW v \in 0 .. MaxTxn, All(v), NEW p \in Proc, NEW t, t = pc[p].txn,
         SyncMaster(p)
  PROVE  All(v)'
<1> DEFINE r == [pc[p] EXCEPT !.at = "name"]
<1>1. /\ pc[p].at = "master" /\ txn' = txn /\ done' = done /\ lock' = lock /\ Goto(p, "name")
      /\ Sync("master", t)
  BY DEF SyncMaster
<1>2. TypeOK /\ ProcOK(p, v) /\ pc[p] \in PcType /\ 1 \in File
  BY Types
<1>3. PcEffect(p, r) /\ r \in PcType /\ r.at = "name" /\ r.f = pc[p].f /\ r.txn = t
  BY <1>1, <1>2, GotoChange DEF Ats, PcType
<1> HIDE DEF r
<1>4. (\A g \in File : lock[g][p] = EXCLUSIVE_LOCK) /\ disk.master[t] = File
  BY <1>1, <1>2 DEF ProcOK, Committing, CommitAts
<1>5. /\ StepOf(p, 1, EXCLUSIVE_LOCK, v) /\ pc'[p] = r
      /\ EXCLUSIVE_LOCK \notin {SHARED_LOCK, RESERVED_LOCK}
      /\ \A q \in Proc \ {p} : pc[q].at \notin CommitAts \ {"commit"}
      /\ t \in 1 .. MaxTxn /\ v < t /\ t <= txn'
      /\ \A g \in File : Reserved(p, g)' /\ lock'[g][p] = EXCLUSIVE_LOCK
  BY <1>1, <1>2, <1>3, <1>4, CommitStep DEF CommitAts
<1>6. MasterEffect(t, File, {File})
  <2>1. {File} \in SUBSET MasterType /\ File \in MasterType
    BY DEF MasterType
  <2>2. disk' = [disk EXCEPT !["master"][t] = File]
    BY <1>1, <1>2, <1>4, <1>5 DEF Sync, TypeOK, DiskType
  <2>3. may' = [may EXCEPT !["master"][t] = {File}]
    BY <1>1, <1>4 DEF Sync
  <2> QED
    BY <1>2, <1>5, <2>1, <2>2, <2>3, MasterChange
<1>7. Fresh(t) /\ pc[p].f = 1 /\ \A g \in File : Untouched(g, v)
  BY <1>1, <1>2 DEF ProcOK, Begun
<1>8. \A g \in File : Untouched(g, v)'
  BY <1>6, <1>7 DEF Untouched, MasterEffect, SameFile
<1>9. \A g \in File : Working(p, g)' /\ ~(g < 1)
  BY <1>3, <1>5 DEF Working, CommitAts, File
<1>10. may'.master[t] = {File}
  BY <1>6 DEF MasterEffect
<1>11. Committing(p, v)'
  BY <1>2, <1>3, <1>5, <1>7, <1>8, <1>9, <1>10 DEF Committing, CommitAts
<1>12. ProcOK(p, v)'
  BY <1>3, <1>5, <1>9, <1>11 DEF ProcOK, Begun, Restoring, CommitAts
<1>13. File \in {File}
  OBVIOUS
<1> QED
  BY <1>2, <1>5, <1>6, <1>7, <1>12, <1>13, MasterStep

\* What holds of a process in the first phase, file f of transaction t being written.
PhaseOneAts == {"name", "syncJournal", "pages", "syncDb"}

PhaseOne(p, f, t, v) ==
  /\ t \in 1 .. MaxTxn /\ v < t /\ t <= txn
  /\ \A g \in File : lock[g][p] = EXCLUSIVE_LOCK
  /\ may.master[t] = {File}
  /\ \A g \in File : /\ g < f => may.db[g] = {t} /\ may.journal[g] = {Journal(v, t)}
                     /\ g > f => Untouched(g, v)

LEMMA PhaseOneFacts ==
  ASSUME NFileOK, NEW v \in 0 .. MaxTxn, All(v), NEW p \in Proc, pc[p].at \in PhaseOneAts
  PROVE  PhaseOne(p, pc[p].f, pc[p].txn, v)
<1>1. ProcOK(p, v) /\ pc[p].txn \in 0 .. MaxTxn /\ v \in Nat /\ MaxTxn \in Nat
  BY Types
<1>2. v < pc[p].txn /\ pc[p].txn <= txn /\ pc[p].txn \in 1 .. MaxTxn
  BY <1>1 DEF ProcOK, Begun, CommitAts, PhaseOneAts
<1> QED
  BY <1>1, <1>2 DEF ProcOK, Committing, CommitAts, PhaseOne, PhaseOneAts, WrittenTo

\* A process at file f after a step that changed only that file.
LEMMA PhaseOneNext ==
  ASSUME NFileOK, NEW v \in 0 .. MaxTxn, NEW p \in Proc, NEW f \in File, NEW t,
         PhaseOne(p, f, t, v), lock' = lock, txn' = txn,
         \A g \in File \ {f} : SameFile(g), \A m \in 1 .. MaxTxn : SameMaster(m),
         pc'[p].at \in PhaseOneAts, pc'[p].f = f, pc'[p].txn = t,
         pc'[p].at = "name" => Untouched(f, v)',
         pc'[p].at = "syncJournal" => disk'.journal[f] = Journal(v, t),
         pc'[p].at \in {"pages", "syncDb"} => may'.journal[f] = {Journal(v, t)},
         pc'[p].at = "syncDb" => disk'.db[f] = t
  PROVE  ProcOK(p, v)'
<1>1. \A g \in File : Reserved(p, g)' /\ Working(p, g)'
  BY DEF PhaseOne, Reserved, Working, CommitAts, PhaseOneAts
<1>2. \A g \in File : (g < f => WrittenTo(p, g, v)') /\ (g > f => Untouched(g, v)')
  BY DEF PhaseOne, SameFile, WrittenTo, Untouched, File
<1>3. may'.master[t] = {File} /\ \A g \in File : lock'[g][p] = EXCLUSIVE_LOCK
  BY DEF PhaseOne, SameMaster
<1>4. Begun(p, v)'
  BY DEF Begun, PhaseOne, CommitAts, PhaseOneAts
<1>5. Committing(p, v)'
  BY <1>2, <1>3 DEF Committing, CommitAts, PhaseOneAts
<1>6. Restoring(p, v)'
  BY DEF Restoring, PhaseOneAts
<1> QED
  BY <1>1, <1>4, <1>5, <1>6 DEF ProcOK

LEMMA WriteMasterJournalOK ==
  ASSUME NFileOK, NEW v \in 0 .. MaxTxn, All(v), NEW p \in Proc, NEW f \in File, f = pc[p].f,
         NEW t, t = pc[p].txn, writeMasterJournal(p)
  PROVE  All(v)'
<1> DEFINE r == [pc[p] EXCEPT !.at = "syncJournal"]
           j == Journal(v, t)
           J == may.journal[f] \cup {j}
<1>1. /\ pc[p].at = "name" /\ txn' = txn /\ done' = done /\ lock' = lock /\ Goto(p, "syncJournal")
      /\ WriteJournal(f, [disk.journal[f] EXCEPT !.master = t])
  BY DEF writeMasterJournal
<1>2. TypeOK /\ ProcOK(p, v) /\ pc[p] \in PcType /\ v \in Value
  BY Types
<1>3. PcEffect(p, r) /\ r \in PcType /\ r.at = "syncJournal" /\ r.f = f /\ r.txn = t
  BY <1>1, <1>2, GotoChange DEF Ats, PcType
<1> HIDE DEF r
<1>4. PhaseOne(p, f, t, v)
  BY <1>1, PhaseOneFacts DEF PhaseOneAts
<1>5. /\ StepOf(p, f, EXCLUSIVE_LOCK, v) /\ pc'[p] = r
      /\ EXCLUSIVE_LOCK \notin {SHARED_LOCK, RESERVED_LOCK}
      /\ \A q \in Proc \ {p} : ~Reserved(q, f)
  BY <1>1, <1>2, <1>3, <1>4, CommitStep DEF CommitAts, PhaseOne
<1>6. disk.journal[f] = Journal(v, None)
  BY <1>1, <1>2 DEF ProcOK, Committing, Untouched
<1>7. [disk.journal[f] EXCEPT !.master = t] = j
  <2>1. [Journal(v, None) EXCEPT !.master = t] = Journal(v, t)
    <3>1. ASSUME NEW b, NEW m, NEW n
          PROVE  [[open |-> b, orig |-> v, master |-> m] EXCEPT !.master = n]
                   = [open |-> b, orig |-> v, master |-> n]
      OBVIOUS
    <3>2. [[open |-> TRUE, orig |-> v, master |-> None] EXCEPT !.master = t]
            = [open |-> TRUE, orig |-> v, master |-> t]
      BY ONLY <3>1, Zenon
    <3> QED
      BY <3>2 DEF Journal
  <2> QED
    BY <1>6, <2>1
<1>8. j \in JournalType /\ j.open /\ j.orig = v /\ j.master = t
  BY <1>2, <1>4 DEF Journal, JournalType, PhaseOne
<1>9. JournalEffect(f, j, J)
  <2>1. J \in SUBSET JournalType
    BY <1>8, FileTypes
  <2>2. disk' = [disk EXCEPT !["journal"][f] = j] /\ may' = [may EXCEPT !["journal"][f] = J]
    BY <1>1, <1>7 DEF WriteJournal, Write
  <2> QED
    BY <1>2, <1>8, <2>1, <2>2, JournalChange
<1>10. ColdKept /\ \A i \in may.journal[f] : Sure(i.master) => Sure(i.master)'
  BY <1>9, MastersKept DEF JournalEffect
<1>11. Stable(f, v) => Stable(f, v)'
  BY <1>8, <1>9, <1>10 DEF Stable, ColdKept, JournalEffect
<1>12. Protected(f, v) => Protected(f, v)'
  <2> SUFFICES ASSUME Protected(f, v), NEW i \in may'.journal[f]
               PROVE  i.open /\ i.orig = v /\ Sure(i.master)' /\ (i.master # None => i = disk'.journal[f])
    BY DEF Protected
  <2>1. CASE i = j
    <3>1. may'.master[t] = {File}
      BY <1>4, <1>9 DEF PhaseOne, JournalEffect, SameMaster
    <3> QED
      BY <1>8, <1>9, <2>1, <3>1 DEF Sure, JournalEffect
  <2>2. CASE i \in may.journal[f]
    <3>1. i.master = None
      BY <1>6, <2>2 DEF Protected, Journal
    <3> QED
      BY <2>2, <3>1 DEF Protected, Sure
  <2> QED
    BY <1>9, <2>1, <2>2 DEF JournalEffect
<1>13. FileOK(f, v)'
  BY <1>11, <1>12, FileTypes DEF FileOK
<1>14. ProcOK(p, v)'
  BY <1>1, <1>3, <1>4, <1>5, <1>9, PhaseOneNext DEF JournalEffect, PhaseOneAts
<1>15. j \in J /\ J \subseteq may.journal[f] \cup {j}
  OBVIOUS
<1> HIDE DEF j, J
<1> QED
  BY <1>1, <1>5, <1>8, <1>9, <1>11, <1>13, <1>14, <1>15, JournalStep

LEMMA SyncJournalOK ==
  ASSUME NFileOK, NEW v \in 0 .. MaxTxn, All(v), NEW p \in Proc, NEW f \in File, f = pc[p].f,
         NEW t, t = pc[p].txn, syncJournal(p)
  PROVE  All(v)'
<1> DEFINE r == [pc[p] EXCEPT !.at = "pages"]
<1>1. /\ pc[p].at = "syncJournal" /\ txn' = txn /\ done' = done /\ lock' = lock /\ Goto(p, "pages")
      /\ Sync("journal", f)
  BY DEF syncJournal
<1>2. TypeOK /\ ProcOK(p, v) /\ pc[p] \in PcType
  BY Types
<1>3. PcEffect(p, r) /\ r \in PcType /\ r.at = "pages" /\ r.f = f /\ r.txn = t
  BY <1>1, <1>2, GotoChange DEF Ats, PcType
<1> HIDE DEF r
<1>4. PhaseOne(p, f, t, v)
  BY <1>1, PhaseOneFacts DEF PhaseOneAts
<1>5. /\ StepOf(p, f, EXCLUSIVE_LOCK, v) /\ pc'[p] = r
      /\ EXCLUSIVE_LOCK \notin {SHARED_LOCK, RESERVED_LOCK}
      /\ \A q \in Proc \ {p} : ~Reserved(q, f)
  BY <1>1, <1>2, <1>3, <1>4, CommitStep DEF CommitAts, PhaseOne
<1>6. disk.journal[f] = Journal(v, t)
  BY <1>1, <1>2 DEF ProcOK, Committing
<1>7. JournalEffect(f, disk.journal[f], {disk.journal[f]})
  <2>1. disk' = [disk EXCEPT !["journal"][f] = disk.journal[f]]
    BY <1>1, <1>2 DEF Sync, TypeOK, DiskType
  <2>2. may' = [may EXCEPT !["journal"][f] = {disk.journal[f]}]
    BY <1>1 DEF Sync
  <2> QED
    BY <1>2, <2>1, <2>2, FileTypes, JournalChange
<1>8. (Stable(f, v) => Stable(f, v)') /\ FileOK(f, v)'
  BY <1>7, SubsetJournal
<1>9. ProcOK(p, v)'
  BY <1>1, <1>3, <1>4, <1>5, <1>6, <1>7, PhaseOneNext DEF JournalEffect, PhaseOneAts
<1>10. disk.journal[f] \in {disk.journal[f]} /\ {disk.journal[f]} \subseteq may.journal[f] \cup {disk.journal[f]}
  OBVIOUS
<1> QED
  BY <1>5, <1>7, <1>8, <1>9, <1>10, JournalStep

LEMMA WritePagelistOK ==
  ASSUME NFileOK, NEW v \in 0 .. MaxTxn, All(v), NEW p \in Proc, NEW f \in File, f = pc[p].f,
         NEW t, t = pc[p].txn, pager_write_pagelist(p)
  PROVE  All(v)'
<1> DEFINE r == [pc[p] EXCEPT !.at = "syncDb"]
           D == may.db[f] \cup (IF may.db[f] = {t} THEN {} ELSE {t, Torn})
<1>1. /\ pc[p].at = "pages" /\ txn' = txn /\ done' = done /\ lock' = lock /\ Goto(p, "syncDb")
      /\ WriteDb(f, t)
  BY DEF pager_write_pagelist
<1>2. TypeOK /\ ProcOK(p, v) /\ pc[p] \in PcType
  BY Types
<1>3. PcEffect(p, r) /\ r \in PcType /\ r.at = "syncDb" /\ r.f = f /\ r.txn = t
  BY <1>1, <1>2, GotoChange DEF Ats, PcType
<1> HIDE DEF r
<1>4. PhaseOne(p, f, t, v)
  BY <1>1, PhaseOneFacts DEF PhaseOneAts
<1>5. /\ StepOf(p, f, EXCLUSIVE_LOCK, v) /\ pc'[p] = r
      /\ EXCLUSIVE_LOCK \notin {SHARED_LOCK, RESERVED_LOCK}
      /\ \A q \in Proc \ {p} : ~Reserved(q, f)
  BY <1>1, <1>2, <1>3, <1>4, CommitStep DEF CommitAts, PhaseOne
<1>6. may.journal[f] = {Journal(v, t)}
  BY <1>1, <1>2 DEF ProcOK, Committing
<1>7. t \in Value /\ D \in SUBSET Value /\ t \in D
  BY <1>4, FileTypes DEF Value, PhaseOne, Torn
<1>8. DbEffect(f, t, D)
  <2>1. may' = [may EXCEPT !["db"][f] = @ \cup (IF may.db[f] = {t} THEN {} ELSE {t, Torn})]
    BY <1>1 DEF WriteDb, Write
  <2>2. disk' = [disk EXCEPT !["db"][f] = t] /\ may' = [may EXCEPT !["db"][f] = D]
    BY <1>1, <2>1 DEF WriteDb, Write
  <2> HIDE DEF D
  <2> QED
    BY <1>2, <1>7, <2>2, DbChange
<1> HIDE DEF D
<1>9. Protected(f, v)'
  <2>1. may'.journal[f] = {Journal(v, t)} /\ disk'.journal[f] = Journal(v, t) /\ may'.master[t] = {File}
    BY <1>4, <1>6, <1>8, FileTypes DEF DbEffect, PhaseOne, SameMaster
  <2> QED
    BY <2>1 DEF Protected, Journal, Sure
<1>10. ProcOK(p, v)'
  BY <1>1, <1>3, <1>4, <1>5, <1>6, <1>8, PhaseOneNext DEF DbEffect, PhaseOneAts
<1>11. lock[f][p] = EXCLUSIVE_LOCK
  BY <1>4 DEF PhaseOne
<1> QED
  BY <1>5, <1>7, <1>8, <1>9, <1>10, <1>11, DbStep DEF FileOK

LEMMA PhaseOneEndOK ==
  ASSUME NFileOK, NEW v \in 0 .. MaxTxn, All(v), NEW p \in Proc, NEW f \in File, f = pc[p].f,
         NEW t, t = pc[p].txn, PhaseOneEnd(p)
  PROVE  All(v)'
<1> DEFINE at == IF f < NFile THEN "name" ELSE "delete"
           nf == IF f < NFile THEN f + 1 ELSE 1
           r == [pc[p] EXCEPT !.at = at, !.f = nf]
<1>1. /\ pc[p].at = "syncDb" /\ txn' = txn /\ done' = done /\ lock' = lock /\ Sync("db", f)
      /\ pc' = [pc EXCEPT ![p].at = at, ![p].f = nf]
  BY DEF PhaseOneEnd
<1>2. TypeOK /\ ProcOK(p, v) /\ pc[p] \in PcType /\ pc \in [Proc -> PcType] /\ f \in 1 .. NFile /\ NFile \in Nat
  BY Types DEF TypeOK
<1>3. at \in Ats /\ nf \in File
  BY <1>2 DEF Ats, File
<1>4. r \in PcType /\ r.at = at /\ r.f = nf /\ r.txn = t
  <2> HIDE DEF at, nf
  <2> QED
    BY <1>2, <1>3 DEF PcType
<1>5. PcEffect(p, r)
  <2>1. pc' = [pc EXCEPT ![p] = r]
    BY <1>1, <1>2 DEF PcType
  <2> QED
    BY <1>2, <1>4, <2>1, PcChange
<1> HIDE DEF r
<1>6. PhaseOne(p, f, t, v)
  BY <1>1, PhaseOneFacts DEF PhaseOneAts
<1>7. /\ StepOf(p, f, EXCLUSIVE_LOCK, v) /\ pc'[p] = r
      /\ EXCLUSIVE_LOCK \notin {SHARED_LOCK, RESERVED_LOCK}
      /\ \A q \in Proc \ {p} : ~Reserved(q, f)
      /\ \A g \in File : Reserved(p, g)' /\ lock'[g][p] = EXCLUSIVE_LOCK
  BY <1>1, <1>2, <1>4, <1>5, <1>6, CommitStep DEF CommitAts, PhaseOne
<1>8. may.journal[f] = {Journal(v, t)} /\ disk.db[f] = t
  BY <1>1, <1>2 DEF ProcOK, Committing
<1>9. DbEffect(f, t, {t})
  <2>1. disk' = [disk EXCEPT !["db"][f] = t]
    BY <1>1, <1>2, <1>8 DEF Sync, TypeOK, DiskType
  <2>2. may' = [may EXCEPT !["db"][f] = {t}]
    BY <1>1, <1>8 DEF Sync
  <2>3. t \in Value
    BY <1>8, FileTypes
  <2> QED
    BY <1>2, <2>1, <2>2, <2>3, DbChange
<1>10. Protected(f, v)'
  <2>1. may'.journal[f] = {Journal(v, t)} /\ disk'.journal[f] = Journal(v, t) /\ may'.master[t] = {File}
    BY <1>6, <1>8, <1>9, FileTypes DEF DbEffect, PhaseOne, SameMaster
  <2> QED
    BY <2>1 DEF Protected, Journal, Sure
<1>11. \A g \in File : /\ g <= f => WrittenTo(p, g, v)'
                       /\ g > f => Untouched(g, v)'
  <2> SUFFICES ASSUME NEW g \in File
               PROVE  /\ g <= f => WrittenTo(p, g, v)'
                      /\ g > f => Untouched(g, v)'
    OBVIOUS
  <2>1. pc'[p].txn = t
    BY <1>4, <1>7
  <2>2. CASE g = f
    BY <1>2, <1>8, <1>9, <2>1, <2>2 DEF WrittenTo, DbEffect
  <2>3. CASE g # f
    BY <1>2, <1>6, <1>9, <2>1, <2>3 DEF WrittenTo, Untouched, DbEffect, SameFile, PhaseOne, File
  <2> QED
    BY <2>2, <2>3
<1>12. pc'[p].at = at /\ pc'[p].f = nf /\ pc'[p].txn = t
  BY <1>4, <1>7
<1>13. may'.master[t] = {File} /\ v < t /\ t <= txn'
  BY <1>1, <1>6, <1>9 DEF PhaseOne, DbEffect, SameMaster
<1>14. ProcOK(p, v)'
  <2>1. CASE f < NFile
    <3>1. pc'[p].at = "name" /\ pc'[p].f = f + 1
      BY <1>12, <2>1
    <3>2. \A g \in File : Working(p, g)'
      BY <3>1 DEF Working, CommitAts
    <3>3. \A g \in File : /\ g < f + 1 => WrittenTo(p, g, v)'
                          /\ g > f + 1 => Untouched(g, v)'
      BY <1>2, <1>11 DEF File
    <3>4. f + 1 \in File /\ f + 1 > f
      BY <1>2, <2>1 DEF File
    <3>5. Untouched(f + 1, v)'
      BY <1>11, <3>4
    <3>6. Committing(p, v)'
      BY <1>7, <1>12, <1>13, <3>1, <3>3, <3>5 DEF Committing, CommitAts
    <3> QED
      BY <1>7, <1>12, <1>13, <3>1, <3>2, <3>6 DEF ProcOK, Begun, Restoring, CommitAts
  <2>2. CASE ~(f < NFile)
    <3>1. pc'[p].at = "delete" /\ pc'[p].f = 1
      BY <1>12, <2>2
    <3>2. \A g \in File : Working(p, g)'
      BY <3>1 DEF Working, CommitAts
    <3>3. \A g \in File : WrittenTo(p, g, v)'
      BY <1>2, <1>11, <2>2 DEF File
    <3>4. Committing(p, v)'
      BY <1>7, <1>12, <1>13, <3>1, <3>3 DEF Committing, CommitAts
    <3> QED
      BY <1>7, <1>12, <1>13, <3>1, <3>2, <3>4 DEF ProcOK, Begun, Restoring, CommitAts
  <2> QED
    BY <2>1, <2>2
<1>15. lock[f][p] = EXCLUSIVE_LOCK /\ t \in {t}
  BY <1>6 DEF PhaseOne
<1> QED
  BY <1>7, <1>9, <1>10, <1>14, <1>15, DbStep DEF FileOK

-----------------------------------------------------------------------------
(***************************************************************************)
(* The commit: with the master journal gone every journal is cold, and the *)
(* last committed transaction is the one of the process.                   *)
(***************************************************************************)
LEMMA DeleteMasterOK ==
  ASSUME NFileOK, NEW v \in 0 .. MaxTxn, All(v), NEW p \in Proc, NEW t, t = pc[p].txn,
         DeleteMaster(p) \/ DeleteMasterUnsynced(p)
  PROVE  t \in 0 .. MaxTxn /\ All(t)'
<1>1. /\ pc[p].at = "delete" /\ txn' = txn /\ done' = done /\ lock' = lock
      /\ WriteAndSync("master", t, {}) /\ \E at \in {"two", "playback"} : Goto(p, at)
  BY DEF DeleteMaster, DeleteMasterUnsynced
<1>2. /\ TypeOK /\ Shown /\ NamesKnown /\ ProcOK(p, v) /\ LocksOK(v) /\ pc[p] \in PcType
      /\ t \in 0 .. MaxTxn /\ v \in Nat /\ MaxTxn \in Nat /\ done \in Nat /\ done <= v /\ txn \in 0 .. MaxTxn
  BY Types
<1>3. PICK at \in {"two", "playback"} : Goto(p, at)
  BY <1>1
<1> DEFINE r == [pc[p] EXCEPT !.at = at]
<1>4. PcEffect(p, r) /\ r \in PcType /\ r.at = at /\ r.f = pc[p].f /\ r.txn = t
  BY <1>2, <1>3, GotoChange DEF Ats, PcType
<1> HIDE DEF r
<1>5. v < t /\ t <= txn /\ t \in 1 .. MaxTxn
  BY <1>1, <1>2 DEF ProcOK, Begun, CommitAts
<1>6. \A g \in File : /\ lock[g][p] = EXCLUSIVE_LOCK
                      /\ may.db[g] = {t} /\ may.journal[g] = {Journal(v, t)}
  BY <1>1, <1>2 DEF ProcOK, Committing, CommitAts, WrittenTo
<1>7. MasterEffect(t, {}, {{}})
  <2>1. {{}} \in SUBSET MasterType /\ {} \in MasterType
    BY DEF MasterType
  <2>2. disk' = [disk EXCEPT !["master"][t] = {}] /\ may' = [may EXCEPT !["master"][t] = {{}}]
    BY <1>1 DEF WriteAndSync
  <2> QED
    BY <1>2, <1>5, <2>1, <2>2, MasterChange
<1>8. TypeOK'
  BY <1>1, <1>2, <1>4, <1>7 DEF TypeOK, MasterEffect, PcEffect
<1>9. Shown' /\ NamesKnown'
  BY <1>1, <1>2, <1>7 DEF Shown, NamesKnown, MasterEffect, SameFile, SameMaster
<1>10. \A g \in File : Stable(g, t)'
  BY <1>5, <1>6, <1>7 DEF Stable, MasterEffect, SameFile, Cold, Journal, None
<1>11. LocksOK(t)'
  BY <1>1, <1>2, <1>10 DEF LocksOK
<1>12. pc'[p].at = at /\ pc'[p].txn = t /\ pc'[p].f = 1
  BY <1>1, <1>2, <1>4 DEF ProcOK, Committing, PcEffect
<1>13. ProcOK(p, t)'
  <2>1. CASE at = "two"
    BY <1>1, <1>6, <1>10, <1>12, <2>1 DEF ProcOK, Begun, Committing, Restoring, CommitAts, Working, Reserved, File
  <2>2. CASE at = "playback"
    <3>1. \A g \in File : disk'.journal[g].open
      <4>1. \A g \in File : disk.journal[g] \in may.journal[g]
        BY <1>2 DEF Shown
      <4> QED
        BY <1>6, <1>7, <4>1 DEF MasterEffect, SameFile, Journal
    <3>2. t > 0
      BY <1>2, <1>5
    <3>3. \A g \in File : Working(p, g)'
      BY <1>12, <2>2, <3>2 DEF Working, File
    <3>4. \A g \in File : Reserved(p, g)'
      BY <1>1, <1>6 DEF Reserved
    <3> QED
      BY <1>12, <2>2, <3>1, <3>3, <3>4 DEF ProcOK, Begun, Committing, Restoring, CommitAts
  <2> QED
    BY <2>1, <2>2
<1>14. ASSUME NEW q \in Proc \ {p} PROVE ProcOK(q, t)'
  <2>1. pc[q].at = "idle" /\ \A g \in File : lock[g][q] = NO_LOCK
    BY <1>1, <1>2, Types, Alone DEF CommitAts
  <2>2. pc'[q].at = "idle" /\ \A g \in File : ~Reserved(q, g)'
    BY <1>1, <1>4, <2>1 DEF PcEffect, Reserved, NO_LOCK, RESERVED_LOCK, EXCLUSIVE_LOCK
  <2> QED
    BY <2>2, IdleOK
<1>15. done' <= t /\ t <= txn'
  BY <1>1, <1>2, <1>5
<1> QED
  BY <1>2, <1>8, <1>9, <1>10, <1>11, <1>13, <1>14, <1>15 DEF All, Inv, FileOK

LEMMA PhaseTwoOK ==
  ASSUME NFileOK, NEW v \in 0 .. MaxTxn, All(v), NEW p \in Proc, NEW f \in File, f = pc[p].f,
         PhaseTwo(p)
  PROVE  All(v)'
<1>1. /\ pc[p].at = "two" /\ txn' = txn
      /\ \/ WriteJournal(f, NoJournal) /\ SetLock(p, f, SHARED_LOCK)
         \/ SetLock(p, f, NO_LOCK) /\ disk' = disk /\ may' = may
      /\ IF f < NFile THEN pc' = [pc EXCEPT ![p].f = f + 1] /\ done' = done
                      ELSE pc' = [pc EXCEPT ![p] = Idle] /\ done' = pc[p].txn
  BY DEF PhaseTwo
<1>2. /\ TypeOK /\ ProcOK(p, v) /\ pc[p] \in PcType /\ pc \in [Proc -> PcType]
      /\ f \in 1 .. NFile /\ NFile \in Nat /\ NoJournal \in JournalType
      /\ done <= v /\ v <= txn /\ done \in Nat /\ v \in Nat /\ txn \in 0 .. MaxTxn
  BY Types DEF TypeOK
<1>3. v = pc[p].txn /\ \A g \in File : g >= f => lock[g][p] = EXCLUSIVE_LOCK /\ Stable(g, v)
  BY <1>1, <1>2 DEF ProcOK, Committing
<1>4. Counts(v)
  BY <1>1, <1>2, <1>3 DEF Counts
<1>5. lock[f][p] = EXCLUSIVE_LOCK /\ Stable(f, v) /\ Reserved(p, f)
  BY <1>2, <1>3 DEF Reserved
<1>6. \A q \in Proc \ {p} : ~Reserved(q, f) /\ lock[f][q] # EXCLUSIVE_LOCK
  BY <1>5, Owner
<1>7. \A g \in File : Reserved(p, g) <=> g >= f
  BY <1>1, <1>2 DEF ProcOK, Working, CommitAts
<1>8. ASSUME NEW l \in {NO_LOCK, SHARED_LOCK}, LockEffect(p, f, l), ColdKept,
             \A g \in File \ {f} : SameFile(g)
      PROVE  ProcOK(p, v)' /\ StepOf(p, f, l, v)
  <2>1. \A g \in File : Reserved(p, g)' <=> g > f
    <3>1. ~Reserved(p, f)'
      BY <1>8 DEF Reserved, LockEffect, NO_LOCK, SHARED_LOCK, RESERVED_LOCK, EXCLUSIVE_LOCK
    <3>2. \A g \in File \ {f} : Reserved(p, g)' <=> Reserved(p, g)
      BY <1>8 DEF Reserved, LockEffect
    <3> QED
      BY <1>2, <1>7, <3>1, <3>2 DEF File
  <2>2. Legal(p, f, l) /\ l \in LockType
    BY <1>6 DEF Legal, LockType, NO_LOCK, SHARED_LOCK, RESERVED_LOCK, EXCLUSIVE_LOCK
  <2>3. CASE f < NFile
    <3> DEFINE r == [pc[p] EXCEPT !.f = f + 1]
    <3>1. f + 1 \in File
      BY <1>2, <2>3 DEF File
    <3>2. r \in PcType /\ r.at = "two" /\ r.f = f + 1 /\ r.txn = pc[p].txn
      BY <1>1, <1>2, <3>1 DEF PcType
    <3>3. pc' = [pc EXCEPT ![p] = r]
      BY <1>1, <1>2, <2>3
    <3> HIDE DEF r
    <3>4. PcEffect(p, r)
      BY <1>2, <3>2, <3>3, PcChange
    <3>5. pc'[p].at = "two" /\ pc'[p].f = f + 1 /\ pc'[p].txn = v
      BY <1>3, <3>2, <3>4 DEF PcEffect
    <3>6. \A g \in File : g >= f + 1 <=> g > f
      BY <1>2 DEF File
    <3>7. \A g \in File : g > f => lock'[g][p] = EXCLUSIVE_LOCK /\ Stable(g, v)'
      <4> SUFFICES ASSUME NEW g \in File, g > f
                   PROVE  lock'[g][p] = EXCLUSIVE_LOCK /\ Stable(g, v)'
        OBVIOUS
      <4>1. g # f /\ g >= f
        BY <1>2 DEF File
      <4> QED
        BY <1>3, <1>8, <4>1, StableKept DEF LockEffect
    <3>8. \A g \in File : Reserved(p, g)' <=> Working(p, g)'
      BY <2>1, <3>5, <3>6 DEF Working, CommitAts
    <3>9. ProcOK(p, v)'
      BY <3>5, <3>6, <3>7, <3>8 DEF ProcOK, Begun, Committing, Restoring, CommitAts
    <3> QED
      BY <1>4, <1>8, <2>2, <3>4, <3>9 DEF StepOf, PcEffect
  <2>4. CASE ~(f < NFile)
    <3>1. PcEffect(p, Idle) /\ Idle.at = "idle"
      BY <1>1, <1>2, <2>4, IdleType, PcChange
    <3>2. \A g \in File : ~Reserved(p, g)'
      BY <1>2, <2>1, <2>4 DEF File
    <3>3. ProcOK(p, v)'
      BY <3>1, <3>2, IdleOK DEF PcEffect
    <3> QED
      BY <1>4, <1>8, <2>2, <3>1, <3>3 DEF StepOf, PcEffect
  <2> QED
    BY <2>3, <2>4
<1>9. CASE WriteJournal(f, NoJournal) /\ SetLock(p, f, SHARED_LOCK)
  <2> DEFINE J == may.journal[f] \cup {NoJournal}
  <2>1. JournalEffect(f, NoJournal, J)
    <3>1. J \in SUBSET JournalType
      BY <1>2, FileTypes
    <3>2. disk' = [disk EXCEPT !["journal"][f] = NoJournal] /\ may' = [may EXCEPT !["journal"][f] = J]
      BY <1>9 DEF WriteJournal, Write
    <3> QED
      BY <1>2, <3>1, <3>2, JournalChange
  <2>2. ColdKept
    BY <2>1, MastersKept DEF JournalEffect
  <2>3. Stable(f, v)'
    <3>1. ~NoJournal.open
      BY DEF NoJournal
    <3> QED
      BY <1>5, <2>1, <2>2, <3>1 DEF Stable, ColdKept, JournalEffect
  <2>4. LockEffect(p, f, SHARED_LOCK)
    BY <1>2, <1>9, LockChange DEF LockType
  <2>5. ProcOK(p, v)' /\ StepOf(p, f, SHARED_LOCK, v)
    BY <1>8, <2>1, <2>2, <2>4 DEF JournalEffect
  <2>6. NoJournal \in J /\ J \subseteq may.journal[f] \cup {NoJournal} /\ NoJournal.master = None
    BY DEF NoJournal
  <2> HIDE DEF J
  <2> QED
    BY <1>5, <1>6, <2>1, <2>3, <2>5, <2>6, JournalStep DEF FileOK
<1>10. CASE SetLock(p, f, NO_LOCK) /\ disk' = disk /\ may' = may
  <2>1. LockEffect(p, f, NO_LOCK)
    BY <1>2, <1>10, LockChange DEF LockType
  <2>2. ColdKept /\ \A g \in File : SameFile(g)
    BY <1>10 DEF ColdKept, Cold, SameFile
  <2>3. ProcOK(p, v)' /\ StepOf(p, f, NO_LOCK, v)
    BY <1>8, <2>1, <2>2
  <2> QED
    BY <1>5, <1>10, <2>3, QuietStep
<1> QED
  BY <1>1, <1>9, <1>10

-----------------------------------------------------------------------------
\* Failures.

LEMMA GiveUp ==
  ASSUME NFileOK, NEW v \in 0 .. MaxTxn, All(v), NEW p \in Proc, pc[p].at \in CommitAts,
         pc' = [pc EXCEPT ![p].at = "playback", ![p].f = 1], lock' = lock,
         \A g \in File : disk'.journal[g] = disk.journal[g]
  PROVE  ProcOK(p, v)' /\ pc' \in [Proc -> PcType] /\ \A q \in Proc \ {p} : pc'[q] = pc[q]
<1>1. /\ TypeOK /\ ProcOK(p, v) /\ pc[p] \in PcType /\ pc \in [Proc -> PcType] /\ 1 \in File
      /\ v \in Nat /\ pc[p].txn \in 0 .. MaxTxn /\ pc[p].f \in 1 .. NFile
  BY Types DEF TypeOK
<1> DEFINE r == [pc[p] EXCEPT !.at = "playback", !.f = 1]
<1>2. r \in PcType /\ r.at = "playback" /\ r.f = 1 /\ r.txn = pc[p].txn
  BY <1>1 DEF PcType, Ats
<1>3. pc' = [pc EXCEPT ![p] = r]
  BY <1>1 DEF PcType
<1> HIDE DEF r
<1>4. PcEffect(p, r)
  BY <1>1, <1>2, <1>3, PcChange
<1>5. pc'[p].at = "playback" /\ pc'[p].f = 1 /\ pc'[p].txn = pc[p].txn /\ pc[p].txn > 0
  <2>1. v < pc[p].txn
    BY <1>1 DEF ProcOK, Begun
  <2> QED
    BY <1>1, <1>2, <1>4, <2>1 DEF PcEffect
<1>6. \A g \in File : Working(p, g)'
  BY <1>5 DEF Working, CommitAts, File
<1>7. \A g \in File : Reserved(p, g)'
  BY <1>1 DEF ProcOK, Working, Reserved
<1>8. ASSUME NEW g \in File PROVE disk.journal[g].open
  <2>1. disk.journal[g] \in may.journal[g]
    BY FileTypes
  <2>2. \A m : Journal(v, m).open
    BY DEF Journal
  <2>3. CASE pc[p].at \in {"commit", "master"}
    BY <1>1, <2>2, <2>3 DEF ProcOK, Begun, Untouched
  <2>4. CASE pc[p].at = "delete"
    BY <1>1, <2>1, <2>2, <2>4 DEF ProcOK, Committing, WrittenTo
  <2>5. CASE pc[p].at \in PhaseOneAts /\ g # pc[p].f
    <3>1. g < pc[p].f \/ g > pc[p].f
      BY <1>1, <2>5 DEF File
    <3> QED
      BY <1>1, <2>1, <2>2, <2>5, <3>1 DEF ProcOK, Committing, WrittenTo, Untouched, PhaseOneAts
  <2>6. CASE pc[p].at \in PhaseOneAts /\ g = pc[p].f
    BY <1>1, <2>1, <2>2, <2>6 DEF ProcOK, Committing, Untouched, PhaseOneAts
  <2> QED
    BY <2>3, <2>4, <2>5, <2>6 DEF CommitAts, PhaseOneAts
<1>9. ProcOK(p, v)'
  BY <1>5, <1>6, <1>7, <1>8 DEF ProcOK, Begun, Committing, Restoring, CommitAts
<1> QED
  BY <1>4, <1>9 DEF PcEffect

LEMMA CommitFailsOK ==
  ASSUME NFileOK, NEW v \in 0 .. MaxTxn, All(v), NEW p \in Proc, NEW t, t = pc[p].txn,
         CommitFails(p) \/ Rollback(p)
  PROVE  All(v)'
<1>1. /\ pc[p].at \in CommitAts /\ txn' = txn /\ done' = done /\ lock' = lock
      /\ pc' = [pc EXCEPT ![p].at = "playback", ![p].f = 1]
      /\ \/ disk' = disk /\ may' = may
         \/ pc[p].at = "master" /\ Write("master", t, {}, {{}})
  BY DEF CommitFails, Rollback, CommitAts
<1>2. Counts(v)
  BY <1>1, CountsSame
<1>3. TypeOK /\ ProcOK(p, v) /\ 1 \in File /\ t \in 0 .. MaxTxn /\ v \in Nat /\ MaxTxn \in Nat
  BY Types
<1>4. CASE disk' = disk /\ may' = may
  <2>1. ProcOK(p, v)' /\ pc' \in [Proc -> PcType] /\ \A q \in Proc \ {p} : pc'[q] = pc[q]
    BY <1>1, <1>4, GiveUp
  <2>2. /\ StepOf(p, 1, lock[1][p], v)
        /\ lock[1][p] \in {SHARED_LOCK, RESERVED_LOCK} => Stable(1, v)
    BY <1>1, <1>2, <1>3, <2>1, LockSame DEF StepOf
  <2> QED
    BY <1>3, <1>4, <2>1, <2>2, QuietStep
<1>5. CASE pc[p].at = "master" /\ Write("master", t, {}, {{}})
  <2> DEFINE X == may.master[t] \cup {{}}
  <2>1. Fresh(t) /\ t \in 1 .. MaxTxn
    BY <1>3, <1>5 DEF ProcOK, Begun, CommitAts
  <2>2. MasterEffect(t, {}, X)
    <3>1. X \in SUBSET MasterType /\ {} \in MasterType
      BY <1>3, <2>1 DEF TypeOK, MayType, MasterType
    <3>2. disk' = [disk EXCEPT !["master"][t] = {}] /\ may' = [may EXCEPT !["master"][t] = X]
      BY <1>5 DEF Write
    <3> QED
      BY <1>3, <2>1, <3>1, <3>2, MasterChange
  <2>3. ProcOK(p, v)' /\ pc' \in [Proc -> PcType] /\ \A q \in Proc \ {p} : pc'[q] = pc[q]
    BY <1>1, <2>2, GiveUp DEF MasterEffect, SameFile
  <2>4. /\ StepOf(p, 1, lock[1][p], v)
        /\ lock[1][p] \in {SHARED_LOCK, RESERVED_LOCK} => Stable(1, v)
    BY <1>1, <1>2, <1>3, <2>3, LockSame DEF StepOf
  <2>5. \A q \in Proc \ {p} : pc[q].at = "idle"
    BY <1>3, <1>5, Types, Alone DEF CommitAts
  <2>6. \A q \in Proc \ {p} : pc[q].at \notin CommitAts \ {"commit"}
    BY <2>5 DEF CommitAts
  <2>7. {} \in X
    OBVIOUS
  <2> HIDE DEF X
  <2> QED
    BY <1>3, <2>1, <2>2, <2>3, <2>4, <2>6, <2>7, MasterStep
<1> QED
  BY <1>1, <1>4, <1>5

LEMMA KillOK ==
  ASSUME NFileOK, NEW v \in 0 .. MaxTxn, All(v), NEW p \in Proc, Kill(p)
  PROVE  All(v)'
<1>1. /\ disk' = disk /\ may' = may /\ txn' = txn /\ done' = done
      /\ lock' = [f \in File |-> [lock[f] EXCEPT ![p] = NO_LOCK]]
      /\ pc' = [pc EXCEPT ![p] = Idle]
  BY DEF Kill
<1>2. TypeOK /\ Shown /\ NamesKnown /\ Inv(v) /\ LocksOK(v)
      /\ pc \in [Proc -> PcType] /\ lock \in [File -> [Proc -> LockType]] /\ txn \in 0 .. MaxTxn
  BY Types DEF TypeOK
<1>3. PcEffect(p, Idle) /\ Idle.at = "idle"
  BY <1>1, <1>2, IdleType, PcChange
<1>4. /\ lock' \in [File -> [Proc -> LockType]]
      /\ \A g \in File : lock'[g][p] = NO_LOCK /\ \A q \in Proc \ {p} : lock'[g][q] = lock[g][q]
  BY <1>1, <1>2 DEF LockType
<1>5. TypeOK'
  BY <1>1, <1>2, <1>3, <1>4 DEF TypeOK, PcEffect
<1>6. Shown' /\ NamesKnown'
  BY <1>1, <1>2 DEF Shown, NamesKnown
<1>7. (\A g \in File : SameFile(g)) /\ (\A m : SameMaster(m)) /\ ColdKept
  BY <1>1 DEF SameFile, SameMaster, ColdKept, Cold
<1>8. \A g \in File : (Stable(g, v) => Stable(g, v)') /\ FileOK(g, v)'
  BY <1>1, <1>2 DEF Inv, FileOK, Stable, Protected, Cold, Sure
<1>9. LocksOK(v)'
  <2> SUFFICES ASSUME NEW g \in File, NEW r \in Proc
               PROVE  /\ lock'[g][r] = EXCLUSIVE_LOCK => \A q \in Proc \ {r} : lock'[g][q] = NO_LOCK
                      /\ lock'[g][r] = RESERVED_LOCK =>
                           \A q \in Proc \ {r} : lock'[g][q] \in {NO_LOCK, SHARED_LOCK}
                      /\ lock'[g][r] \in {SHARED_LOCK, RESERVED_LOCK} => Stable(g, v)'
    BY DEF LocksOK
  <2>1. CASE r = p
    BY <1>4, <2>1 DEF NO_LOCK, SHARED_LOCK, RESERVED_LOCK, EXCLUSIVE_LOCK
  <2>2. CASE r # p
    <3>1. lock'[g][r] = lock[g][r] /\ \A q \in Proc : lock'[g][q] \in {NO_LOCK, lock[g][q]}
      BY <1>4, <2>2
    <3> QED
      BY <1>2, <1>8, <3>1 DEF LocksOK
  <2> QED
    BY <2>1, <2>2
<1>10. ProcOK(p, v)'
  <2>1. pc'[p].at = "idle" /\ \A g \in File : ~Reserved(p, g)'
    BY <1>3, <1>4 DEF PcEffect, Reserved, NO_LOCK, RESERVED_LOCK, EXCLUSIVE_LOCK
  <2> QED
    BY <2>1, IdleOK
<1>11. ASSUME NEW q \in Proc \ {p} PROVE ProcOK(q, v)'
  <2>1. pc'[q] = pc[q] /\ \A g \in File : lock'[g][q] = lock[g][q]
    BY <1>3, <1>4 DEF PcEffect
  <2>2. ProcOK(q, v)
    BY Types
  <2>3. pc[q].at \in {"write", "commit", "master"} => Fresh(pc[q].txn)'
    BY <1>1, <2>1, <2>2 DEF ProcOK, Begun, Fresh
  <2>4. \A g \in File : NamesMaster(g, pc[q].master)' => NamesMaster(g, pc[q].master)
    BY <1>1, <2>1 DEF NamesMaster
  <2>5. Undisturbed(q)
    BY <1>1, <1>2, <1>7, <2>1, <2>3, <2>4 DEF Undisturbed
  <2> QED
    BY <1>2, <1>5, <2>2, <2>5, OtherProc
<1>12. done' <= v /\ v <= txn'
  BY <1>1, Types
<1> QED
  BY <1>5, <1>6, <1>8, <1>9, <1>10, <1>11, <1>12 DEF All, Inv

LEMMA PowerLossOK ==
  ASSUME NFileOK, NEW v \in 0 .. MaxTxn, All(v), PowerLoss, ~undone'
  PROVE  All(v)'
<1>1. /\ txn' = txn /\ done' = done
      /\ lock' = [f \in File |-> [p \in Proc |-> NO_LOCK]]
      /\ pc' = [p \in Proc |-> Idle]
  BY DEF PowerLoss
<1>2. PICK d \in [File -> UNION {may.db[f] : f \in File}],
           j \in [File -> UNION {may.journal[f] : f \in File}],
           m \in [1 .. MaxTxn -> {{}, File}] :
        /\ \A f \in File : d[f] \in may.db[f] /\ j[f] \in may.journal[f]
        /\ \A t \in 1 .. MaxTxn : m[t] \in may.master[t] \/ (t \in unsynced /\ m[t] = File)
        /\ disk' = [db |-> d, journal |-> j, master |-> m]
        /\ may' = [db |-> [f \in File |-> {d[f]}],
                   journal |-> [f \in File |-> {j[f]}],
                   master |-> [t \in 1 .. MaxTxn |-> {m[t]}]]
        /\ undone' = (undone \/ \E t \in unsynced : m[t] # {})
  BY Zenon DEF PowerLoss
<1>3. /\ TypeOK /\ NamesKnown /\ Inv(v) /\ done <= v /\ v <= txn
  BY DEF All, Inv
<1>4. /\ \A f \in File : may.db[f] \in SUBSET Value /\ may.journal[f] \in SUBSET JournalType
      /\ \A t \in 1 .. MaxTxn : may.master[t] \in SUBSET MasterType
  BY <1>3 DEF TypeOK, MayType
<1>5. d \in [File -> Value] /\ j \in [File -> JournalType] /\ m \in [1 .. MaxTxn -> MasterType]
  BY <1>2, <1>4 DEF MasterType
<1>6. disk' \in DiskType /\ may' \in MayType
  <2>1. [f \in File |-> {d[f]}] \in [File -> SUBSET Value]
    BY <1>5
  <2>2. [f \in File |-> {j[f]}] \in [File -> SUBSET JournalType]
    BY <1>5
  <2>3. [t \in 1 .. MaxTxn |-> {m[t]}] \in [1 .. MaxTxn -> SUBSET MasterType]
    BY <1>5
  <2> QED
    BY <1>2, <1>5, <2>1, <2>2, <2>3 DEF DiskType, MayType
<1>7. Idle \in PcType /\ Idle.at = "idle"
  BY IdleType
<1>8. TypeOK'
  <2>1. lock' \in [File -> [Proc -> LockType]] /\ pc' \in [Proc -> PcType]
    BY <1>1, <1>7 DEF LockType
  <2> QED
    BY <1>1, <1>3, <1>6, <2>1 DEF TypeOK
<1>9. /\ \A f \in File : /\ disk'.db[f] = d[f] /\ may'.db[f] = {d[f]}
                         /\ disk'.journal[f] = j[f] /\ may'.journal[f] = {j[f]}
      /\ \A t \in 1 .. MaxTxn : disk'.master[t] = m[t] /\ may'.master[t] = {m[t]}
  BY <1>2
<1>10. Shown'
  BY <1>9 DEF Shown
<1>11. NamesKnown'
  <2>1. \A f \in File : j[f].master <= txn /\ may'.journal[f] = {j[f]}
    BY <1>2, <1>3, <1>9, Zenon DEF NamesKnown
  <2>2. ASSUME NEW f \in File, NEW i \in may'.journal[f] PROVE i.master <= txn'
    BY <1>1, <2>1, <2>2, ZenonT(30)
  <2> QED
    BY <2>2, Zenon DEF NamesKnown
<1>12. \A t \in 1 .. MaxTxn : m[t] \in may.master[t]
  <2>1. \A t \in unsynced : m[t] = {}
    BY <1>2, Zenon
  <2>2. 1 \in File
    BY DEF File, NFileOK
  <2> QED
    BY <1>2, <2>1, <2>2, Zenon
<1>13. ASSUME NEW f \in File PROVE FileOK(f, v)'
  <2>1. j[f] \in may.journal[f] /\ j[f].master \in 0 .. MaxTxn /\ d[f] \in may.db[f] /\ FileOK(f, v)
    BY <1>2, <1>3, <1>5 DEF JournalType, Inv
  <2>2. j[f].master = None \/ j[f].master \in 1 .. MaxTxn
    BY <2>1 DEF None, NFileOK
  <2>3. Cold(j[f].master) => may'.master[j[f].master] = {{}}
    BY <1>9, <1>12, <2>2 DEF Cold
  <2>4. Sure(j[f].master) => j[f].master = None \/ may'.master[j[f].master] = {File}
    BY <1>9, <1>12, <2>2 DEF Sure
  <2>5. PICK i : i = j[f]
    OBVIOUS
  <2>6. may'.journal[f] = {i} /\ disk'.journal[f] = i /\ may'.db[f] = {d[f]}
    BY <1>9, <2>5
  <2>7. (Cold(i.master) => Cold(i.master)') /\ (Sure(i.master) => Sure(i.master)')
    BY <2>3, <2>4, <2>5 DEF Cold, Sure
  <2>8. ASSUME Stable(f, v) PROVE Stable(f, v)'
    <3>1. d[f] = v /\ (i.open => i.orig = v \/ Cold(i.master))
      BY <2>1, <2>5, <2>8 DEF Stable
    <3> QED
      BY <2>6, <2>7, <3>1 DEF Stable
  <2>9. ASSUME Protected(f, v) PROVE Protected(f, v)'
    <3>1. i.open /\ i.orig = v /\ Sure(i.master)
      BY <2>1, <2>5, <2>9 DEF Protected
    <3> QED
      BY <2>6, <2>7, <3>1 DEF Protected
  <2> QED
    BY <2>1, <2>8, <2>9 DEF FileOK
<1>14. \A f \in File, p \in Proc : lock'[f][p] = NO_LOCK
  BY <1>1
<1>15. LocksOK(v)'
  BY <1>14 DEF LocksOK, NO_LOCK, SHARED_LOCK, RESERVED_LOCK, EXCLUSIVE_LOCK
<1>16. ASSUME NEW p \in Proc PROVE ProcOK(p, v)'
  <2>1. pc'[p].at = "idle" /\ \A g \in File : ~Reserved(p, g)'
    BY <1>1, <1>7, <1>14 DEF Reserved, NO_LOCK, RESERVED_LOCK, EXCLUSIVE_LOCK
  <2> QED
    BY <2>1, IdleOK
<1>17. done' <= v /\ v <= txn'
  BY <1>1, <1>3
<1> QED
  BY <1>8, <1>10, <1>11, <1>13, <1>15, <1>16, <1>17 DEF All, Inv

-----------------------------------------------------------------------------
LEMMA InitOK ==
  ASSUME NFileOK, Init
  PROVE  IInv
<1>1. 0 \in Nat /\ 0 \in 0 .. MaxTxn /\ 0 \in Value
  BY DEF NFileOK, Value
<1>2. NoJournal \in JournalType /\ ~NoJournal.open /\ NoJournal.master = None
  BY <1>1 DEF NoJournal, JournalType, None
<1>3. disk \in DiskType
  BY <1>1, <1>2 DEF Init, DiskType, MasterType
<1>4. may \in MayType
  BY <1>1, <1>2 DEF Init, MayType, MasterType
<1>5. Idle \in PcType /\ Idle.at = "idle"
  BY IdleType
<1>6. lock \in [File -> [Proc -> LockType]] /\ pc \in [Proc -> PcType]
  BY <1>5 DEF Init, LockType
<1>7. TypeOK
  BY <1>1, <1>3, <1>4, <1>6 DEF TypeOK, Init
<1>8. \A f \in File : /\ disk.db[f] = 0 /\ may.db[f] = {0}
                      /\ disk.journal[f] = NoJournal /\ may.journal[f] = {NoJournal}
  BY DEF Init
<1>9. Shown /\ NamesKnown
  BY <1>2, <1>8 DEF Init, Shown, NamesKnown, None
<1>10. \A f \in File : FileOK(f, 0)
  BY <1>2, <1>8 DEF FileOK, Stable
<1>11. LocksOK(0)
  BY DEF Init, LocksOK, NO_LOCK, SHARED_LOCK, RESERVED_LOCK, EXCLUSIVE_LOCK
<1>12. ASSUME NEW p \in Proc PROVE ProcOK(p, 0)
  <2>1. pc[p].at = "idle"
    BY <1>5 DEF Init
  <2>2. \A g \in File : ~Reserved(p, g) /\ ~Working(p, g)
    BY <2>1 DEF Init, Reserved, Working, CommitAts, NO_LOCK, RESERVED_LOCK, EXCLUSIVE_LOCK
  <2> QED
    BY <2>1, <2>2 DEF ProcOK, Begun, Committing, Restoring, CommitAts
<1>13. done <= 0 /\ 0 <= txn
  BY DEF Init
<1> QED
  BY <1>1, <1>7, <1>9, <1>10, <1>11, <1>12, <1>13 DEF IInv, All, Inv

LEMMA NextOK ==
  ASSUME NFileOK, IInv, [Next]_vars, ~undone'
  PROVE  IInv'
<1>1. PICK v \in 0 .. MaxTxn : All(v)
  BY DEF IInv
<1>2. \A w \in 0 .. MaxTxn : All(w)' => IInv'
  BY DEF IInv
<1>3. ASSUME NEW p \in Proc, NEW f \in File,
             Access(p, f) \/ Release(p, f) \/ Begin(p, f) \/ Spill(p, f) \/ ExclusiveLock(p, f)
      PROVE  All(v)'
  BY <1>1, <1>3, AccessOK, ReleaseOK, BeginOK, SpillOK, ExclusiveLockOK
<1>4. ASSUME NEW p \in Proc,
             \/ pager_playback(p) \/ PlaybackSync(p) \/ EndPlayback(p)
             \/ pager_delmaster(p) \/ DelmasterCheck(p) \/ DelmasterDelete(p)
             \/ writeMasterJournal(p) \/ syncJournal(p)
             \/ pager_write_pagelist(p) \/ PhaseOneEnd(p) \/ PhaseTwo(p) \/ PlaybackFails(p)
      PROVE  All(v)'
  <2>1. pc[p].f \in File
    BY <1>1, Types
  <2>2. PICK f \in File : f = pc[p].f
    BY <2>1
  <2>3. PICK t : t = pc[p].txn
    OBVIOUS
  <2>4. CASE pager_playback(p) \/ PlaybackSync(p) \/ EndPlayback(p)
    BY <1>1, <2>2, <2>4, PlaybackOK, PlaybackSyncOK, EndPlaybackOK
  <2>5. CASE pager_delmaster(p) \/ DelmasterCheck(p) \/ DelmasterDelete(p)
    BY <1>1, <2>2, <2>5, DelmasterOK, DelmasterCheckOK, DelmasterDeleteOK
  <2>6. CASE writeMasterJournal(p) \/ syncJournal(p)
    BY <1>1, <2>2, <2>3, <2>6, WriteMasterJournalOK, SyncJournalOK
  <2>7. CASE pager_write_pagelist(p) \/ PhaseOneEnd(p)
    BY <1>1, <2>2, <2>3, <2>7, WritePagelistOK, PhaseOneEndOK
  <2>8. CASE PhaseTwo(p) \/ PlaybackFails(p)
    BY <1>1, <2>2, <2>8, PhaseTwoOK, PlaybackFailsOK
  <2> QED
    BY <1>4, <2>4, <2>5, <2>6, <2>7, <2>8
<1>5. ASSUME NEW p \in Proc,
             CreateMaster(p) \/ SyncMaster(p) \/ CommitFails(p) \/ Rollback(p) \/ Kill(p)
      PROVE  All(v)'
  <2>1. PICK t : t = pc[p].txn
    OBVIOUS
  <2> QED
    BY <1>1, <1>5, <2>1, CreateMasterOK, SyncMasterOK, CommitFailsOK, KillOK
<1>6. ASSUME NEW p \in Proc, DeleteMaster(p) \/ DeleteMasterUnsynced(p)
      PROVE  IInv'
  <2>1. PICK t : t = pc[p].txn
    OBVIOUS
  <2>2. t \in 0 .. MaxTxn /\ All(t)'
    BY <1>1, <1>6, <2>1, DeleteMasterOK
  <2> QED
    BY <1>2, <2>2
<1>7. PowerLoss => All(v)'
  BY <1>1, PowerLossOK
<1>8. ASSUME UNCHANGED vars PROVE All(v)'
  <2>1. /\ disk' = disk /\ may' = may /\ lock' = lock /\ pc' = pc /\ txn' = txn /\ done' = done
    BY <1>8 DEF vars
  <2>2. TypeOK' /\ Shown' /\ NamesKnown' /\ (done' <= v /\ v <= txn')
    BY <1>1, <2>1 DEF All, Inv, TypeOK, Shown, NamesKnown
  <2>3. \A g \in File : (Stable(g, v)' <=> Stable(g, v)) /\ (FileOK(g, v)' <=> FileOK(g, v))
    BY <2>1 DEF FileOK, Stable, Protected, Cold, Sure
  <2>4. LocksOK(v)'
    BY <1>1, <2>1, <2>3 DEF All, Inv, LocksOK
  <2>5. ASSUME NEW q \in Proc PROVE ProcOK(q, v)'
    <3>1. ProcOK(q, v)
      BY <1>1, Types
    <3>2. (\A g \in File : SameFile(g)) /\ SameMaster(pc[q].txn) /\ ColdKept
      BY <2>1 DEF SameFile, SameMaster, ColdKept, Cold
    <3>3. pc[q].at \in {"write", "commit", "master"} => Fresh(pc[q].txn)'
      BY <2>1, <3>1 DEF ProcOK, Begun, Fresh
    <3>4. \A g \in File : NamesMaster(g, pc[q].master)' => NamesMaster(g, pc[q].master)
      BY <2>1 DEF NamesMaster
    <3>5. txn <= txn'
      BY <1>1, <2>1, Types
    <3>6. Undisturbed(q)
      BY <2>1, <3>2, <3>3, <3>4, <3>5 DEF Undisturbed
    <3> QED
      BY <1>1, <2>2, <3>1, <3>6, OtherProc, Types
  <2> QED
    BY <1>1, <2>2, <2>3, <2>4, <2>5 DEF All, Inv
<1>9. CASE Next
  BY <1>1, <1>2, <1>3, <1>4, <1>5, <1>6, <1>7, <1>9 DEF Next
<1>10. CASE UNCHANGED vars
  BY <1>1, <1>2, <1>8, <1>10
<1> QED
  BY <1>9, <1>10

\* A commit that is undone stays so.
LEMMA UndoneStays ==
  ASSUME undone, [Next]_vars
  PROVE  undone'
<1>1. CASE PowerLoss
  BY <1>1, Zenon DEF PowerLoss
<1>2. CASE UNCHANGED vars
  BY <1>2, Zenon DEF vars, commits
<1>3. ASSUME NEW p \in Proc, NEW f \in File,
             Access(p, f) \/ Release(p, f) \/ Begin(p, f) \/ Spill(p, f) \/ ExclusiveLock(p, f)
      PROVE  undone'
  BY <1>3, Zenon DEF Access, Release, Begin, Spill, ExclusiveLock, commits
<1>4. ASSUME NEW p \in Proc,
             \/ pager_playback(p) \/ PlaybackSync(p) \/ EndPlayback(p)
             \/ pager_delmaster(p) \/ DelmasterCheck(p) \/ DelmasterDelete(p)
             \/ CreateMaster(p) \/ SyncMaster(p)
      PROVE  undone'
  BY <1>4, Zenon DEF pager_playback, PlaybackSync, EndPlayback, pager_delmaster,
     DelmasterCheck, DelmasterDelete, CreateMaster, SyncMaster, commits
<1>5. ASSUME NEW p \in Proc,
             \/ writeMasterJournal(p) \/ syncJournal(p)
             \/ pager_write_pagelist(p) \/ PhaseOneEnd(p)
             \/ DeleteMaster(p) \/ DeleteMasterUnsynced(p) \/ PhaseTwo(p)
             \/ Rollback(p) \/ CommitFails(p) \/ PlaybackFails(p) \/ Kill(p)
      PROVE  undone'
  BY <1>5, Zenon DEF writeMasterJournal, syncJournal, pager_write_pagelist, PhaseOneEnd,
     DeleteMaster, DeleteMasterUnsynced, PhaseTwo, Rollback, CommitFails, PlaybackFails, Kill, commits
<1> QED
  BY <1>1, <1>2, <1>3, <1>4, <1>5, Zenon DEF Next

(***************************************************************************)
(* The inductive invariant holds until a power loss brings back a master   *)
(* journal whose deletion was not synced: some transaction is the last one *)
(* committed, and every database file holds it or is rolled back to it,    *)
(* whichever of the unsynced writes survive.                               *)
(***************************************************************************)
THEOREM Invariance ==
  ASSUME NFileOK
  PROVE  Spec => [](undone \/ IInv)
<1>1. Init => undone \/ IInv
  BY InitOK
<1>2. (undone \/ IInv) /\ [Next]_vars => (undone \/ IInv)'
  BY NextOK, UndoneStays
<1> QED
  BY <1>1, <1>2, PTL DEF Spec

LEMMA AllGivesAllOrNothing ==
  ASSUME NFileOK, NEW v \in 0 .. MaxTxn, All(v)
  PROVE  AllOrNothing
<1>1. 1 \in File /\ File # {} /\ Shown /\ done <= v
  BY DEF All, Inv, File, NFileOK
<1>2. ASSUME NEW f \in File PROVE Recovered(f) = v
  <2> DEFINE j == disk.journal[f]
  <2>1. j \in may.journal[f] /\ disk.db[f] \in may.db[f] /\ FileOK(f, v) /\ j \in JournalType
    BY FileTypes
  <2>2. j.master # None => j.master \in 1 .. MaxTxn
    BY <2>1 DEF JournalType, None, NFileOK
  <2>3. Cold(j.master) => ~Restores(f)
    BY <1>1, <2>2 DEF Cold, Restores, MasterExists, Shown
  <2>4. Sure(j.master) => Restores(f)
    BY <1>1, <2>2 DEF Sure, Restores, MasterExists, Shown
  <2>5. CASE Stable(f, v)
    BY <2>1, <2>3, <2>5 DEF Stable, Recovered
  <2>6. CASE Protected(f, v)
    BY <2>1, <2>4, <2>6 DEF Protected, Recovered
  <2> QED
    BY <2>1, <2>5, <2>6 DEF FileOK
<1> QED
  BY <1>1, <1>2, FileTypes DEF AllOrNothing

(***************************************************************************)
(* A transaction that vdbeCommit() writes in several files is in all of    *)
(* them or in none, and once reported stays committed, after any failures, *)
(* crashes and recoveries, for every number of files, processes,           *)
(* transactions and faults, until a power loss brings back a master        *)
(* journal that unixDelete() deleted without a sync of its directory.      *)
(***************************************************************************)
THEOREM AllOrNothingHolds ==
  ASSUME NFileOK
  PROVE  Spec => []AllOrNothingSynced
<1>1. undone \/ IInv => AllOrNothingSynced
  BY AllGivesAllOrNothing DEF IInv, AllOrNothingSynced
<1> QED
  BY <1>1, Invariance, PTL

-----------------------------------------------------------------------------
\* Backup: types.

SourceType ==
  [trans : {"none", "read", "write"}, seen : Nat, view : Seq(Nat), spilled : SUBSET Nat,
   orig : Seq(Nat)]
BackupType == [iNext : Nat \ {0}, isAttached : BOOLEAN, rc : {"OK", "BUSY", "ERROR", "DONE"}]

BkTypeOK ==
  /\ dbFile \in Seq(Nat)
  /\ src \in SourceType
  /\ bk \in BackupType
  /\ dest \in Seq(Nat) /\ destFile \in Seq(Nat)
  /\ bkTxn \in Nat /\ vers \in 0 .. bkTxn /\ src.seen \in 0 .. bkTxn

(***************************************************************************)
(* What the source pager reads.  Outside a write transaction it is what    *)
(* the file had when the cache was last validated, so that it is the file  *)
(* while the change counter is the one the cache was validated with.  In a *)
(* write transaction only the spilled pages differ from the file.          *)
(***************************************************************************)
CacheOK(s) ==
  /\ s.trans # "write" => s.view = s.orig
  /\ s.trans = "write" => s.seen = vers
  /\ s.seen = vers => s.orig = dbFile
  /\ Len(s.view) >= Len(s.orig)
  /\ \A i \in 1 .. Len(s.orig) : i \notin s.spilled => s.view[i] = s.orig[i]

\* The first n pages of the destination are those of the view.
Agree(d, view, n) ==
  \A i \in 1 .. Len(view) : i < n => i <= Len(d) /\ d[i] = view[i]

\* The pages copied so far, while the backup can still succeed.
CopyOK(b, d, view) ==
  b.rc \in {"OK", "BUSY"} => /\ ~b.isAttached => b.iNext = 1
                             /\ Agree(d, view, b.iNext)

BkInv == BkTypeOK /\ CacheOK(src) /\ CopyOK(bk, dest, src.view)

-----------------------------------------------------------------------------
\* Backup: lemmas about its operators.

LEMMA LeastNatural ==
  ASSUME NEW s \in SUBSET Nat, s # {}
  PROVE  \E n \in s : \A m \in s : n <= m
<1> DEFINE R == OpToRel(<, Nat)
<1>1. IsWellFoundedOn(R, Nat)
  BY NatLessThanWellFounded, Zenon
<1>2. \A x, y \in Nat : x < y => <<x, y>> \in R
  BY DEF OpToRel
<1> HIDE DEF R
<1>3. PICK n \in s : \A m \in s : ~ (<<m, n>> \in R)
  BY <1>1, WFMin
<1>4. \A m \in s : ~ (m < n)
  BY <1>2, <1>3
<1> QED
  BY <1>4

\* A bounded set of pages has a highest one.
LEMMA HighestIn ==
  ASSUME NEW n \in Nat, NEW s \in SUBSET (1 .. n), s # {}
  PROVE  BK!Highest(s) \in s /\ \A m \in s : m <= BK!Highest(s)
<1> DEFINE t == {n - m : m \in s}
<1>1. \A m \in s : m \in Int /\ n - m \in Nat
  OBVIOUS
<1>2. t \in SUBSET Nat /\ t # {}
  BY <1>1
<1>3. PICK k \in t : \A m \in t : k <= m
  BY <1>2, LeastNatural
<1>4. PICK x \in s : k = n - x
  BY <1>3
<1>5. ASSUME NEW m \in s PROVE m <= x
  <2>1. k <= n - m
    BY <1>3
  <2> QED
    BY <1>1, <1>4, <2>1
<1> QED
  BY <1>5 DEF BK!Highest

\* A function on 1 .. n is a sequence.
LEMMA FunctionIsSeq ==
  ASSUME NEW n \in Nat, NEW s \in [1 .. n -> Nat]
  PROVE  s \in Seq(Nat) /\ Len(s) = n
<1>1. s \in Seq(Nat)
  BY SeqDef
<1> QED
  BY <1>1, LenProperties

\* What CopyPages() leaves in the destination.
IsCopy(c, d, from, pages, size) ==
  /\ c \in Seq(Nat)
  /\ Len(c) >= size /\ Len(c) >= Len(d)
  /\ \A i \in pages : i \in 1 .. Len(c) /\ c[i] = from[i]
  /\ \A i \in (1 .. Len(d)) \ pages : c[i] = d[i]

LEMMA CopyFacts ==
  ASSUME NEW d \in Seq(Nat), NEW from \in Seq(Nat), NEW size \in Nat,
         NEW pages \in SUBSET (1 .. size), pages \subseteq 1 .. Len(from)
  PROVE  IsCopy(BK!CopyPages(d, from, pages, size), d, from, pages, size)
<1> DEFINE n == IF size > Len(d) THEN size ELSE Len(d)
           c == BK!CopyPages(d, from, pages, size)
<1>1. n \in Nat /\ n >= size /\ n >= Len(d) /\ DOMAIN d = 1 .. Len(d)
  OBVIOUS
<1>2. c = [i \in 1 .. n |-> IF i \in pages THEN from[i] ELSE IF i \in DOMAIN d THEN d[i] ELSE 0]
  BY DEF BK!CopyPages
<1> HIDE DEF n, c
<1>3. \A i \in pages : from[i] \in Nat
  OBVIOUS
<1>4. \A i \in DOMAIN d : d[i] \in Nat
  OBVIOUS
<1>5. c \in [1 .. n -> Nat]
  BY <1>2, <1>3, <1>4
<1>6. c \in Seq(Nat) /\ Len(c) = n
  BY <1>1, <1>5, FunctionIsSeq
<1>7. \A i \in pages : i \in 1 .. n /\ c[i] = from[i]
  BY <1>1, <1>2
<1>8. \A i \in (1 .. Len(d)) \ pages : c[i] = d[i]
  BY <1>1, <1>2
<1> QED
  BY <1>1, <1>6, <1>7, <1>8 DEF c, IsCopy

\* A field of a backup object changed.
LEMMA BackupFields ==
  ASSUME NEW b \in BackupType
  PROVE  /\ b.iNext \in Nat /\ b.iNext >= 1 /\ b.isAttached \in BOOLEAN
         /\ b.rc \in {"OK", "BUSY", "ERROR", "DONE"}
         /\ BK!isFatalError(b.rc) <=> b.rc \notin {"OK", "BUSY"}
BY DEF BackupType, BK!isFatalError

(***************************************************************************)
(* sqlite3BackupUpdate() is called with a new view and every page in which *)
(* it differs from the old one: the pages copied are those of the new one. *)
(***************************************************************************)
LEMMA UpdateOK ==
  ASSUME bk \in BackupType, dest \in Seq(Nat),
         NEW old \in Seq(Nat), CopyOK(bk, dest, old),
         NEW v \in Seq(Nat), NEW pages \in SUBSET (1 .. Len(v)),
         \A i \in 1 .. Len(v) : i \notin pages => i <= Len(old) /\ old[i] = v[i],
         BK!sqlite3BackupUpdate(v, pages)
  PROVE  /\ bk' \in BackupType /\ dest' \in Seq(Nat)
         /\ CopyOK(bk', dest', v)
         /\ bk'.rc = "DONE" => bk.rc = "DONE"
<1>1. /\ bk.iNext \in Nat /\ bk.iNext >= 1 /\ bk.isAttached \in BOOLEAN
      /\ BK!isFatalError(bk.rc) <=> bk.rc \notin {"OK", "BUSY"}
  BY BackupFields
<1>2. Len(v) \in Nat /\ Len(old) \in Nat /\ Len(dest) \in Nat
  OBVIOUS
<1>3. CASE ~bk.isAttached \/ BK!isFatalError(bk.rc) \/ BK!Copied(pages) = {}
  <2>1. bk' = bk /\ dest' = dest
    BY <1>3 DEF BK!sqlite3BackupUpdate
  <2>2. ASSUME bk.rc \in {"OK", "BUSY"} PROVE Agree(dest, v, bk.iNext)
    <3>1. CASE ~bk.isAttached
      BY <1>2, <2>2, <3>1 DEF CopyOK, Agree
    <3>2. CASE BK!Copied(pages) = {}
      <4>1. ASSUME NEW i \in 1 .. Len(v), i < bk.iNext PROVE i <= Len(dest) /\ dest[i] = v[i]
        <5>1. i \notin pages
          BY <3>2, <4>1 DEF BK!Copied
        <5>2. i \in 1 .. Len(old) /\ old[i] = v[i]
          BY <1>2, <5>1
        <5> QED
          BY <2>2, <4>1, <5>2 DEF CopyOK, Agree
      <4> QED
        BY <4>1 DEF Agree
    <3> QED
      BY <1>1, <1>3, <2>2, <3>1, <3>2
  <2> QED
    BY <2>1, <2>2 DEF CopyOK
<1>4. CASE bk' = [bk EXCEPT !.rc = "ERROR"] /\ dest' = dest
  <2>1. bk' \in BackupType /\ bk'.rc = "ERROR"
    BY <1>4 DEF BackupType
  <2> QED
    BY <1>4, <2>1 DEF CopyOK
<1>5. CASE /\ bk.isAttached /\ ~BK!isFatalError(bk.rc) /\ BK!Copied(pages) # {}
           /\ dest' = BK!CopyPages(dest, v, BK!Copied(pages), BK!Highest(BK!Copied(pages)))
           /\ bk' = bk
  <2> DEFINE cp == BK!Copied(pages)
             hi == BK!Highest(cp)
  <2>1. cp \in SUBSET (1 .. Len(v)) /\ cp # {}
    BY <1>5 DEF BK!Copied
  <2>2. \A i \in pages : i \in cp <=> i < bk.iNext
    BY DEF BK!Copied
  <2>3. dest' = BK!CopyPages(dest, v, cp, hi)
    BY <1>5
  <2> HIDE DEF cp
  <2>4. hi \in cp /\ \A m \in cp : m <= hi
    BY <1>2, <2>1, HighestIn
  <2> HIDE DEF hi
  <2>5. hi \in Nat /\ cp \in SUBSET (1 .. hi)
    BY <1>2, <2>1, <2>4
  <2>6. /\ dest' \in Seq(Nat)
        /\ Len(dest') >= hi /\ Len(dest') >= Len(dest)
        /\ \A i \in cp : i \in 1 .. Len(dest') /\ dest'[i] = v[i]
        /\ \A i \in (1 .. Len(dest)) \ cp : dest'[i] = dest[i]
    <3>1. cp \subseteq 1 .. Len(v)
      BY <2>1
    <3>2. IsCopy(dest', dest, v, cp, hi)
      BY <2>3, <2>5, <3>1, CopyFacts
    <3> QED
      BY <3>2 DEF IsCopy
  <2>7. Len(dest') \in Nat
    BY <2>6
  <2>8. ASSUME NEW i \in 1 .. Len(v), i < bk.iNext PROVE i <= Len(dest') /\ dest'[i] = v[i]
    <3>1. CASE i \in cp
      BY <2>6, <3>1
    <3>2. CASE i \notin cp
      <4>1. i \in 1 .. Len(old) /\ old[i] = v[i]
        BY <1>2, <2>2, <2>8, <3>2
      <4>2. i <= Len(dest) /\ dest[i] = old[i]
        BY <1>1, <1>5, <2>8, <4>1 DEF CopyOK, Agree
      <4>3. i \in (1 .. Len(dest)) \ cp
        BY <1>2, <3>2, <4>2
      <4> QED
        BY <1>2, <2>6, <2>7, <4>1, <4>2, <4>3
    <3> QED
      BY <3>1, <3>2
  <2>9. Agree(dest', v, bk.iNext)
    BY <2>8 DEF Agree
  <2> QED
    BY <1>5, <2>6, <2>9 DEF CopyOK
<1> QED
  BY <1>3, <1>4, <1>5 DEF BK!sqlite3BackupUpdate

-----------------------------------------------------------------------------
\* Backup: every action keeps the invariant.

LEMMA SourceFields ==
  ASSUME NEW s \in SourceType
  PROVE  /\ s.trans \in {"none", "read", "write"} /\ s.seen \in Nat /\ s.spilled \in SUBSET Nat
         /\ s.view \in Seq(Nat) /\ s.orig \in Seq(Nat)
         /\ Len(s.view) \in Nat /\ Len(s.orig) \in Nat
BY DEF SourceType

(***************************************************************************)
(* sqlite3PagerSharedLock(): the view becomes the file.  Either it was the *)
(* file already, or the backup starts again.                               *)
(***************************************************************************)
LEMMA OpenedOK ==
  ASSUME BkInv, src.trans = "none", NEW t \in {"read", "write"}
  PROVE  /\ BK!Opened(t) \in SourceType /\ CacheOK(BK!Opened(t))
         /\ BK!Opened(t).trans = t /\ BK!Opened(t).seen = vers
         /\ BK!Opened(t).view = dbFile
         /\ BK!AfterSharedLock \in BackupType
         /\ BK!AfterSharedLock.rc = bk.rc
         /\ CopyOK(BK!AfterSharedLock, dest, dbFile)
<1>1. bk \in BackupType /\ src \in SourceType /\ dbFile \in Seq(Nat) /\ vers \in Nat
  BY DEF BkInv, BkTypeOK
<1>2. BK!Opened(t) = [src EXCEPT !.trans = t, !.seen = vers, !.view = dbFile, !.orig = dbFile,
                                 !.spilled = {}]
  BY DEF BK!Opened
<1> DEFINE s == BK!Opened(t)
<1> HIDE DEF s
<1>3. /\ s \in SourceType /\ s.trans = t /\ s.seen = vers
      /\ s.view = dbFile /\ s.orig = dbFile
  BY <1>1, <1>2 DEF SourceType, s
<1>4. CacheOK(s)
  BY <1>1, <1>3 DEF CacheOK
<1>5. BK!AfterSharedLock = IF src.seen # vers /\ bk.isAttached THEN [bk EXCEPT !.iNext = 1] ELSE bk
  BY DEF BK!AfterSharedLock, BK!Stale, BK!sqlite3BackupRestart
<1>6. CASE src.seen # vers /\ bk.isAttached
  <2> DEFINE b == [bk EXCEPT !.iNext = 1]
  <2>1. b \in BackupType /\ b.rc = bk.rc /\ b.iNext = 1
    BY <1>1 DEF BackupType
  <2> HIDE DEF b
  <2>2. Agree(dest, dbFile, b.iNext)
    BY <1>1, <2>1 DEF Agree
  <2>3. CopyOK(b, dest, dbFile)
    BY <2>1, <2>2 DEF CopyOK
  <2>4. BK!AfterSharedLock = b
    BY <1>5, <1>6 DEF b
  <2> QED
    BY <1>3, <1>4, <2>1, <2>3, <2>4 DEF s
<1>7. CASE ~(src.seen # vers /\ bk.isAttached)
  <2>1. BK!AfterSharedLock = bk
    BY <1>5, <1>7
  <2>2. CopyOK(bk, dest, dbFile)
    <3>1. CASE src.seen = vers
      <4>1. src.view = dbFile
        BY <3>1 DEF BkInv, CacheOK
      <4> QED
        BY <4>1 DEF BkInv
    <3>2. CASE ~bk.isAttached
      BY <1>1, <3>2 DEF BkInv, CopyOK, Agree
    <3> QED
      BY <1>1, <1>7, <3>1, <3>2, BackupFields
  <2> QED
    BY <1>1, <1>3, <1>4, <2>1, <2>2 DEF s
<1> QED
  BY <1>6, <1>7

\* What a step that does not finish a backup has to keep.
Kept == BkInv' /\ (bk'.rc = "DONE" => bk.rc = "DONE")

\* CacheOK depends on the file and its version.
LEMMA CacheSame ==
  ASSUME NEW s, CacheOK(s), dbFile' = dbFile, vers' = vers
  PROVE  /\ s.trans # "write" => s.view = s.orig
         /\ s.trans = "write" => s.seen = vers'
         /\ s.seen = vers' => s.orig = dbFile'
         /\ Len(s.view) >= Len(s.orig)
         /\ \A i \in 1 .. Len(s.orig) : i \notin s.spilled => s.view[i] = s.orig[i]
BY DEF CacheOK

\* BkInv in the next state, part by part.
LEMMA BkInvPrime ==
  ASSUME dbFile' \in Seq(Nat), src' \in SourceType, bk' \in BackupType, dest' \in Seq(Nat),
         destFile' \in Seq(Nat), bkTxn' \in Nat, vers' \in 0 .. bkTxn', src'.seen \in 0 .. bkTxn',
         src'.trans # "write" => src'.view = src'.orig,
         src'.trans = "write" => src'.seen = vers',
         src'.seen = vers' => src'.orig = dbFile',
         Len(src'.view) >= Len(src'.orig),
         \A i \in 1 .. Len(src'.orig) : i \notin src'.spilled => src'.view[i] = src'.orig[i],
         CopyOK(bk', dest', src'.view)
  PROVE  BkInv'
<1>1. CacheOK(src)'
  BY DEF CacheOK
<1>2. CopyOK(bk, dest, src.view)'
  BY DEF CopyOK, Agree
<1> QED
  BY <1>1, <1>2 DEF BkInv, BkTypeOK

LEMMA BeginReadOK ==
  ASSUME BkInv, BK!BeginRead
  PROVE  Kept
<1>1. /\ src.trans = "none" /\ src' = BK!Opened("read") /\ bk' = BK!AfterSharedLock
      /\ UNCHANGED <<dbFile, vers, dest, destFile, bkTxn>>
  BY DEF BK!BeginRead
<1>2. /\ src' \in SourceType /\ CacheOK(src') /\ src'.seen = vers /\ src'.view = dbFile
      /\ bk' \in BackupType /\ bk'.rc = bk.rc /\ CopyOK(bk', dest, dbFile)
  BY <1>1, OpenedOK
<1>3. BkInv'
  BY <1>1, <1>2, CacheSame, BkInvPrime DEF BkInv, BkTypeOK
<1> QED
  BY <1>2, <1>3 DEF Kept

LEMMA BeginWriteOK ==
  ASSUME BkInv, BK!BeginWrite
  PROVE  Kept
<1>1. /\ bkTxn' = bkTxn + 1
      /\ UNCHANGED <<dbFile, vers, dest, destFile>>
  BY DEF BK!BeginWrite
<1>2. /\ bkTxn' \in Nat /\ vers' \in 0 .. bkTxn' /\ src.seen \in 0 .. bkTxn'
      /\ dbFile' \in Seq(Nat) /\ destFile' \in Seq(Nat) /\ dest' \in Seq(Nat)
  BY <1>1 DEF BkInv, BkTypeOK
<1>3. CASE src.trans = "none"
  <2>1. src' = BK!Opened("write") /\ bk' = BK!AfterSharedLock
    BY <1>3 DEF BK!BeginWrite
  <2>2. /\ src' \in SourceType /\ CacheOK(src') /\ src'.seen = vers /\ src'.view = dbFile
        /\ bk' \in BackupType /\ bk'.rc = bk.rc /\ CopyOK(bk', dest, dbFile)
    BY <1>3, <2>1, OpenedOK
  <2>3. BkInv'
    BY <1>1, <1>2, <2>2, CacheSame, BkInvPrime
  <2> QED
    BY <2>2, <2>3 DEF Kept
<1>4. CASE src.trans # "none"
  <2>1. src.trans = "read" /\ src.seen = vers /\ src' = [src EXCEPT !.trans = "write"] /\ bk' = bk
    BY <1>4 DEF BK!BeginWrite, BK!Stale
  <2>2. /\ src' \in SourceType /\ src'.trans = "write" /\ src'.seen = src.seen
        /\ src'.view = src.view /\ src'.orig = src.orig /\ src'.spilled = src.spilled
    BY <2>1 DEF SourceType, BkInv, BkTypeOK
  <2>3. BkInv'
    BY <1>1, <1>2, <2>1, <2>2, BkInvPrime DEF BkInv, BkTypeOK, CacheOK
  <2> QED
    BY <2>1, <2>3 DEF Kept
<1> QED
  BY <1>3, <1>4

LEMMA EndReadOK ==
  ASSUME BkInv, BK!EndRead
  PROVE  Kept
<1>1. /\ src.trans = "read" /\ src' = [src EXCEPT !.trans = "none"]
      /\ UNCHANGED <<dbFile, vers, bk, dest, destFile, bkTxn>>
  BY DEF BK!EndRead
<1>2. /\ src' \in SourceType /\ src'.trans = "none" /\ src'.seen = src.seen
      /\ src'.view = src.view /\ src'.orig = src.orig /\ src'.spilled = src.spilled
  BY <1>1 DEF SourceType, BkInv, BkTypeOK
<1>3. BkInv'
  BY <1>1, <1>2, BkInvPrime DEF BkInv, BkTypeOK, CacheOK
<1> QED
  BY <1>1, <1>3 DEF Kept

LEMMA BkSpillOK ==
  ASSUME BkInv, NEW k \in BK!Page, BK!Spill(k)
  PROVE  Kept
<1> DEFINE v == IF k \in DOMAIN src.view THEN [src.view EXCEPT ![k] = bkTxn]
                ELSE Append(src.view, bkTxn)
<1>1. /\ src.trans = "write" /\ k \in 1 .. Len(src.view) + 1
      /\ src' = [src EXCEPT !.view = v, !.spilled = @ \cup {k}]
      /\ BK!sqlite3BackupUpdate(v, {k})
      /\ UNCHANGED <<dbFile, vers, destFile, bkTxn>>
  BY DEF BK!Spill
<1>2. src \in SourceType /\ bk \in BackupType /\ dest \in Seq(Nat) /\ bkTxn \in Nat
  BY DEF BkInv, BkTypeOK
<1>3. src.view \in Seq(Nat) /\ src.orig \in Seq(Nat) /\ Len(src.view) \in Nat
      /\ Len(src.orig) \in Nat /\ src.spilled \in SUBSET Nat
  BY <1>2, SourceFields
<1>4. /\ v \in Seq(Nat) /\ Len(v) >= Len(src.view) /\ k \in 1 .. Len(v)
      /\ \A i \in 1 .. Len(v) : i # k => i <= Len(src.view) /\ src.view[i] = v[i]
  <2>1. CASE k \in DOMAIN src.view
    <3>1. k \in 1 .. Len(src.view)
      BY <1>3, <2>1
    <3>2. v = [src.view EXCEPT ![k] = bkTxn]
      BY <2>1
    <3> QED
      BY <1>2, <1>3, <3>1, <3>2, ExceptSeq
  <2>2. CASE k \notin DOMAIN src.view
    <3>1. k = Len(src.view) + 1
      BY <1>1, <1>3, <2>2
    <3>2. v = Append(src.view, bkTxn)
      BY <2>2
    <3>3. /\ v \in Seq(Nat) /\ Len(v) = Len(src.view) + 1
          /\ \A i \in 1 .. Len(src.view) : v[i] = src.view[i]
      BY <1>2, <1>3, <3>2, AppendProperties
    <3> QED
      BY <1>3, <3>1, <3>3
  <2> QED
    BY <2>1, <2>2
<1> HIDE DEF v
<1>5. /\ src' \in SourceType /\ src'.trans = "write" /\ src'.seen = src.seen
      /\ src'.view = v /\ src'.orig = src.orig /\ src'.spilled = src.spilled \cup {k}
  <2> DEFINE sp == src.spilled \cup {k}
  <2>1. sp \in SUBSET Nat
    BY <1>3, <1>4
  <2>2. src' = [src EXCEPT !.view = v, !.spilled = sp]
    BY <1>1, <1>2 DEF SourceType
  <2> HIDE DEF sp
  <2>3. /\ src' \in SourceType /\ src'.trans = "write" /\ src'.seen = src.seen
        /\ src'.view = v /\ src'.orig = src.orig /\ src'.spilled = sp
    BY <1>1, <1>2, <1>4, <2>1, <2>2 DEF SourceType
  <2> QED
    BY <2>3 DEF sp
<1>6. /\ bk' \in BackupType /\ dest' \in Seq(Nat)
      /\ CopyOK(bk', dest', v)
      /\ bk'.rc = "DONE" => bk.rc = "DONE"
  <2>1. CopyOK(bk, dest, src.view)
    BY DEF BkInv
  <2>2. {k} \in SUBSET (1 .. Len(v))
    BY <1>4
  <2>3. \A i \in 1 .. Len(v) : i \notin {k} => i <= Len(src.view) /\ src.view[i] = v[i]
    BY <1>4
  <2> QED
    BY <1>1, <1>2, <1>3, <1>4, <2>1, <2>2, <2>3, UpdateOK
<1>7. Len(v) \in Nat
  BY <1>4
<1>8. /\ Len(v) >= Len(src.orig)
      /\ \A i \in 1 .. Len(src.orig) : i \notin src.spilled \cup {k} => v[i] = src.orig[i]
  <2>1. /\ Len(src.view) >= Len(src.orig)
        /\ \A i \in 1 .. Len(src.orig) : i \notin src.spilled => src.view[i] = src.orig[i]
    BY DEF BkInv, CacheOK
  <2>2. Len(src.view) \in Nat /\ Len(src.orig) \in Nat
    BY <1>2, <1>3 DEF SourceType
  <2>3. Len(v) >= Len(src.view) /\ \A i \in 1 .. Len(src.view) : i # k => v[i] = src.view[i]
    BY <1>3, <1>4, <2>2
  <2>4. Len(v) >= Len(src.orig)
    BY <1>7, <2>1, <2>2, <2>3
  <2>5. ASSUME NEW i \in 1 .. Len(src.orig), i \notin src.spilled \cup {k}
        PROVE  v[i] = src.orig[i]
    <3>1. i \in 1 .. Len(src.view) /\ i # k /\ i \notin src.spilled
      BY <2>1, <2>2, <2>5
    <3> QED
      BY <2>1, <2>3, <3>1
  <2> QED
    BY <2>4, <2>5
<1>9. BkInv'
  BY <1>1, <1>5, <1>6, <1>8, BkInvPrime DEF BkInv, BkTypeOK, CacheOK
<1> QED
  BY <1>6, <1>9 DEF Kept

\* The pages of the file after a commit.
Committed(f, t, n, dirty) == [i \in 1 .. n |-> IF i \in dirty THEN t ELSE f[i]]

IsCommit(v, f, n, dirty) ==
  /\ v \in Seq(Nat) /\ Len(v) = n
  /\ \A i \in 1 .. Len(v) : i \notin dirty => i <= Len(f) /\ f[i] = v[i]

LEMMA CommitFacts ==
  ASSUME NEW f \in Seq(Nat), NEW t \in Nat, NEW n \in Nat, NEW dirty \in SUBSET (1 .. n),
         {i \in 1 .. n : i > Len(f)} \subseteq dirty
  PROVE  IsCommit(Committed(f, t, n, dirty), f, n, dirty)
<1> DEFINE v == Committed(f, t, n, dirty)
<1>1. Len(f) \in Nat
  OBVIOUS
<1>2. \A i \in 1 .. n : i \notin dirty => i \in 1 .. Len(f) /\ f[i] \in Nat
  BY <1>1
<1>3. v \in [1 .. n -> Nat]
  BY <1>2 DEF Committed
<1>4. \A i \in 1 .. n : i \notin dirty => v[i] = f[i]
  BY DEF Committed
<1> HIDE DEF v
<1>5. v \in Seq(Nat) /\ Len(v) = n
  BY <1>3, FunctionIsSeq
<1> QED
  BY <1>2, <1>4, <1>5 DEF IsCommit, v

LEMMA BkCommitOK ==
  ASSUME BkInv, NEW dirty \in SUBSET BK!Page, NEW n \in BK!Page, BK!Commit(dirty, n)
  PROVE  Kept
<1> DEFINE v == [i \in 1 .. n |-> IF i \in dirty THEN bkTxn ELSE src.view[i]]
<1>1. /\ src.trans = "write" /\ dirty \in SUBSET (1 .. n)
      /\ {i \in 1 .. n : i > Len(src.view)} \subseteq dirty
      /\ dbFile' = v /\ vers' = bkTxn
      /\ src' = [src EXCEPT !.trans = "none", !.seen = bkTxn, !.view = v, !.orig = v, !.spilled = {}]
      /\ BK!sqlite3BackupUpdate(v, dirty)
      /\ UNCHANGED <<destFile, bkTxn>>
  BY DEF BK!Commit
<1>2. /\ src \in SourceType /\ bk \in BackupType /\ dest \in Seq(Nat) /\ destFile \in Seq(Nat)
      /\ bkTxn \in Nat /\ n \in Nat
  BY DEF BkInv, BkTypeOK, BK!Page
<1>3. src.view \in Seq(Nat) /\ Len(src.view) \in Nat
  BY <1>2, SourceFields
<1>4. /\ v \in Seq(Nat) /\ Len(v) = n
      /\ \A i \in 1 .. Len(v) : i \notin dirty => i <= Len(src.view) /\ src.view[i] = v[i]
  <2>1. v = Committed(src.view, bkTxn, n, dirty)
    BY DEF Committed
  <2> HIDE DEF v
  <2>2. IsCommit(v, src.view, n, dirty)
    BY <1>1, <1>2, <1>3, <2>1, CommitFacts
  <2> QED
    BY <2>2 DEF IsCommit
<1> HIDE DEF v
<1>5. /\ src' \in SourceType /\ src'.trans = "none" /\ src'.seen = bkTxn
      /\ src'.view = v /\ src'.orig = v
  BY <1>1, <1>2, <1>4 DEF SourceType
<1>6. /\ bk' \in BackupType /\ dest' \in Seq(Nat)
      /\ CopyOK(bk', dest', v)
      /\ bk'.rc = "DONE" => bk.rc = "DONE"
  <2>1. CopyOK(bk, dest, src.view)
    BY DEF BkInv
  <2>2. dirty \in SUBSET (1 .. Len(v))
    BY <1>1, <1>4
  <2> QED
    BY <1>1, <1>2, <1>3, <1>4, <2>1, <2>2, UpdateOK
<1>7. Len(v) >= Len(v)
  BY <1>2, <1>4
<1>8. bkTxn' \in Nat /\ vers' \in 0 .. bkTxn' /\ src'.seen \in 0 .. bkTxn' /\ dbFile' \in Seq(Nat)
  BY <1>1, <1>2, <1>4, <1>5
<1>9. BkInv'
  BY <1>1, <1>2, <1>5, <1>6, <1>7, <1>8, BkInvPrime
<1> QED
  BY <1>6, <1>9 DEF Kept

LEMMA BkRollbackOK ==
  ASSUME BkInv, BK!Rollback
  PROVE  Kept
<1>1. /\ src.trans = "write"
      /\ src' = [src EXCEPT !.trans = "none", !.view = src.orig, !.spilled = {}]
      /\ UNCHANGED <<dbFile, vers, destFile, bkTxn>>
  BY DEF BK!Rollback
<1>2. src \in SourceType /\ bk \in BackupType /\ dest \in Seq(Nat)
  BY DEF BkInv, BkTypeOK
<1>3. src.view \in Seq(Nat) /\ src.orig \in Seq(Nat) /\ Len(src.view) \in Nat
      /\ Len(src.orig) \in Nat /\ src.spilled \in SUBSET Nat
  BY <1>2, SourceFields
<1>4. /\ src' \in SourceType /\ src'.trans = "none" /\ src'.seen = src.seen
      /\ src'.view = src.orig /\ src'.orig = src.orig
  BY <1>1, <1>2, <1>3 DEF SourceType
<1>5. Len(src.view) >= Len(src.orig)
      /\ \A i \in 1 .. Len(src.orig) : i \notin src.spilled => src.view[i] = src.orig[i]
  BY DEF BkInv, CacheOK
<1>6. CopyOK(bk, dest, src.view)
  BY DEF BkInv
<1>7. /\ bk' \in BackupType /\ dest' \in Seq(Nat)
      /\ CopyOK(bk', dest', src.orig)
      /\ bk'.rc = "DONE" => bk.rc = "DONE"
  <2>1. CASE wal /\ bk' = BK!sqlite3BackupRestart(bk)
    <3>1. dest' = dest
      BY <2>1 DEF BK!Rollback
    <3>2. CASE bk.isAttached
      <4>1. bk' = [bk EXCEPT !.iNext = 1]
        BY <2>1, <3>2 DEF BK!sqlite3BackupRestart
      <4>2. bk' \in BackupType /\ bk'.iNext = 1 /\ bk'.rc = bk.rc
        BY <1>2, <4>1 DEF BackupType
      <4>3. Agree(dest', src.orig, bk'.iNext)
        BY <1>3, <4>2 DEF Agree
      <4> QED
        BY <1>2, <3>1, <4>2, <4>3 DEF CopyOK
    <3>3. CASE ~bk.isAttached
      <4>1. bk' = bk
        BY <2>1, <3>3 DEF BK!sqlite3BackupRestart
      <4>2. CopyOK(bk, dest, src.orig)
        BY <1>3, <1>6, <3>3 DEF CopyOK, Agree
      <4> QED
        BY <1>2, <3>1, <4>1, <4>2
    <3> QED
      BY <1>2, <3>2, <3>3, BackupFields
  <2>2. CASE wal /\ src.spilled = {} /\ bk' = bk
    <3>1. dest' = dest
      BY <2>2 DEF BK!Rollback
    <3>2. \A i \in 1 .. Len(src.orig) : i \in 1 .. Len(src.view) /\ src.view[i] = src.orig[i]
      BY <1>3, <1>5, <2>2
    <3>3. \A m : Agree(dest, src.view, m) => Agree(dest, src.orig, m)
      BY <3>2 DEF Agree
    <3>4. CopyOK(bk, dest, src.orig)
      BY <1>6, <3>3 DEF CopyOK
    <3> QED
      BY <1>2, <2>2, <3>1, <3>4
  <2>3. CASE ~wal
    <3> DEFINE pages == src.spilled \cap DOMAIN src.orig
    <3>1. BK!sqlite3BackupUpdate(src.orig, pages)
      BY <2>3 DEF BK!Rollback
    <3>2. pages \in SUBSET (1 .. Len(src.orig))
      BY <1>3
    <3>3. \A i \in 1 .. Len(src.orig) :
            i \notin pages => i <= Len(src.view) /\ src.view[i] = src.orig[i]
      BY <1>3, <1>5
    <3> HIDE DEF pages
    <3> QED
      BY <1>2, <1>3, <1>6, <3>1, <3>2, <3>3, UpdateOK
  <2> QED
    BY <2>1, <2>2, <2>3 DEF BK!Rollback
<1>8. src.orig = dbFile
  BY <1>1 DEF BkInv, CacheOK
<1>9. Len(src.orig) >= Len(src.orig)
  BY <1>3
<1>10. BkInv'
  BY <1>1, <1>4, <1>7, <1>8, <1>9, BkInvPrime DEF BkInv, BkTypeOK
<1> QED
  BY <1>7, <1>10 DEF Kept

LEMMA ExternalCommitOK ==
  ASSUME BkInv, NEW dirty \in SUBSET BK!Page, NEW n \in BK!Page, BK!ExternalCommit(dirty, n)
  PROVE  Kept
<1> DEFINE v == [i \in 1 .. n |-> IF i \in dirty THEN bkTxn + 1 ELSE dbFile[i]]
<1>1. /\ src.trans # "write" /\ dirty \in SUBSET (1 .. n)
      /\ {i \in 1 .. n : i > Len(dbFile)} \subseteq dirty
      /\ dbFile' = v /\ vers' = bkTxn + 1 /\ bkTxn' = bkTxn + 1
      /\ UNCHANGED <<src, bk, dest, destFile>>
  BY DEF BK!ExternalCommit
<1>2. dbFile \in Seq(Nat) /\ bkTxn \in Nat /\ n \in Nat /\ src.seen \in 0 .. bkTxn
  BY DEF BkInv, BkTypeOK, BK!Page
<1>3. v \in Seq(Nat)
  <2> DEFINE t == bkTxn + 1
  <2>1. t \in Nat
    BY <1>2
  <2>2. v = Committed(dbFile, t, n, dirty)
    BY DEF Committed
  <2> HIDE DEF t, v
  <2>3. IsCommit(v, dbFile, n, dirty)
    BY <1>1, <1>2, <2>1, <2>2, CommitFacts
  <2> QED
    BY <2>3 DEF IsCommit
<1> HIDE DEF v
<1>4. /\ bkTxn' \in Nat /\ vers' \in 0 .. bkTxn' /\ src'.seen \in 0 .. bkTxn' /\ dbFile' \in Seq(Nat)
      /\ src'.seen # vers'
  BY <1>1, <1>2, <1>3
<1>5. BkInv'
  BY <1>1, <1>4, BkInvPrime DEF BkInv, BkTypeOK, CacheOK
<1> QED
  BY <1>1, <1>5 DEF Kept

\* Steps that change the backup alone.
LEMMA BackupAloneOK ==
  ASSUME BkInv, bk' \in BackupType, dest' \in Seq(Nat), CopyOK(bk', dest', src.view),
         bk'.rc # "DONE", UNCHANGED <<dbFile, vers, src, destFile, bkTxn>>
  PROVE  Kept
<1>1. BkInv'
  BY BkInvPrime DEF BkInv, BkTypeOK, CacheOK
<1> QED
  BY <1>1 DEF Kept

LEMMA StepBusyOK ==
  ASSUME BkInv, BK!StepBusy
  PROVE  Kept
<1>1. /\ ~BK!isFatalError(bk.rc) /\ bk' = [bk EXCEPT !.rc = "BUSY"]
      /\ UNCHANGED <<dbFile, vers, src, dest, destFile, bkTxn>>
  BY DEF BK!StepBusy
<1>2. bk \in BackupType /\ dest \in Seq(Nat) /\ bk.rc \in {"OK", "BUSY"}
  BY <1>1, BackupFields DEF BkInv, BkTypeOK
<1>3. /\ bk' \in BackupType /\ bk'.rc = "BUSY" /\ bk'.iNext = bk.iNext
      /\ bk'.isAttached = bk.isAttached
  BY <1>1, <1>2 DEF BackupType
<1>4. CopyOK(bk', dest', src.view)
  BY <1>1, <1>2, <1>3 DEF BkInv, CopyOK
<1> QED
  BY <1>1, <1>2, <1>3, <1>4, BackupAloneOK

LEMMA StepFailsOK ==
  ASSUME BkInv, BK!StepFails
  PROVE  Kept
<1>1. /\ bk' = [bk EXCEPT !.rc = "ERROR"]
      /\ UNCHANGED <<dbFile, vers, src, dest, destFile, bkTxn>>
  BY DEF BK!StepFails
<1>2. bk \in BackupType /\ dest \in Seq(Nat)
  BY DEF BkInv, BkTypeOK
<1>3. bk' \in BackupType /\ bk'.rc = "ERROR"
  BY <1>1, <1>2 DEF BackupType
<1>4. CopyOK(bk', dest', src.view)
  BY <1>3 DEF CopyOK
<1> QED
  BY <1>1, <1>2, <1>3, <1>4, BackupAloneOK

LEMMA FinishOK ==
  ASSUME BkInv, BK!sqlite3_backup_finish
  PROVE  Kept
<1>1. /\ bk' = [iNext |-> 1, isAttached |-> FALSE, rc |-> "OK"] /\ dest' = destFile
      /\ UNCHANGED <<dbFile, vers, src, destFile, bkTxn>>
  BY DEF BK!sqlite3_backup_finish
<1>2. destFile \in Seq(Nat) /\ src \in SourceType
  BY DEF BkInv, BkTypeOK
<1>3. bk' \in BackupType /\ bk'.rc = "OK" /\ bk'.iNext = 1
  BY <1>1 DEF BackupType
<1>4. CopyOK(bk', dest', src.view)
  BY <1>2, <1>3, SourceFields DEF CopyOK, Agree
<1> QED
  BY <1>1, <1>2, <1>3, <1>4, BackupAloneOK

(***************************************************************************)
(* sqlite3_backup_step() copies the pages after those copied already: when *)
(* none is left, the destination cut to the size of the source is the view.*)
(***************************************************************************)
Snapshot == bk.rc # "DONE" /\ bk'.rc = "DONE" => destFile' = src'.view

\* The step from the view s and the object b it opens with.
StepFrom(n, s, b) ==
  LET size == Len(s.view)
      last == IF b.iNext + n - 1 > size THEN size ELSE b.iNext + n - 1
      next == IF last + 1 > b.iNext THEN last + 1 ELSE b.iNext
      copy == BK!CopyPages(dest, s.view, b.iNext .. last, last)
  IN  /\ src' = [s EXCEPT !.trans = src.trans]
      /\ IF next > size
         THEN /\ dest' = SubSeq(copy, 1, size)
              /\ destFile' = SubSeq(copy, 1, size)
              /\ bk' = [b EXCEPT !.iNext = next, !.rc = "DONE"]
         ELSE /\ dest' = copy
              /\ bk' = [b EXCEPT !.iNext = next, !.isAttached = TRUE]
              /\ UNCHANGED destFile

\* The pages one step copies.
LEMMA StepBounds ==
  ASSUME NEW i \in Nat, i >= 1, NEW n \in Nat, n >= 1, NEW size \in Nat,
         NEW last, last = IF i + n - 1 > size THEN size ELSE i + n - 1,
         NEW next, next = IF last + 1 > i THEN last + 1 ELSE i
  PROVE  /\ last \in Nat /\ last <= size
         /\ next \in Nat \ {0} /\ next >= i
         /\ next > size => last = size
         /\ \A k \in 1 .. size : k < next => k < i \/ k \in i .. last
<1>1. last \in Nat /\ last <= size
  OBVIOUS
<1>2. next \in Nat \ {0} /\ next >= i
  BY <1>1
<1>3. next > size => last = size
  BY <1>1
<1>4. \A k \in 1 .. size : k < next => k < i \/ k \in i .. last
  BY <1>1
<1> QED
  BY <1>1, <1>2, <1>3, <1>4

LEMMA StepOK ==
  ASSUME BkInv, NEW n \in BK!Page, BK!sqlite3_backup_step(n)
  PROVE  BkInv' /\ Snapshot
<1> DEFINE s == IF src.trans = "none" THEN BK!Opened("read") ELSE src
           b0 == IF src.trans = "none" THEN BK!AfterSharedLock ELSE bk
           b == [b0 EXCEPT !.rc = "OK"]
           size == Len(s.view)
           last == IF b.iNext + n - 1 > size THEN size ELSE b.iNext + n - 1
           next == IF last + 1 > b.iNext THEN last + 1 ELSE b.iNext
           copy == BK!CopyPages(dest, s.view, b.iNext .. last, last)
<1>1. /\ ~BK!isFatalError(bk.rc) /\ src.trans # "write"
      /\ src' = [s EXCEPT !.trans = src.trans]
      /\ next > size => /\ dest' = SubSeq(copy, 1, size) /\ destFile' = SubSeq(copy, 1, size)
                        /\ bk' = [b EXCEPT !.iNext = next, !.rc = "DONE"]
      /\ ~(next > size) => /\ dest' = copy /\ destFile' = destFile
                           /\ bk' = [b EXCEPT !.iNext = next, !.isAttached = TRUE]
      /\ UNCHANGED <<dbFile, vers, bkTxn>>
  <2>1. /\ ~BK!isFatalError(bk.rc) /\ src.trans # "write"
        /\ UNCHANGED <<dbFile, vers, bkTxn>>
    BY DEF BK!sqlite3_backup_step
  <2> HIDE DEF s, b0, b
  <2>2. \E ss \in {s}, bb \in {b} : StepFrom(n, ss, bb)
    BY DEF BK!sqlite3_backup_step, StepFrom, s, b0, b
  <2>3. StepFrom(n, s, b)
    BY <2>2
  <2> QED
    BY <2>1, <2>3 DEF StepFrom
<1>2. /\ src \in SourceType /\ bk \in BackupType /\ dest \in Seq(Nat) /\ destFile \in Seq(Nat)
      /\ n \in Nat /\ n >= 1 /\ dbFile \in Seq(Nat) /\ bkTxn \in Nat /\ vers \in 0 .. bkTxn
      /\ src.seen \in 0 .. bkTxn
  BY DEF BkInv, BkTypeOK, BK!Page
<1>3. bk.rc \in {"OK", "BUSY"} /\ src.trans \in {"none", "read"}
  BY <1>1, <1>2, BackupFields, SourceFields
<1>4. /\ s \in SourceType /\ CacheOK(s) /\ s.trans # "write" /\ s.seen \in 0 .. bkTxn
      /\ b0 \in BackupType /\ b0.rc = bk.rc /\ CopyOK(b0, dest, s.view)
  <2>1. CASE src.trans = "none"
    BY <1>2, <2>1, OpenedOK
  <2>2. CASE src.trans # "none"
    BY <1>1, <1>2, <2>2 DEF BkInv
  <2> QED
    BY <2>1, <2>2
<1> HIDE DEF s, b0
<1>5. /\ b \in BackupType /\ b.rc = "OK" /\ b.iNext = b0.iNext /\ b.isAttached = b0.isAttached
  BY <1>4 DEF BackupType
<1>6. Agree(dest, s.view, b.iNext)
  BY <1>3, <1>4, <1>5 DEF CopyOK
<1> HIDE DEF b
<1>7. b.iNext \in Nat /\ b.iNext >= 1 /\ s.view \in Seq(Nat) /\ size \in Nat
  BY <1>4, <1>5, BackupFields, SourceFields
<1>8. /\ last \in Nat /\ last <= size
      /\ next \in Nat \ {0} /\ next >= b.iNext
      /\ next > size => last = size
      /\ \A i \in 1 .. size : i < next => i < b.iNext \/ i \in b.iNext .. last
  <2> DEFINE i == b.iNext
             z == size
  <2>1. /\ i \in Nat /\ i >= 1 /\ z \in Nat
        /\ last = IF i + n - 1 > z THEN z ELSE i + n - 1
        /\ next = IF last + 1 > i THEN last + 1 ELSE i
    BY <1>7
  <2> HIDE DEF last, next, i, z
  <2>2. /\ last \in Nat /\ last <= z
        /\ next \in Nat \ {0} /\ next >= i
        /\ next > z => last = z
        /\ \A k \in 1 .. z : k < next => k < i \/ k \in i .. last
    BY <1>2, <2>1, StepBounds
  <2> QED
    BY <2>2 DEF i, z
<1>9. IsCopy(copy, dest, s.view, b.iNext .. last, last)
  <2> DEFINE pages == b.iNext .. last
  <2>1. pages \in SUBSET (1 .. last) /\ pages \subseteq 1 .. Len(s.view)
    BY <1>7, <1>8
  <2> HIDE DEF last, pages
  <2>2. IsCopy(BK!CopyPages(dest, s.view, pages, last), dest, s.view, pages, last)
    BY <1>2, <1>7, <1>8, <2>1, CopyFacts
  <2> QED
    BY <2>2 DEF pages
<1> HIDE DEF last, next, copy
<1>10. copy \in Seq(Nat) /\ Len(copy) \in Nat /\ Len(copy) >= last /\ Len(copy) >= Len(dest)
  BY <1>9 DEF IsCopy
<1>11. Agree(copy, s.view, next)
  <2>1. ASSUME NEW i \in 1 .. size, i < next PROVE i <= Len(copy) /\ copy[i] = s.view[i]
    <3>1. CASE i \in b.iNext .. last
      BY <1>9, <1>10, <3>1 DEF IsCopy
    <3>2. CASE i \notin b.iNext .. last
      <4>1. i < b.iNext
        BY <1>8, <2>1, <3>2
      <4>2. i <= Len(dest) /\ dest[i] = s.view[i]
        BY <1>6, <2>1, <4>1 DEF Agree
      <4>3. i \in (1 .. Len(dest)) \ (b.iNext .. last)
        BY <1>2, <1>7, <3>2, <4>2
      <4> QED
        BY <1>2, <1>7, <1>9, <1>10, <4>2, <4>3 DEF IsCopy
    <3> QED
      BY <3>1, <3>2
  <2> QED
    BY <2>1 DEF Agree
<1>12. /\ src' \in SourceType /\ src'.trans # "write" /\ src'.seen = s.seen
       /\ src'.view = s.view /\ src'.orig = s.orig /\ src'.spilled = s.spilled
  BY <1>1, <1>2, <1>3, <1>4 DEF SourceType
<1>13. CASE next > size
  <2>1. last = size /\ \A i \in 1 .. size : i < next
    BY <1>7, <1>8, <1>13
  <2>2. \A i \in 1 .. size : copy[i] = s.view[i] /\ copy[i] \in Nat
    BY <1>7, <1>11, <2>1 DEF Agree
  <2> DEFINE cut == SubSeq(copy, 1, size)
  <2>3. cut \in Seq(Nat) /\ Len(cut) = size /\ \A i \in 1 .. size : cut[i] = copy[i]
    <3>1. /\ cut \in Seq(Nat) /\ Len(cut) = IF 1 <= size THEN size - 1 + 1 ELSE 0
          /\ \A i \in 1 .. size - 1 + 1 : cut[i] = copy[1 + i - 1]
      BY <1>7, <2>2, SubSeqProperties
    <3> HIDE DEF cut, size
    <3>2. \A i \in 1 .. size : i \in 1 .. size - 1 + 1 /\ 1 + i - 1 = i
      BY <1>7
    <3> QED
      BY <1>7, <3>1, <3>2
  <2> HIDE DEF cut
  <2>4. cut = s.view
    <3>1. \A i \in 1 .. Len(cut) : cut[i] = s.view[i]
      BY <2>2, <2>3
    <3> QED
      BY <1>7, <2>3, <3>1, SeqEqual
  <2>5. dest' = cut /\ destFile' = cut /\ bk' = [b EXCEPT !.iNext = next, !.rc = "DONE"]
    BY <1>1, <1>13 DEF cut
  <2>6. bk' \in BackupType /\ bk'.rc = "DONE"
    BY <1>5, <1>8, <2>5 DEF BackupType
  <2>7. CopyOK(bk', dest', src'.view)
    BY <2>6 DEF CopyOK
  <2>8. BkInv'
    BY <1>1, <1>2, <1>4, <1>12, <2>3, <2>5, <2>6, <2>7, BkInvPrime DEF CacheOK
  <2> QED
    BY <1>12, <2>4, <2>5, <2>8 DEF Snapshot
<1>14. CASE ~(next > size)
  <2>1. dest' = copy /\ destFile' = destFile /\ bk' = [b EXCEPT !.iNext = next, !.isAttached = TRUE]
    BY <1>1, <1>14
  <2>2. /\ bk' \in BackupType /\ bk'.rc = "OK" /\ bk'.iNext = next /\ bk'.isAttached = TRUE
    BY <1>5, <1>8, <2>1 DEF BackupType
  <2>3. CopyOK(bk', dest', src'.view)
    BY <1>11, <1>12, <2>1, <2>2 DEF CopyOK
  <2>4. BkInv'
    BY <1>1, <1>2, <1>4, <1>10, <1>12, <2>1, <2>2, <2>3, BkInvPrime DEF CacheOK
  <2> QED
    BY <2>2, <2>4 DEF Snapshot
<1> QED
  BY <1>13, <1>14

-----------------------------------------------------------------------------
\* Backup: the theorems.

LEMMA BkInitOK ==
  ASSUME BK!Init
  PROVE  BkInv
<1>1. PICK n \in BK!Page : dbFile = [i \in 1 .. n |-> 0]
  BY DEF BK!Init
<1>2. n \in Nat
  BY DEF BK!Page
<1>3. dbFile \in [1 .. n -> Nat]
  BY <1>1
<1>4. dbFile \in Seq(Nat) /\ Len(dbFile) \in Nat
  BY <1>2, <1>3, FunctionIsSeq
<1>5. /\ src = [trans |-> "none", seen |-> 0, view |-> dbFile, spilled |-> {}, orig |-> dbFile]
      /\ bk = [iNext |-> 1, isAttached |-> FALSE, rc |-> "OK"]
      /\ dest = <<>> /\ destFile = <<>> /\ bkTxn = 0 /\ vers = 0
  BY DEF BK!Init
<1>6. src \in SourceType /\ bk \in BackupType
  BY <1>4, <1>5 DEF SourceType, BackupType
<1>7. BkTypeOK
  BY <1>4, <1>5, <1>6 DEF BkTypeOK
<1>8. CacheOK(src)
  BY <1>4, <1>5 DEF CacheOK
<1>9. CopyOK(bk, dest, src.view)
  BY <1>4, <1>5 DEF CopyOK, Agree
<1> QED
  BY <1>7, <1>8, <1>9 DEF BkInv

LEMMA BkNextOK ==
  ASSUME BkInv, [BK!Next]_bkVars
  PROVE  BkInv' /\ Snapshot
<1>1. Kept => BkInv' /\ Snapshot
  BY DEF Kept, Snapshot
<1>2. CASE UNCHANGED bkVars
  <2>1. UNCHANGED <<dbFile, vers, src, bk, dest, destFile, bkTxn>>
    BY <1>2 DEF bkVars
  <2>2. BkInv'
    BY <2>1, BkInvPrime DEF BkInv, BkTypeOK, CacheOK
  <2> QED
    BY <2>1, <2>2 DEF Snapshot
<1>3. CASE BK!Next
  <2>1. ASSUME NEW k \in BK!Page, BK!Spill(k) PROVE Kept
    BY <2>1, BkSpillOK
  <2>2. ASSUME NEW dirty \in SUBSET BK!Page, NEW n \in BK!Page,
               BK!Commit(dirty, n) \/ BK!ExternalCommit(dirty, n)
        PROVE  Kept
    BY <2>2, BkCommitOK, ExternalCommitOK
  <2>3. ASSUME NEW n \in BK!Page, BK!sqlite3_backup_step(n) PROVE BkInv' /\ Snapshot
    BY <2>3, StepOK
  <2>4. CASE BK!BeginRead \/ BK!BeginWrite \/ BK!EndRead \/ BK!Rollback
    BY <1>1, <2>4, BeginReadOK, BeginWriteOK, EndReadOK, BkRollbackOK
  <2>5. CASE BK!StepBusy \/ BK!StepFails \/ BK!sqlite3_backup_finish
    BY <1>1, <2>5, StepBusyOK, StepFailsOK, FinishOK
  <2> QED
    BY <1>1, <1>3, <2>1, <2>2, <2>3, <2>4, <2>5 DEF BK!Next
<1> QED
  BY <1>2, <1>3

LEMMA BkStep ==
  ASSUME [MCNext]_allVars
  PROVE  [BK!Next]_bkVars
<1>1. CASE UNCHANGED allVars
  BY <1>1 DEF allVars
<1>2. CASE Others("Backup") /\ BK!Next
  BY <1>2
<1>3. ASSUME NEW name \in {"MasterJournal", "BtreePages", "Savepoint"}, Others(name)
      PROVE  UNCHANGED bkVars
  BY <1>3 DEF Others
<1> QED
  BY <1>1, <1>2, <1>3 DEF MCNext

(***************************************************************************)
(* While a backup can still succeed, the pages it has copied are those the *)
(* source pager reads: sqlite3BackupUpdate() (backup.c) follows every page *)
(* written, spilled, committed or played back, and the backup starts again *)
(* when the change counter shows that another connection wrote the file.   *)
(***************************************************************************)
THEOREM BackupInvariance == MCSpec => []BkInv
<1>1. MCInit => BkInv
  BY BkInitOK DEF MCInit
<1>2. BkInv /\ [MCNext]_allVars => BkInv'
  BY BkStep, BkNextOK
<1> QED
  BY <1>1, <1>2, PTL DEF MCSpec

(***************************************************************************)
(* For every number of pages, transactions and faults: the destination of  *)
(* a backup that sqlite3_backup_step() reports done is the source as one   *)
(* read transaction sees it.                                               *)
(***************************************************************************)
THEOREM BackupSnapshot == MCSpec => BackupIsSnapshot
<1>1. BkInv /\ [MCNext]_allVars =>
        [bk.rc # "DONE" /\ bk'.rc = "DONE" => destFile' = src'.view]_(BK!vars)
  BY BkStep, BkNextOK DEF Snapshot
<1> QED
  BY <1>1, BackupInvariance, PTL DEF MCSpec, BackupIsSnapshot, BK!BackupIsSnapshot

-----------------------------------------------------------------------------
\* BtreePages: the pages with a fixed use.

LEMMA DivideFacts ==
  ASSUME NEW a \in Nat, NEW b \in Nat, b > 0
  PROVE  /\ a \div b \in Nat /\ a % b \in Nat /\ a % b < b
         /\ a = ((a \div b) * b) + (a % b)
OBVIOUS

LEMMA MultipleFacts ==
  ASSUME NEW a \in Nat, NEW b \in Nat, NEW c \in Nat
  PROVE  /\ a * c \in Nat
         /\ a < b => (a * c) + c <= b * c
OBVIOUS

\* Where the pointer-map pages are.
MapPlace(p, k) ==
  \/ p = (k * (NEntry + 1)) + 2 /\ p # PENDING_BYTE_PAGE
  \/ p = (k * (NEntry + 1)) + 3 /\ p - 1 = PENDING_BYTE_PAGE

LEMMA MapPage ==
  ASSUME NEW p \in Int, BP!PTRMAP_ISPAGE(p)
  PROVE  p = 0 \/ (p >= 2 /\ \E k \in Nat : MapPlace(p, k))
<1> DEFINE n == NEntry + 1
           k == (p - 2) \div n
           d == (p - 2) % n
           m == k * n
           ret == m + 2
<1>1. n \in Nat /\ n > 0 /\ PENDING_BYTE_PAGE \in Nat
  BY BtreeAssumption
<1>2. p = IF p < 2 THEN 0 ELSE IF ret = PENDING_BYTE_PAGE THEN ret + 1 ELSE ret
  BY DEF BP!PTRMAP_ISPAGE, BP!ptrmapPageno
<1>3. CASE p < 2
  BY <1>2, <1>3
<1>4. CASE p >= 2
  <2>1. p - 2 \in Nat
    BY <1>4
  <2>2. k \in Nat /\ d \in Nat /\ p - 2 = m + d
    <3> HIDE DEF n
    <3> QED
      BY <1>1, <2>1, DivideFacts
  <2>3. m \in Nat
    <3> HIDE DEF n, k
    <3> QED
      BY <1>1, <2>2, MultipleFacts
  <2>4. m = k * (NEntry + 1)
    OBVIOUS
  <2> HIDE DEF m, k
  <2>5. p = IF ret = PENDING_BYTE_PAGE THEN ret + 1 ELSE ret
    BY <1>2, <1>4
  <2>6. MapPlace(p, k)
    BY <1>1, <2>3, <2>4, <2>5 DEF MapPlace
  <2> QED
    BY <1>4, <2>2, <2>6
<1> QED
  BY <1>3, <1>4

LEMMA TwoMapPages ==
  ASSUME NEW p \in Int, NEW q \in Int, p >= 1, BP!PTRMAP_ISPAGE(p), BP!PTRMAP_ISPAGE(q), p < q
  PROVE  p + 1 < q /\ (q = p + 2 => PENDING_BYTE_PAGE = p - 1)
<1> DEFINE n == NEntry + 1
<1>1. n \in Nat /\ n >= 3 /\ PENDING_BYTE_PAGE \in Nat
  BY BtreeAssumption
<1>2. PICK k \in Nat : MapPlace(p, k)
  BY MapPage
<1>3. PICK l \in Nat : MapPlace(q, l)
  BY MapPage
<1> DEFINE a == k * n
           b == l * n
<1>4. a \in Nat /\ b \in Nat
  <2> HIDE DEF n
  <2> QED
    BY <1>1, MultipleFacts
<1>5. \/ p = a + 2 /\ p # PENDING_BYTE_PAGE
      \/ p = a + 3 /\ p - 1 = PENDING_BYTE_PAGE
  BY <1>2 DEF MapPlace
<1>6. \/ q = b + 2 /\ q # PENDING_BYTE_PAGE
      \/ q = b + 3 /\ q - 1 = PENDING_BYTE_PAGE
  BY <1>3 DEF MapPlace
<1>7. (k < l => a + n <= b) /\ (l < k => b + n <= a) /\ (k = l => a = b)
  <2> HIDE DEF n
  <2> QED
    BY <1>1, MultipleFacts
<1> HIDE DEF a, b, n
<1> QED
  BY <1>1, <1>4, <1>5, <1>6, <1>7

\* The map and the lock bytes take at most two pages in a row.
LEMMA NotThree ==
  ASSUME NEW p \in Int
  PROVE  ~BP!Fixed(p) \/ ~BP!Fixed(p + 1) \/ ~BP!Fixed(p + 2)
<1>1. PENDING_BYTE_PAGE \in Nat /\ PENDING_BYTE_PAGE >= 2
  BY BtreeAssumption
<1>2. ASSUME NEW q \in Int, BP!Fixed(q) PROVE q = PENDING_BYTE_PAGE \/ BP!PTRMAP_ISPAGE(q)
  BY <1>2 DEF BP!Fixed
<1>3. ASSUME NEW q \in Int, q < 2, q # 0 PROVE ~BP!Fixed(q)
  BY <1>1, <1>2, <1>3, MapPage
<1>4. CASE p < 2
  BY <1>3, <1>4
<1>5. CASE p >= 2
  <2> SUFFICES ASSUME BP!Fixed(p), BP!Fixed(p + 1), BP!Fixed(p + 2) PROVE FALSE
    OBVIOUS
  <2>1. /\ p = PENDING_BYTE_PAGE \/ BP!PTRMAP_ISPAGE(p)
        /\ p + 1 = PENDING_BYTE_PAGE \/ BP!PTRMAP_ISPAGE(p + 1)
        /\ p + 2 = PENDING_BYTE_PAGE \/ BP!PTRMAP_ISPAGE(p + 2)
    BY <1>2
  <2>2. ~(BP!PTRMAP_ISPAGE(p) /\ BP!PTRMAP_ISPAGE(p + 1))
    BY <1>5, TwoMapPages
  <2>3. ~(BP!PTRMAP_ISPAGE(p + 1) /\ BP!PTRMAP_ISPAGE(p + 2))
    BY <1>5, TwoMapPages
  <2>4. BP!PTRMAP_ISPAGE(p) /\ BP!PTRMAP_ISPAGE(p + 2) => PENDING_BYTE_PAGE = p - 1
    BY <1>5, TwoMapPages
  <2> QED
    BY <1>1, <2>1, <2>2, <2>3, <2>4
<1> QED
  BY <1>4, <1>5

LEMMA FirstFromFacts ==
  ASSUME NEW p \in Int
  PROVE  BP!FirstFrom(p) \in p .. p + 2
<1> DEFINE Is(q) == ~BP!Fixed(q) /\ \A r \in p .. q - 1 : BP!Fixed(r)
<1>1. \E q \in p .. p + 2 : Is(q)
  <2>1. ~BP!Fixed(p) => Is(p)
    OBVIOUS
  <2>2. BP!Fixed(p) /\ ~BP!Fixed(p + 1) => Is(p + 1)
    OBVIOUS
  <2>3. BP!Fixed(p) /\ BP!Fixed(p + 1) /\ ~BP!Fixed(p + 2) => Is(p + 2)
    <3>1. \A r \in p .. (p + 2) - 1 : r = p \/ r = p + 1
      OBVIOUS
    <3> QED
      BY <3>1
  <2> HIDE DEF Is
  <2> QED
    BY <2>1, <2>2, <2>3, NotThree
<1>2. BP!FirstFrom(p) = CHOOSE q \in p .. p + 2 : Is(q)
  BY DEF BP!FirstFrom
<1> HIDE DEF Is
<1> QED
  BY <1>1, <1>2

LEMMA LastUpToFacts ==
  ASSUME NEW p \in Int
  PROVE  /\ BP!LastUpTo(p) \in p - 2 .. p
         /\ p >= 1 => BP!LastUpTo(p) >= 1
<1> DEFINE Is(q) == ~BP!Fixed(q) /\ \A r \in q + 1 .. p : BP!Fixed(r)
<1>1. \E q \in p - 2 .. p : Is(q)
  <2>0. p - 2 \in Int /\ (p - 2) + 1 = p - 1 /\ (p - 2) + 2 = p
    OBVIOUS
  <2>1. ~BP!Fixed(p) => Is(p)
    OBVIOUS
  <2>2. BP!Fixed(p) /\ ~BP!Fixed(p - 1) => Is(p - 1)
    OBVIOUS
  <2>3. BP!Fixed(p) /\ BP!Fixed(p - 1) /\ ~BP!Fixed(p - 2) => Is(p - 2)
    <3>1. \A r \in (p - 2) + 1 .. p : r = p \/ r = p - 1
      OBVIOUS
    <3> QED
      BY <3>1
  <2>4. ~BP!Fixed(p - 2) \/ ~BP!Fixed(p - 1) \/ ~BP!Fixed(p)
    BY <2>0, NotThree
  <2> HIDE DEF Is
  <2> QED
    BY <2>1, <2>2, <2>3, <2>4
<1>2. BP!LastUpTo(p) = CHOOSE q \in p - 2 .. p : Is(q)
  BY DEF BP!LastUpTo
<1>3. BP!LastUpTo(p) \in p - 2 .. p /\ Is(BP!LastUpTo(p))
  <2> HIDE DEF Is
  <2> QED
    BY <1>1, <1>2
<1>4. ~BP!Fixed(1)
  BY BtreeAssumption, MapPage DEF BP!Fixed
<1>5. ASSUME p >= 1, BP!LastUpTo(p) < 1 PROVE FALSE
  BY <1>3, <1>4, <1>5
<1> QED
  BY <1>3, <1>5

-----------------------------------------------------------------------------
(***************************************************************************)
(* BtreePages: the invariant of a transaction.  A leaf of the free-list    *)
(* that a rollback needs is known to pHasContent; the file is as long as   *)
(* the transaction found it unless a vacuum step has shortened it.         *)
(***************************************************************************)
IsBt(b) ==
  b = [nPage |-> b.nPage, maxRoot |-> b.maxRoot, nFree |-> b.nFree, free |-> b.free,
       par |-> b.par, map |-> b.map, hasContent |-> b.hasContent, noContent |-> b.noContent,
       bDoTruncate |-> b.bDoTruncate, corrupt |-> b.corrupt]

Trunk == [pg : Int, leaves : Seq(Int)]

BtType(b) ==
  /\ IsBt(b)
  /\ b.nPage \in Int /\ b.maxRoot \in Int /\ b.nFree \in Int
  /\ b.free \in Seq(Trunk)
  /\ DOMAIN b.par \in SUBSET Int
  /\ b.hasContent \in [size : Int, bits : SUBSET Int]

OrigType(o) == o.nPage \in Int /\ o.needed \in SUBSET (1 .. o.nPage)

IsLeaf(q, x) == \E i \in DOMAIN q : \E j \in DOMAIN q[i].leaves : q[i].leaves[j] = x

LeavesKnown(b, o) == \A p \in o.needed : IsLeaf(b.free, p) => BP!btreeGetHasContent(b, p)

Recoverable(b, o) ==
  /\ LeavesKnown(b, o)
  /\ ~b.bDoTruncate => o.nPage <= b.nPage
  /\ o.nPage >= 1 => b.nPage >= 1 /\ b.hasContent.size >= 0
  /\ b.noContent \cap o.needed = {}

TransOK(b, o) == BtType(b) /\ Recoverable(b, o)

\* Only the pointers and the map change.
LEMMA SameListOK ==
  ASSUME NEW b, NEW o, TransOK(b, o), NEW b2, IsBt(b2),
         b2.nPage = b.nPage, b2.maxRoot \in Int, b2.nFree \in Int, b2.free = b.free,
         DOMAIN b2.par \in SUBSET Int, b2.hasContent = b.hasContent,
         b2.noContent = b.noContent, b2.bDoTruncate = b.bDoTruncate
  PROVE  TransOK(b2, o)
<1>1. BtType(b2)
  BY DEF TransOK, BtType
<1>2. LeavesKnown(b2, o)
  BY DEF TransOK, Recoverable, LeavesKnown, BP!btreeGetHasContent
<1> QED
  BY <1>1, <1>2 DEF TransOK, Recoverable

\* A page leaves the free-list: no leaf is new.
LEMMA FewerLeavesOK ==
  ASSUME NEW b, NEW o, TransOK(b, o), NEW b2, IsBt(b2),
         b2.nPage = b.nPage, b2.maxRoot = b.maxRoot, b2.nFree \in Int, b2.free \in Seq(Trunk),
         \A x : IsLeaf(b2.free, x) => IsLeaf(b.free, x),
         b2.par = b.par, b2.hasContent = b.hasContent,
         b2.noContent = b.noContent, b2.bDoTruncate = b.bDoTruncate
  PROVE  TransOK(b2, o)
<1>1. BtType(b2)
  BY DEF TransOK, BtType
<1>2. LeavesKnown(b2, o)
  BY DEF TransOK, Recoverable, LeavesKnown, BP!btreeGetHasContent
<1> QED
  BY <1>1, <1>2 DEF TransOK, Recoverable

LEMMA TrunkTypes ==
  ASSUME NEW b, BtType(b), NEW i \in DOMAIN b.free
  PROVE  /\ b.free[i] \in Trunk /\ b.free[i].pg \in Int /\ b.free[i].leaves \in Seq(Int)
         /\ b.free[i] = [pg |-> b.free[i].pg, leaves |-> b.free[i].leaves]
         /\ BP!Leaves(b, i) = b.free[i].leaves
         /\ Len(b.free) \in Nat /\ DOMAIN b.free = 1 .. Len(b.free)
         /\ Len(b.free[i].leaves) \in Nat
         /\ DOMAIN b.free[i].leaves = 1 .. Len(b.free[i].leaves)
<1>1. b.free \in Seq(Trunk)
  BY DEF BtType
<1>2. b.free[i] \in Trunk /\ Len(b.free) \in Nat /\ DOMAIN b.free = 1 .. Len(b.free)
  BY <1>1
<1>3. /\ b.free[i].pg \in Int /\ b.free[i].leaves \in Seq(Int)
      /\ b.free[i] = [pg |-> b.free[i].pg, leaves |-> b.free[i].leaves]
  BY <1>2 DEF Trunk
<1> QED
  BY <1>2, <1>3 DEF BP!Leaves

\* A trunk page is taken.
LEMMA WithoutTrunkOK ==
  ASSUME NEW b, NEW o, TransOK(b, o), NEW i \in DOMAIN b.free
  PROVE  TransOK(BP!WithoutTrunk(b, i), o)
<1> DEFINE q == b.free
           ls == b.free[i].leaves
           heir == IF ls = <<>> THEN <<>> ELSE <<[pg |-> Head(ls), leaves |-> Tail(ls)]>>
           front == SubSeq(q, 1, i - 1)
           rest == SubSeq(q, i + 1, Len(q))
           w == front \o heir \o rest
           m == b.nFree - 1
           b2 == BP!WithoutTrunk(b, i)
<1>1. BtType(b) /\ IsBt(b) /\ q \in Seq(Trunk) /\ b.nFree \in Int
  BY DEF TransOK, BtType
<1>2. /\ ls \in Seq(Int) /\ BP!Leaves(b, i) = ls
      /\ Len(q) \in Nat /\ DOMAIN q = 1 .. Len(q) /\ i \in 1 .. Len(q)
      /\ Len(ls) \in Nat /\ DOMAIN ls = 1 .. Len(ls)
  BY <1>1, TrunkTypes
<1>3. b2 = [b EXCEPT !.free = w, !.nFree = m]
  BY <1>2 DEF BP!WithoutTrunk
<1>4. /\ IsBt(b2) /\ b2.free = w /\ b2.nFree = m /\ b2.nPage = b.nPage /\ b2.maxRoot = b.maxRoot
      /\ b2.par = b.par /\ b2.hasContent = b.hasContent /\ b2.noContent = b.noContent
      /\ b2.bDoTruncate = b.bDoTruncate
  <2> HIDE DEF w, m, b2
  <2> QED
    BY <1>1, <1>3 DEF IsBt
<1>5. /\ front \in Seq(Trunk) /\ Len(front) = i - 1 /\ \A j \in 1 .. i - 1 : front[j] = q[j]
  <2> HIDE DEF q
  <2>1. \A j \in 1 .. i - 1 : q[j] \in Trunk
    BY <1>1, <1>2
  <2> QED
    BY <1>1, <1>2, <2>1, SubSeqProperties
<1>6. /\ rest \in Seq(Trunk) /\ Len(rest) = Len(q) - i
      /\ \A j \in 1 .. Len(q) - i : rest[j] = q[i + j]
  <2> HIDE DEF q
  <2>1. i + 1 \in Int /\ Len(q) \in Int /\ \A j \in i + 1 .. Len(q) : q[j] \in Trunk
    BY <1>1, <1>2
  <2>2. /\ rest \in Seq(Trunk)
        /\ Len(rest) = IF i + 1 <= Len(q) THEN Len(q) - (i + 1) + 1 ELSE 0
        /\ \A j \in 1 .. Len(q) - (i + 1) + 1 : rest[j] = q[(i + 1) + j - 1]
    BY <1>1, <1>2, <2>1, SubSeqProperties
  <2> HIDE DEF rest
  <2>3. Len(rest) = Len(q) - i
    BY <1>2, <2>2
  <2>4. \A j \in 1 .. Len(q) - i : (i + 1) + j - 1 = i + j /\ j \in 1 .. Len(q) - (i + 1) + 1
    BY <1>2
  <2> QED
    BY <2>2, <2>3, <2>4
<1>7. heir \in Seq(Trunk) /\ Len(heir) \in {0, 1}
      /\ (Len(heir) = 1 => heir[1].leaves = Tail(ls) /\ ls # <<>>)
  <2>1. CASE ls = <<>>
    BY <2>1
  <2>2. CASE ls # <<>>
    <3>1. Head(ls) \in Int /\ Tail(ls) \in Seq(Int)
      BY <1>2, <2>2
    <3> DEFINE t == [pg |-> Head(ls), leaves |-> Tail(ls)]
    <3>2. t \in Trunk /\ t.leaves = Tail(ls)
      BY <3>1 DEF Trunk
    <3>3. heir = <<t>>
      BY <2>2
    <3> HIDE DEF t, heir
    <3> QED
      BY <2>2, <3>2, <3>3
  <2> QED
    BY <2>1, <2>2
<1> HIDE DEF front, rest, heir
<1>8. /\ w \in Seq(Trunk)
      /\ \A x \in DOMAIN w : (\E j \in DOMAIN q : w[x] = q[j]) \/ (Len(heir) = 1 /\ w[x] = heir[1])
  <2> DEFINE fh == front \o heir
  <2>1. /\ fh \in Seq(Trunk) /\ Len(fh) = Len(front) + Len(heir)
        /\ \A x \in 1 .. Len(front) + Len(heir) :
             fh[x] = IF x <= Len(front) THEN front[x] ELSE heir[x - Len(front)]
    BY <1>5, <1>7, ConcatProperties
  <2>2. w = fh \o rest
    OBVIOUS
  <2> HIDE DEF fh, w
  <2>3. /\ w \in Seq(Trunk) /\ Len(w) = Len(fh) + Len(rest)
        /\ \A x \in 1 .. Len(fh) + Len(rest) :
             w[x] = IF x <= Len(fh) THEN fh[x] ELSE rest[x - Len(fh)]
    BY <1>6, <2>1, <2>2, ConcatProperties
  <2>4. DOMAIN w = 1 .. Len(fh) + Len(rest) /\ Len(fh) \in Nat
    BY <1>2, <1>5, <1>6, <1>7, <2>1, <2>3
  <2> HIDE DEF q
  <2>5. ASSUME NEW x \in DOMAIN w
        PROVE  (\E j \in DOMAIN q : w[x] = q[j]) \/ (Len(heir) = 1 /\ w[x] = heir[1])
    <3>1. x \in Int /\ x >= 1
      BY <2>4
    <3>2. CASE x <= i - 1
      <4>1. w[x] = q[x] /\ x \in DOMAIN q
        BY <1>2, <1>5, <1>7, <2>1, <2>3, <2>4, <3>1, <3>2
      <4> QED
        BY <4>1
    <3>3. CASE x > i - 1 /\ x <= Len(fh)
      <4>1. Len(heir) = 1 /\ x - Len(front) = 1
        BY <1>2, <1>5, <1>7, <2>1, <3>1, <3>3
      <4>2. fh[x] = heir[x - Len(front)]
        BY <1>2, <1>5, <1>7, <2>1, <3>1, <3>3, SMTT(30)
      <4>3. w[x] = fh[x]
        BY <2>3, <2>4, <3>3
      <4>4. w[x] = heir[1]
        BY <4>1, <4>2, <4>3
      <4> QED
        BY <4>1, <4>4
    <3>4. CASE x > i - 1 /\ x > Len(fh)
      <4> DEFINE j == x - Len(fh)
      <4>1. w[x] = rest[j] /\ j \in 1 .. Len(q) - i
        BY <1>2, <1>6, <2>3, <2>4, <3>1, <3>4
      <4>2. w[x] = q[i + j] /\ i + j \in DOMAIN q
        BY <1>2, <1>6, <4>1
      <4> QED
        BY <4>2
    <3> QED
      BY <1>2, <2>4, <3>1, <3>2, <3>3, <3>4
  <2> QED
    BY <2>3, <2>5
<1>9. ASSUME NEW x, IsLeaf(w, x) PROVE IsLeaf(q, x)
  <2>1. PICK y \in DOMAIN w : \E j \in DOMAIN w[y].leaves : w[y].leaves[j] = x
    BY <1>9 DEF IsLeaf
  <2>2. CASE \E j \in DOMAIN q : w[y] = q[j]
    BY <2>1, <2>2 DEF IsLeaf
  <2>3. CASE Len(heir) = 1 /\ w[y] = heir[1]
    <3>1. w[y].leaves = Tail(ls) /\ ls # <<>>
      BY <1>7, <2>3
    <3>2. PICK j \in DOMAIN Tail(ls) : Tail(ls)[j] = x
      BY <2>1, <3>1
    <3> HIDE DEF ls
    <3>3. j + 1 \in DOMAIN ls /\ ls[j + 1] = x
      BY <1>2, <3>1, <3>2, SMTT(30)
    <3> QED
      BY <1>2, <3>3 DEF IsLeaf, ls
  <2> QED
    BY <1>8, <2>1, <2>2, <2>3
<1> HIDE DEF w, b2
<1>10. TransOK(b2, o)
  <2>1. m \in Int
    BY <1>1
  <2> HIDE DEF m
  <2> QED
    BY <1>4, <1>8, <1>9, <2>1, FewerLeavesOK
<1> QED
  BY <1>10 DEF b2

\* A leaf is taken.
LEMMA WithoutLeafOK ==
  ASSUME NEW b, NEW o, TransOK(b, o), NEW i \in DOMAIN b.free, NEW j \in DOMAIN b.free[i].leaves
  PROVE  TransOK(BP!WithoutLeaf(b, i, j), o)
<1> DEFINE q == b.free
           ls == b.free[i].leaves
           k == Len(ls)
           moved == [ls EXCEPT ![j] = ls[k]]
           ls2 == SubSeq(moved, 1, k - 1)
           t2 == [q[i] EXCEPT !.leaves = ls2]
           w == [q EXCEPT ![i] = t2]
           m == b.nFree - 1
           b2 == BP!WithoutLeaf(b, i, j)
<1>1. BtType(b) /\ IsBt(b) /\ q \in Seq(Trunk) /\ b.nFree \in Int
  BY DEF TransOK, BtType
<1>2. /\ ls \in Seq(Int) /\ BP!Leaves(b, i) = ls /\ q[i] \in Trunk
      /\ q[i] = [pg |-> q[i].pg, leaves |-> ls] /\ q[i].pg \in Int
      /\ Len(q) \in Nat /\ DOMAIN q = 1 .. Len(q) /\ i \in 1 .. Len(q)
      /\ k \in Nat /\ DOMAIN ls = 1 .. k /\ j \in 1 .. k
  BY <1>1, TrunkTypes
<1>3. b2 = [b EXCEPT !.free = w, !.nFree = m]
  <2>1. b2 = [b EXCEPT !.free[i].leaves = ls2, !.nFree = @ - 1]
    BY <1>2 DEF BP!WithoutLeaf
  <2> QED
    BY <1>1, <2>1 DEF IsBt
<1>4. /\ IsBt(b2) /\ b2.free = w /\ b2.nFree = m /\ b2.nPage = b.nPage /\ b2.maxRoot = b.maxRoot
      /\ b2.par = b.par /\ b2.hasContent = b.hasContent /\ b2.noContent = b.noContent
      /\ b2.bDoTruncate = b.bDoTruncate
  <2> HIDE DEF w, m, b2
  <2> QED
    BY <1>1, <1>3 DEF IsBt
<1>5. moved \in Seq(Int) /\ Len(moved) = k /\ \A x \in 1 .. k : \E y \in 1 .. k : moved[x] = ls[y]
  <2> HIDE DEF ls
  <2>1. k \in 1 .. k /\ ls[k] \in Int
    BY <1>2
  <2>2. moved \in Seq(Int) /\ Len(moved) = k
    BY <1>2, <2>1
  <2>3. \A x \in 1 .. k : moved[x] = ls[x] \/ moved[x] = ls[k]
    BY <1>2
  <2> QED
    BY <2>1, <2>2, <2>3
<1>6. ls2 \in Seq(Int) /\ Len(ls2) = k - 1 /\ \A x \in 1 .. k - 1 : ls2[x] = moved[x]
  <2> HIDE DEF moved, k
  <2> DEFINE l == k - 1
  <2>1. l \in Int /\ l >= 0 /\ \A x \in 1 .. l : moved[x] \in Int
    BY <1>2, <1>5
  <2> HIDE DEF l
  <2>2. /\ SubSeq(moved, 1, l) \in Seq(Int)
        /\ Len(SubSeq(moved, 1, l)) = IF 1 <= l THEN l - 1 + 1 ELSE 0
        /\ \A x \in 1 .. l - 1 + 1 : SubSeq(moved, 1, l)[x] = moved[1 + x - 1]
    <3> DEFINE S == Int
               one == 1
    <3>1. one \in Int /\ l \in Int /\ \A x \in one .. l : moved[x] \in S
      BY <2>1
    <3> HIDE DEF S, one
    <3>2. /\ SubSeq(moved, one, l) \in Seq(S)
          /\ Len(SubSeq(moved, one, l)) = IF one <= l THEN l - one + 1 ELSE 0
          /\ \A x \in 1 .. l - one + 1 : SubSeq(moved, one, l)[x] = moved[one + x - 1]
      BY <3>1, SubSeqProperties
    <3> QED
      BY <3>2 DEF S, one
  <2> DEFINE u == SubSeq(moved, 1, l)
  <2> HIDE DEF u
  <2>3. u \in Seq(Int) /\ Len(u) = l /\ \A x \in 1 .. l : u[x] = moved[x]
    BY <2>1, <2>2 DEF u
  <2> QED
    BY <2>3 DEF u, l
<1>7. DOMAIN ls2 = 1 .. k - 1
  BY <1>6
<1> HIDE DEF ls2, moved
<1>8. t2 \in Trunk /\ t2.leaves = ls2
  <2> DEFINE t == q[i]
  <2> HIDE DEF t
  <2>1. t = [pg |-> t.pg, leaves |-> t.leaves] /\ t.pg \in Int
    BY <1>2 DEF t
  <2>2. [t EXCEPT !.leaves = ls2] = [pg |-> t.pg, leaves |-> ls2]
    BY <2>1
  <2>3. t2 = [pg |-> t.pg, leaves |-> ls2]
    BY <2>2 DEF t
  <2> HIDE DEF t2
  <2> QED
    BY <1>6, <2>1, <2>3 DEF Trunk
<1> HIDE DEF t2
<1>9. w \in Seq(Trunk) /\ DOMAIN w = DOMAIN q /\ w[i] = t2 /\ \A x \in DOMAIN q : x # i => w[x] = q[x]
  <2> HIDE DEF q
  <2> QED
    BY <1>1, <1>2, <1>8
<1>10. ASSUME NEW x, IsLeaf(w, x) PROVE IsLeaf(q, x)
  <2>1. PICK y \in DOMAIN w : \E z \in DOMAIN w[y].leaves : w[y].leaves[z] = x
    BY <1>10 DEF IsLeaf
  <2>2. CASE y # i
    BY <1>9, <2>1, <2>2 DEF IsLeaf
  <2>3. CASE y = i
    <3>1. PICK z \in 1 .. k - 1 : ls2[z] = x
      BY <1>7, <1>8, <1>9, <2>1, <2>3
    <3>2. z \in 1 .. k /\ moved[z] = x
      BY <1>2, <1>6, <3>1, SMTT(30)
    <3>3. PICK v \in 1 .. k : ls[v] = x
      BY <1>5, <3>2
    <3> QED
      BY <1>2, <3>3 DEF IsLeaf
  <2> QED
    BY <2>2, <2>3
<1> HIDE DEF w, b2
<1>11. TransOK(b2, o)
  <2>1. m \in Int
    BY <1>1
  <2> HIDE DEF m
  <2> QED
    BY <1>4, <1>9, <1>10, <2>1, FewerLeavesOK
<1> QED
  BY <1>11 DEF b2

\* A page that comes back without content is one that no rollback needs.
LEMMA NoContentOK ==
  ASSUME NEW b, TransOK(b, orig), NEW S, S \cap orig.needed = {}
  PROVE  TransOK([b EXCEPT !.noContent = @ \cup (S \cap (1 .. orig.nPage))], orig)
<1> DEFINE X == b.noContent \cup (S \cap (1 .. orig.nPage))
<1>1. PICK b2 : b2 = [b EXCEPT !.noContent = X]
  OBVIOUS
<1>2. BtType(b) /\ Recoverable(b, orig)
  BY DEF TransOK
<1>3. X \cap orig.needed = {}
  BY <1>2 DEF Recoverable
<1> HIDE DEF X
<1>4. /\ IsBt(b2) /\ b2.nPage = b.nPage /\ b2.maxRoot = b.maxRoot /\ b2.nFree = b.nFree
      /\ b2.free = b.free /\ b2.par = b.par /\ b2.hasContent = b.hasContent
      /\ b2.noContent = X /\ b2.bDoTruncate = b.bDoTruncate
  BY <1>1, <1>2 DEF BtType, IsBt
<1>5. BtType(b2)
  BY <1>2, <1>4 DEF BtType
<1>6. LeavesKnown(b2, orig)
  BY <1>2, <1>4 DEF Recoverable, LeavesKnown, BP!btreeGetHasContent
<1>7. TransOK(b2, orig)
  BY <1>2, <1>3, <1>4, <1>5, <1>6 DEF TransOK, Recoverable
<1> QED
  BY <1>1, <1>7 DEF X

LEMMA CorruptOK ==
  ASSUME NEW b, TransOK(b, orig)
  PROVE  TransOK(BP!Corrupt(b).b, orig) /\ BP!Corrupt(b).pg = 0
<1>1. PICK b2 : b2 = [b EXCEPT !.corrupt = TRUE]
  OBVIOUS
<1>2. BtType(b) /\ IsBt(b)
  BY DEF TransOK, BtType
<1>3. /\ IsBt(b2) /\ b2.nPage = b.nPage /\ b2.maxRoot = b.maxRoot /\ b2.nFree = b.nFree
      /\ b2.free = b.free /\ b2.par = b.par /\ b2.hasContent = b.hasContent
      /\ b2.noContent = b.noContent /\ b2.bDoTruncate = b.bDoTruncate
  BY <1>1, <1>2 DEF IsBt
<1>4. TransOK(b2, orig)
  BY <1>2, <1>3, SameListOK DEF BtType
<1> QED
  BY <1>1, <1>4 DEF BP!Corrupt

\* What allocateBtreePage() returns.
Allocated(b, a) == TransOK(a.b, orig) /\ a.pg \in Int

LEMMA FromEndOK ==
  ASSUME NEW b, TransOK(b, orig), OrigType(orig)
  PROVE  Allocated(b, BP!FromEnd(b))
<1> DEFINE pg == BP!FirstFrom(b.nPage + 1)
           S == (b.nPage + 1 .. pg) \ {PENDING_BYTE_PAGE}
           c == BP!GetPastEnd(b, S)
<1>1. b.nPage \in Int
  BY DEF TransOK, BtType
<1>2. pg \in Int /\ pg > b.nPage
  <2> DEFINE n == b.nPage + 1
  <2>1. n \in Int
    BY <1>1
  <2> HIDE DEF n
  <2>2. BP!FirstFrom(n) \in n .. n + 2
    BY <2>1, FirstFromFacts
  <2>3. BP!FirstFrom(n) \in Int /\ BP!FirstFrom(n) >= n
    BY <2>1, <2>2
  <2> QED
    BY <1>1, <2>3 DEF n
<1> HIDE DEF pg
<1>3. TransOK(c, orig) /\ c.nPage = b.nPage /\ c.bDoTruncate = b.bDoTruncate
  <2>1. CASE b.bDoTruncate
    BY <2>1 DEF BP!GetPastEnd
  <2>2. CASE ~b.bDoTruncate
    <3>1. orig.nPage <= b.nPage
      BY <2>2 DEF TransOK, Recoverable
    <3>2. S \cap orig.needed = {}
      BY <1>1, <1>2, <3>1 DEF OrigType
    <3> HIDE DEF S
    <3>3. c = [b EXCEPT !.noContent = @ \cup (S \cap (1 .. orig.nPage))]
      BY <2>2 DEF BP!GetPastEnd
    <3>4. TransOK(c, orig)
      BY <3>2, <3>3, NoContentOK
    <3>5. c.nPage = b.nPage /\ c.bDoTruncate = b.bDoTruncate
      BY <3>3 DEF TransOK, BtType, IsBt
    <3> QED
      BY <3>4, <3>5
  <2> QED
    BY <2>1, <2>2
<1> HIDE DEF c, S
<1>4. PICK b2 : b2 = [c EXCEPT !.nPage = pg]
  OBVIOUS
<1>5. /\ IsBt(b2) /\ b2.nPage = pg /\ b2.maxRoot = c.maxRoot /\ b2.nFree = c.nFree
      /\ b2.free = c.free /\ b2.par = c.par /\ b2.hasContent = c.hasContent
      /\ b2.noContent = c.noContent /\ b2.bDoTruncate = c.bDoTruncate
  BY <1>3, <1>4 DEF TransOK, BtType, IsBt
<1>6. BtType(c) /\ Recoverable(c, orig)
  BY <1>3 DEF TransOK
<1>7. BtType(b2)
  BY <1>2, <1>5, <1>6 DEF BtType
<1>8. LeavesKnown(b2, orig)
  BY <1>5, <1>6 DEF Recoverable, LeavesKnown, BP!btreeGetHasContent
<1>9. Recoverable(b2, orig)
  BY <1>1, <1>2, <1>3, <1>5, <1>6, <1>8 DEF Recoverable, OrigType
<1>10. BP!FromEnd(b).b = b2 /\ BP!FromEnd(b).pg = pg
  BY <1>4 DEF BP!FromEnd, c, S, pg
<1> QED
  BY <1>2, <1>7, <1>9, <1>10 DEF Allocated, TransOK

\* The leaf that is looked at is one of the trunk page.
LEMMA ClosestFacts ==
  ASSUME NEW b, BtType(b), NEW i \in DOMAIN b.free, BP!Leaves(b, i) # <<>>, NEW nearby, NEW eMode
  PROVE  BP!Closest(b, i, nearby, eMode) \in DOMAIN b.free[i].leaves
<1> DEFINE ls == b.free[i].leaves
           best == IF eMode = "LE" THEN {j \in DOMAIN ls : ls[j] <= nearby}
                   ELSE {j \in DOMAIN ls : \A m \in DOMAIN ls :
                                             BP!Dist(ls[j], nearby) <= BP!Dist(ls[m], nearby)}
<1>1. BP!Leaves(b, i) = ls /\ ls \in Seq(Int) /\ Len(ls) \in Nat /\ DOMAIN ls = 1 .. Len(ls)
  BY TrunkTypes
<1>2. 1 \in DOMAIN ls
  <2> HIDE DEF ls
  <2> QED
    BY <1>1
<1>3. best \in SUBSET DOMAIN ls /\ best \in SUBSET Nat
  <2>1. best \in SUBSET DOMAIN ls
    OBVIOUS
  <2> HIDE DEF best
  <2> QED
    BY <1>1, <2>1
<1>4. BP!Closest(b, i, nearby, eMode) =
        IF nearby = 0 \/ best = {} THEN 1 ELSE CHOOSE j \in best : \A m \in best : j <= m
  BY <1>1 DEF BP!Closest
<1> HIDE DEF best, ls
<1>5. best # {} => \E j \in best : \A m \in best : j <= m
  BY <1>3, LeastNatural
<1>6. BP!Closest(b, i, nearby, eMode) \in DOMAIN ls
  BY <1>2, <1>3, <1>4, <1>5
<1> QED
  BY <1>6 DEF ls

LEMMA FromFreelistOK ==
  ASSUME NEW b, TransOK(b, orig), OrigType(orig), NEW nearby, NEW eMode
  PROVE  Allocated(b, BP!FromFreelist(b, nearby, eMode))
<1> DEFINE search == \/ eMode = "LE"
                     \/ eMode = "EXACT" /\ nearby <= b.nPage /\ b.map[nearby] = BP!FreePage
           trunks == {i \in DOMAIN b.free : \/ BP!TakesTrunk(b, i, search, nearby, eMode)
                                            \/ BP!TakesLeaf(b, i, search, nearby, eMode)}
           i == CHOOSE m \in trunks : \A n \in trunks : m <= n
           j == BP!Closest(b, i, nearby, eMode)
           leaf == BP!Leaves(b, i)[j]
           a == BP!FromFreelist(b, nearby, eMode)
<1>1. BtType(b) /\ Recoverable(b, orig) /\ DOMAIN b.free \in SUBSET Nat
  <2>1. BtType(b) /\ Recoverable(b, orig)
    BY DEF TransOK
  <2>2. b.free \in Seq(Trunk)
    BY <2>1 DEF BtType
  <2> QED
    BY <2>1, <2>2
<1>2. trunks \in SUBSET DOMAIN b.free
  OBVIOUS
<1>3. a = IF trunks = {} THEN BP!Corrupt(b)
          ELSE IF BP!TakesTrunk(b, i, search, nearby, eMode)
          THEN [b |-> BP!WithoutTrunk(b, i), pg |-> b.free[i].pg]
          ELSE [b |-> IF BP!btreeGetHasContent(b, leaf) THEN BP!WithoutLeaf(b, i, j)
                      ELSE BP!GetNoContent(BP!WithoutLeaf(b, i, j), leaf),
                pg |-> leaf]
  BY DEF BP!FromFreelist
<1>4. CASE trunks = {}
  <2>1. a = BP!Corrupt(b)
    BY <1>3, <1>4
  <2> HIDE DEF a
  <2>2. TransOK(a.b, orig) /\ a.pg = 0
    BY <2>1, CorruptOK
  <2> QED
    BY <2>2 DEF Allocated, a
<1>5. CASE trunks # {}
  <2>1. i \in trunks
    <3> HIDE DEF trunks
    <3>1. \E m \in trunks : \A n \in trunks : m <= n
      BY <1>1, <1>2, <1>5, LeastNatural
    <3> QED
      BY <3>1
  <2>2. /\ i \in DOMAIN b.free
        /\ \/ BP!TakesTrunk(b, i, search, nearby, eMode)
           \/ BP!TakesLeaf(b, i, search, nearby, eMode)
    <3> HIDE DEF i, search
    <3> QED
      BY <2>1
  <2> HIDE DEF i, trunks, search, a
  <2>3. CASE BP!TakesTrunk(b, i, search, nearby, eMode)
    <3>1. a.b = BP!WithoutTrunk(b, i) /\ a.pg = b.free[i].pg
      BY <1>3, <1>5, <2>3
    <3>2. TransOK(a.b, orig)
      BY <2>2, <3>1, WithoutTrunkOK
    <3>3. a.pg \in Int
      BY <1>1, <2>2, <3>1, TrunkTypes
    <3> QED
      BY <3>2, <3>3 DEF Allocated, a
  <2>4. CASE ~BP!TakesTrunk(b, i, search, nearby, eMode)
    <3>1. BP!Leaves(b, i) # <<>>
      BY <2>2, <2>4 DEF BP!TakesLeaf
    <3>2. j \in DOMAIN b.free[i].leaves
      BY <1>1, <2>2, <3>1, ClosestFacts
    <3>3. leaf = b.free[i].leaves[j] /\ leaf \in Int /\ IsLeaf(b.free, leaf)
      <4>1. BP!Leaves(b, i) = b.free[i].leaves /\ b.free[i].leaves \in Seq(Int)
        BY <1>1, <2>2, TrunkTypes
      <4> HIDE DEF j
      <4> QED
        BY <2>2, <3>2, <4>1 DEF IsLeaf
    <3> DEFINE w == BP!WithoutLeaf(b, i, j)
    <3>4. TransOK(w, orig)
      <4> HIDE DEF j
      <4> QED
        BY <2>2, <3>2, WithoutLeafOK
    <3>5. /\ a.b = IF BP!btreeGetHasContent(b, leaf) THEN w ELSE BP!GetNoContent(w, leaf)
          /\ a.pg = leaf
      BY <1>3, <1>5, <2>4
    <3> HIDE DEF w, leaf, j
    <3>6. CASE BP!btreeGetHasContent(b, leaf)
      BY <3>3, <3>4, <3>5, <3>6 DEF Allocated, a
    <3>7. CASE ~BP!btreeGetHasContent(b, leaf)
      <4>1. leaf \notin orig.needed
        BY <1>1, <3>3, <3>7 DEF Recoverable, LeavesKnown
      <4>2. {leaf} \cap orig.needed = {}
        BY <4>1
      <4>3. a.b = [w EXCEPT !.noContent = @ \cup ({leaf} \cap (1 .. orig.nPage))]
        BY <3>5, <3>7 DEF BP!GetNoContent
      <4> DEFINE S == {leaf}
      <4> HIDE DEF S
      <4>4. TransOK([w EXCEPT !.noContent = @ \cup (S \cap (1 .. orig.nPage))], orig)
        BY <3>4, <4>2, NoContentOK DEF S
      <4>5. TransOK(a.b, orig)
        BY <4>3, <4>4 DEF S
      <4> QED
        BY <3>3, <3>5, <4>5 DEF Allocated, a
    <3> QED
      BY <3>6, <3>7
  <2> QED
    BY <2>3, <2>4
<1> QED
  BY <1>4, <1>5

LEMMA AllocateOK ==
  ASSUME NEW b, TransOK(b, orig), OrigType(orig), NEW nearby, NEW eMode
  PROVE  /\ TransOK(BP!allocateBtreePage(b, nearby, eMode).b, orig)
         /\ BP!allocateBtreePage(b, nearby, eMode).pg \in Int
         /\ BP!allocateBtreePage(b, nearby, eMode).pg # 0 => b.nFree < b.nPage
<1> DEFINE a == BP!allocateBtreePage(b, nearby, eMode)
<1>1. b.nPage \in Int /\ b.nFree \in Int
  BY DEF TransOK, BtType
<1>2. CASE b.nFree >= b.nPage
  BY <1>2, CorruptOK DEF BP!allocateBtreePage
<1>3. CASE b.nFree < b.nPage
  <2>1. a = BP!FromFreelist(b, nearby, eMode) \/ a = BP!FromEnd(b)
    BY <1>1, <1>3 DEF BP!allocateBtreePage
  <2> HIDE DEF a
  <2>2. Allocated(b, a)
    BY <2>1, FromFreelistOK, FromEndOK
  <2>3. TransOK(a.b, orig) /\ a.pg \in Int
    BY <2>2 DEF Allocated
  <2> QED
    BY <1>3, <2>3 DEF a
<1> QED
  BY <1>1, <1>2, <1>3

LEMMA RelocateOK ==
  ASSUME NEW b, TransOK(b, orig), NEW from, NEW to \in Int, NEW entry
  PROVE  TransOK(BP!relocatePage(b, from, to, entry), orig)
<1> DEFINE kids == BP!Children(b, from)
           map == BP!ChildPtrmaps(b, from, to)
           P == [p \in (DOMAIN b.par \ {from}) \cup {to} |->
                   IF p = to THEN b.par[from]
                   ELSE IF p \in kids THEN BP!Entry(b.par[p].type, to) ELSE b.par[p]]
           M == IF entry = BP!Root THEN map ELSE [map EXCEPT ![to] = entry]
           C == b.corrupt \/ b.par[from] # entry
<1>1. PICK b2 : b2 = [b EXCEPT !.par = P, !.map = M, !.corrupt = C]
  OBVIOUS
<1>2. BtType(b) /\ IsBt(b)
  BY DEF TransOK, BtType
<1>3. DOMAIN P \in SUBSET Int
  BY <1>2 DEF BtType
<1>4. BP!relocatePage(b, from, to, entry) = [b EXCEPT !.par = P, !.map = M, !.corrupt = C]
  BY Zenon DEF BP!relocatePage
<1> HIDE DEF P, M, C
<1>5. /\ IsBt(b2) /\ b2.nPage = b.nPage /\ b2.maxRoot = b.maxRoot /\ b2.nFree = b.nFree
      /\ b2.free = b.free /\ b2.par = P /\ b2.hasContent = b.hasContent
      /\ b2.noContent = b.noContent /\ b2.bDoTruncate = b.bDoTruncate
  BY <1>1, <1>2 DEF IsBt
<1>6. TransOK(b2, orig)
  BY <1>2, <1>3, <1>5, SameListOK DEF BtType
<1> QED
  BY <1>1, <1>4, <1>6

\* A page gets a new pointer, and the file a new last root page.
LEMMA PointOK ==
  ASSUME NEW b, TransOK(b, orig), NEW P, DOMAIN P \in SUBSET Int, NEW M, NEW r \in Int,
         NEW b2, \/ b2 = [b EXCEPT !.par = P, !.map = M, !.maxRoot = r]
                 \/ b2 = [b EXCEPT !.par = P, !.map = M]
                 \/ b2 = [b EXCEPT !.par = P]
                 \/ b2 = [b EXCEPT !.maxRoot = r]
  PROVE  TransOK(b2, orig)
<1>1. BtType(b) /\ IsBt(b)
  BY DEF TransOK, BtType
<1>2. /\ IsBt(b2) /\ b2.nPage = b.nPage /\ b2.maxRoot \in {b.maxRoot, r} /\ b2.nFree = b.nFree
      /\ b2.free = b.free /\ b2.par \in {b.par, P} /\ b2.hasContent = b.hasContent
      /\ b2.noContent = b.noContent /\ b2.bDoTruncate = b.bDoTruncate
  <2>1. CASE b2 = [b EXCEPT !.par = P, !.map = M, !.maxRoot = r]
    BY <1>1, <2>1 DEF IsBt
  <2>2. CASE b2 = [b EXCEPT !.par = P, !.map = M]
    BY <1>1, <2>2 DEF IsBt
  <2>3. CASE b2 = [b EXCEPT !.par = P]
    BY <1>1, <2>3 DEF IsBt
  <2>4. CASE b2 = [b EXCEPT !.maxRoot = r]
    BY <1>1, <2>4 DEF IsBt
  <2> QED
    BY <2>1, <2>2, <2>3, <2>4
<1>3. b2.maxRoot \in Int /\ DOMAIN b2.par \in SUBSET Int /\ b2.nFree \in Int
  BY <1>1, <1>2 DEF BtType
<1> QED
  BY <1>2, <1>3, SameListOK

-----------------------------------------------------------------------------
\* A page goes to the free-list.

LEMMA SetHasContentOK ==
  ASSUME NEW b, BtType(b), OrigType(orig), NEW p \in Int,
         ~b.bDoTruncate => orig.nPage <= b.nPage,
         orig.nPage >= 1 => b.nPage >= 1 /\ b.hasContent.size >= 0,
         b.noContent \cap orig.needed = {},
         \A x \in orig.needed : IsLeaf(b.free, x) => x = p \/ BP!btreeGetHasContent(b, x)
  PROVE  TransOK(BP!btreeSetHasContent(b, p), orig)
<1> DEFINE h == b.hasContent
           size == IF h.size = 0 THEN b.nPage ELSE h.size
           bits == h.bits \cup ({p} \cap (1 .. size))
           h2 == [size |-> size, bits |-> bits]
<1>1. PICK b2 : b2 = [b EXCEPT !.hasContent = h2]
  OBVIOUS
<1>2. BP!btreeSetHasContent(b, p) = [b EXCEPT !.hasContent = h2]
  BY DEF BP!btreeSetHasContent
<1>3. h.size \in Int /\ h.bits \in SUBSET Int /\ b.nPage \in Int
  BY DEF BtType
<1>4. size \in Int /\ bits \in SUBSET Int
  BY <1>3
<1>5. h2 \in [size : Int, bits : SUBSET Int] /\ h2.size = size /\ h2.bits = bits
  <2> HIDE DEF size, bits
  <2> QED
    BY <1>4
<1>6. ASSUME NEW x \in orig.needed, x = p \/ BP!btreeGetHasContent(b, x)
      PROVE  size > 0 /\ (x > size \/ x \in bits)
  <2>1. x \in Int /\ x >= 1 /\ orig.nPage >= 1
    BY DEF OrigType
  <2>2. b.nPage >= 1 /\ h.size >= 0
    BY <2>1
  <2>3. size > 0 /\ (h.size > 0 => size = h.size)
    BY <1>3, <2>2
  <2>4. CASE x = p
    <3> HIDE DEF size
    <3> QED
      BY <1>4, <2>1, <2>3, <2>4
  <2>5. CASE BP!btreeGetHasContent(b, x)
    <3>1. h.size > 0 /\ (x > h.size \/ x \in h.bits)
      BY <2>5 DEF BP!btreeGetHasContent
    <3>2. size = h.size /\ h.bits \subseteq bits
      BY <2>3, <3>1
    <3> QED
      BY <2>3, <3>1, <3>2
  <2> QED
    BY <1>6, <2>4, <2>5
<1>10. orig.nPage >= 1 => size >= 0
  BY <1>3
<1> HIDE DEF h2, size, bits
<1>7. /\ IsBt(b2) /\ b2.nPage = b.nPage /\ b2.maxRoot = b.maxRoot /\ b2.nFree = b.nFree
      /\ b2.free = b.free /\ b2.par = b.par /\ b2.hasContent = h2
      /\ b2.noContent = b.noContent /\ b2.bDoTruncate = b.bDoTruncate
  BY <1>1 DEF BtType, IsBt
<1>8. BtType(b2)
  BY <1>5, <1>7 DEF BtType
<1>9. LeavesKnown(b2, orig)
  <2>1. ASSUME NEW x \in orig.needed, IsLeaf(b2.free, x) PROVE BP!btreeGetHasContent(b2, x)
    <3>1. x = p \/ BP!btreeGetHasContent(b, x)
      BY <1>7, <2>1
    <3>2. size > 0 /\ (x > size \/ x \in bits)
      BY <1>6, <3>1
    <3> QED
      BY <1>5, <1>7, <3>2 DEF BP!btreeGetHasContent
  <2> QED
    BY <2>1 DEF LeavesKnown
<1>11. Recoverable(b2, orig)
  BY <1>5, <1>7, <1>9, <1>10 DEF Recoverable
<1> QED
  BY <1>1, <1>2, <1>8, <1>11 DEF TransOK

LEMMA FreeOK ==
  ASSUME NEW b, TransOK(b, orig), OrigType(orig), NEW p \in Int
  PROVE  TransOK(BP!freePage2(b, p), orig) /\ BP!freePage2(b, p).maxRoot = b.maxRoot
<1> DEFINE N == b.nFree + 1
           M == [b.map EXCEPT ![p] = IF BP!autoVacuum THEN BP!FreePage ELSE @]
           P == [q \in DOMAIN b.par \ {p} |-> b.par[q]]
           q == b.free
           leaf == [q EXCEPT ![1].leaves = Append(@, p)]
           trunk == <<[pg |-> p, leaves |-> <<>>]>> \o q
           freed == [b EXCEPT !.nFree = @ + 1,
                              !.map[p] = IF BP!autoVacuum THEN BP!FreePage ELSE @,
                              !.par = [r \in DOMAIN @ \ {p} |-> @[r]]]
<1>1. BtType(b) /\ IsBt(b) /\ Recoverable(b, orig) /\ b.nFree \in Int /\ q \in Seq(Trunk)
  BY DEF TransOK, BtType
<1>2. PICK f : f = [b EXCEPT !.nFree = N, !.map = M, !.par = P]
  OBVIOUS
<1>3. N \in Int /\ DOMAIN P \in SUBSET Int
  BY <1>1 DEF BtType
<1>4. f = freed
  BY <1>2 DEF IsBt
<1>5. BP!freePage2(b, p) =
        IF b.nFree # 0 /\ Len(BP!Leaves(b, 1)) < NLeaf
        THEN BP!btreeSetHasContent([f EXCEPT !.free[1].leaves = Append(@, p)], p)
        ELSE [f EXCEPT !.free = <<[pg |-> p, leaves |-> <<>>]>> \o @]
  <2>1. BP!freePage2(b, p) =
          IF b.nFree # 0 /\ Len(BP!Leaves(b, 1)) < NLeaf
          THEN BP!btreeSetHasContent([freed EXCEPT !.free[1].leaves = Append(@, p)], p)
          ELSE [freed EXCEPT !.free = <<[pg |-> p, leaves |-> <<>>]>> \o @]
    BY Zenon DEF BP!freePage2
  <2> HIDE DEF freed
  <2> QED
    BY <1>4, <2>1
<1> HIDE DEF freed
<1> HIDE DEF N, M, P, q, leaf, trunk
<1>6. /\ IsBt(f) /\ f.nPage = b.nPage /\ f.maxRoot = b.maxRoot /\ f.nFree = N
      /\ f.free = b.free /\ f.par = P /\ f.hasContent = b.hasContent
      /\ f.noContent = b.noContent /\ f.bDoTruncate = b.bDoTruncate
  BY <1>1, <1>2 DEF IsBt
<1>7. leaf \in Seq(Trunk) /\ \A x : IsLeaf(leaf, x) => x = p \/ IsLeaf(q, x)
  <2>1. CASE 1 \notin DOMAIN q
    <3> DEFINE e == [q[1] EXCEPT !.leaves = Append(@, p)]
    <3>1. leaf = [q EXCEPT ![1] = e]
      BY DEF leaf
    <3> HIDE DEF e
    <3>2. leaf = [x \in DOMAIN q |-> q[x]]
      BY <2>1, <3>1
    <3>3. leaf = q
      BY <1>1, <3>2
    <3> QED
      BY <1>1, <3>3
  <2>2. CASE 1 \in DOMAIN q
    <3> DEFINE t == q[1]
    <3>1. t = [pg |-> t.pg, leaves |-> t.leaves] /\ t.pg \in Int /\ t.leaves \in Seq(Int)
      BY <1>1, <2>2, TrunkTypes DEF q
    <3> DEFINE ls == t.leaves
               ls2 == Append(ls, p)
    <3>2. /\ ls2 \in Seq(Int) /\ DOMAIN ls2 = 1 .. Len(ls) + 1 /\ ls2[Len(ls) + 1] = p
          /\ \A x \in DOMAIN ls : ls2[x] = ls[x]
          /\ DOMAIN ls = 1 .. Len(ls) /\ Len(ls) \in Nat
      <4> HIDE DEF ls
      <4>1. ls \in Seq(Int)
        BY <3>1 DEF ls
      <4> QED
        BY <4>1
    <3> DEFINE t2 == [pg |-> t.pg, leaves |-> ls2]
    <3>3. leaf = [q EXCEPT ![1] = t2]
      <4>1. leaf = [q EXCEPT ![1] = [q[1] EXCEPT !.leaves = Append(q[1].leaves, p)]]
        BY DEF leaf
      <4>2. [q[1] EXCEPT !.leaves = Append(q[1].leaves, p)] = t2
        <5> HIDE DEF ls2, t
        <5>1. [t EXCEPT !.leaves = ls2] = t2
          BY <3>1
        <5> QED
          BY <5>1 DEF ls2, t
      <4> QED
        BY <4>1, <4>2
    <3>4. t2 \in Trunk /\ t2.leaves = ls2
      <4> HIDE DEF ls2, t
      <4> QED
        BY <3>1, <3>2 DEF Trunk
    <3> HIDE DEF t2
    <3>5. /\ leaf \in Seq(Trunk) /\ DOMAIN leaf = DOMAIN q /\ leaf[1] = t2
          /\ \A x \in DOMAIN q : x # 1 => leaf[x] = q[x]
      BY <1>1, <2>2, <3>3, <3>4
    <3>6. ASSUME NEW x, IsLeaf(leaf, x) PROVE x = p \/ IsLeaf(q, x)
      <4>1. PICK y \in DOMAIN q : \E z \in DOMAIN leaf[y].leaves : leaf[y].leaves[z] = x
        BY <3>5, <3>6 DEF IsLeaf
      <4>2. CASE y # 1
        BY <3>5, <4>1, <4>2 DEF IsLeaf
      <4>3. CASE y = 1
        <5>1. PICK z \in DOMAIN ls2 : ls2[z] = x
          BY <3>4, <3>5, <4>1, <4>3
        <5> HIDE DEF ls2
        <5>2. CASE z = Len(ls) + 1
          BY <3>2, <5>1, <5>2
        <5>3. CASE z # Len(ls) + 1
          <6>1. z \in DOMAIN ls
            <7> HIDE DEF ls
            <7> QED
              BY <3>2, <5>3
          <6>2. ls[z] = x
            BY <3>2, <5>1, <6>1
          <6> QED
            BY <2>2, <6>1, <6>2 DEF IsLeaf
        <5> QED
          BY <5>2, <5>3
      <4> QED
        BY <4>2, <4>3
    <3> QED
      BY <3>5, <3>6
  <2> QED
    BY <2>1, <2>2
<1>8. trunk \in Seq(Trunk) /\ \A x : IsLeaf(trunk, x) => IsLeaf(q, x)
  <2> DEFINE t == [pg |-> p, leaves |-> <<>>]
  <2>1. t \in Trunk /\ t.leaves = <<>>
    BY DEF Trunk
  <2> HIDE DEF t
  <2>2. <<t>> \in Seq(Trunk) /\ Len(<<t>>) = 1 /\ <<t>>[1] = t
    BY <2>1
  <2>3. trunk = <<t>> \o q
    BY DEF trunk, t
  <2>4. /\ trunk \in Seq(Trunk) /\ Len(trunk) = 1 + Len(q)
        /\ \A y \in 1 .. 1 + Len(q) : trunk[y] = IF y <= 1 THEN <<t>>[y] ELSE q[y - 1]
    BY <1>1, <2>2, <2>3, ConcatProperties
  <2>5. DOMAIN trunk = 1 .. 1 + Len(q) /\ Len(q) \in Nat /\ DOMAIN q = 1 .. Len(q)
    BY <1>1, <2>4
  <2>6. ASSUME NEW x, IsLeaf(trunk, x) PROVE IsLeaf(q, x)
    <3>1. PICK y \in DOMAIN trunk : \E z \in DOMAIN trunk[y].leaves : trunk[y].leaves[z] = x
      BY <2>6 DEF IsLeaf
    <3>2. y # 1
      <4> SUFFICES ASSUME y = 1 PROVE FALSE
        OBVIOUS
      <4>1. trunk[y] = t
        BY <2>2, <2>4, <2>5
      <4>2. DOMAIN trunk[y].leaves = {}
        BY <2>1, <4>1
      <4> QED
        BY <3>1, <4>2
    <3>3. trunk[y] = q[y - 1] /\ y - 1 \in DOMAIN q
      BY <2>4, <2>5, <3>2
    <3> QED
      BY <3>1, <3>3 DEF IsLeaf
  <2> QED
    BY <2>4, <2>6
<1>9. CASE b.nFree # 0 /\ Len(BP!Leaves(b, 1)) < NLeaf
  <2>1. PICK g : g = [f EXCEPT !.free = leaf]
    OBVIOUS
  <2>2. g = [f EXCEPT !.free[1].leaves = Append(@, p)]
    BY <1>6, <2>1 DEF leaf, q
  <2>3. /\ IsBt(g) /\ g.nPage = f.nPage /\ g.maxRoot = f.maxRoot /\ g.nFree = N
        /\ g.free = leaf /\ g.par = P /\ g.hasContent = f.hasContent
        /\ g.noContent = f.noContent /\ g.bDoTruncate = f.bDoTruncate
    BY <1>6, <2>1 DEF IsBt
  <2>4. BtType(g)
    BY <1>1, <1>3, <1>6, <1>7, <2>3 DEF BtType
  <2>5. \A x \in orig.needed : IsLeaf(g.free, x) => x = p \/ BP!btreeGetHasContent(g, x)
    <3>1. \A x : BP!btreeGetHasContent(b, x) => BP!btreeGetHasContent(g, x)
      BY <1>6, <2>3 DEF BP!btreeGetHasContent
    <3>2. \A x \in orig.needed : IsLeaf(q, x) => BP!btreeGetHasContent(b, x)
      BY <1>1 DEF Recoverable, LeavesKnown, q
    <3> QED
      BY <1>7, <2>3, <3>1, <3>2
  <2>6. /\ ~g.bDoTruncate => orig.nPage <= g.nPage
        /\ orig.nPage >= 1 => g.nPage >= 1 /\ g.hasContent.size >= 0
        /\ g.noContent \cap orig.needed = {}
    BY <1>1, <1>6, <2>3 DEF Recoverable
  <2>7. TransOK(BP!btreeSetHasContent(g, p), orig)
    BY <2>4, <2>5, <2>6, SetHasContentOK
  <2>8. BP!btreeSetHasContent(g, p).maxRoot = g.maxRoot
    BY <2>3 DEF BP!btreeSetHasContent, IsBt
  <2>9. BP!freePage2(b, p) = BP!btreeSetHasContent(g, p)
    BY <1>5, <1>9, <2>2
  <2> QED
    BY <1>6, <2>3, <2>7, <2>8, <2>9
<1>10. CASE ~(b.nFree # 0 /\ Len(BP!Leaves(b, 1)) < NLeaf)
  <2>1. PICK g : g = [f EXCEPT !.free = trunk]
    OBVIOUS
  <2>2. BP!freePage2(b, p) = g
    <3>1. BP!freePage2(b, p) = [f EXCEPT !.free = <<[pg |-> p, leaves |-> <<>>]>> \o @]
      BY <1>5, <1>10
    <3> QED
      BY <1>6, <2>1, <3>1 DEF trunk, q
  <2>3. /\ IsBt(g) /\ g.nPage = f.nPage /\ g.maxRoot = f.maxRoot /\ g.nFree = N
        /\ g.free = trunk /\ g.par = P /\ g.hasContent = f.hasContent
        /\ g.noContent = f.noContent /\ g.bDoTruncate = f.bDoTruncate
    BY <1>6, <2>1 DEF IsBt
  <2>4. BtType(g)
    BY <1>1, <1>3, <1>6, <1>8, <2>3 DEF BtType
  <2>5. LeavesKnown(g, orig)
    <3>1. \A x : BP!btreeGetHasContent(b, x) => BP!btreeGetHasContent(g, x)
      BY <1>6, <2>3 DEF BP!btreeGetHasContent
    <3>2. \A x \in orig.needed : IsLeaf(q, x) => BP!btreeGetHasContent(b, x)
      BY <1>1 DEF Recoverable, LeavesKnown, q
    <3> QED
      BY <1>8, <2>3, <3>1, <3>2 DEF LeavesKnown
  <2>6. Recoverable(g, orig)
    BY <1>1, <1>6, <2>3, <2>5 DEF Recoverable
  <2> QED
    BY <1>6, <2>2, <2>3, <2>4, <2>6 DEF TransOK
<1> QED
  BY <1>9, <1>10

-----------------------------------------------------------------------------
\* BtreePages: the inductive invariant, and the actions.

IsVac(v) == v = [on |-> v.on, iFree |-> v.iFree, nFin |-> v.nFin, nFree |-> v.nFree]

BtOK(b, o, v) ==
  /\ BtType(b) /\ OrigType(o) /\ IsVac(v)
  /\ o.open => Recoverable(b, o)
  /\ ~o.open => b.hasContent = BP!NoContent /\ b.noContent = {}
  /\ v.on => o.open /\ v.nFin \in Int

BtInv == BtOK(bt, orig, vac)

LEMMA ChangedOK ==
  ASSUME NEW b, NEW o, NEW v, BtOK(b, o, v), o.open, NEW b2, TransOK(b2, o)
  PROVE  BtOK(b2, o, v)
BY DEF BtOK, TransOK

LEMMA WritingFacts ==
  ASSUME BtInv, orig.open
  PROVE  /\ TransOK(bt, orig) /\ OrigType(orig) /\ DOMAIN bt.par \in SUBSET Int
         /\ bt.nPage \in Int /\ bt.maxRoot \in Int /\ bt.nFree \in Int
BY DEF BtInv, BtOK, TransOK, BtType

LEMMA BecomesStep ==
  ASSUME BtInv, orig.open, \E b : TransOK(b, orig) /\ BP!Becomes(b)
  PROVE  BtInv'
<1>1. PICK b : TransOK(b, orig) /\ BP!Becomes(b)
  OBVIOUS
<1>2. bt' = b /\ UNCHANGED <<orig, vac>>
  BY <1>1 DEF BP!Becomes
<1>3. BtOK(b, orig, vac)
  BY <1>1, ChangedOK DEF BtInv
<1> QED
  BY <1>2, <1>3 DEF BtInv

LEMMA AddPageStep ==
  ASSUME BtInv, NEW parent, NEW type, NEW nearby, BP!AddPage(parent, type, nearby)
  PROVE  BtInv'
<1> DEFINE a == BP!allocateBtreePage(bt, nearby, "ANY")
           P == [p \in DOMAIN a.b.par \cup {a.pg} |->
                   IF p = a.pg THEN BP!Entry(type, parent) ELSE a.b.par[p]]
           M == IF BP!autoVacuum THEN [a.b.map EXCEPT ![a.pg] = BP!Entry(type, parent)] ELSE a.b.map
<1>1. orig.open
  BY DEF BP!AddPage, BP!Writing
<1>2. TransOK(a.b, orig) /\ a.pg \in Int
  BY <1>1, WritingFacts, AllocateOK
<1>3. IsBt(a.b) /\ DOMAIN a.b.par \in SUBSET Int
  BY <1>2 DEF TransOK, BtType
<1>4. \/ BP!Becomes(a.b)
      \/ BP!Becomes([a.b EXCEPT !.par = P, !.map = M])
  <2>1. /\ a.pg = 0 => BP!Becomes(a.b)
        /\ a.pg # 0 =>
             BP!Becomes([a.b EXCEPT
                !.par = [p \in DOMAIN @ \cup {a.pg} |-> IF p = a.pg THEN BP!Entry(type, parent) ELSE @[p]],
                !.map = IF BP!autoVacuum THEN [@ EXCEPT ![a.pg] = BP!Entry(type, parent)] ELSE @])
    BY Zenon DEF BP!AddPage
  <2>2. [a.b EXCEPT !.par = P, !.map = M] =
          [a.b EXCEPT
                !.par = [p \in DOMAIN @ \cup {a.pg} |-> IF p = a.pg THEN BP!Entry(type, parent) ELSE @[p]],
                !.map = IF BP!autoVacuum THEN [@ EXCEPT ![a.pg] = BP!Entry(type, parent)] ELSE @]
    <3> HIDE DEF a
    <3> QED
      BY <1>3 DEF IsBt
  <2> QED
    BY <2>1, <2>2
<1>5. DOMAIN P \in SUBSET Int
  BY <1>2, <1>3
<1> HIDE DEF a, P, M
<1>6. TransOK([a.b EXCEPT !.par = P, !.map = M], orig)
  BY <1>2, <1>5, PointOK
<1>7. \E b2 : TransOK(b2, orig) /\ BP!Becomes(b2)
  BY <1>2, <1>4, <1>6
<1> QED
  BY <1>1, <1>7, BecomesStep

LEMMA DropPageStep ==
  ASSUME BtInv, NEW p \in DOMAIN bt.par, BP!DropPage(p) \/ BP!clearCell(p)
  PROVE  BtInv'
<1>1. orig.open /\ BP!Becomes(BP!freePage2(bt, p))
  BY Zenon DEF BP!DropPage, BP!clearCell, BP!Writing
<1>2. TransOK(bt, orig) /\ OrigType(orig) /\ p \in Int
  BY <1>1, WritingFacts
<1>3. TransOK(BP!freePage2(bt, p), orig)
  BY <1>2, FreeOK
<1> QED
  BY <1>1, <1>3, BecomesStep

LEMMA NewRootOK ==
  ASSUME NEW b, TransOK(b, orig), NEW p \in Int
  PROVE  TransOK(BP!NewRoot(b, p), orig)
<1> DEFINE P == [q \in DOMAIN b.par \cup {p} |-> IF q = p THEN BP!Root ELSE b.par[q]]
           M == IF BP!autoVacuum THEN [b.map EXCEPT ![p] = BP!Root] ELSE b.map
           r == IF BP!autoVacuum THEN p ELSE b.maxRoot
<1>1. IsBt(b) /\ DOMAIN b.par \in SUBSET Int /\ b.maxRoot \in Int
  BY DEF TransOK, BtType
<1>2. BP!NewRoot(b, p) = [b EXCEPT !.par = P, !.map = M, !.maxRoot = r]
  BY <1>1 DEF BP!NewRoot, IsBt
<1>3. DOMAIN P \in SUBSET Int /\ r \in Int
  BY <1>1
<1> HIDE DEF P, M, r
<1> QED
  BY <1>2, <1>3, PointOK

LEMMA CreateTableStep ==
  ASSUME BtInv, BP!btreeCreateTable
  PROVE  BtInv'
<1> DEFINE root == BP!FirstFrom(bt.maxRoot + 1)
           a == IF BP!autoVacuum THEN BP!allocateBtreePage(bt, root, "EXACT")
                ELSE BP!allocateBtreePage(bt, 1, "ANY")
           entry == a.b.map[root]
           moved == BP!relocatePage(a.b, root, a.pg, entry)
<1>1. orig.open
  BY DEF BP!btreeCreateTable, BP!Writing
<1>2. TransOK(a.b, orig) /\ a.pg \in Int
  <2> HIDE DEF root
  <2>1. TransOK(bt, orig) /\ OrigType(orig)
    BY <1>1, WritingFacts
  <2>2. CASE BP!autoVacuum
    <3>1. a = BP!allocateBtreePage(bt, root, "EXACT")
      BY <2>2
    <3> QED
      BY <2>1, <3>1, AllocateOK
  <2>3. CASE ~BP!autoVacuum
    <3>1. a = BP!allocateBtreePage(bt, 1, "ANY")
      BY <2>3
    <3> QED
      BY <2>1, <3>1, AllocateOK
  <2> QED
    BY <2>2, <2>3
<1>3. root \in Int
  <2> DEFINE n == bt.maxRoot + 1
  <2>1. n \in Int
    BY <1>1, WritingFacts
  <2> HIDE DEF n
  <2>2. BP!FirstFrom(n) \in Int
    BY <2>1, FirstFromFacts
  <2> QED
    BY <2>2 DEF n
<1>4. \/ BP!Becomes(a.b)
      \/ BP!Becomes(BP!NewRoot(a.b, a.pg))
      \/ BP!Becomes(BP!NewRoot(a.b, root))
      \/ BP!Becomes(BP!Corrupt(a.b).b)
      \/ BP!Becomes(BP!NewRoot(moved, root))
  BY Zenon DEF BP!btreeCreateTable
<1> HIDE DEF a, root
<1>5. TransOK(moved, orig)
  BY <1>2, RelocateOK
<1> HIDE DEF moved
<1>6. \E b2 : TransOK(b2, orig) /\ BP!Becomes(b2)
  BY <1>2, <1>3, <1>4, <1>5, NewRootOK, CorruptOK
<1> QED
  BY <1>1, <1>6, BecomesStep

LEMMA DropTableStep ==
  ASSUME BtInv, NEW t \in DOMAIN bt.par, BP!btreeDropTable(t)
  PROVE  BtInv'
<1> DEFINE P == [p \in DOMAIN bt.par \ {t} |-> bt.par[p]]
           cut == [bt EXCEPT !.par = P]
           moved == BP!relocatePage(cut, bt.maxRoot, t, BP!Root)
           b == IF BP!autoVacuum /\ t # bt.maxRoot THEN BP!freePage2(moved, bt.maxRoot)
                ELSE BP!freePage2(bt, t)
           r == BP!LastUpTo(b.maxRoot - 1)
<1>1. orig.open
  BY DEF BP!btreeDropTable, BP!Writing
<1>2. /\ TransOK(bt, orig) /\ OrigType(orig) /\ t \in Int /\ bt.maxRoot \in Int
      /\ DOMAIN bt.par \in SUBSET Int
  BY <1>1, WritingFacts
<1>3. TransOK(cut, orig)
  <2>1. DOMAIN P \in SUBSET Int
    BY <1>2
  <2> HIDE DEF P
  <2> QED
    BY <1>2, <2>1, PointOK
<1>4. BP!Becomes(IF BP!autoVacuum THEN [b EXCEPT !.maxRoot = r] ELSE b)
  BY DEF BP!btreeDropTable
<1> HIDE DEF cut
<1>5. TransOK(moved, orig)
  BY <1>2, <1>3, RelocateOK
<1> HIDE DEF moved
<1>6. TransOK(b, orig)
  BY <1>2, <1>5, FreeOK
<1>7. b.maxRoot \in Int
  <2> HIDE DEF b
  <2> QED
    BY <1>6 DEF TransOK, BtType
<1> HIDE DEF b
<1>8. r \in Int
  <2> DEFINE n == b.maxRoot - 1
  <2>1. n \in Int
    BY <1>7
  <2> HIDE DEF n
  <2>2. BP!LastUpTo(n) \in Int
    BY <2>1, LastUpToFacts
  <2> QED
    BY <2>2 DEF n
<1> HIDE DEF r
<1>9. TransOK([b EXCEPT !.maxRoot = r], orig)
  <2>1. DOMAIN b.par \in SUBSET Int
    BY <1>6 DEF TransOK, BtType
  <2> QED
    BY <1>6, <1>8, <2>1, PointOK
<1>10. \E b2 : TransOK(b2, orig) /\ BP!Becomes(b2)
  BY <1>4, <1>6, <1>9
<1> QED
  BY <1>1, <1>10, BecomesStep

\* Where a vacuum means to end.
LEMMA FinalSize ==
  ASSUME NEW n \in Int, NEW f \in Int
  PROVE  BP!finalDbSize(n, f) \in Int
<1> DEFINE e == NEntry + 1
           d == (n - 2) \div e
           ret == d * e + 2
           m == BP!ptrmapPageno(n)
           k == (f - n + m + NEntry) \div NEntry
           nFin == n - f - k
           last == IF n > PENDING_BYTE_PAGE /\ nFin < PENDING_BYTE_PAGE THEN nFin - 1 ELSE nFin
<1>1. e \in Nat /\ e > 0 /\ NEntry \in Nat /\ NEntry > 0
  BY BtreeAssumption
<1>2. m \in Int
  <2>1. CASE n < 2
    BY <2>1 DEF BP!ptrmapPageno
  <2>2. CASE n >= 2
    <3>1. n - 2 \in Nat
      BY <2>2
    <3>2. d \in Nat
      <4> HIDE DEF e
      <4> QED
        BY <1>1, <3>1, DivideFacts
    <3>3. d * e \in Nat
      <4> HIDE DEF e, d
      <4> QED
        BY <1>1, <3>2, MultipleFacts
    <3> DEFINE x == d * e
    <3>4. m = IF x + 2 = PENDING_BYTE_PAGE THEN (x + 2) + 1 ELSE x + 2
      BY <2>2 DEF BP!ptrmapPageno
    <3> HIDE DEF x, m
    <3> QED
      BY <3>3, <3>4 DEF x
  <2> QED
    BY <2>1, <2>2
<1>3. BP!finalDbSize(n, f) = BP!LastUpTo(last)
  BY DEF BP!finalDbSize
<1> HIDE DEF m
<1>4. k \in Int
  <2> DEFINE x == f - n + m + NEntry
  <2>1. x \in Int
    BY <1>1, <1>2
  <2> HIDE DEF x
  <2>2. x \div NEntry \in Int
    BY <1>1, <2>1
  <2> QED
    BY <2>2 DEF x
<1> HIDE DEF k
<1>5. nFin \in Int /\ nFin - 1 \in Int
  BY <1>4
<1> HIDE DEF nFin
<1>6. last \in Int
  BY <1>5
<1> HIDE DEF last
<1> QED
  BY <1>3, <1>6, LastUpToFacts

LEMMA ShortenOK ==
  ASSUME NEW b, TransOK(b, orig), NEW n \in Int, n >= 1
  PROVE  TransOK([b EXCEPT !.nPage = n, !.bDoTruncate = TRUE], orig)
<1>1. PICK b2 : b2 = [b EXCEPT !.nPage = n, !.bDoTruncate = TRUE]
  OBVIOUS
<1>2. BtType(b) /\ IsBt(b) /\ Recoverable(b, orig)
  BY DEF TransOK, BtType
<1>3. /\ IsBt(b2) /\ b2.nPage = n /\ b2.maxRoot = b.maxRoot /\ b2.nFree = b.nFree
      /\ b2.free = b.free /\ b2.par = b.par /\ b2.hasContent = b.hasContent
      /\ b2.noContent = b.noContent /\ b2.bDoTruncate = TRUE
  BY <1>1, <1>2 DEF IsBt
<1>4. BtType(b2)
  BY <1>2, <1>3 DEF BtType
<1>5. LeavesKnown(b2, orig)
  BY <1>2, <1>3 DEF Recoverable, LeavesKnown, BP!btreeGetHasContent
<1>6. Recoverable(b2, orig)
  BY <1>2, <1>3, <1>5 DEF Recoverable
<1> QED
  BY <1>1, <1>4, <1>6 DEF TransOK

LEMMA IncrVacuumStep ==
  ASSUME BtInv, BP!sqlite3BtreeIncrVacuum
  PROVE  BtInv'
<1> DEFINE last == bt.nPage
           nFin == BP!finalDbSize(last, bt.nFree)
           free == bt.map[last] = BP!FreePage
           a == IF free THEN BP!allocateBtreePage(bt, last, "EXACT")
                ELSE BP!allocateBtreePage(bt, nFin, "LE")
           b == IF free THEN a.b ELSE BP!relocatePage(a.b, last, a.pg, bt.map[last])
           n == BP!LastUpTo(last - 1)
<1>1. orig.open /\ bt.nFree > 0
  BY DEF BP!sqlite3BtreeIncrVacuum, BP!Writing
<1>2. TransOK(bt, orig) /\ OrigType(orig) /\ last \in Int /\ bt.nFree \in Int
  BY <1>1, WritingFacts
<1>3. TransOK(a.b, orig) /\ a.pg \in Int /\ (a.pg # 0 => bt.nFree < bt.nPage)
  <2> HIDE DEF last, nFin
  <2>1. CASE free
    <3>1. a = BP!allocateBtreePage(bt, last, "EXACT")
      BY <2>1
    <3> QED
      BY <1>2, <3>1, AllocateOK
  <2>2. CASE ~free
    <3>1. a = BP!allocateBtreePage(bt, nFin, "LE")
      BY <2>2
    <3> QED
      BY <1>2, <3>1, AllocateOK
  <2> QED
    BY <2>1, <2>2
<1>4. \/ BP!Becomes(BP!Corrupt(bt).b)
      \/ a.pg # 0 /\ BP!Becomes([b EXCEPT !.nPage = n, !.bDoTruncate = TRUE])
  BY Zenon DEF BP!sqlite3BtreeIncrVacuum
<1> HIDE DEF a
<1>5. TransOK(b, orig)
  BY <1>3, RelocateOK
<1> HIDE DEF b
<1>6. a.pg # 0 => n \in Int /\ n >= 1
  <2> DEFINE m == last - 1
  <2>1. m \in Int /\ (a.pg # 0 => m >= 1)
    BY <1>1, <1>2, <1>3
  <2> HIDE DEF m
  <2>2. BP!LastUpTo(m) \in Int /\ (a.pg # 0 => BP!LastUpTo(m) >= 1)
    BY <2>1, LastUpToFacts
  <2> QED
    BY <2>2 DEF m
<1> HIDE DEF n
<1>7. \E b2 : TransOK(b2, orig) /\ BP!Becomes(b2)
  BY <1>2, <1>4, <1>5, <1>6, CorruptOK, ShortenOK
<1> QED
  BY <1>1, <1>7, BecomesStep

LEMMA CommittedOK ==
  ASSUME NEW b, BtType(b), NEW v, IsVac(v), ~v.on
  PROVE  BtOK([b EXCEPT !.hasContent = BP!NoContent, !.noContent = {}, !.bDoTruncate = FALSE],
              BP!NoTrans, v)
<1>1. PICK b2 : b2 = [b EXCEPT !.hasContent = BP!NoContent, !.noContent = {}, !.bDoTruncate = FALSE]
  OBVIOUS
<1>2. /\ IsBt(b2) /\ b2.nPage = b.nPage /\ b2.maxRoot = b.maxRoot /\ b2.nFree = b.nFree
      /\ b2.free = b.free /\ b2.par = b.par /\ b2.hasContent = BP!NoContent /\ b2.noContent = {}
  BY <1>1 DEF BtType, IsBt
<1>3. BP!NoContent \in [size : Int, bits : SUBSET Int]
  BY DEF BP!NoContent
<1>4. BtType(b2)
  BY <1>2, <1>3 DEF BtType
<1>5. OrigType(BP!NoTrans) /\ ~BP!NoTrans.open
  BY DEF BP!NoTrans, OrigType
<1>6. BtOK(b2, BP!NoTrans, v)
  BY <1>2, <1>4, <1>5 DEF BtOK
<1> QED
  BY <1>1, <1>6

LEMMA BtCommitStep ==
  ASSUME BtInv, BP!Commit
  PROVE  BtInv'
<1>1. BtType(bt) /\ IsVac(vac) /\ ~vac.on
  BY DEF BtInv, BtOK, BP!Commit, BP!Writing
<1>2. /\ bt' = [bt EXCEPT !.hasContent = BP!NoContent, !.noContent = {}, !.bDoTruncate = FALSE]
      /\ orig' = BP!NoTrans /\ vac' = vac
  BY DEF BP!Commit, BP!Committed
<1>3. BtOK([bt EXCEPT !.hasContent = BP!NoContent, !.noContent = {}, !.bDoTruncate = FALSE],
           BP!NoTrans, vac)
  BY <1>1, CommittedOK
<1> QED
  BY <1>2, <1>3 DEF BtInv

LEMMA VacuumDoneStep ==
  ASSUME BtInv, BP!VacuumDone
  PROVE  BtInv'
<1> DEFINE b == IF vac.nFree = 0 THEN bt
                ELSE [bt EXCEPT !.free = <<>>, !.nFree = 0, !.nPage = vac.nFin]
<1>1. BtType(bt) /\ IsBt(bt) /\ vac.nFin \in Int
  BY DEF BtInv, BtOK, BtType, BP!VacuumDone
<1>2. BtType(b)
  <2>1. CASE vac.nFree = 0
    BY <1>1, <2>1
  <2>2. CASE vac.nFree # 0
    <3> DEFINE n == vac.nFin
    <3> HIDE DEF n
    <3>1. PICK b2 : b2 = [bt EXCEPT !.free = <<>>, !.nFree = 0, !.nPage = n]
      OBVIOUS
    <3>2. /\ IsBt(b2) /\ b2.nPage = n /\ b2.maxRoot = bt.maxRoot /\ b2.nFree = 0
          /\ b2.free = <<>> /\ b2.par = bt.par /\ b2.hasContent = bt.hasContent
      BY <1>1, <3>1 DEF IsBt
    <3>3. <<>> \in Seq(Trunk) /\ n \in Int
      BY <1>1 DEF n
    <3>4. BtType(b2)
      BY <1>1, <3>2, <3>3 DEF BtType
    <3> QED
      BY <2>2, <3>1, <3>4 DEF n
  <2> QED
    BY <2>1, <2>2
<1>3. /\ bt' = [b EXCEPT !.hasContent = BP!NoContent, !.noContent = {}, !.bDoTruncate = FALSE]
      /\ orig' = BP!NoTrans /\ vac' = BP!NoVacuum
  BY DEF BP!VacuumDone, BP!Committed
<1> HIDE DEF b
<1>4. IsVac(BP!NoVacuum) /\ ~BP!NoVacuum.on
  BY DEF BP!NoVacuum, IsVac
<1>5. BtOK([b EXCEPT !.hasContent = BP!NoContent, !.noContent = {}, !.bDoTruncate = FALSE],
           BP!NoTrans, BP!NoVacuum)
  BY <1>2, <1>4, CommittedOK
<1> QED
  BY <1>3, <1>5 DEF BtInv

LEMMA AutoVacuumStep ==
  ASSUME BtInv, BP!autoVacuumCommit
  PROVE  BtInv'
<1> DEFINE nFin == BP!finalDbSize(bt.nPage, bt.nFree)
<1>1. orig.open
  BY DEF BP!autoVacuumCommit, BP!Writing
<1>2. TransOK(bt, orig) /\ bt.nPage \in Int /\ bt.nFree \in Int
  BY <1>1, WritingFacts
<1>3. nFin \in Int
  BY <1>2, FinalSize
<1> HIDE DEF nFin
<1>4. \/ BP!Becomes(BP!Corrupt(bt).b)
      \/ /\ vac' = [on |-> TRUE, iFree |-> bt.nPage, nFin |-> nFin, nFree |-> bt.nFree]
         /\ UNCHANGED <<mode, bt, orig>>
  BY DEF BP!autoVacuumCommit, nFin
<1>5. CASE BP!Becomes(BP!Corrupt(bt).b)
  BY <1>1, <1>2, <1>5, CorruptOK, BecomesStep
<1>6. CASE /\ vac' = [on |-> TRUE, iFree |-> bt.nPage, nFin |-> nFin, nFree |-> bt.nFree]
           /\ UNCHANGED <<mode, bt, orig>>
  <2>1. vac'.nFin \in Int /\ IsVac(vac')
    BY <1>3, <1>6 DEF IsVac
  <2> QED
    BY <1>1, <1>6, <2>1 DEF BtInv, BtOK
<1> QED
  BY <1>4, <1>5, <1>6

LEMMA VacuumStepStep ==
  ASSUME BtInv, BP!VacuumStep
  PROVE  BtInv'
<1> DEFINE a == BP!allocateBtreePage(bt, 0, "ANY")
           b == BP!relocatePage(a.b, vac.iFree, a.pg, bt.map[vac.iFree])
<1>1. orig.open
  BY DEF BtInv, BtOK, BP!VacuumStep
<1>2. TransOK(bt, orig) /\ OrigType(orig)
  BY <1>1, WritingFacts
<1>3. TransOK(a.b, orig) /\ a.pg \in Int
  BY <1>2, AllocateOK
<1>4. /\ orig' = orig
      /\ bt' \in {bt, a.b, b, BP!Corrupt(bt).b}
      /\ vac' = vac \/ vac' = [vac EXCEPT !.iFree = @ - 1]
  BY DEF BP!VacuumStep
<1> HIDE DEF a
<1>5. TransOK(b, orig)
  BY <1>3, RelocateOK
<1> HIDE DEF b
<1>6. PICK b2 : bt' = b2 /\ TransOK(b2, orig)
  BY <1>2, <1>3, <1>4, <1>5, CorruptOK
<1>7. BtOK(b2, orig, vac)
  BY <1>1, <1>6, ChangedOK DEF BtInv
<1>8. IsVac(vac') /\ vac'.on = vac.on /\ vac'.nFin = vac.nFin
  BY <1>4, <1>7 DEF BtOK, IsVac
<1> QED
  BY <1>4, <1>6, <1>7, <1>8 DEF BtInv, BtOK

LEMMA BeginTransStep ==
  ASSUME BtInv, BP!sqlite3BtreeBeginTrans
  PROVE  BtInv'
<1> DEFINE needed == (1 .. bt.nPage) \ BP!LeafPages(bt)
           o == [open |-> TRUE, nPage |-> bt.nPage, needed |-> needed]
<1>1. /\ ~orig.open /\ orig' = o /\ bt' = bt /\ vac' = vac
  BY DEF BP!sqlite3BtreeBeginTrans
<1>2. /\ BtType(bt) /\ bt.nPage \in Int /\ IsVac(vac) /\ ~vac.on
      /\ bt.hasContent = BP!NoContent /\ bt.noContent = {}
  BY <1>1 DEF BtInv, BtOK, BtType
<1>3. needed \in SUBSET (1 .. bt.nPage) /\ \A x \in needed : ~IsLeaf(bt.free, x)
  BY DEF BP!LeafPages, BP!Leaves, IsLeaf
<1> HIDE DEF needed
<1>4. o.open /\ o.nPage = bt.nPage /\ o.needed = needed
  OBVIOUS
<1> HIDE DEF o
<1>5. OrigType(o)
  BY <1>2, <1>3, <1>4 DEF OrigType
<1>6. LeavesKnown(bt, o)
  BY <1>3, <1>4 DEF LeavesKnown
<1>7. bt.hasContent.size = 0
  BY <1>2 DEF BP!NoContent
<1>8. Recoverable(bt, o)
  BY <1>2, <1>4, <1>6, <1>7 DEF Recoverable
<1>9. BtOK(bt, o, vac)
  BY <1>2, <1>4, <1>5, <1>8 DEF BtOK
<1> QED
  BY <1>1, <1>9 DEF BtInv

LEMMA BtInit ==
  ASSUME BP!Init
  PROVE  BtInv
<1> DEFINE P == [p \in {1} |-> BP!Root]
           M == [p \in BP!Page |-> BP!Entry("none", 0)]
<1>1. /\ bt = [nPage |-> 1, maxRoot |-> 1, nFree |-> 0, free |-> <<>>, par |-> P, map |-> M,
               hasContent |-> BP!NoContent, noContent |-> {}, bDoTruncate |-> FALSE, corrupt |-> FALSE]
      /\ orig = BP!NoTrans /\ vac = BP!NoVacuum
  BY DEF BP!Init
<1>2. DOMAIN P \in SUBSET Int /\ <<>> \in Seq(Trunk)
      /\ BP!NoContent \in [size : Int, bits : SUBSET Int]
  BY DEF BP!NoContent
<1> HIDE DEF P, M
<1>3. /\ IsBt(bt) /\ bt.nPage = 1 /\ bt.maxRoot = 1 /\ bt.nFree = 0 /\ bt.free = <<>> /\ bt.par = P
      /\ bt.hasContent = BP!NoContent /\ bt.noContent = {}
  BY <1>1 DEF IsBt
<1>4. BtType(bt)
  BY <1>2, <1>3 DEF BtType
<1>5. OrigType(orig) /\ ~orig.open /\ IsVac(vac) /\ ~vac.on
  BY <1>1 DEF BP!NoTrans, BP!NoVacuum, OrigType, IsVac
<1> QED
  BY <1>3, <1>4, <1>5 DEF BtInv, BtOK

LEMMA BtStep ==
  ASSUME BtInv, BP!Next
  PROVE  BtInv'
<1>1. ASSUME BP!sqlite3BtreeBeginTrans PROVE BtInv'
  BY <1>1, BeginTransStep
<1>2. ASSUME NEW p \in DOMAIN bt.par,
             \E type \in {"BTREE", "OVERFLOW1", "OVERFLOW2"} :
               \E nearby \in BP!Nearby(p, type) : BP!AddPage(p, type, nearby)
      PROVE  BtInv'
  BY <1>2, AddPageStep
<1>3. ASSUME NEW p \in DOMAIN bt.par, BP!DropPage(p) \/ BP!clearCell(p) PROVE BtInv'
  BY <1>3, DropPageStep
<1>4. ASSUME NEW p \in DOMAIN bt.par, BP!btreeDropTable(p) PROVE BtInv'
  BY <1>4, DropTableStep
<1>5. ASSUME BP!btreeCreateTable PROVE BtInv'
  BY <1>5, CreateTableStep
<1>6. ASSUME BP!sqlite3BtreeIncrVacuum PROVE BtInv'
  BY <1>6, IncrVacuumStep
<1>7. ASSUME BP!Commit PROVE BtInv'
  BY <1>7, BtCommitStep
<1>8. ASSUME BP!autoVacuumCommit PROVE BtInv'
  BY <1>8, AutoVacuumStep
<1>9. ASSUME BP!VacuumStep PROVE BtInv'
  BY <1>9, VacuumStepStep
<1>10. ASSUME BP!VacuumDone PROVE BtInv'
  BY <1>10, VacuumDoneStep
<1> QED
  BY <1>1, <1>2, <1>3, <1>4, <1>5, <1>6, <1>7, <1>8, <1>9, <1>10 DEF BP!Next

(***************************************************************************)
(* btree.c, all the operations on pages within a transaction: a leaf of    *)
(* the free-list that the transaction found in use is one that             *)
(* btreeGetHasContent() knows, as long as the file has not been shortened  *)
(* it has its pages, and no needed page has been handed out unread.        *)
(***************************************************************************)
THEOREM BtreeInvariance == MCSpec => []BtInv
<1>1. MCInit => BtInv
  BY BtInit DEF MCInit
<1>2. BtInv /\ [MCNext]_allVars => BtInv'
  <2> SUFFICES ASSUME BtInv, [MCNext]_allVars PROVE BtInv'
    OBVIOUS
  <2>1. CASE BP!Next
    BY <2>1, BtStep
  <2>2. CASE UNCHANGED bpVars
    BY <2>2 DEF BtInv, bpVars
  <2> QED
    BY <2>1, <2>2 DEF MCNext, Others, allVars
<1> QED
  BY <1>1, <1>2, PTL DEF MCSpec

(***************************************************************************)
(* allocateBtreePage() with pHasContent: a page whose content a rollback   *)
(* needs is never handed out without the pager reading and journaling it,  *)
(* whatever went to the free-list, came back, or was cut off by a vacuum   *)
(* step before, in a database of any size and any layout of its fixed      *)
(* pages.                                                                  *)
(***************************************************************************)
THEOREM RollbackAlwaysPossible == MCSpec => []RollbackPossible
<1>1. BtInv => RollbackPossible
  BY DEF BtInv, BtOK, Recoverable, RollbackPossible, BP!RollbackPossible
<1> QED
  BY <1>1, BtreeInvariance, PTL
=============================================================================
