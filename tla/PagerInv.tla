------------------------------ MODULE PagerInv ------------------------------
(***************************************************************************)
(* The inductive invariants of module Pager, which PagerProofs proves:     *)
(* Control, of the types, the states and the locks; HotOK, of the journal  *)
(* that a reader may find; SyncOK, of the journal of a transaction that    *)
(* modifies the database file.  Then what the proofs say of a step.        *)
(***************************************************************************)
EXTENDS Pager

-----------------------------------------------------------------------------
\* Where a connection is in the code: it recovers, syncs the journal, or undoes a transaction.

HotPCs == {"hot1", "hot2", "hot3", "hot4", "hot5", "hot6", "vers"}
SyncPCs == {"sync2", "sync3", "sync4"}
UndoPCs == {"playback", "record", "restored", "final", "unlock"}
PCs == HotPCs \cup SyncPCs \cup UndoPCs \cup
       {"idle", "reserve", "open", "write", "sync1", "spill", "count", "pages", "abort"}

\* Slots of a journal: only a header has a magic number.
SlotSet ==
  {x \in [type : {"hdr", "rec", "junk"}, magic : BOOLEAN, n : Nat, v : Int, nonce : Nat] :
     x.type # "hdr" => ~x.magic}

\* Journal files: what is read may be what survives a power loss.
JournalSet ==
  {j \in [exists : BOOLEAN, slot : Seq(SlotSet), alt : Seq(SUBSET SlotSet)] :
     Len(j.alt) = Len(j.slot) /\ \A i \in 1..Len(j.slot) : j.slot[i] \in j.alt[i]}

Jfds == {"closed", "mem", "real", "gone"}

\* The fields of a pager, and its record as the function that it is.
Fields ==
  {"journalMode", "fullSync", "eState", "pc", "cache", "dirty", "dbFileVers", "dbSize",
   "dbOrigSize", "jfd", "mem", "journalOff", "journalHdr", "ownHdr", "nRec", "inJournal",
   "needSync", "id", "pg", "left", "spills"}

IsRecord(P) == P = [f \in Fields |-> P[f]]

FieldsOK(P) ==
  /\ P.journalMode \in {"DELETE", "TRUNCATE", "PERSIST"} /\ P.journalMode \in JournalModes
  /\ P.fullSync \in BOOLEAN /\ P.fullSync \in FullSyncs
  /\ P.eState \in EState /\ P.pc \in PCs
  /\ P.cache \in [Page -> Int] /\ P.dirty \in SUBSET Page
  /\ P.dbFileVers \in Int /\ P.dbSize \in Int /\ P.dbOrigSize \in Int
  /\ P.jfd \in Jfds /\ P.mem \in Seq(SlotSet)
  /\ P.journalOff \in Nat /\ P.journalHdr \in Nat /\ P.ownHdr \in Int /\ P.nRec \in Nat
  /\ P.inJournal \in SUBSET Page /\ P.needSync \in SUBSET Page
  /\ P.id \in Nat /\ P.pg \in 0..NPage /\ P.left \in Int /\ P.spills \in Nat
  /\ P.pc \in {"open", "write", "sync1", "spill"} => P.pg \in Page

PagerOK(P) == IsRecord(P) /\ FieldsOK(P)

DbTypes ==
  /\ db \in [Page -> Int] /\ dbAlt \in [Page -> SUBSET Int]
  /\ \A p \in Page : db[p] \in dbAlt[p]

\* The type invariant that the proofs use: integers where Pager.TypeOK, which only TLC checks,
\* has the bounds of an instance.
Types ==
  /\ DbTypes
  /\ jrnl \in JournalSet
  /\ lock \in [Conn -> 0..4]
  /\ pager = [c \in Conn |-> pager[c]] /\ \A c \in Conn : PagerOK(pager[c])
  /\ txid \in Nat /\ faults \in Nat

-----------------------------------------------------------------------------
\* The control of a pager: what its state, its place in the code, its lock l and its journal say
\* of each other.  This is the state diagram of pager.c, the lock that every state needs, and
\* what holds between the calls of which a transition consists.

StateOK(P, l) ==
  /\ P.eState = "OPEN" =>
       /\ P.pc \in HotPCs \cup UndoPCs \cup {"idle"}
       /\ P.pc = "idle" => l = NO_LOCK
       /\ P.pc \in {"hot1", "hot2", "hot3", "hot4", "vers"} => l = SHARED_LOCK
       /\ P.pc = "hot6" => l \in {SHARED_LOCK, PENDING_LOCK}
       /\ P.pc = "hot5" \/ P.pc \in UndoPCs => l = EXCLUSIVE_LOCK
       /\ P.pc \in UndoPCs => P.jfd = "real"
       /\ P.pc \notin UndoPCs => P.jfd # "mem"
       /\ P.pc \notin UndoPCs \cup {"vers"} => P.jfd = "closed"
       /\ P.pc = "vers" /\ P.journalMode = "DELETE" => P.jfd = "closed"
  /\ P.eState = "READER" =>
       /\ P.pc \in {"idle", "reserve"} /\ l = SHARED_LOCK
       /\ P.journalMode = "DELETE" => P.jfd = "closed"
  /\ P.eState = "WRITER_LOCKED" =>
       P.pc \in {"idle", "open", "abort", "final", "unlock"} /\ l >= RESERVED_LOCK
  /\ P.eState = "WRITER_CACHEMOD" =>
       /\ P.pc \in SyncPCs \cup UndoPCs \cup {"idle", "write", "sync1", "count", "abort"}
       /\ l >= RESERVED_LOCK /\ P.jfd # "closed"
       /\ P.pc \in SyncPCs \cup {"count"} => l = EXCLUSIVE_LOCK
  /\ P.eState = "WRITER_DBMOD" =>
       /\ P.pc \in SyncPCs \cup UndoPCs \cup
                   {"idle", "write", "sync1", "count", "abort", "spill", "pages"}
       /\ l = EXCLUSIVE_LOCK /\ P.jfd # "closed"
  /\ P.eState = "WRITER_FINISHED" =>
       P.pc \in UndoPCs \cup {"idle"} /\ l = EXCLUSIVE_LOCK /\ P.jfd # "closed"
  /\ P.eState = "ERROR" => P.pc = "idle" /\ l >= SHARED_LOCK
  /\ P.jfd = "mem" => AtomicWrite
  /\ Vfs = "vms" => P.jfd # "gone"

States == \A c \in Conn : StateOK(pager[c], lock[c])

\* A connection with the right to a transaction of its own.
Owner(c) == lock[c] >= RESERVED_LOCK /\ pager[c].pc # "hot6"

\* Locks exclude each other as the file system promises, over every step of every connection.
LocksOK ==
  /\ \A c, d \in Conn : lock[c] = EXCLUSIVE_LOCK /\ c # d => lock[d] = NO_LOCK
  /\ \A c, d \in Conn : Owner(c) /\ Owner(d) => c = d
  /\ Vfs = "vms" => \A c, d \in Conn : lock[c] >= RESERVED_LOCK /\ c # d => lock[d] = NO_LOCK

Control == Types /\ States /\ LocksOK

-----------------------------------------------------------------------------
\* No hot journal while a connection reads.

\* A header with its magic at the head of the journal file: what hasHotJournal() looks for.  On
\* OpenVMS the journal of an empty database does not count.
Magic == jrnl.exists /\ IsHot(jrnl.slot) /\ (Vfs = "vms" => FileSize(db) > 0)

\* Where a connection with pager P and lock l knows that there is none.
Checked(P, l) ==
  \/ P.eState \in {"READER", "WRITER_LOCKED"}
  \/ P.pc = "vers" \/ P.pc = "unlock"
  \/ l \in {RESERVED_LOCK, PENDING_LOCK} /\ P.pc # "hot6"
  \/ P.jfd # "real" /\ l = EXCLUSIVE_LOCK /\ P.eState \in WriterStates
  \/ P.pc \in {"restored", "final"} /\ P.journalOff = 0

\* The header of a buffered journal gets its magic with the EXCLUSIVE lock only; a transaction
\* that has opened its journal is past its first header, and so is a rollback that has read it.
BufferOK(P) ==
  /\ /\ P.eState = "WRITER_CACHEMOD" /\ P.jfd = "mem"
     /\ P.pc \in {"write", "idle", "count", "sync1", "sync2"}
     => ~IsHot(P.mem)
  /\ P.pc = "record" => P.journalOff >= 1
  /\ P.eState \in {"WRITER_CACHEMOD", "WRITER_DBMOD", "WRITER_FINISHED"} /\ P.pc \notin UndoPCs
     => P.journalOff >= 1

HotAt(c) == BufferOK(pager[c]) /\ (Checked(pager[c], lock[c]) => ~Magic)

HotOK == (jrnl.exists \/ jrnl.slot = <<>>) /\ \A c \in Conn : HotAt(c)

\* The conditions: the threads of one process take the PENDING lock of a recovery that has given
\* up for a RESERVED one, and do not look at the journal; on OpenVMS two readers keep each other
\* from deleting the journal of an empty database, and a transaction whose own journal stays in
\* memory then leaves it in the file system, to be found hot by the next reader.
HotHyp == (Vfs = "unix" /\ ~OneProcess) \/ (Vfs = "vms" /\ ~AtomicWrite)

-----------------------------------------------------------------------------
\* The journal is synced before the database file is written.

\* The journal begins with the header of P's transaction, with its magic, ...
HeadMagic(P) == jrnl.slot # <<>> /\ jrnl.slot[1].magic /\ jrnl.slot[1].nonce = P.id

\* ... and a power loss leaves nothing else there.
HeadSynced == jrnl.alt[1] = {jrnl.slot[1]}

\* What a transaction knows of its journal: where it is, that it is past the first header, and
\* that the header is written and synced before WRITER_DBMOD.
SyncAt(c) ==
  LET P == pager[c]
  IN  /\ P.eState # "ERROR" => P.jfd \in {"closed", "real"}
      /\ P.eState \in Writing /\ P.pc \notin UndoPCs => P.journalOff >= 1
      /\ P.eState = "WRITER_CACHEMOD" => P.journalHdr = 0
      /\ P.eState = "WRITER_CACHEMOD" /\ P.pc = "sync4" =>
           HeadMagic(P) /\ (WriteThrough => HeadSynced)
      /\ P.eState = "WRITER_DBMOD" /\ P.pc \notin UndoPCs =>
           P.journalHdr >= 1 /\ HeadMagic(P) /\ HeadSynced

SyncOK == \A c \in Conn : SyncAt(c)

\* The conditions: the journal is a file, and one that nobody unlinks while it is in use.
SyncHyp == ~AtomicWrite /\ (Vfs = "vms" \/ JournalModes \subseteq {"DELETE"})

-----------------------------------------------------------------------------
\* What the proofs say of a step of c.

\* Of the pagers only the one of c changes.
Rest(c) == pager' = [d \in Conn |-> pager'[d]] /\ \A d \in Conn \ {c} : pager'[d] = pager[d]

\* Q is P but for the fields in F.
Kept(P, Q, F) == IsRecord(Q) /\ \A f \in Fields \ F : Q[f] = P[f]

\* When c deletes the journal, another connection may keep the file that has lost its name.
Severed(c) ==
  /\ pager' = [d \in Conn |-> pager'[d]]
  /\ \A d \in Conn \ {c} :
       \/ pager'[d] = pager[d]
       \/ /\ pager[d].jfd = "real" /\ jrnl.exists /\ ~jrnl'.exists
          /\ PagerOK(pager'[d]) /\ Kept(pager[d], pager'[d], {"jfd", "mem"})
          /\ pager'[d].jfd = "gone"

\* Slot i is written to the journal j of c, in the file or in memory, ...
Wrote(c, jfd, mem, j, i, x, torn) ==
  IF jfd = "gone" \/ (jfd = "mem" /\ i <= 2)
    THEN jrnl' = j /\ pager'[c].jfd = jfd /\ pager'[c].mem = Put(mem, i, x)
    ELSE /\ pager'[c].jfd = "real" /\ pager'[c].mem = <<>> /\ jrnl'.exists
         /\ jrnl' = WriteSlot(IF jfd = "mem" THEN createFile(j, mem) ELSE j, i, x, torn)

\* ... or the write fails.
Cut(c, jfd, mem, j, i) ==
  \/ jfd = "gone" /\ pager'[c].jfd = "gone" /\ jrnl' = jrnl
  \/ /\ jfd # "gone" /\ pager'[c].jfd = "real" /\ pager'[c].mem = <<>> /\ jrnl'.exists
     /\ jrnl' = WriteSlot(IF jfd = "mem" THEN createFile(j, mem) ELSE j, i, Junk, {})
  \/ /\ jfd = "mem" /\ pager'[c].jfd = "mem" /\ pager'[c].mem = mem
     /\ jrnl' = WriteSlot(j, 1, Junk, {}) /\ jrnl'.exists

\* The slot that a playback reads next, how many records a header has, and whether a record goes
\* to the cache.
NextSlot(c) == Jfile(c)[pager[c].journalOff + 1]
LeftOf(c) ==
  IF NextSlot(c).n = 0 /\ pager[c].journalOff = pager[c].ownHdr
  THEN Len(Jfile(c)) - (pager[c].journalOff + 1) ELSE NextSlot(c).n
Applies(c) ==
  ~Beyond(c, NextSlot(c)) /\ ~(pager[c].eState = "OPEN") /\ pager[c].cache[NextSlot(c).n] # NotCached

\* What a step of c leaves of the others, and how the lock of c may move.
Frame(c) ==
  /\ Severed(c) /\ lock' \in [Conn -> 0..4]
  /\ \A d \in Conn \ {c} : lock'[d] = lock[d]

LockMove(c) ==
  \/ lock'[c] <= lock[c] /\ (Owner(c)' => Owner(c))
  \/ lock'[c] = EXCLUSIVE_LOCK /\ \A d \in Conn \ {c} : lock[d] = NO_LOCK
  \/ /\ lock'[c] = SHARED_LOCK /\ \A d \in Conn \ {c} : lock[d] < PENDING_LOCK
     /\ Vfs = "vms" => \A d \in Conn \ {c} : lock[d] <= SHARED_LOCK
  \/ /\ lock'[c] = RESERVED_LOCK /\ lock[c] = SHARED_LOCK
     /\ \A d \in Conn \ {c} : ~Owner(d)
     /\ Vfs = "vms" => \A d \in Conn \ {c} : lock[d] = NO_LOCK
  \/ /\ lock'[c] = PENDING_LOCK /\ Vfs = "unix"
     /\ \A d \in Conn \ {c} : lock[d] < PENDING_LOCK
     /\ Owner(c)' => Owner(c)

\* What the invariants say at c, in the form in which the proofs use them.
Here(c) ==
  /\ Types /\ LocksOK /\ StateOK(pager[c], lock[c]) /\ lock[c] \in 0..4
  /\ pager[c].eState \in EState /\ pager[c].pc \in PCs /\ pager[c].jfd \in Jfds

HotHere(c) ==
  /\ Types /\ LocksOK /\ StateOK(pager[c], lock[c]) /\ lock[c] \in 0..4
  /\ pager[c].eState \in EState /\ pager[c].pc \in PCs /\ pager[c].jfd \in Jfds
  /\ HotAt(c) /\ pager[c].mem \in Seq(SlotSet) /\ PagerOK(pager[c])
  /\ pager[c].journalOff \in Nat /\ pager[c].journalHdr \in Nat
  /\ jrnl \in JournalSet /\ jrnl.slot \in Seq(SlotSet) /\ (jrnl.exists \/ jrnl.slot = <<>>)

SyncHere(c) ==
  /\ Types /\ LocksOK /\ StateOK(pager[c], lock[c]) /\ lock[c] \in 0..4
  /\ pager[c].eState \in EState /\ pager[c].pc \in PCs /\ pager[c].jfd \in Jfds
  /\ SyncAt(c) /\ jrnl \in JournalSet
  /\ pager[c].journalOff \in Nat /\ pager[c].journalHdr \in Nat

=============================================================================
