---------------------------- MODULE UnixShmProofs ----------------------------
(***************************************************************************)
(* Proofs about UnixShm, for any set of processes, any number of           *)
(* connections in each and any number of locks.                            *)
(***************************************************************************)
EXTENDS UnixShm, FiniteSetTheorems, TLAPS

Byte == Lock \cup {UNIX_SHM_DMS}

Shm == [open : BOOLEAN, sharedMask : SUBSET Lock, exclMask : SUBSET Lock]

ShmNode == [at : {"none", "truncate", "dms", "ready"}, nRef : Nat, opener : Conn \cup {<<>>}]

(* The type of the state.                                                  *)
TypeOK ==
  /\ posix \in [Proc -> [Byte -> {"none", "read", "write"}]]
  /\ node \in [Proc -> ShmNode]
  /\ conn \in [Conn -> Shm]

(* The kernel's part: a write lock excludes the other processes.           *)
KernelExcludes ==
  \A p, q \in Proc, i \in Byte : p # q /\ posix[p][i] = "write" => posix[q][i] = "none"

(* What the mask of a connection says, its process holds.  So siblings     *)
(* cannot have one lock both shared and exclusive.                         *)
MasksBacked ==
  \A f \in Conn :
     /\ \A i \in conn[f].exclMask : posix[ProcOf(f)][i] = "write"
     /\ \A i \in conn[f].sharedMask : posix[ProcOf(f)][i] = "read"

(* What the kernel does not see: exclusive locks of siblings.              *)
SiblingsExclude ==
  \A f, g \in Conn :
     f # g /\ ProcOf(f) = ProcOf(g) => conn[f].exclMask \cap conn[g].exclMask = {}

(* A connection that is not mapped holds nothing.                          *)
UnmappedHoldsNothing ==
  \A f \in Conn : ~conn[f].open => conn[f].exclMask = {} /\ conn[f].sharedMask = {}

(* The dead-man switch follows the life of the node.                       *)
NodeOK ==
  /\ \A p \in Proc :
       /\ node[p].at = "truncate" => posix[p][UNIX_SHM_DMS] = "write"
       /\ node[p].at = "ready" => posix[p][UNIX_SHM_DMS] = "read"
       /\ node[p].at \in {"truncate", "dms"} =>
            node[p].opener \in Conn /\ ProcOf(node[p].opener) = p
  /\ \A f \in Conn : conn[f].open => node[ProcOf(f)].at = "ready"

Mapped(p) == {f \in Conn : ProcOf(f) = p /\ conn[f].open}

(* nRef counts the connections that use the node.                          *)
Counted ==
  \A p \in Proc : node[p].at = "ready" =>
     IsFiniteSet(Mapped(p)) /\ node[p].nRef = Cardinality(Mapped(p))

(* The inductive invariant.                                                *)
IInv ==
  /\ TypeOK /\ KernelExcludes /\ MasksBacked /\ SiblingsExclude
  /\ UnmappedHoldsNothing /\ NodeOK /\ Counted

-----------------------------------------------------------------------------
(* The dead-man switch is none of the locks of xShmLock().                 *)
LEMMA SwitchIsNoLock ==
  ASSUME NLock \in Nat
  PROVE  UNIX_SHM_DMS \notin Lock
BY DEF UNIX_SHM_DMS, Lock

(* The parts of a connection's name.                                       *)
LEMMA ProcOfConn ==
  \A f \in Conn : ProcOf(f) \in Proc
BY DEF Conn, ProcOf

(* The kernel's table after process p has set the bytes of mask to type.   *)
SetEffect(p, mask, type) ==
  /\ posix' \in [Proc -> [Byte -> {"none", "read", "write"}]]
  /\ \A i \in Byte : posix'[p][i] = IF i \in mask THEN type ELSE posix[p][i]
  /\ \A q \in Proc, i \in Byte : q # p => posix'[q][i] = posix[q][i]

(* fcntl() has that effect.                                                *)
LEMMA SetHasEffect ==
  ASSUME TypeOK, NEW p \in Proc, NEW mask \in SUBSET Byte,
         NEW type \in {"none", "read", "write"}, Set(p, mask, type)
  PROVE  SetEffect(p, mask, type)
<1>1. posix' = [posix EXCEPT ![p] = [i \in DOMAIN posix[p] |->
                  IF i \in mask THEN type ELSE posix[p][i]]]
  BY DEF Set
<1>2. posix[p] \in [Byte -> {"none", "read", "write"}]
  BY DEF TypeOK
<1> DEFINE new == [i \in Byte |-> IF i \in mask THEN type ELSE posix[p][i]]
<1>3. new \in [Byte -> {"none", "read", "write"}]
  BY <1>2
<1>4. posix' = [posix EXCEPT ![p] = new]
  BY <1>1, <1>2
<1>5. \A i \in Byte : new[i] = IF i \in mask THEN type ELSE posix[p][i]
  OBVIOUS
<1> HIDE DEF new
<1> QED
  BY <1>3, <1>4, <1>5 DEF TypeOK, SetEffect

(* A lock the other processes leave room for keeps the kernel's promise.   *)
LEMMA SetKeepsKernel ==
  ASSUME KernelExcludes, NEW p \in Proc, NEW mask \in SUBSET Byte,
         NEW type \in {"none", "read", "write"}, SetEffect(p, mask, type),
         type = "none" \/ MaySet(p, mask, type)
  PROVE  KernelExcludes'
BY DEF KernelExcludes, SetEffect, MaySet

(* Closing the file gives up every lock of the process.                    *)
LEMMA UnlockedHasEffect ==
  ASSUME TypeOK, NEW p \in Proc, posix' = [posix EXCEPT ![p] = Unlocked]
  PROVE  SetEffect(p, Byte, "none")
BY DEF TypeOK, SetEffect, Unlocked, Byte

-----------------------------------------------------------------------------
(* The initial state satisfies the invariant.                              *)
LEMMA InitIInv == Init => IInv
<1> SUFFICES ASSUME Init PROVE IInv
  OBVIOUS
<1> USE DEF Init, Unlocked, Unmapped, NoNode
<1>1. TypeOK
  BY DEF TypeOK, Byte, Shm, ShmNode
<1>2. KernelExcludes /\ MasksBacked
  BY ProcOfConn DEF KernelExcludes, MasksBacked, Byte
<1>3. SiblingsExclude /\ UnmappedHoldsNothing
  BY DEF SiblingsExclude, UnmappedHoldsNothing
<1>4. NodeOK /\ Counted
  BY ProcOfConn DEF NodeOK, Counted
<1> QED
  BY <1>1, <1>2, <1>3, <1>4 DEF IInv

-----------------------------------------------------------------------------
(* The connections after f's unixShm has become r.                         *)
ConnEffect(f, r) ==
  /\ conn' \in [Conn -> Shm]
  /\ conn'[f] = r
  /\ \A g \in Conn : g # f => conn'[g] = conn[g]

(* Marking a connection as open.                                           *)
LEMMA OpenHasEffect ==
  ASSUME TypeOK, NEW f \in Conn, conn' = [conn EXCEPT ![f].open = TRUE]
  PROVE  ConnEffect(f, [conn[f] EXCEPT !.open = TRUE])
BY DEF TypeOK, ConnEffect, Shm

(* Who uses a node after a connection joined it.                           *)
LEMMA MappedAfterOpen ==
  ASSUME TypeOK, NEW f \in Conn, ConnEffect(f, [conn[f] EXCEPT !.open = TRUE])
  PROVE  /\ Mapped(ProcOf(f))' = Mapped(ProcOf(f)) \cup {f}
         /\ \A p \in Proc : p # ProcOf(f) => Mapped(p)' = Mapped(p)
<1>1. \A g \in Conn : g # f => conn'[g] = conn[g]
  BY DEF ConnEffect
<1>2. conn'[f].open
  BY DEF ConnEffect, TypeOK, Shm
<1> QED
  BY <1>1, <1>2 DEF Mapped

(* A connection joins the node of its process.                             *)
LEMMA JoinStep ==
  ASSUME IInv, NEW f \in Conn, JoinNode(f)
  PROVE  IInv'
<1> DEFINE p == ProcOf(f)
<1> USE ProcOfConn DEF IInv
<1>1. /\ ~conn[f].open /\ node[p].at = "ready" /\ UNCHANGED posix
      /\ node' = [node EXCEPT ![p].nRef = node[p].nRef + 1]
  BY DEF JoinNode
<1>2. ConnEffect(f, [conn[f] EXCEPT !.open = TRUE])
  BY OpenHasEffect DEF JoinNode
<1>3. /\ node' \in [Proc -> ShmNode]
      /\ node'[p].at = "ready" /\ node'[p].nRef = node[p].nRef + 1
      /\ \A q \in Proc : q # p => node'[q] = node[q]
  <2>1. p \in Proc /\ node[p] \in ShmNode
    BY DEF TypeOK
  <2>2. [node[p] EXCEPT !.nRef = node[p].nRef + 1] \in ShmNode
    BY <2>1 DEF ShmNode
  <2> QED
    BY <1>1, <2>1, <2>2 DEF TypeOK, ShmNode
<1>4. /\ conn'[f].open
      /\ \A g \in Conn : /\ conn'[g].exclMask = conn[g].exclMask
                         /\ conn'[g].sharedMask = conn[g].sharedMask
                         /\ ~conn'[g].open => ~conn[g].open
  BY <1>2 DEF TypeOK, ConnEffect, Shm
<1>5. TypeOK' /\ KernelExcludes'
  BY <1>1, <1>2, <1>3 DEF TypeOK, KernelExcludes, ConnEffect
<1>6. MasksBacked' /\ SiblingsExclude' /\ UnmappedHoldsNothing'
  BY <1>1, <1>4 DEF MasksBacked, SiblingsExclude, UnmappedHoldsNothing
<1>7. NodeOK'
  BY <1>1, <1>2, <1>3, <1>4 DEF NodeOK, ConnEffect
<1>8. Counted'
  <2>1. /\ Mapped(p)' = Mapped(p) \cup {f} /\ f \notin Mapped(p)
        /\ \A q \in Proc : q # p => Mapped(q)' = Mapped(q)
    BY <1>1, <1>2, MappedAfterOpen DEF Mapped
  <2>2. IsFiniteSet(Mapped(p)) /\ node[p].nRef = Cardinality(Mapped(p))
    BY <1>1 DEF Counted
  <2>3. IsFiniteSet(Mapped(p)') /\ node'[p].nRef = Cardinality(Mapped(p)')
    BY <1>3, <2>1, <2>2, FS_AddElement
  <2> QED
    BY <1>3, <2>1, <2>3 DEF Counted
<1> QED
  BY <1>5, <1>6, <1>7, <1>8

(* A node with no connection in use.                                       *)
LEMMA NotReadyUnused ==
  ASSUME IInv, NEW p \in Proc, node[p].at # "ready"
  PROVE  \A f \in Conn : ProcOf(f) = p =>
            ~conn[f].open /\ conn[f].exclMask = {} /\ conn[f].sharedMask = {}
BY DEF IInv, NodeOK, UnmappedHoldsNothing

(* Setting the dead-man switch leaves the locks of xShmLock() alone.       *)
LEMMA SwitchStep ==
  ASSUME NLock \in Nat, IInv, NEW p \in Proc, NEW type \in {"none", "read", "write"},
         SetEffect(p, {UNIX_SHM_DMS}, type), MaySet(p, {UNIX_SHM_DMS}, type)
  PROVE  /\ KernelExcludes'
         /\ posix'[p][UNIX_SHM_DMS] = type
         /\ \A q \in Proc : q # p => posix'[q][UNIX_SHM_DMS] = posix[q][UNIX_SHM_DMS]
         /\ \A q \in Proc, i \in Lock : posix'[q][i] = posix[q][i]
<1>1. KernelExcludes'
  BY SetKeepsKernel DEF IInv, Byte
<1> QED
  BY <1>1, SwitchIsNoLock DEF SetEffect, Byte

(* A process opens its node and tries the dead-man switch.                 *)
LEMMA OpenStep ==
  ASSUME NLock \in Nat, IInv, NEW f \in Conn, OpenNode(f)
  PROVE  IInv'
<1> DEFINE p == ProcOf(f)
           first == MaySet(p, {UNIX_SHM_DMS}, "write")
<1> USE ProcOfConn DEF IInv
<1>1. /\ node[p].at = "none" /\ UNCHANGED conn
      /\ node' = [node EXCEPT ![p].opener = f, ![p].at = IF first THEN "truncate" ELSE "dms"]
  BY DEF OpenNode
<1>2. /\ node' \in [Proc -> ShmNode]
      /\ node'[p].at = (IF first THEN "truncate" ELSE "dms") /\ node'[p].opener = f
      /\ \A q \in Proc : q # p => node'[q] = node[q]
  BY <1>1 DEF TypeOK, ShmNode
<1>3. /\ posix' \in [Proc -> [Byte -> {"none", "read", "write"}]]
      /\ KernelExcludes'
      /\ first => posix'[p][UNIX_SHM_DMS] = "write"
      /\ \A q \in Proc : q # p => posix'[q][UNIX_SHM_DMS] = posix[q][UNIX_SHM_DMS]
      /\ \A q \in Proc, i \in Lock : posix'[q][i] = posix[q][i]
  <2>1. CASE first
    <3>1. Set(p, {UNIX_SHM_DMS}, "write")
      BY <2>1 DEF OpenNode
    <3>2. SetEffect(p, {UNIX_SHM_DMS}, "write")
      BY <3>1, SetHasEffect DEF Byte
    <3> QED
      BY <2>1, <3>2, SwitchStep DEF SetEffect
  <2>2. CASE ~first
    BY <2>2 DEF OpenNode, TypeOK, KernelExcludes
  <2> QED
    BY <2>1, <2>2
<1>4. TypeOK'
  BY <1>1, <1>2, <1>3 DEF TypeOK
<1>5. MasksBacked' /\ SiblingsExclude' /\ UnmappedHoldsNothing'
  BY <1>1, <1>3 DEF TypeOK, Shm, MasksBacked, SiblingsExclude, UnmappedHoldsNothing
<1>6. NodeOK'
  BY <1>1, <1>2, <1>3 DEF NodeOK
<1>7. Counted'
  BY <1>1, <1>2 DEF Counted, Mapped
<1> QED
  BY <1>3, <1>4, <1>5, <1>6, <1>7

(* The first process empties the file.                                     *)
LEMMA TruncateStep ==
  ASSUME IInv, NEW p \in Proc, Truncate(p)
  PROVE  IInv'
<1> USE ProcOfConn DEF IInv
<1>1. node[p].at = "truncate" /\ UNCHANGED <<posix, conn>>
  BY DEF Truncate
<1>2. /\ node' \in [Proc -> ShmNode]
      /\ node'[p].at = "dms" /\ node'[p].opener = node[p].opener
      /\ \A q \in Proc : q # p => node'[q] = node[q]
  BY DEF Truncate, TypeOK, ShmNode
<1>3. TypeOK' /\ KernelExcludes' /\ MasksBacked' /\ SiblingsExclude' /\ UnmappedHoldsNothing'
  BY <1>1, <1>2 DEF TypeOK, KernelExcludes, MasksBacked, SiblingsExclude, UnmappedHoldsNothing
<1>4. NodeOK'
  BY <1>1, <1>2 DEF NodeOK
<1>5. Counted'
  BY <1>1, <1>2 DEF Counted, Mapped
<1> QED
  BY <1>3, <1>4, <1>5

(* Giving up every lock and closing the file.                              *)
LEMMA CloseStep ==
  ASSUME IInv, NEW p \in Proc,
         posix' = [posix EXCEPT ![p] = Unlocked], node' = [node EXCEPT ![p] = NoNode],
         conn' \in [Conn -> Shm],
         \A f \in Conn : conn'[f] = IF ProcOf(f) = p THEN Unmapped ELSE conn[f]
  PROVE  IInv'
<1> USE ProcOfConn DEF IInv
<1>1. SetEffect(p, Byte, "none")
  BY UnlockedHasEffect
<1>2. KernelExcludes'
  BY <1>1, SetKeepsKernel
<1>3. \A q \in Proc, i \in Byte : posix'[q][i] = IF q = p THEN "none" ELSE posix[q][i]
  BY <1>1 DEF SetEffect
<1>4. /\ node' \in [Proc -> ShmNode] /\ node'[p].at = "none"
      /\ \A q \in Proc : q # p => node'[q] = node[q]
  BY DEF TypeOK, ShmNode, NoNode
<1>5. TypeOK'
  BY <1>1, <1>4 DEF TypeOK, SetEffect
<1>6. /\ \A f \in Conn : ProcOf(f) # p => conn'[f] = conn[f]
      /\ \A f \in Conn : ProcOf(f) = p =>
            ~conn'[f].open /\ conn'[f].exclMask = {} /\ conn'[f].sharedMask = {}
  BY DEF Unmapped
<1>7. MasksBacked'
  BY <1>3, <1>6 DEF MasksBacked, TypeOK, Shm, Byte
<1>8. SiblingsExclude' /\ UnmappedHoldsNothing'
  BY <1>6 DEF SiblingsExclude, UnmappedHoldsNothing
<1>9. NodeOK'
  <2>1. UNIX_SHM_DMS \in Byte
    BY DEF Byte
  <2> QED
    BY <1>3, <1>4, <1>6, <2>1 DEF NodeOK
<1>10. Counted'
  <2>1. \A q \in Proc : q # p => Mapped(q)' = Mapped(q)
    BY <1>6 DEF Mapped
  <2> QED
    BY <1>4, <2>1 DEF Counted
<1> QED
  BY <1>2, <1>5, <1>7, <1>8, <1>9, <1>10

(* The process is killed.                                                  *)
LEMMA KillStep ==
  ASSUME IInv, NEW p \in Proc, Kill(p)
  PROVE  IInv'
<1>1. /\ conn' \in [Conn -> Shm]
      /\ \A f \in Conn : conn'[f] = IF ProcOf(f) = p THEN Unmapped ELSE conn[f]
  BY DEF Kill, IInv, TypeOK, Unmapped, Shm
<1> QED
  BY <1>1, CloseStep DEF Kill

(* A process takes the dead-man switch for good, or gives up.              *)
LEMMA TakeSwitchStep ==
  ASSUME NLock \in Nat, IInv, NEW p \in Proc, TakeSwitch(p)
  PROVE  IInv'
<1> USE ProcOfConn DEF IInv
<1> DEFINE f == node[p].opener
<1>1. node[p].at = "dms" /\ f \in Conn /\ ProcOf(f) = p
  BY DEF TakeSwitch, NodeOK
<1>2. \A g \in Conn : ProcOf(g) = p =>
         ~conn[g].open /\ conn[g].exclMask = {} /\ conn[g].sharedMask = {}
  BY <1>1, NotReadyUnused
<1>3. CASE MaySet(p, {UNIX_SHM_DMS}, "read")
  <2>1. /\ Set(p, {UNIX_SHM_DMS}, "read")
        /\ node' = [node EXCEPT ![p] = [at |-> "ready", nRef |-> 1, opener |-> <<>>]]
        /\ conn' = [conn EXCEPT ![f].open = TRUE]
    BY <1>3 DEF TakeSwitch
  <2>2. SetEffect(p, {UNIX_SHM_DMS}, "read")
    BY <2>1, SetHasEffect DEF Byte
  <2>3. /\ KernelExcludes'
        /\ posix'[p][UNIX_SHM_DMS] = "read"
        /\ \A q \in Proc : q # p => posix'[q][UNIX_SHM_DMS] = posix[q][UNIX_SHM_DMS]
        /\ \A q \in Proc, i \in Lock : posix'[q][i] = posix[q][i]
    BY <1>3, <2>2, SwitchStep
  <2>4. /\ node' \in [Proc -> ShmNode] /\ node'[p].at = "ready" /\ node'[p].nRef = 1
        /\ \A q \in Proc : q # p => node'[q] = node[q]
    BY <2>1 DEF TypeOK, ShmNode
  <2>5. ConnEffect(f, [conn[f] EXCEPT !.open = TRUE])
    BY <1>1, <2>1, OpenHasEffect
  <2>6. /\ conn'[f].open
        /\ \A g \in Conn : /\ conn'[g].exclMask = conn[g].exclMask
                           /\ conn'[g].sharedMask = conn[g].sharedMask
                           /\ g # f => conn'[g].open = conn[g].open
    BY <1>1, <2>5 DEF TypeOK, ConnEffect, Shm
  <2>7. TypeOK'
    BY <2>2, <2>4, <2>5 DEF TypeOK, ConnEffect, SetEffect
  <2>8. MasksBacked'
    <3>1. \A g \in Conn : conn[g].exclMask \subseteq Lock /\ conn[g].sharedMask \subseteq Lock
      BY DEF TypeOK, Shm
    <3> QED
      BY <2>3, <2>6, <3>1 DEF MasksBacked
  <2>9. SiblingsExclude' /\ UnmappedHoldsNothing'
    BY <1>1, <2>6 DEF SiblingsExclude, UnmappedHoldsNothing
  <2>10. NodeOK'
    BY <1>1, <2>3, <2>4, <2>6 DEF NodeOK
  <2>11. Counted'
    <3>1. /\ Mapped(p)' = Mapped(p) \cup {f}
          /\ \A q \in Proc : q # p => Mapped(q)' = Mapped(q)
      BY <1>1, <2>5, MappedAfterOpen
    <3>2. Mapped(p)' = {f}
      BY <1>2, <3>1 DEF Mapped
    <3>3. IsFiniteSet(Mapped(p)') /\ node'[p].nRef = Cardinality(Mapped(p)')
      BY <2>4, <3>2, FS_Singleton
    <3> QED
      BY <2>4, <3>1, <3>3 DEF Counted
  <2> QED
    BY <2>3, <2>7, <2>8, <2>9, <2>10, <2>11
<1>4. CASE ~MaySet(p, {UNIX_SHM_DMS}, "read")
  <2>1. /\ posix' = [posix EXCEPT ![p] = Unlocked]
        /\ node' = [node EXCEPT ![p] = NoNode] /\ UNCHANGED conn
    BY <1>4 DEF TakeSwitch
  <2>2. \A g \in Conn : ProcOf(g) = p => conn[g] = Unmapped
    BY <1>2 DEF TypeOK, Shm, Unmapped
  <2> QED
    BY <2>1, <2>2, CloseStep DEF TypeOK
<1> QED
  BY <1>3, <1>4

(* A connection unmaps; the last of its process closes the file.           *)
LEMMA UnmapStep ==
  ASSUME IInv, NEW f \in Conn, unixShmUnmap(f)
  PROVE  IInv'
<1> DEFINE p == ProcOf(f)
<1> USE ProcOfConn DEF IInv
<1>1. /\ conn[f].open /\ conn[f].exclMask = {} /\ conn[f].sharedMask = {}
      /\ conn' = [conn EXCEPT ![f] = Unmapped]
  BY DEF unixShmUnmap, Unmapped
<1>2. node[p].at = "ready" /\ p \in Proc /\ f \in Mapped(p)
  BY <1>1 DEF NodeOK, Mapped
<1>3. IsFiniteSet(Mapped(p)) /\ node[p].nRef = Cardinality(Mapped(p))
  BY <1>2 DEF Counted
<1>4. ConnEffect(f, Unmapped)
  BY <1>1 DEF TypeOK, ConnEffect, Shm, Unmapped
<1>5. CASE node[p].nRef = 1
  <2>1. posix' = [posix EXCEPT ![p] = Unlocked] /\ node' = [node EXCEPT ![p] = NoNode]
    BY <1>5 DEF unixShmUnmap
  <2>2. Mapped(p) = {f}
    <3>1. PICK g : Mapped(p) = {g}
      BY <1>3, <1>5, FS_Singleton
    <3> QED
      BY <1>2, <3>1
  <2>3. \A g \in Conn : ProcOf(g) = p /\ g # f =>
           ~conn[g].open /\ conn[g].exclMask = {} /\ conn[g].sharedMask = {}
    BY <2>2 DEF Mapped, UnmappedHoldsNothing
  <2>4. \A g \in Conn : ProcOf(g) = p /\ g # f => conn[g] = Unmapped
    BY <2>3 DEF TypeOK, Shm, Unmapped
  <2>5. /\ conn' \in [Conn -> Shm]
        /\ \A g \in Conn : conn'[g] = IF ProcOf(g) = p THEN Unmapped ELSE conn[g]
    BY <1>4, <2>4 DEF ConnEffect
  <2> QED
    BY <1>2, <2>1, <2>5, CloseStep
<1>6. CASE node[p].nRef # 1
  <2>1. UNCHANGED posix /\ node' = [node EXCEPT ![p].nRef = node[p].nRef - 1]
    BY <1>6 DEF unixShmUnmap
  <2>2. Mapped(p)' = Mapped(p) \ {f} /\ \A q \in Proc : q # p => Mapped(q)' = Mapped(q)
    <3>1. ~conn'[f].open /\ \A g \in Conn : g # f => conn'[g] = conn[g]
      BY <1>4 DEF ConnEffect, Unmapped
    <3> QED
      BY <3>1 DEF Mapped
  <2>3. /\ IsFiniteSet(Mapped(p)') /\ Cardinality(Mapped(p)') \in Nat
        /\ Cardinality(Mapped(p)') = node[p].nRef - 1
    BY <1>2, <1>3, <2>2, FS_RemoveElement, FS_CardinalityType
  <2>4. /\ node' \in [Proc -> ShmNode]
        /\ node'[p].at = "ready" /\ node'[p].nRef = node[p].nRef - 1
        /\ \A q \in Proc : q # p => node'[q] = node[q]
    <3>1. node[p] \in ShmNode
      BY <1>2 DEF TypeOK
    <3>2. node[p].nRef - 1 \in Nat
      BY <2>3
    <3>3. [node[p] EXCEPT !.nRef = node[p].nRef - 1] \in ShmNode
      BY <3>1, <3>2 DEF ShmNode
    <3> QED
      BY <1>2, <2>1, <3>1, <3>3 DEF TypeOK, ShmNode
  <2>5. TypeOK' /\ KernelExcludes'
    BY <1>4, <2>1, <2>4 DEF TypeOK, KernelExcludes, ConnEffect
  <2>6. /\ \A g \in Conn : /\ conn'[g].exclMask = conn[g].exclMask
                           /\ conn'[g].sharedMask = conn[g].sharedMask
        /\ \A g \in Conn : g # f => conn'[g].open = conn[g].open
        /\ ~conn'[f].open
    BY <1>1, <1>4 DEF ConnEffect, Unmapped
  <2>7. MasksBacked' /\ SiblingsExclude'
    BY <2>1, <2>6 DEF MasksBacked, SiblingsExclude
  <2>8. UnmappedHoldsNothing'
    BY <1>1, <2>6 DEF UnmappedHoldsNothing
  <2>9. NodeOK'
    BY <2>1, <2>4, <2>6 DEF NodeOK
  <2>10. Counted'
    BY <2>2, <2>3, <2>4 DEF Counted
  <2> QED
    BY <2>5, <2>7, <2>8, <2>9, <2>10
<1> QED
  BY <1>5, <1>6

-----------------------------------------------------------------------------
(* xShmLock() changes the masks of one connection, and neither the nodes   *)
(* nor the dead-man switches.  Given that the kernel still excludes, that  *)
(* the masks are backed and siblings exclude, the rest of the invariant    *)
(* follows.                                                                *)
LEMMA MaskStep ==
  ASSUME NLock \in Nat, IInv, NEW f \in Conn, NEW r \in Shm, ConnEffect(f, r),
         conn[f].open, r.open, UNCHANGED node,
         posix' \in [Proc -> [Byte -> {"none", "read", "write"}]],
         \A q \in Proc : posix'[q][UNIX_SHM_DMS] = posix[q][UNIX_SHM_DMS],
         KernelExcludes', MasksBacked', SiblingsExclude'
  PROVE  IInv'
<1> USE ProcOfConn DEF IInv
<1>1. TypeOK'
  BY DEF TypeOK, ConnEffect
<1>2. /\ \A g \in Conn : conn'[g].open = conn[g].open
      /\ \A g \in Conn : g # f => conn'[g] = conn[g]
  BY DEF ConnEffect, TypeOK, Shm
<1>3. UnmappedHoldsNothing'
  <2>1. conn'[f].open
    BY <1>2
  <2> QED
    BY <1>2, <2>1 DEF UnmappedHoldsNothing
<1>4. NodeOK'
  <2>1. node' = node
    OBVIOUS
  <2>2. /\ \A g \in Conn : conn'[g].open = conn[g].open
        /\ \A q \in Proc : posix'[q][UNIX_SHM_DMS] = posix[q][UNIX_SHM_DMS]
    BY <1>2
  <2>3. NodeOK
    OBVIOUS
  <2> QED
    BY ONLY <2>1, <2>2, <2>3 DEF NodeOK
<1>5. Counted'
  <2>1. \A q \in Proc : Mapped(q)' = Mapped(q)
    BY <1>2 DEF Mapped
  <2> QED
    BY <2>1 DEF Counted
<1> QED
  BY <1>1, <1>3, <1>4, <1>5

(* A mask is a set of locks.                                               *)
LEMMA RangeIsMask ==
  ASSUME NLock \in Nat, NEW mask \in LockRange
  PROVE  mask \in SUBSET Lock
BY DEF LockRange, Lock

(* The siblings of a connection, and what those that hold a lock share.    *)
LEMMA HoldersAreSiblings ==
  ASSUME IInv, NEW f \in Conn, NEW g \in Conn, ProcOf(g) = ProcOf(f),
         conn[g].exclMask # {} \/ conn[g].sharedMask # {}
  PROVE  g \in Siblings(f)
BY DEF Siblings, IInv, UnmappedHoldsNothing

(* A shared lock: the first of the siblings asks the kernel.               *)
LEMMA SharedStep ==
  ASSUME NLock \in Nat, IInv, NEW f \in Conn, NEW i \in Lock, LockShared(f, i)
  PROVE  IInv'
<1> DEFINE p == ProcOf(f)
           r == [conn[f] EXCEPT !.sharedMask = conn[f].sharedMask \cup {i}]
<1> USE ProcOfConn DEF IInv
<1>1. /\ conn[f].open /\ UNCHANGED node
      /\ \A g \in Siblings(f) : i \notin conn[g].exclMask
      /\ conn' = [conn EXCEPT ![f].sharedMask = conn[f].sharedMask \cup {i}]
  BY DEF LockShared
<1>2. /\ r \in Shm /\ r.open = conn[f].open /\ r.exclMask = conn[f].exclMask
      /\ r.sharedMask = conn[f].sharedMask \cup {i}
  BY DEF TypeOK, Shm
<1>3. ConnEffect(f, r)
  BY <1>1, <1>2 DEF TypeOK, ConnEffect
<1> HIDE DEF r
<1>4. \A g \in Conn : ProcOf(g) = p => i \notin conn[g].exclMask
  BY <1>1, HoldersAreSiblings
<1>5. /\ posix' \in [Proc -> [Byte -> {"none", "read", "write"}]]
      /\ KernelExcludes'
      /\ posix'[p][i] = "read"
      /\ \A q \in Proc, j \in Byte : q # p \/ j # i => posix'[q][j] = posix[q][j]
  <2>1. CASE i \in UNION {conn[g].sharedMask : g \in Siblings(f)}
    <3>1. UNCHANGED posix
      BY <2>1 DEF LockShared
    <3>2. PICK g \in Siblings(f) : i \in conn[g].sharedMask
      BY <2>1
    <3>3. posix[p][i] = "read"
      BY <3>2 DEF Siblings, MasksBacked
    <3> QED
      BY <3>1, <3>3 DEF TypeOK, KernelExcludes
  <2>2. CASE i \notin UNION {conn[g].sharedMask : g \in Siblings(f)}
    <3>1. MaySet(p, {i}, "read") /\ Set(p, {i}, "read")
      BY <2>2 DEF LockShared
    <3>2. SetEffect(p, {i}, "read")
      BY <3>1, SetHasEffect DEF Byte
    <3>3. KernelExcludes'
      BY <3>1, <3>2, SetKeepsKernel DEF Byte
    <3> QED
      BY <3>2, <3>3 DEF SetEffect, Byte
  <2> QED
    BY <2>1, <2>2
<1>6. MasksBacked'
  <2>1. ASSUME NEW g \in Conn, NEW j \in conn'[g].exclMask PROVE posix'[ProcOf(g)][j] = "write"
    <3>1. j \in conn[g].exclMask /\ j \in Byte
      BY <1>2, <1>3, <2>1 DEF ConnEffect, TypeOK, Shm, Byte
    <3>2. ProcOf(g) # p \/ j # i
      BY <1>4, <3>1
    <3> QED
      BY <1>5, <3>1, <3>2 DEF MasksBacked
  <2>2. ASSUME NEW g \in Conn, NEW j \in conn'[g].sharedMask PROVE posix'[ProcOf(g)][j] = "read"
    <3>1. j \in conn[g].sharedMask \/ (g = f /\ j = i)
      BY <1>2, <1>3, <2>2 DEF ConnEffect
    <3>2. j \in Byte
      BY <3>1 DEF TypeOK, Shm, Byte
    <3> QED
      BY <1>5, <3>1, <3>2 DEF MasksBacked
  <2> QED
    BY <2>1, <2>2 DEF MasksBacked
<1>7. SiblingsExclude'
  BY <1>2, <1>3 DEF ConnEffect, SiblingsExclude
<1>8. \A q \in Proc : posix'[q][UNIX_SHM_DMS] = posix[q][UNIX_SHM_DMS]
  BY <1>5, SwitchIsNoLock DEF Byte
<1> QED
  BY <1>1, <1>2, <1>3, <1>5, <1>6, <1>7, <1>8, MaskStep

(* An exclusive lock: no sibling may have any of the locks.                *)
LEMMA ExclusiveStep ==
  ASSUME NLock \in Nat, IInv, NEW f \in Conn, NEW mask \in LockRange, LockExclusive(f, mask)
  PROVE  IInv'
<1> DEFINE p == ProcOf(f)
           r == [conn[f] EXCEPT !.exclMask = conn[f].exclMask \cup mask]
<1> USE ProcOfConn DEF IInv
<1>1. /\ conn[f].open /\ UNCHANGED node /\ MaySet(p, mask, "write") /\ Set(p, mask, "write")
      /\ \A g \in Siblings(f) : (conn[g].exclMask \cup conn[g].sharedMask) \cap mask = {}
      /\ conn' = [conn EXCEPT ![f].exclMask = conn[f].exclMask \cup mask]
  BY DEF LockExclusive
<1>2. mask \in SUBSET Lock /\ mask \in SUBSET Byte
  BY RangeIsMask DEF Byte
<1>3. /\ r \in Shm /\ r.open = conn[f].open /\ r.sharedMask = conn[f].sharedMask
      /\ r.exclMask = conn[f].exclMask \cup mask
  BY <1>2 DEF TypeOK, Shm
<1>4. ConnEffect(f, r)
  BY <1>1, <1>3 DEF TypeOK, ConnEffect
<1> HIDE DEF r
<1>5. ASSUME NEW g \in Conn, ProcOf(g) = p, NEW j \in mask
      PROVE  j \notin conn[g].exclMask /\ j \notin conn[g].sharedMask
  BY <1>1, <1>5, HoldersAreSiblings
<1>6. SetEffect(p, mask, "write")
  BY <1>1, <1>2, SetHasEffect
<1>7. KernelExcludes'
  BY <1>1, <1>2, <1>6, SetKeepsKernel
<1>8. /\ \A j \in mask : posix'[p][j] = "write"
      /\ \A q \in Proc, j \in Byte : q # p \/ j \notin mask => posix'[q][j] = posix[q][j]
  BY <1>2, <1>6 DEF SetEffect
<1>9. MasksBacked'
  <2>1. ASSUME NEW g \in Conn, NEW j \in conn'[g].exclMask PROVE posix'[ProcOf(g)][j] = "write"
    <3>1. j \in conn[g].exclMask \/ (g = f /\ j \in mask)
      BY <1>3, <1>4, <2>1 DEF ConnEffect
    <3>2. j \in Byte
      BY <1>2, <3>1 DEF TypeOK, Shm, Byte
    <3> QED
      BY <1>5, <1>8, <3>1, <3>2 DEF MasksBacked
  <2>2. ASSUME NEW g \in Conn, NEW j \in conn'[g].sharedMask PROVE posix'[ProcOf(g)][j] = "read"
    <3>1. j \in conn[g].sharedMask
      BY <1>3, <1>4, <2>2 DEF ConnEffect
    <3>2. j \in Byte
      BY <3>1 DEF TypeOK, Shm, Byte
    <3> QED
      BY <1>5, <1>8, <3>1, <3>2 DEF MasksBacked
  <2> QED
    BY <2>1, <2>2 DEF MasksBacked
<1>10. SiblingsExclude'
  BY <1>3, <1>4, <1>5 DEF ConnEffect, SiblingsExclude
<1>11. \A q \in Proc : posix'[q][UNIX_SHM_DMS] = posix[q][UNIX_SHM_DMS]
  BY <1>2, <1>8, SwitchIsNoLock DEF Byte
<1> QED
  BY <1>1, <1>3, <1>4, <1>6, <1>7, <1>9, <1>10, <1>11, MaskStep DEF SetEffect

(* A lock is given back: the last of the siblings tells the kernel.        *)
LEMMA UnlockStep ==
  ASSUME NLock \in Nat, IInv, NEW f \in Conn, NEW mask \in LockRange, Unlock(f, mask)
  PROVE  IInv'
<1> DEFINE p == ProcOf(f)
           r == [conn[f] EXCEPT !.sharedMask = conn[f].sharedMask \ mask,
                                !.exclMask = conn[f].exclMask \ mask]
           allMask == UNION {conn[g].sharedMask : g \in Siblings(f) \ {f}}
<1> USE ProcOfConn DEF IInv
<1>1. /\ conn[f].open /\ UNCHANGED node
      /\ mask \subseteq conn[f].sharedMask \/ mask \subseteq conn[f].exclMask
      /\ conn' = [conn EXCEPT ![f].sharedMask = conn[f].sharedMask \ mask,
                              ![f].exclMask = conn[f].exclMask \ mask]
  BY DEF Unlock
<1>2. mask \in SUBSET Lock /\ mask \in SUBSET Byte
  BY RangeIsMask DEF Byte
<1>3. /\ r \in Shm /\ r.open = conn[f].open /\ r.sharedMask = conn[f].sharedMask \ mask
      /\ r.exclMask = conn[f].exclMask \ mask
  BY <1>2 DEF TypeOK, Shm
<1>4. ConnEffect(f, r)
  BY <1>1, <1>3 DEF TypeOK, ConnEffect, Shm
<1> HIDE DEF r
<1>5. /\ posix' \in [Proc -> [Byte -> {"none", "read", "write"}]]
      /\ KernelExcludes'
      /\ \A q \in Proc, j \in Byte :
            q # p \/ j \notin mask \/ mask \cap allMask # {} => posix'[q][j] = posix[q][j]
  <2>1. CASE mask \cap allMask = {}
    <3>1. SetEffect(p, mask, "none")
      BY <1>2, <2>1, SetHasEffect DEF Unlock
    <3>2. KernelExcludes'
      BY <1>2, <3>1, SetKeepsKernel
    <3> HIDE DEF allMask
    <3> QED
      BY <2>1, <3>1, <3>2 DEF SetEffect
  <2>2. CASE mask \cap allMask # {}
    BY <2>2 DEF Unlock, TypeOK, KernelExcludes
  <2> QED
    BY <2>1, <2>2
<1>6. ASSUME NEW g \in Conn, g # f, ProcOf(g) = p, mask \cap allMask = {}
      PROVE  conn[g].exclMask \cap mask = {} /\ conn[g].sharedMask \cap mask = {}
  <2>1. conn[g].sharedMask \cap mask = {}
    <3>1. conn[g].sharedMask # {} => g \in Siblings(f) \ {f}
      BY <1>6, HoldersAreSiblings
    <3> QED
      BY <1>6, <3>1
  <2>2. CASE mask \subseteq conn[f].exclMask
    BY <1>6, <2>1, <2>2 DEF SiblingsExclude
  <2>3. CASE mask \subseteq conn[f].sharedMask
    <3>1. \A j \in mask : posix[p][j] = "read"
      BY <2>3 DEF MasksBacked
    <3>2. \A j \in conn[g].exclMask : posix[p][j] = "write"
      BY <1>6 DEF MasksBacked
    <3> QED
      BY <2>1, <3>1, <3>2
  <2> QED
    BY <1>1, <2>2, <2>3
<1>7. ASSUME NEW g \in Conn, NEW j \in conn'[g].exclMask \cup conn'[g].sharedMask
      PROVE  posix'[ProcOf(g)][j] = posix[ProcOf(g)][j]
  <2>1. j \in Byte
    BY <1>4, <1>7 DEF ConnEffect, Shm, Byte
  <2>2. CASE g = f
    BY <1>3, <1>4, <1>5, <1>7, <2>1, <2>2 DEF ConnEffect
  <2>3. CASE g # f
    BY <1>4, <1>5, <1>6, <1>7, <2>1, <2>3 DEF ConnEffect
  <2> QED
    BY <2>2, <2>3
<1>8. \A g \in Conn : /\ conn'[g].exclMask \subseteq conn[g].exclMask
                      /\ conn'[g].sharedMask \subseteq conn[g].sharedMask
  BY <1>3, <1>4 DEF ConnEffect
<1>9. MasksBacked'
  BY <1>7, <1>8 DEF MasksBacked
<1>10. SiblingsExclude'
  BY <1>8 DEF SiblingsExclude
<1>11. \A q \in Proc : posix'[q][UNIX_SHM_DMS] = posix[q][UNIX_SHM_DMS]
  BY <1>2, <1>5, SwitchIsNoLock DEF Byte
<1> QED
  BY <1>1, <1>3, <1>4, <1>5, <1>9, <1>10, <1>11, MaskStep

-----------------------------------------------------------------------------
(* The invariant holds in every reachable state.                           *)
THEOREM Invariance ==
  ASSUME NLock \in Nat
  PROVE  Spec => []IInv
<1>1. Init => IInv
  BY InitIInv
<1>2. IInv /\ [Next]_vars => IInv'
  <2> SUFFICES ASSUME IInv, [Next]_vars PROVE IInv'
    OBVIOUS
  <2>1. ASSUME NEW f \in Conn, JoinNode(f) \/ OpenNode(f) \/ unixShmUnmap(f) PROVE IInv'
    BY <2>1, JoinStep, OpenStep, UnmapStep
  <2>2. ASSUME NEW f \in Conn, NEW i \in Lock, LockShared(f, i) PROVE IInv'
    BY <2>2, SharedStep
  <2>3. ASSUME NEW f \in Conn, NEW mask \in LockRange,
               LockExclusive(f, mask) \/ Unlock(f, mask)
        PROVE  IInv'
    BY <2>3, ExclusiveStep, UnlockStep
  <2>4. ASSUME NEW p \in Proc, Truncate(p) \/ TakeSwitch(p) \/ Kill(p) PROVE IInv'
    BY <2>4, TruncateStep, TakeSwitchStep, KillStep
  <2>5. CASE UNCHANGED vars
    <3>1. TypeOK' /\ KernelExcludes' /\ MasksBacked'
      BY <2>5 DEF vars, IInv, TypeOK, KernelExcludes, MasksBacked
    <3>2. SiblingsExclude' /\ UnmappedHoldsNothing' /\ NodeOK'
      BY <2>5 DEF vars, IInv, SiblingsExclude, UnmappedHoldsNothing, NodeOK
    <3>3. Counted'
      BY <2>5 DEF vars, IInv, Counted, Mapped
    <3> QED
      BY <3>1, <3>2, <3>3 DEF IInv
  <2> QED
    BY <2>1, <2>2, <2>3, <2>4, <2>5 DEF Next
<1> QED
  BY <1>1, <1>2, PTL DEF Spec

(* Whoever holds a lock of xShmLock() exclusively is alone with it, in     *)
(* whichever processes the connections are: between processes the kernel   *)
(* sees to it, between siblings the masks.                                 *)
THEOREM ShmLocksExcludeHolds ==
  ASSUME NLock \in Nat
  PROVE  Spec => []ShmLocksExclude
<1>1. IInv => ShmLocksExclude
  <2> SUFFICES ASSUME IInv, NEW f \in Conn, NEW g \in Conn, f # g, NEW i \in conn[f].exclMask
               PROVE  i \notin conn[g].exclMask /\ i \notin conn[g].sharedMask
    BY DEF ShmLocksExclude
  <2>1. posix[ProcOf(f)][i] = "write" /\ i \in Byte
    BY DEF IInv, MasksBacked, TypeOK, Shm, Byte
  <2>2. /\ i \in conn[g].exclMask => posix[ProcOf(g)][i] = "write"
        /\ i \in conn[g].sharedMask => posix[ProcOf(g)][i] = "read"
    BY DEF IInv, MasksBacked
  <2>3. CASE ProcOf(f) = ProcOf(g)
    BY <2>1, <2>2, <2>3 DEF IInv, SiblingsExclude
  <2>4. CASE ProcOf(f) # ProcOf(g)
    BY <2>1, <2>2, <2>4, ProcOfConn DEF IInv, KernelExcludes
  <2> QED
    BY <2>3, <2>4
<1> QED
  BY <1>1, Invariance, PTL

(* The -shm file is emptied only while no process uses the wal-index in    *)
(* it: the process that empties it holds the dead-man switch exclusively.  *)
THEOREM TruncatedUnusedHolds ==
  ASSUME NLock \in Nat
  PROVE  Spec => []TruncatedUnused
<1>1. IInv => TruncatedUnused
  <2> SUFFICES ASSUME IInv, NEW p \in Proc, node[p].at = "truncate", NEW q \in Proc
               PROVE  node[q].at # "ready"
    BY DEF TruncatedUnused
  <2>1. posix[p][UNIX_SHM_DMS] = "write" /\ UNIX_SHM_DMS \in Byte
    BY DEF IInv, NodeOK, Byte
  <2>2. q # p => posix[q][UNIX_SHM_DMS] = "none"
    BY <2>1 DEF IInv, KernelExcludes
  <2> QED
    BY <2>2 DEF IInv, NodeOK
<1> QED
  BY <1>1, Invariance, PTL
=============================================================================
