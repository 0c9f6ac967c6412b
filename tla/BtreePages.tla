----------------------------- MODULE BtreePages -----------------------------
(***************************************************************************)
(* btree.c: which page of the database file is used for what.  Pages come  *)
(* from the free-list or from the end of the file and go back to the       *)
(* free-list; an auto-vacuum database moves pages to shrink the file, and  *)
(* finds the one pointer to a page in the pointer map.                     *)
(*                                                                         *)
(* The cells of the pages are left out: par[c] is the one pointer to page  *)
(* c, found on page par[c].parent, and map[c] what the pointer map says of *)
(* it.  Everything here happens within one write transaction of the one    *)
(* connection that may write.  A rollback takes the file back to where the *)
(* transaction began, to a state seen before; what it takes for that is    *)
(* the property RollbackPossible.                                          *)
(***************************************************************************)
EXTENDS Integers, Sequences, FiniteSets

CONSTANTS AutoVacuum,  \* the modes tried: "none", "full", "incr"
          NEntry,      \* entries of a pointer-map page: usableSize/5
          NLeaf,       \* leaves of a free-list trunk page: usableSize/4 - 8
          PENDING_BYTE_PAGE,
          MaxPage,     \* bound: pages of the file
          MaxUse       \* bound: those without a fixed use

VARIABLES mode,        \* how this database vacuums
          bt,          \* the file, and BtShared
          orig,        \* the file as the transaction found it
          vac          \* autoVacuumCommit() in progress

vars == <<mode, bt, orig, vac>>

Page == 1 .. MaxPage

Entry(type, parent) == [type |-> type, parent |-> parent]
Root == Entry("ROOTPAGE", 0)
FreePage == Entry("FREEPAGE", 0)

NoContent == [size |-> 0, bits |-> {}]
NoTrans == [open |-> FALSE, nPage |-> 0, needed |-> {}]
NoVacuum == [on |-> FALSE, iFree |-> 0, nFin |-> 0, nFree |-> 0]

\* newDatabase(): page 1 is the root of the schema table.
Init ==
  /\ mode \in AutoVacuum
  /\ bt = [nPage |-> 1, maxRoot |-> 1, nFree |-> 0, free |-> <<>>,
           par |-> [p \in {1} |-> Root], map |-> [p \in Page |-> Entry("none", 0)],
           hasContent |-> NoContent, noContent |-> {}, bDoTruncate |-> FALSE, corrupt |-> FALSE]
  /\ orig = NoTrans
  /\ vac = NoVacuum

autoVacuum == mode # "none"

-----------------------------------------------------------------------------
\* Pages with a fixed use: pointer-map pages and the page of the lock bytes.

ptrmapPageno(p) ==
  LET n == NEntry + 1
      ret == ((p - 2) \div n) * n + 2
  IN  IF p < 2 THEN 0 ELSE IF ret = PENDING_BYTE_PAGE THEN ret + 1 ELSE ret

PTRMAP_ISPAGE(p) == ptrmapPageno(p) = p

Fixed(p) == p = PENDING_BYTE_PAGE \/ (autoVacuum /\ PTRMAP_ISPAGE(p))

\* No three pages in a row have one.
FirstFrom(p) == CHOOSE q \in p .. p + 2 : ~Fixed(q) /\ \A r \in p .. q - 1 : Fixed(r)
LastUpTo(p) == CHOOSE q \in p - 2 .. p : ~Fixed(q) /\ \A r \in q + 1 .. p : Fixed(r)

-----------------------------------------------------------------------------
\* The pages of the transaction whose content would be lost in a rollback.

btreeGetHasContent(b, p) ==
  b.hasContent.size > 0 /\ (p > b.hasContent.size \/ p \in b.hasContent.bits)

btreeSetHasContent(b, p) ==
  LET size == IF b.hasContent.size = 0 THEN b.nPage ELSE b.hasContent.size
  IN  [b EXCEPT !.hasContent = [size |-> size, bits |-> @.bits \cup ({p} \cap (1 .. size))]]

\* The pager hands the page out zeroed, and counts it as journaled.
GetNoContent(b, p) == [b EXCEPT !.noContent = @ \cup ({p} \cap (1 .. orig.nPage))]

-----------------------------------------------------------------------------
(***************************************************************************)
(* allocateBtreePage().  The result is the file afterwards and the page,   *)
(* or page 0 and the file marked corrupt.                                  *)
(***************************************************************************)
Corrupt(b) == [b |-> [b EXCEPT !.corrupt = TRUE], pg |-> 0]

Leaves(b, i) == b.free[i].leaves

Dist(p, q) == IF p > q THEN p - q ELSE q - p

\* The leaf of trunk i that is looked at: the first that will do, or the nearest.
Closest(b, i, nearby, eMode) ==
  LET leaves == Leaves(b, i)
      fits == {j \in DOMAIN leaves : leaves[j] <= nearby}
      best == IF eMode = "LE" THEN fits
              ELSE {j \in DOMAIN leaves : \A m \in DOMAIN leaves :
                                             Dist(leaves[j], nearby) <= Dist(leaves[m], nearby)}
  IN  IF nearby = 0 \/ best = {} THEN 1 ELSE CHOOSE j \in best : \A m \in best : j <= m

Wanted(p, nearby, eMode) == p = nearby \/ (p < nearby /\ eMode = "LE")

TakesTrunk(b, i, searchList, nearby, eMode) ==
  IF searchList THEN Wanted(b.free[i].pg, nearby, eMode) ELSE Leaves(b, i) = <<>>

TakesLeaf(b, i, searchList, nearby, eMode) ==
  /\ Leaves(b, i) # <<>>
  /\ searchList => Wanted(Leaves(b, i)[Closest(b, i, nearby, eMode)], nearby, eMode)

\* A trunk page that is taken leaves its place to its first leaf.
WithoutTrunk(b, i) ==
  LET leaves == Leaves(b, i)
      heir == IF leaves = <<>> THEN <<>> ELSE <<[pg |-> Head(leaves), leaves |-> Tail(leaves)]>>
  IN  [b EXCEPT !.free = SubSeq(@, 1, i - 1) \o heir \o SubSeq(@, i + 1, Len(@)),
                !.nFree = @ - 1]

\* A leaf that is taken leaves its place to the last one.
WithoutLeaf(b, i, j) ==
  LET leaves == Leaves(b, i)
      k == Len(leaves)
  IN  [b EXCEPT !.free[i].leaves = SubSeq([leaves EXCEPT ![j] = leaves[k]], 1, k - 1),
                !.nFree = @ - 1]

FromFreelist(b, nearby, eMode) ==
  LET searchList == \/ eMode = "LE"
                    \/ eMode = "EXACT" /\ nearby <= b.nPage /\ b.map[nearby] = FreePage
      trunks == {i \in DOMAIN b.free : \/ TakesTrunk(b, i, searchList, nearby, eMode)
                                       \/ TakesLeaf(b, i, searchList, nearby, eMode)}
      i == CHOOSE m \in trunks : \A n \in trunks : m <= n
      j == Closest(b, i, nearby, eMode)
      leaf == Leaves(b, i)[j]
  IN  IF trunks = {} THEN Corrupt(b)
      ELSE IF TakesTrunk(b, i, searchList, nearby, eMode)
      THEN [b |-> WithoutTrunk(b, i), pg |-> b.free[i].pg]
      ELSE [b |-> IF btreeGetHasContent(b, leaf) THEN WithoutLeaf(b, i, j)
                  ELSE GetNoContent(WithoutLeaf(b, i, j), leaf),
            pg |-> leaf]

\* Mutant: a file that was shortened in this transaction is extended as any other.
ExtendNoContent(b, pages) == [b EXCEPT !.noContent = @ \cup (pages \cap (1 .. orig.nPage))]

\* Pages past the end of the file, which the transaction may have shortened.
GetPastEnd(b, pages) ==
  IF b.bDoTruncate THEN b
  ELSE [b EXCEPT !.noContent = @ \cup (pages \cap (1 .. orig.nPage))]

\* At the end of the file, past a new pointer-map page where one is due.
FromEnd(b) ==
  LET pg == FirstFrom(b.nPage + 1)
  IN  [b |-> [GetPastEnd(b, (b.nPage + 1 .. pg) \ {PENDING_BYTE_PAGE}) EXCEPT !.nPage = pg],
       pg |-> pg]

allocateBtreePage(b, nearby, eMode) ==
  IF b.nFree >= b.nPage THEN Corrupt(b)
  ELSE IF b.nFree > 0 THEN FromFreelist(b, nearby, eMode)
  ELSE FromEnd(b)

(***************************************************************************)
(* freePage2(): a leaf of the first trunk page if there is room, otherwise *)
(* a new first trunk page.                                                 *)
(***************************************************************************)
freePage2(b, p) ==
  LET freed == [b EXCEPT !.nFree = @ + 1,
                         !.map[p] = IF autoVacuum THEN FreePage ELSE @,
                         !.par = [q \in DOMAIN @ \ {p} |-> @[q]]]
  IN  IF b.nFree # 0 /\ Len(Leaves(b, 1)) < NLeaf
      THEN btreeSetHasContent([freed EXCEPT !.free[1].leaves = Append(@, p)], p)
      ELSE [freed EXCEPT !.free = <<[pg |-> p, leaves |-> <<>>]>> \o @]

Children(b, p) == {c \in DOMAIN b.par : b.par[c].parent = p}

\* Mutant: the children are not told where their parent has gone.
MapKept(b, from, to) == b.map

\* setChildPtrmaps(), or the next page of an overflow chain.
ChildPtrmaps(b, from, to) ==
  [c \in Page |-> IF c \in Children(b, from) THEN Entry(b.par[c].type, to) ELSE b.map[c]]

(***************************************************************************)
(* relocatePage(): the page with its children moves, and the page that the *)
(* pointer map names gets the new pointer (modifyPagePointer).             *)
(***************************************************************************)
relocatePage(b, from, to, entry) ==
  LET kids == Children(b, from)
      map == ChildPtrmaps(b, from, to)
  IN  [b EXCEPT
         !.par = [p \in (DOMAIN @ \ {from}) \cup {to} |->
                    IF p = to THEN @[from]
                    ELSE IF p \in kids THEN Entry(@[p].type, to) ELSE @[p]],
         !.map = IF entry = Root THEN map ELSE [map EXCEPT ![to] = entry],
         !.corrupt = @ \/ b.par[from] # entry]

-----------------------------------------------------------------------------

\* The file changes to b, unless it outgrows the bounds.
Becomes(b) ==
  /\ b.nPage <= MaxPage
  /\ Cardinality({p \in 1 .. b.nPage : ~Fixed(p)}) <= MaxUse
  /\ bt' = b
  /\ UNCHANGED <<mode, orig, vac>>

\* The page clearCell() has to free next: the page that points to it is gone.
ovflPgno(b) == {q \in DOMAIN b.par : b.par[q].type = "OVERFLOW2"
                                      /\ b.par[q].parent \notin DOMAIN b.par}

\* No operation is in progress.
Writing == orig.open /\ ~vac.on /\ ovflPgno(bt) = {}

TrunkPages(b) == {b.free[i].pg : i \in DOMAIN b.free}
LeafPages(b) == UNION {{Leaves(b, i)[j] : j \in DOMAIN Leaves(b, i)} : i \in DOMAIN b.free}

\* All but the leaves of the free-list matter to a rollback.
sqlite3BtreeBeginTrans ==
  /\ ~orig.open
  /\ orig' = [open |-> TRUE, nPage |-> bt.nPage, needed |-> (1 .. bt.nPage) \ LeafPages(bt)]
  /\ UNCHANGED <<mode, bt, vac>>

(***************************************************************************)
(* A page for a b-tree (balance) or for an overflow chain (fillInCell) and *)
(* the pointer to it, with its entry in the pointer map.                   *)
(***************************************************************************)
MayPoint(parent, type) ==
  IF bt.par[parent].type \in {"ROOTPAGE", "BTREE"} THEN type \in {"BTREE", "OVERFLOW1"}
  ELSE type = "OVERFLOW2" /\ Children(bt, parent) = {}

\* The page number to look for: near the parent, or the next of an overflow chain.
Nearby(parent, type) ==
  LET last == IF type = "OVERFLOW1" THEN 0 ELSE parent
  IN  IF type = "BTREE" THEN {0, parent}
      ELSE {IF autoVacuum THEN FirstFrom(last + 1) ELSE last}

AddPage(parent, type, nearby) ==
  LET a == allocateBtreePage(bt, nearby, "ANY") IN
  /\ Writing /\ MayPoint(parent, type)
  /\ IF a.pg = 0 THEN Becomes(a.b)
     ELSE /\ a.pg <= MaxPage
          /\ Becomes([a.b EXCEPT
                !.par = [p \in DOMAIN @ \cup {a.pg} |-> IF p = a.pg THEN Entry(type, parent) ELSE @[p]],
                !.map = IF autoVacuum THEN [@ EXCEPT ![a.pg] = Entry(type, parent)] ELSE @])

(***************************************************************************)
(* A b-tree page without children goes, or the first page of an overflow   *)
(* chain with the cell that points to it; clearCell() then frees the rest  *)
(* of the chain page by page.                                              *)
(***************************************************************************)
DropPage(p) ==
  /\ Writing
  /\ \/ bt.par[p].type = "BTREE" /\ Children(bt, p) = {}
     \/ bt.par[p].type = "OVERFLOW1"
  /\ Becomes(freePage2(bt, p))

clearCell(p) == orig.open /\ p \in ovflPgno(bt) /\ Becomes(freePage2(bt, p))

(***************************************************************************)
(* btreeCreateTable(): in an auto-vacuum database the root pages are the   *)
(* first pages of the file; what is in the way of a new one moves.         *)
(***************************************************************************)
NewRoot(b, p) ==
  [b EXCEPT !.par = [q \in DOMAIN @ \cup {p} |-> IF q = p THEN Root ELSE @[q]],
            !.map = IF autoVacuum THEN [@ EXCEPT ![p] = Root] ELSE @,
            !.maxRoot = IF autoVacuum THEN p ELSE @]

btreeCreateTable ==
  LET pgnoRoot == FirstFrom(bt.maxRoot + 1)
      a == IF autoVacuum THEN allocateBtreePage(bt, pgnoRoot, "EXACT")
           ELSE allocateBtreePage(bt, 1, "ANY")
      inTheWay == a.b.map[pgnoRoot]
  IN
  /\ Writing /\ a.pg <= MaxPage
  /\ IF a.pg = 0 THEN Becomes(a.b)
     ELSE IF ~autoVacuum THEN Becomes(NewRoot(a.b, a.pg))
     ELSE IF a.pg = pgnoRoot THEN Becomes(NewRoot(a.b, pgnoRoot))
     ELSE IF inTheWay \in {Root, FreePage} \/ pgnoRoot > bt.nPage THEN Becomes(Corrupt(a.b).b)
     ELSE Becomes(NewRoot(relocatePage(a.b, pgnoRoot, a.pg, inTheWay), pgnoRoot))

(***************************************************************************)
(* btreeDropTable() of a table that sqlite3BtreeClearTable() has emptied:  *)
(* the last root page fills the gap.                                       *)
(***************************************************************************)
btreeDropTable(t) ==
  LET moved == relocatePage([bt EXCEPT !.par = [p \in DOMAIN @ \ {t} |-> @[p]]],
                            bt.maxRoot, t, Root)
      b == IF autoVacuum /\ t # bt.maxRoot THEN freePage2(moved, bt.maxRoot) ELSE freePage2(bt, t)
  IN
  /\ Writing /\ t # 1 /\ bt.par[t] = Root /\ Children(bt, t) = {}
  /\ Becomes(IF autoVacuum THEN [b EXCEPT !.maxRoot = LastUpTo(@ - 1)] ELSE b)

-----------------------------------------------------------------------------
\* Vacuum.

finalDbSize(nOrig, nFree) ==
  LET nPtrmap == (nFree - nOrig + ptrmapPageno(nOrig) + NEntry) \div NEntry
      nFin == nOrig - nFree - nPtrmap
      nPending == IF nOrig > PENDING_BYTE_PAGE /\ nFin < PENDING_BYTE_PAGE THEN nFin - 1 ELSE nFin
  IN  LastUpTo(nPending)

(***************************************************************************)
(* sqlite3BtreeIncrVacuum() and incrVacuumStep() for it: the last page is  *)
(* free and leaves the free-list, or moves to a page of the final file.    *)
(***************************************************************************)
sqlite3BtreeIncrVacuum ==
  LET last == bt.nPage
      nFin == finalDbSize(last, bt.nFree)
      free == bt.map[last] = FreePage
      a == IF free THEN allocateBtreePage(bt, last, "EXACT") ELSE allocateBtreePage(bt, nFin, "LE")
      b == IF free THEN a.b ELSE relocatePage(a.b, last, a.pg, bt.map[last])
  IN
  /\ Writing /\ autoVacuum /\ bt.nFree > 0
  /\ IF last < nFin \/ bt.map[last] = Root \/ a.pg = 0 THEN Becomes(Corrupt(bt).b)
     ELSE Becomes([b EXCEPT !.nPage = LastUpTo(last - 1), !.bDoTruncate = TRUE])

\* The transaction ends: sqlite3BtreeCommitPhaseOne() and Two.
Committed(b) ==
  /\ bt' = [b EXCEPT !.hasContent = NoContent, !.noContent = {}, !.bDoTruncate = FALSE]
  /\ orig' = NoTrans
  /\ UNCHANGED mode

Commit ==
  /\ Writing /\ mode # "full"
  /\ Committed(bt)
  /\ UNCHANGED vac

autoVacuumCommit ==
  LET nFin == finalDbSize(bt.nPage, bt.nFree) IN
  /\ Writing /\ mode = "full"
  /\ IF Fixed(bt.nPage) \/ nFin > bt.nPage
     THEN Becomes(Corrupt(bt).b)
     ELSE /\ vac' = [on |-> TRUE, iFree |-> bt.nPage, nFin |-> nFin, nFree |-> bt.nFree]
          /\ UNCHANGED <<mode, bt, orig>>

(***************************************************************************)
(* incrVacuumStep() for autoVacuumCommit(): a free page needs no care, for *)
(* the free-list will be dropped; another moves to the first page that     *)
(* comes from the free-list and is not itself to go.                       *)
(***************************************************************************)
VacuumStep ==
  LET i == vac.iFree
      entry == bt.map[i]
      a == allocateBtreePage(bt, 0, "ANY")
      moves == ~Fixed(i) /\ entry # FreePage
  IN
  /\ vac.on /\ i > vac.nFin /\ (Fixed(i) \/ bt.nFree > 0)
  /\ UNCHANGED <<mode, orig>>
  /\ IF moves /\ (entry = Root \/ a.pg = 0) THEN bt' = Corrupt(bt).b /\ UNCHANGED vac
     ELSE IF moves /\ a.pg > vac.nFin THEN bt' = a.b /\ UNCHANGED vac
     ELSE /\ vac' = [vac EXCEPT !.iFree = @ - 1]
          /\ bt' = IF moves THEN relocatePage(a.b, i, a.pg, entry) ELSE bt

VacuumDone ==
  /\ vac.on
  /\ vac.iFree = vac.nFin \/ (~Fixed(vac.iFree) /\ bt.nFree = 0)
  /\ Committed(IF vac.nFree = 0 THEN bt
               ELSE [bt EXCEPT !.free = <<>>, !.nFree = 0, !.nPage = vac.nFin])
  /\ vac' = NoVacuum

-----------------------------------------------------------------------------

Next ==
  \/ sqlite3BtreeBeginTrans
  \/ \E p \in DOMAIN bt.par :
        \/ \E type \in {"BTREE", "OVERFLOW1", "OVERFLOW2"} :
              \E nearby \in Nearby(p, type) : AddPage(p, type, nearby)
        \/ DropPage(p) \/ clearCell(p) \/ btreeDropTable(p)
  \/ btreeCreateTable \/ sqlite3BtreeIncrVacuum
  \/ Commit \/ autoVacuumCommit \/ VacuumStep \/ VacuumDone

Spec == Init /\ [][Next]_vars

-----------------------------------------------------------------------------

(***************************************************************************)
(* What sqlite3BtreeIntegrityCheck() looks for: after every operation that *)
(* allocates, frees or moves pages each has one use: it is in a b-tree     *)
(* once, on the free-list once, a pointer-map page or the page of the lock *)
(* bytes; the pointer map tells where the one pointer to a page is; and no *)
(* operation meets what it takes for corruption.                           *)
(***************************************************************************)
EveryPageHasOneUse ==
  LET used == DOMAIN bt.par
      free == TrunkPages(bt) \cup LeafPages(bt)
      fixed == {p \in 1 .. bt.nPage : Fixed(p)}
  IN
  /\ ~bt.corrupt
  /\ ~vac.on =>
       /\ used \cup free \cup fixed = 1 .. bt.nPage
       /\ Cardinality(used) + bt.nFree + Cardinality(fixed) = bt.nPage
       /\ bt.nFree = Cardinality(free)
       /\ autoVacuum => /\ \A p \in used \ {1} : bt.map[p] = bt.par[p]
                        /\ \A p \in free : bt.map[p] = FreePage
                        /\ \A p \in used : bt.par[p] = Root <=> p <= bt.maxRoot
  /\ mode = "full" /\ ~orig.open => bt.nFree = 0

(***************************************************************************)
(* A page whose content the transaction found in use can be restored: it   *)
(* is never handed out as one without content, which the pager would not   *)
(* journal, although it may have gone to the free-list and come back, or   *)
(* been cut off by a vacuum step and come back, in this transaction.       *)
(***************************************************************************)
RollbackPossible == orig.open => bt.noContent \cap orig.needed = {}
=============================================================================
