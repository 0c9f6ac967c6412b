------------------------------- MODULE PCache1 -------------------------------
(***************************************************************************)
(* pcache1.c: the page caches of one PGroup.  They share a budget of pages *)
(* and one list of unpinned pages, from which any of them may take a page  *)
(* of another.  Each cache is used by one thread at a time, the thread of  *)
(* its connection; the group mutex protects everything here, and xFetch    *)
(* lets it go while it allocates memory.  A group of one cache is mode (1) *)
(* of the source, without a mutex.                                         *)
(*                                                                         *)
(* The caches are purgeable and a page is a cache and a key.  A hash table *)
(* is the set of its keys.  The client's pins are what pcache.c holds      *)
(* pointers to.                                                            *)
(***************************************************************************)
EXTENDS Integers, Sequences, FiniteSets

CONSTANTS Cache,      \* the caches
          NKey,       \* keys are 1 .. NKey
          PageSizes,  \* the page sizes caches are created with
          Sizes,      \* the values of cache_size
          MinPages,   \* 10 in the source: the pages reserved per cache
          Word        \* 2^32 in the source: unsigned arithmetic

VARIABLES cache,      \* the PCache1 objects
          grp,        \* the PGroup
          fetch       \* fetch[c]: the xFetch in progress on c

vars == <<cache, grp, fetch>>

Key == 1 .. NKey

Closed == [open |-> FALSE, szPage |-> 0, nMax |-> 0, n90pct |-> 0, nPage |-> 0, nRecyclable |-> 0,
           keys |-> {}, pins |-> {}, iMaxKey |-> 0, hashed |-> FALSE]

NoFetch == [at |-> "out", key |-> 0]

Init ==
  /\ cache = [c \in Cache |-> Closed]
  /\ grp = [nMaxPage |-> 0, nMinPage |-> 0, mxPinned |-> MinPages, nCurrentPage |-> 0,
            lru |-> <<>>]
  /\ fetch = [c \in Cache |-> NoFetch]

-----------------------------------------------------------------------------

Pages(c) == {c} \X cache[c].keys
Lru == {grp.lru[i] : i \in DOMAIN grp.lru}
Ready(c) == cache[c].open /\ fetch[c] = NoFetch

\* The group limits, recomputed with every change of nMaxPage or nMinPage.
Limits(g, nMaxPage, nMinPage) ==
  [g EXCEPT !.nMaxPage = nMaxPage, !.nMinPage = nMinPage,
            !.mxPinned = (nMaxPage + MinPages - nMinPage) % Word]

\* The list q without some pages: the j-th page kept comes to place j.
Without(q, pages) ==
  LET kept == {i \in DOMAIN q : q[i] \notin pages}
      rank(i) == Cardinality({k \in kept : k <= i})
  IN  [j \in 1 .. Cardinality(kept) |-> q[CHOOSE i \in kept : rank(i) = j]]

\* pcache1PinPage(): a page leaves the list of unpinned pages.
Unlisted(g, pages) == [g EXCEPT !.lru = Without(@, pages)]

(***************************************************************************)
(* pcache1RemoveFromHash() and pcache1FreePage() for a set of pages, all   *)
(* unpinned first.                                                         *)
(***************************************************************************)
Removed(cs, g, pages) ==
  [c \in Cache |->
     LET gone == {x \in pages : x[1] = c}
         listed == {x \in gone : \E i \in DOMAIN g.lru : g.lru[i] = x}
     IN  [cs[c] EXCEPT !.keys = @ \ {x[2] : x \in gone},
                       !.nPage = @ - Cardinality(gone),
                       !.nRecyclable = @ - Cardinality(listed)]]

Freed(g, pages) ==
  Unlisted([g EXCEPT !.nCurrentPage = @ - Cardinality(pages)], pages)

\* The pages pcache1EnforceMaxPage() recycles: from the tail, down to max.
Excess(g, max) ==
  LET over == IF g.nCurrentPage > max THEN g.nCurrentPage - max ELSE 0
  IN  {g.lru[i] : i \in {j \in DOMAIN g.lru : j > Len(g.lru) - over}}

pcache1EnforceMaxPage(cs, g) ==
  /\ cache' = Removed(cs, g, Excess(g, g.nMaxPage))
  /\ grp' = Freed(g, Excess(g, g.nMaxPage))

-----------------------------------------------------------------------------
\* The methods of the cache.

pcache1Create(c, szPage) ==
  /\ ~cache[c].open
  /\ cache' = [cache EXCEPT ![c].open = TRUE, ![c].szPage = szPage]
  /\ grp' = Limits(grp, grp.nMaxPage, grp.nMinPage + MinPages)
  /\ UNCHANGED fetch

pcache1Cachesize(c, nMax) ==
  /\ Ready(c)
  /\ pcache1EnforceMaxPage([cache EXCEPT ![c].nMax = nMax, ![c].n90pct = (nMax * 9) \div 10],
                           Limits(grp, grp.nMaxPage + nMax - cache[c].nMax, grp.nMinPage))
  /\ UNCHANGED fetch

pcache1Shrink(c) ==
  /\ Ready(c)
  /\ cache' = Removed(cache, grp, Excess(grp, 0))
  /\ grp' = Freed(grp, Excess(grp, 0))
  /\ UNCHANGED fetch

\* The page of key k is in the hash table of c, or goes there, and is pinned.
Pinned(cs, c, k) ==
  [cs EXCEPT ![c].pins = @ \cup {k}, ![c].iMaxKey = IF k > @ THEN k ELSE @]

\* Mutant: the page stays on the list of unpinned pages.
FoundListed(c, k) ==
  /\ k \in cache[c].keys
  /\ cache' = Pinned(cache, c, k)
  /\ UNCHANGED <<grp, fetch>>

Found(c, k) ==
  /\ k \in cache[c].keys
  /\ cache' = Pinned([cache EXCEPT ![c].nRecyclable = @ - Cardinality({<<c, k>>} \cap Lru)], c, k)
  /\ grp' = Unlisted(grp, {<<c, k>>})
  /\ UNCHANGED fetch

Entered(cs, c, k) ==
  Pinned([cs EXCEPT ![c].keys = @ \cup {k}, ![c].nPage = @ + 1], c, k)

\* Step 3 of xFetch: with createFlag 1 a cache that is nearly full gives up.
NearlyFull(c, underPressure) ==
  LET nPinned == cache[c].nPage - cache[c].nRecyclable
  IN  nPinned >= grp.mxPinned \/ nPinned >= cache[c].n90pct \/ underPressure

MustRecycle(c, underPressure) ==
  \/ cache[c].nPage + 1 >= cache[c].nMax
  \/ grp.nCurrentPage >= grp.nMaxPage
  \/ underPressure

\* Step 4: the page unpinned longest ago, of whichever cache, if it fits.
Recycle(c, k) ==
  LET page == grp.lru[Len(grp.lru)]
      cs == [Removed(cache, grp, {page}) EXCEPT ![c].hashed = TRUE]
  IN  IF cache[page[1]].szPage = cache[c].szPage
      THEN /\ cache' = Entered(cs, c, k)
           /\ grp' = Unlisted(grp, {page})
           /\ fetch' = [fetch EXCEPT ![c] = NoFetch]
      ELSE /\ cache' = cs
           /\ grp' = Freed(grp, {page})
           /\ fetch' = [fetch EXCEPT ![c] = [at |-> "alloc", key |-> k]]

RecycleOrAlloc(c, k) ==
  \E underPressure \in BOOLEAN :
     IF grp.lru # <<>> /\ MustRecycle(c, underPressure)
     THEN Recycle(c, k)
     ELSE /\ cache' = [cache EXCEPT ![c].hashed = TRUE]
          /\ fetch' = [fetch EXCEPT ![c] = [at |-> "alloc", key |-> k]]
          /\ UNCHANGED grp

(***************************************************************************)
(* pcache1Fetch(): search, give up, and otherwise recycle or allocate.     *)
(* pcache1ResizeHash(), needed for the first page and now and then for a   *)
(* later one, leaves the group mutex after the limits were tested.         *)
(***************************************************************************)
pcache1Fetch(c, k, createFlag) ==
  /\ Ready(c)
  /\ \/ Found(c, k)
     \/ /\ k \notin cache[c].keys
        /\ createFlag > 0
        /\ createFlag = 1 => \E underPressure \in BOOLEAN : ~NearlyFull(c, underPressure)
        /\ \/ cache[c].hashed /\ RecycleOrAlloc(c, k)
           \/ /\ fetch' = [fetch EXCEPT ![c] = [at |-> "resize", key |-> k]]
              /\ UNCHANGED <<cache, grp>>

FetchResized(c) == fetch[c].at = "resize" /\ RecycleOrAlloc(c, fetch[c].key)

\* Step 5: pcache1AllocPage() returns and the group mutex is held again.
FetchAllocated(c) ==
  /\ fetch[c].at = "alloc"
  /\ cache' = Entered(cache, c, fetch[c].key)
  /\ grp' = [grp EXCEPT !.nCurrentPage = @ + 1]
  /\ fetch' = [fetch EXCEPT ![c] = NoFetch]

\* An allocation fails; a hash table that does not grow will do.
FetchNoMem(c) ==
  /\ fetch[c].at = "alloc" \/ (fetch[c].at = "resize" /\ ~cache[c].hashed)
  /\ fetch' = [fetch EXCEPT ![c] = NoFetch]
  /\ UNCHANGED <<cache, grp>>

\* Mutant: an unpinned page is kept whatever the budget.
UnpinKeeps(c, k, reuseUnlikely) ==
  /\ Ready(c)
  /\ k \in cache[c].pins
  /\ cache' = [cache EXCEPT ![c].pins = @ \ {k}, ![c].nRecyclable = @ + 1]
  /\ grp' = [grp EXCEPT !.lru = <<<<c, k>>>> \o @]
  /\ UNCHANGED fetch

pcache1Unpin(c, k, reuseUnlikely) ==
  LET cs == [cache EXCEPT ![c].pins = @ \ {k}] IN
  /\ Ready(c)
  /\ k \in cache[c].pins
  /\ IF reuseUnlikely \/ grp.nCurrentPage > grp.nMaxPage
     THEN /\ cache' = Removed(cs, grp, {<<c, k>>})
          /\ grp' = Freed(grp, {<<c, k>>})
     ELSE /\ cache' = [cs EXCEPT ![c].nRecyclable = @ + 1]
          /\ grp' = [grp EXCEPT !.lru = <<<<c, k>>>> \o @]
  /\ UNCHANGED fetch

pcache1Rekey(c, old, new) ==
  /\ Ready(c)
  /\ old \in cache[c].pins
  /\ new \notin cache[c].keys
  /\ cache' = Pinned([cache EXCEPT ![c].keys = (@ \ {old}) \cup {new}, ![c].pins = @ \ {old}],
                     c, new)
  /\ UNCHANGED <<grp, fetch>>

\* Pinned pages past the limit go too.
TruncateUnsafe(cs, g, c, limit) ==
  LET pages == {x \in Pages(c) : x[2] >= limit}
  IN  [cs |-> [Removed(cs, g, pages) EXCEPT ![c].pins = {k \in @ : k < limit}],
       g |-> Freed(g, pages)]

pcache1Truncate(c, limit) ==
  /\ Ready(c)
  /\ limit <= cache[c].iMaxKey
  /\ LET t == TruncateUnsafe(cache, grp, c, limit)
     IN  /\ cache' = [t.cs EXCEPT ![c].iMaxKey = limit - 1]
         /\ grp' = t.g
  /\ UNCHANGED fetch

pcache1Destroy(c) ==
  /\ Ready(c)
  /\ LET t == TruncateUnsafe(cache, grp, c, 0)
     IN  pcache1EnforceMaxPage([t.cs EXCEPT ![c] = Closed],
                               Limits(t.g, grp.nMaxPage - cache[c].nMax,
                                      grp.nMinPage - MinPages))
  /\ UNCHANGED fetch

\* sqlite3_release_memory(), from any thread: one page from the tail.
sqlite3PcacheReleaseMemory ==
  /\ grp.lru # <<>>
  /\ LET page == grp.lru[Len(grp.lru)]
     IN  /\ cache' = Removed(cache, grp, {page})
         /\ grp' = Freed(grp, {page})
  /\ UNCHANGED fetch

-----------------------------------------------------------------------------

Next ==
  \/ \E c \in Cache :
        \/ \E sz \in PageSizes : pcache1Create(c, sz)
        \/ pcache1Shrink(c) \/ pcache1Destroy(c)
        \/ \E n \in Sizes : pcache1Cachesize(c, n)
        \/ \E k \in Key : \/ \E flag \in 0 .. 2 : pcache1Fetch(c, k, flag)
                          \/ \E unlikely \in BOOLEAN : pcache1Unpin(c, k, unlikely)
                          \/ \E new \in Key : pcache1Rekey(c, k, new)
                          \/ pcache1Truncate(c, k)
        \/ FetchResized(c) \/ FetchAllocated(c) \/ FetchNoMem(c)
  \/ sqlite3PcacheReleaseMemory

Spec == Init /\ [][Next]_vars

-----------------------------------------------------------------------------

(***************************************************************************)
(* The counters of pcache1.c that decide when a page may be allocated,     *)
(* recycled or freed agree with the pages there are, and the list of       *)
(* unpinned pages holds each page nobody points to, once, and no other: a  *)
(* pinned page is never taken by another cache, even by one that gave up   *)
(* the group mutex in the middle of its xFetch.                            *)
(***************************************************************************)
PagesAccounted ==
  /\ grp.nCurrentPage = Cardinality(UNION {Pages(c) : c \in Cache})
  /\ Len(grp.lru) = Cardinality(Lru)
  /\ \A c \in Cache :
        /\ cache[c].pins \subseteq cache[c].keys
        /\ {x[2] : x \in {y \in Lru : y[1] = c}} = cache[c].keys \ cache[c].pins
        /\ cache[c].nPage = Cardinality(cache[c].keys)
        /\ cache[c].nRecyclable = Cardinality(cache[c].keys \ cache[c].pins)
        /\ \A k \in cache[c].keys : k <= cache[c].iMaxKey

(***************************************************************************)
(* pcache1.c exceeds the budget of the group only for pages in use: while  *)
(* an unpinned page is kept, the pages number at most nMaxPage and one for *)
(* every other cache, whose allocation may have been decided before the    *)
(* page was unpinned.                                                      *)
(***************************************************************************)
OverBudgetOnlyPinned ==
  grp.lru # <<>> => grp.nCurrentPage <= grp.nMaxPage + Cardinality(Cache) - 1
=============================================================================
