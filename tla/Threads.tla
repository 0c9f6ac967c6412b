------------------------------- MODULE Threads -------------------------------
(***************************************************************************)
(* What the connections of a process share: the locks of os_unix.c on the  *)
(* database file (two processes of two connections), and the pages of a    *)
(* group of caches.  These components share no state, so a behaviour is of *)
(* the one or of the other.                                                *)
(***************************************************************************)
EXTENDS UnixLock, FiniteSets, TLC

CONSTANTS NKey, PageSizes, Sizes, MinPages, Word   \* of PCache1

ASSUME PCacheAssumption ==
  IsFiniteSet(Slot) /\ NKey \in Nat /\ Sizes \subseteq Nat /\ MinPages \in Nat /\ Word \in Nat \ {0}

VARIABLES part, cache, grp, fetch

\* A connection of a process has one cache.
P1 == INSTANCE PCache1 WITH Cache <- Slot

p1Vars == <<cache, grp, fetch>>

MCInit == part \in {"UnixLock", "PCache1"} /\ Init /\ P1!Init

MCNext ==
  \/ part = "UnixLock" /\ Next /\ UNCHANGED <<part, p1Vars>>
  \/ part = "PCache1" /\ P1!Next /\ UNCHANGED <<part, posix, inode, file, call>>

MCSpec == MCInit /\ [][MCNext]_<<part, posix, inode, file, call, p1Vars>>

Symmetry == Permutations(Proc) \cup Permutations(Slot)

-----------------------------------------------------------------------------

\* PCache1: the counters and the list of unpinned pages agree with the pages.
PagesAccounted == P1!PagesAccounted

\* PCache1: the group exceeds its budget only for pages in use.
OverBudgetOnlyPinned == P1!OverBudgetOnlyPinned
=============================================================================
