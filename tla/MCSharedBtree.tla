--------------------------- MODULE MCSharedBtree ---------------------------
(***************************************************************************)
(* Two waits of connections that share b-trees: for the mutex of a b-tree, *)
(* which must never be in a circle, and for the end of another's           *)
(* transaction, which must come to the notice of who waits for it.  They   *)
(* share no state, so a behaviour is of one or of the other.               *)
(*                                                                         *)
(* Of mutexes there are three: a thread may hold two and wait for a third  *)
(* below them.  Notification is between two connections with two           *)
(* statements each, one of which reads uncommitted data and does not wait. *)
(***************************************************************************)
EXTENDS BtMutex

CONSTANTS c1, c2          \* the connections of Db

VARIABLES part, bt, autoCommit, active, writing, scPc, blocking, unlocker

SC == INSTANCE SharedCache WITH Conn <- {c1, c2}, NoConn <- "none",
                                Table <- {"master", "t"}, MASTER_ROOT <- "master",
                                ReadUncommitted <- {c2}, Patient <- {c1}, Tidy <- {c1, c2},
                                MaxActive <- 2, pc <- scPc

scVars == <<bt, autoCommit, active, writing, scPc, blocking, unlocker>>

MCInit == part \in {"BtMutex", "SharedCache"} /\ Init /\ SC!Init

MCNext ==
  \/ part = "BtMutex" /\ Next /\ UNCHANGED <<part, scVars>>
  \/ part = "SharedCache" /\ SC!Next /\ UNCHANGED <<part, vars>>

MCSpec == MCInit /\ [][MCNext]_<<part, vars, scVars>> /\ SC!Fairness

-----------------------------------------------------------------------------

\* SharedCache: a connection that waits for a callback gets it in the end.
Notified == SC!Notified
=============================================================================
