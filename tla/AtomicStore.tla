----------------------------- MODULE AtomicStore -----------------------------
(***************************************************************************)
(* What the pager promises the b-tree layer above it: the header comment   *)
(* of pager.c calls it atomic commit and rollback.  There is one content   *)
(* of the database.  A connection opens a read transaction on the content  *)
(* of that moment, may become the one writer, and its changes become the   *)
(* content all at once when it commits, or are gone.  A connection may be  *)
(* lost at any time, several at once when power fails; the content never   *)
(* is.  A writer lost while it commits may have committed.                 *)
(***************************************************************************)
CONSTANTS Conn, NoView

VARIABLES
  content,             \* the committed database
  view,                \* view[c]: what c's transaction reads, or NoView
  writers              \* the connections with an open write transaction

vars == <<content, view, writers>>

Init ==
  /\ view = [c \in Conn |-> NoView]
  /\ writers = {}

(* Nothing changes but c's own transaction.                                *)
OnlyView(c) == \A d \in Conn \ {c} : view'[d] = view[d]

BeginRead(c) ==
  /\ view[c] = NoView /\ view'[c] = content /\ OnlyView(c)
  /\ UNCHANGED <<content, writers>>

BeginWrite(c) ==
  /\ view[c] # NoView /\ writers = {} /\ writers' = {c}
  /\ UNCHANGED <<content, view>>

Update(c) ==
  /\ c \in writers /\ view[c] # NoView /\ view'[c] # NoView /\ OnlyView(c)
  /\ UNCHANGED <<content, writers>>

(* The commit: nobody else is reading, and all that c wrote is the content *)
Commit(c) ==
  /\ c \in writers
  /\ \A d \in Conn \ {c} : view[d] = NoView
  /\ content' = view[c] /\ view' = view /\ writers' = writers \ {c}

Rollback(c) ==
  /\ c \in writers /\ writers' = writers \ {c}
  /\ view'[c] = content /\ OnlyView(c) /\ UNCHANGED content

(* The transactions of the connections in S end without a commit: by       *)
(* closing them, by an error, by the death of a process, by power loss.    *)
Drop(S) ==
  /\ \A c \in Conn : view'[c] = IF c \in S THEN NoView ELSE view[c]
  /\ writers' = writers \ S
  /\ UNCHANGED content

(* The same, of a writer whose commit was complete but not yet reported.   *)
DropCommitted(c, S) ==
  /\ c \in writers \cap S
  /\ \A d \in Conn \ {c} : view[d] = NoView
  /\ content' = view[c]
  /\ \A d \in Conn : view'[d] = IF d \in S THEN NoView ELSE view[d]
  /\ writers' = writers \ S

Next ==
  \/ \E c \in Conn :
       BeginRead(c) \/ BeginWrite(c) \/ Update(c) \/ Commit(c) \/ Rollback(c)
  \/ \E S \in SUBSET Conn : Drop(S) \/ \E c \in S : DropCommitted(c, S)

Spec == Init /\ [][Next]_vars
=============================================================================
