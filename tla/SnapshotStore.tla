---------------------------- MODULE SnapshotStore ----------------------------
(***************************************************************************)
(* What the write-ahead log promises the pager (the header comment of      *)
(* wal.c): a transaction reads one committed content from its first read   *)
(* to its end while others commit; a connection may write only on top of   *)
(* the latest content; a commit is atomic.  A process may be lost at any   *)
(* time without a trace but for a commit it was making.  Power may take    *)
(* back the commits since the last sync, and only whole ones: none with    *)
(* synchronous=FULL, where a commit syncs.                                 *)
(***************************************************************************)
CONSTANTS Conn, NoView, FullSync

VARIABLES
  content,             \* the committed database
  limbo,               \* commits of lost or failed writers that may take effect
  recent,              \* what a power loss may bring the content back to
  view,                \* view[c]: what c's transaction reads, or NoView
  writers              \* the connections with an open write transaction

vars == <<content, limbo, recent, view, writers>>

Init ==
  /\ limbo = {} /\ recent = {content}
  /\ view = [c \in Conn |-> NoView]
  /\ writers = {}

OnlyView(c) == \A d \in Conn \ {c} : view'[d] = view[d]

BeginRead(c) ==
  /\ view[c] = NoView /\ view'[c] = content /\ OnlyView(c)
  /\ UNCHANGED <<content, limbo, recent, writers>>

(* No fork: what is written on top of is still the latest content.         *)
BeginWrite(c) ==
  /\ view[c] = content /\ writers = {} /\ writers' = {c}
  /\ UNCHANGED <<content, limbo, recent, view>>

(* A lost commit may be overwritten.                                       *)
Update(c) ==
  /\ c \in writers /\ view'[c] # NoView /\ OnlyView(c)
  /\ limbo' \subseteq limbo
  /\ UNCHANGED <<content, recent, writers>>

(* Other transactions go on reading what they read.                        *)
Commit(c) ==
  /\ c \in writers /\ writers' = writers \ {c}
  /\ content' = view[c] /\ view' = view /\ limbo' = {}
  /\ recent' = IF FullSync THEN {content'} ELSE recent \cup {content'}

Rollback(c) ==
  /\ c \in writers /\ writers' = writers \ {c}
  /\ view'[c] = content /\ OnlyView(c) /\ UNCHANGED <<content, limbo, recent>>

(* A commit fails with an I/O error and is rolled back, but all of it may  *)
(* be in the log: like that of a lost process it may still take effect.    *)
Fail(c) ==
  /\ c \in writers /\ writers' = writers \ {c}
  /\ view'[c] = content /\ OnlyView(c) /\ UNCHANGED content
  /\ limbo' \subseteq limbo \cup {view[c]}
  /\ recent' = recent \cup {view[c]}

Sync == recent' = {content} \cup limbo /\ UNCHANGED <<content, limbo, view, writers>>

EndRead(c) ==
  /\ writers' = writers \ {c}
  /\ view[c] # NoView /\ view'[c] = NoView /\ OnlyView(c)
  /\ UNCHANGED <<content, limbo, recent>>

(* Processes are lost.  A commit of theirs is lost, or has taken effect    *)
(* when nobody is left, or may still do so.                                *)
Lose(S) ==
  LET unsure == limbo \cup {view[c] : c \in writers \cap S} IN
  /\ writers' = writers \ S
  /\ \A c \in Conn : view'[c] = IF c \in S THEN NoView ELSE view[c]
  /\ content' \in {content} \cup (IF \A c \in Conn : view'[c] = NoView
                                  THEN unsure ELSE {})
  /\ limbo' \subseteq unsure
  /\ recent' = recent \cup {view[c] : c \in writers \cap S}

(* A lost commit takes effect, when nobody reads what it supersedes, or is *)
(* discarded.                                                              *)
Resolve ==
  /\ UNCHANGED <<writers, recent, view>>
  /\ \/ UNCHANGED content
     \/ content' \in limbo /\ \A c \in Conn : view[c] = NoView
  /\ limbo' = {}

PowerLoss ==
  /\ writers' = {} /\ \A c \in Conn : view'[c] = NoView
  /\ recent' = recent \cup {view[c] : c \in writers}
  /\ content' \in recent' /\ limbo' = {}

Next ==
  \/ Resolve
  \/ \E c \in Conn :
       \/ BeginRead(c) \/ BeginWrite(c) \/ Update(c) \/ Commit(c) \/ Rollback(c)
       \/ Fail(c) \/ EndRead(c)
  \/ Sync \/ PowerLoss
  \/ \E S \in SUBSET Conn \ {{}} : Lose(S)

Spec == Init /\ [][Next]_vars
=============================================================================
