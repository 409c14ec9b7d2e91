---------------------------- MODULE ChunkPromise ----------------------------
(***************************************************************************)
(* What the server promises about one chunk and its file, without chunk    *)
(* objects, flags or files: saving makes edits durable, forgetting a chunk *)
(* loses nothing that a save cycle owed it, and a crash takes the chunk     *)
(* back to what is durable.  Two things are not promised: edits made while  *)
(* a save cycle runs, and a readable file after a crash in the middle of    *)
(* writing it.                                                              *)
(*                                                                         *)
(* ChunkStore implements this with the code's SaveChunk, FreeUnseenChunks   *)
(* and LoadOldV2Chunk.                                                      *)
(***************************************************************************)
CONSTANT Edits   \* changes players can make to the blocks of the chunk

VARIABLES
  content,    \* edits one finds in the chunk
  durable,    \* edits the next start of the server would find
  readable,   \* the durable form can be read
  saving,     \* a save cycle is running
  pending,    \* edits being made
  exempt,     \* edits that overlapped a save cycle
  owed        \* edits the running save cycle has to make durable

vars == <<content, durable, readable, saving, pending, exempt, owed>>

Init ==
  /\ content = {} /\ durable = {} /\ pending = {} /\ exempt = {} /\ owed = {}
  /\ readable = TRUE
  /\ saving = FALSE

BeginEdit(e) ==
  /\ e \notin content \cup pending
  /\ pending' = pending \cup {e}
  /\ exempt' = IF saving THEN exempt \cup {e} ELSE exempt \ {e}
  /\ UNCHANGED <<content, durable, readable, saving, owed>>

ApplyEdit(e) ==
  /\ e \in pending
  /\ content' = content \cup {e}
  /\ UNCHANGED <<durable, readable, saving, pending, exempt, owed>>

(* An edit may fail only if it met a save cycle.                            *)
EndEdit(e) ==
  /\ e \in pending
  /\ e \in content \cup exempt
  /\ pending' = pending \ {e}
  /\ UNCHANGED <<content, durable, readable, saving, exempt, owed>>

BeginSave ==
  /\ ~saving
  /\ saving' = TRUE
  /\ exempt' = exempt \cup pending
  /\ owed' = content \ exempt'
  /\ UNCHANGED <<content, durable, readable, pending>>

Rewrite ==
  /\ saving
  /\ readable' = FALSE
  /\ UNCHANGED <<content, durable, saving, pending, exempt, owed>>

Persist ==
  /\ saving
  /\ readable' = TRUE
  /\ \E d \in SUBSET content : durable \subseteq d /\ durable' = d
  /\ UNCHANGED <<content, saving, pending, exempt, owed>>

Forget ==
  /\ saving
  /\ readable
  /\ owed \subseteq durable
  /\ content' = durable
  /\ UNCHANGED <<durable, readable, saving, pending, exempt, owed>>

EndSave ==
  /\ saving
  /\ readable
  /\ owed \subseteq durable
  /\ saving' = FALSE
  /\ owed' = {}
  /\ UNCHANGED <<content, durable, readable, pending, exempt>>

Crash ==
  /\ content' = durable
  /\ saving' = FALSE
  /\ pending' = {}
  /\ owed' = {}
  /\ UNCHANGED <<durable, readable, exempt>>

Next ==
  \/ \E e \in Edits : BeginEdit(e) \/ ApplyEdit(e) \/ EndEdit(e)
  \/ BeginSave \/ Rewrite \/ Persist \/ Forget \/ EndSave
  \/ Crash

Spec == Init /\ [][Next]_vars
=============================================================================
