----------------------------- MODULE ChunkStore -----------------------------
(***************************************************************************)
(* One chunk between memory and disk: players change its blocks and tile   *)
(* entities, save cycles write it and drop it from memory when nobody sees *)
(* it, a worker loads it again, the server crashes and starts anew.        *)
(*                                                                         *)
(* Code: world/world.cpp (SaveChunk, FreeUnseenChunks, Save,               *)
(* LoadOldV2Chunk, LoadOldChunk), world/chunk.cpp (the setters, GetAsNbt,  *)
(* ReadFromNbt), world/worldManager.cpp (GetChunk, FreeAndSave),           *)
(* client/clientPackets.cpp (HandleUpdateSign, the chest in                *)
(* HandlePlayerBlockPlacement).                                            *)
(*                                                                         *)
(* Chunks do not meet: each has its own entry, flag and files, so one is    *)
(* enough.  What it holds is the set of edits made to it.  As in            *)
(* WorldManager, the objects made for it are numbered, since threads keep  *)
(* a shared_ptr to one that is no longer in the map.                       *)
(***************************************************************************)
EXTENDS Integers

CONSTANTS
  Blocks,      \* changes of blocks players can make
  Signs,       \* texts players can put on signs
  Chests,      \* chests players can place
  OldBlocks,   \* what a file in the old format (.cnk) holds
  Players,     \* client threads that edit
  Savers,      \* threads that run FreeAndSave: main, and clients with /save
  MaxObjects,  \* bound: objects ever made
  MaxCrashes   \* bound: crashes

ASSUME StoreAssumption ==
  /\ \A b \in Blocks : b \notin Signs \cup Chests \cup OldBlocks
  /\ MaxObjects \in Nat \ {0}
  /\ MaxCrashes \in Nat

Edits == Blocks \cup Signs \cup Chests
Holds == Edits \cup OldBlocks
Nothing == "nothing"

VARIABLES
  mem,        \* World::chunks: the object of the chunk, 0 if there is none
  made,       \* objects made so far
  blocks,     \* what each object holds
  modified,   \* Chunk::modified of each object
  file,       \* the .ncnk file: "none", "empty" (opened, not written), "whole"
  fileHolds,  \* what it holds; while "empty", what it held before
  oldFile,    \* there is a .cnk file
  seen,       \* some client has the chunk in visibleChunks
  saver,      \* where each saver is
  freeing,    \* whether it is in FreeUnseenChunks (or in Save)
  held,       \* the object it saves
  snapshot,   \* what GetAsNbt returned
  editor,     \* where each player's thread is
  edit,       \* the edit it makes
  hand,       \* the object it makes it to
  loader,     \* where the worker in GetChunk is
  got,        \* what it read
  fresh,      \* it generated the chunk
  failed,     \* GetChunk used the null pointer of a load that failed
  crashes, done,  \* behind the bounds: crashes, edits begun
  exempt, owed    \* history: see ChunkPromise

chunkVars  == <<mem, made, blocks, modified>>
diskVars   == <<file, fileHolds, oldFile>>
saverVars  == <<saver, freeing, held, snapshot>>
editVars   == <<editor, edit, hand, done>>
loadVars   == <<loader, got, fresh, failed>>
histVars   == <<exempt, owed>>
vars == <<chunkVars, diskVars, seen, saverVars, editVars, loadVars, crashes, histVars>>

Init ==
  /\ mem = 0 /\ made = 0
  /\ blocks = [n \in 1..MaxObjects |-> {}]
  /\ modified = [n \in 1..MaxObjects |-> FALSE]
  /\ file = "none" /\ fileHolds = {}
  /\ oldFile \in BOOLEAN
  /\ seen = FALSE
  /\ saver = [s \in Savers |-> "idle"]
  /\ freeing = [s \in Savers |-> FALSE]
  /\ held = [s \in Savers |-> 0]
  /\ snapshot = [s \in Savers |-> {}]
  /\ editor = [p \in Players |-> "idle"]
  /\ edit = [p \in Players |-> Nothing]
  /\ hand = [p \in Players |-> 0]
  /\ done = {}
  /\ loader = "idle" /\ got = {} /\ fresh = FALSE /\ failed = FALSE
  /\ crashes = 0
  /\ exempt = {} /\ owed = {}

Saving  == \E s \in Savers : saver[s] # "idle"
Pending == {edit[p] : p \in {p \in Players : editor[p] # "idle"}}

-----------------------------------------------------------------------------
(* A player's thread.                                                       *)

(* World::GetChunk; without a chunk in memory nothing is done.              *)
BeginEdit(p, e) ==
  /\ editor[p] = "idle"
  /\ e \notin done
  /\ mem # 0
  /\ done' = done \cup {e}
  /\ edit' = [edit EXCEPT ![p] = e]
  /\ hand' = [hand EXCEPT ![p] = mem]
  /\ editor' = [editor EXCEPT ![p] = "change"]
  /\ exempt' = IF Saving THEN exempt \cup {e} ELSE exempt
  /\ UNCHANGED <<chunkVars, diskVars, seen, saverVars, loadVars, crashes, owed>>

(* SetBlockType, or AddTileEntity, which leaves the modified flag alone.    *)
(* A chest's block is placed after its tile entity.                         *)
Change(p) ==
  /\ editor[p] = "change"
  /\ blocks' = [blocks EXCEPT ![hand[p]] = @ \cup {edit[p]}]
  /\ editor' = [editor EXCEPT ![p] =
       IF edit[p] \in Signs THEN "idle" ELSE IF edit[p] \in Chests THEN "look" ELSE "flag"]
  /\ UNCHANGED <<mem, made, modified, diskVars, seen, saverVars, edit, hand, done, loadVars,
                 crashes, histVars>>

(* Variant: PlaceBlockUpdate without the test for a null pointer.           *)
LookUnchecked(p) ==
  /\ editor[p] = "look"
  /\ hand' = [hand EXCEPT ![p] = mem]
  /\ editor' = [editor EXCEPT ![p] = "flag"]
  /\ UNCHANGED <<chunkVars, diskVars, seen, saverVars, edit, done, loadVars, crashes, histVars>>

LookAgain(p) ==
  /\ editor[p] = "look"
  /\ hand' = [hand EXCEPT ![p] = mem]
  /\ editor' = [editor EXCEPT ![p] = IF mem = 0 THEN "idle" ELSE "flag"]
  /\ UNCHANGED <<chunkVars, diskVars, seen, saverVars, edit, done, loadVars, crashes, histVars>>

(* Variant: a setter that does not set modified.                            *)
FlagForgotten(p) ==
  /\ editor[p] = "flag"
  /\ editor' = [editor EXCEPT ![p] = "idle"]
  /\ UNCHANGED <<chunkVars, diskVars, seen, saverVars, edit, hand, done, loadVars, crashes,
                 histVars>>

(* The setter's last statement.                                             *)
Flag(p) ==
  /\ editor[p] = "flag"
  /\ modified' = [modified EXCEPT ![hand[p]] = TRUE]
  /\ editor' = [editor EXCEPT ![p] = "idle"]
  /\ UNCHANGED <<mem, made, blocks, diskVars, seen, saverVars, edit, hand, done, loadVars,
                 crashes, histVars>>

(* The chunk enters or leaves the last visibleChunks.                       *)
Look ==
  /\ seen' = ~seen
  /\ mem # 0 \/ seen
  /\ UNCHANGED <<chunkVars, diskVars, saverVars, editVars, loadVars, crashes, histVars>>

-----------------------------------------------------------------------------
(* FreeAndSave.                                                             *)

Goto(s, label) == saver' = [saver EXCEPT ![s] = label]
OtherSavers(s) == \E t \in Savers \ {s} : saver[t] # "idle"

(* Variant: the chunk is removed from the map before it is saved.           *)
BeginSaveRemoved(s) ==
  /\ saver[s] = "idle"
  /\ mem # 0
  /\ held' = [held EXCEPT ![s] = mem]
  /\ freeing' = [freeing EXCEPT ![s] = ~seen]
  /\ Goto(s, "test")
  /\ exempt' = exempt \cup Pending
  /\ owed' = IF OtherSavers(s) THEN owed ELSE blocks[mem] \ exempt'
  /\ mem' = IF seen THEN mem ELSE 0
  /\ UNCHANGED <<made, blocks, modified, diskVars, seen, snapshot, editVars, loadVars, crashes>>

(* FreeUnseenChunks looks at the chunk; one that is seen is left to Save.   *)
BeginSave(s) ==
  /\ saver[s] = "idle"
  /\ mem # 0
  /\ held' = [held EXCEPT ![s] = mem]
  /\ freeing' = [freeing EXCEPT ![s] = ~seen]
  /\ Goto(s, "test")
  /\ exempt' = exempt \cup Pending
  /\ owed' = IF OtherSavers(s) THEN owed ELSE blocks[mem] \ exempt'
  /\ UNCHANGED <<chunkVars, diskVars, seen, snapshot, editVars, loadVars, crashes>>

(* The end of SaveChunk: on to RemoveChunk, or the end of Save.             *)
Saved(s) ==
  /\ Goto(s, IF freeing[s] THEN "remove" ELSE "idle")
  /\ owed' = IF freeing[s] \/ OtherSavers(s) THEN owed ELSE {}

(* Variant: SaveChunk returns at once.                                      *)
TestSkipped(s) ==
  /\ saver[s] = "test"
  /\ Saved(s)
  /\ UNCHANGED <<chunkVars, diskVars, seen, freeing, held, snapshot, editVars, loadVars,
                 crashes, exempt>>

(* SaveChunk: nothing to do for a chunk that is not modified ...            *)
Test(s) ==
  /\ saver[s] = "test"
  /\ \/ modified[held[s]] /\ Goto(s, "open") /\ UNCHANGED owed
     \/ ~modified[held[s]] /\ Saved(s)
  /\ UNCHANGED <<chunkVars, diskVars, seen, freeing, held, snapshot, editVars, loadVars,
                 crashes, exempt>>

(* ... or open the file, which empties it ...                               *)
Open(s) ==
  /\ saver[s] = "open"
  /\ file' = "empty"
  /\ Goto(s, "serialise")
  /\ UNCHANGED <<chunkVars, fileHolds, oldFile, seen, freeing, held, snapshot, editVars,
                 loadVars, crashes, histVars>>

(* ... GetAsNbt ...                                                         *)
Serialise(s) ==
  /\ saver[s] = "serialise"
  /\ snapshot' = [snapshot EXCEPT ![s] = blocks[held[s]]]
  /\ Goto(s, "write")
  /\ UNCHANGED <<chunkVars, diskVars, seen, freeing, held, editVars, loadVars, crashes, histVars>>

(* ... NbtWrite and close ...                                               *)
Write(s) ==
  /\ saver[s] = "write"
  /\ file' = "whole"
  /\ fileHolds' = snapshot[s]
  /\ Goto(s, "reset")
  /\ UNCHANGED <<chunkVars, oldFile, seen, freeing, held, snapshot, editVars, loadVars,
                 crashes, histVars>>

(* ... and the flag.                                                        *)
Reset(s) ==
  /\ saver[s] = "reset"
  /\ modified' = [modified EXCEPT ![held[s]] = FALSE]
  /\ snapshot' = [snapshot EXCEPT ![s] = {}]
  /\ Saved(s)
  /\ UNCHANGED <<mem, made, blocks, diskVars, seen, freeing, held, editVars, loadVars, crashes,
                 exempt>>

(* RemoveChunk: whatever the map holds by now.                              *)
RemoveChunk(s) ==
  /\ saver[s] = "remove"
  /\ mem' = 0
  /\ Goto(s, "again")
  /\ UNCHANGED <<made, blocks, modified, diskVars, seen, freeing, held, snapshot, editVars,
                 loadVars, crashes, histVars>>

(* Save meets the chunk if it was loaded in the meantime.                   *)
Again(s) ==
  /\ saver[s] = "again"
  /\ freeing' = [freeing EXCEPT ![s] = FALSE]
  /\ held' = [held EXCEPT ![s] = mem]
  /\ Goto(s, IF mem = 0 THEN "idle" ELSE "test")
  /\ owed' = IF mem # 0 \/ OtherSavers(s) THEN owed ELSE {}
  /\ UNCHANGED <<chunkVars, diskVars, seen, snapshot, editVars, loadVars, crashes, exempt>>

-----------------------------------------------------------------------------
(* GetChunk on a worker's thread.                                           *)

(* Not in memory: is there a file, one in the old format, or none?          *)
LookUp ==
  /\ loader = "idle"
  /\ mem = 0
  /\ made < MaxObjects
  /\ fresh' = (file = "none" /\ ~oldFile)
  /\ loader' = IF file # "none" THEN "read" ELSE IF oldFile THEN "read old" ELSE "add"
  /\ got' = {}
  /\ UNCHANGED <<chunkVars, diskVars, seen, saverVars, editVars, failed, crashes, histVars>>

(* ReadFromNbt looks for the items of a chest in the root of the file, where *)
(* nothing writes them, and drops a chest without items.                     *)
ReadBack(S) == S \ Chests

(* LoadOldV2Chunk; what it returns for a broken file is null, which GetChunk *)
(* follows.                                                                  *)
Read ==
  /\ loader = "read"
  /\ \/ /\ file = "whole"
        /\ got' = ReadBack(fileHolds)
        /\ loader' = "add"
        /\ UNCHANGED failed
     \/ /\ file = "empty"
        /\ failed' = TRUE
        /\ UNCHANGED <<got, loader>>
  /\ UNCHANGED <<chunkVars, diskVars, seen, saverVars, editVars, fresh, crashes, histVars>>

(* LoadOldChunk reads the file ...                                           *)
ReadOld ==
  /\ loader = "read old"
  /\ got' = OldBlocks
  /\ loader' = "unlink"
  /\ UNCHANGED <<chunkVars, diskVars, seen, saverVars, editVars, fresh, failed, crashes, histVars>>

(* ... and removes it.                                                       *)
Unlink ==
  /\ loader = "unlink"
  /\ oldFile' = FALSE
  /\ loader' = "add"
  /\ UNCHANGED <<chunkVars, file, fileHolds, seen, saverVars, editVars, got, fresh, failed,
                 crashes, histVars>>

(* AddChunk.  A chunk that was generated is modified, one that was read is   *)
(* not, be it from a file that is gone.                                      *)
AddChunk ==
  /\ loader = "add"
  /\ loader' = "idle"
  /\ made' = made + 1
  /\ mem' = made + 1
  /\ blocks' = [blocks EXCEPT ![made + 1] = got]
  /\ modified' = [modified EXCEPT ![made + 1] = fresh]
  /\ got' = {} /\ fresh' = FALSE
  /\ UNCHANGED <<diskVars, seen, saverVars, editVars, failed, crashes, histVars>>

-----------------------------------------------------------------------------
(* The process dies and is started again: what is in memory is gone.         *)
Crash ==
  /\ crashes < MaxCrashes
  /\ crashes' = crashes + 1
  /\ mem' = 0
  /\ seen' = FALSE
  /\ saver' = [s \in Savers |-> "idle"]
  /\ editor' = [p \in Players |-> "idle"]
  /\ snapshot' = [s \in Savers |-> {}]
  /\ loader' = "idle" /\ got' = {} /\ fresh' = FALSE
  /\ owed' = {}
  /\ UNCHANGED <<made, blocks, modified, diskVars, freeing, held, edit, hand, done, failed,
                 exempt>>

-----------------------------------------------------------------------------
PlayerStep(p) ==
  (\E e \in Edits : BeginEdit(p, e)) \/ Change(p) \/ LookAgain(p) \/ Flag(p)

SaverStep(s) ==
  \/ BeginSave(s) \/ Test(s) \/ Open(s) \/ Serialise(s) \/ Write(s) \/ Reset(s)
  \/ RemoveChunk(s) \/ Again(s)

LoaderStep == LookUp \/ Read \/ ReadOld \/ Unlink \/ AddChunk

Next ==
  /\ ~failed
  /\ \/ \E p \in Players : PlayerStep(p)
     \/ \E s \in Savers : SaverStep(s)
     \/ LoaderStep
     \/ Look
     \/ Crash

Spec == Init /\ [][Next]_vars

-----------------------------------------------------------------------------
Objects == 0..MaxObjects

(* Types of the variables; threads that work on an object have one.          *)
TypeOK ==
  /\ mem \in Objects /\ made \in Objects
  /\ blocks \in [1..MaxObjects -> SUBSET Holds]
  /\ modified \in [1..MaxObjects -> BOOLEAN]
  /\ file \in {"none", "empty", "whole"} /\ fileHolds \in SUBSET Holds
  /\ oldFile \in BOOLEAN /\ seen \in BOOLEAN
  /\ saver \in [Savers -> {"idle", "test", "open", "serialise", "write", "reset", "remove",
                           "again"}]
  /\ freeing \in [Savers -> BOOLEAN]
  /\ held \in [Savers -> Objects]
  /\ snapshot \in [Savers -> SUBSET Holds]
  /\ editor \in [Players -> {"idle", "change", "look", "flag"}]
  /\ edit \in [Players -> Edits \cup {Nothing}]
  /\ hand \in [Players -> Objects]
  /\ done \in SUBSET Edits
  /\ loader \in {"idle", "read", "read old", "unlink", "add"}
  /\ got \in SUBSET Holds
  /\ fresh \in BOOLEAN /\ failed \in BOOLEAN
  /\ crashes \in 0..MaxCrashes
  /\ exempt \in SUBSET Edits /\ owed \in SUBSET Holds
  /\ \A s \in Savers : saver[s] \notin {"idle", "again"} => held[s] # 0
  /\ \A p \in Players : editor[p] \in {"change", "flag"} => hand[p] # 0
  /\ \A p \in Players : editor[p] # "idle" => edit[p] \in Edits
  /\ loader # "idle" => mem = 0 /\ made < MaxObjects

-----------------------------------------------------------------------------
(* With one saver, a chunk that is in memory and not marked modified differs *)
(* from its file only by what was changed while a save was under way: the    *)
(* flag can be trusted to decide what SaveChunk skips (world.cpp:232).       *)
CleanIsOnDisk ==
  mem # 0 /\ ~modified[mem] /\ ~Saving /\ Pending = {} =>
    (blocks[mem] \cap Blocks) \ exempt \subseteq fileHolds

(* A worker never finds a file that is being written, so GetChunk meets a    *)
(* load that failed (worldManager.cpp:211) only after a crash.               *)
ReadableUnlessCrashed == failed => crashes > 0

(* A chunk in the old format is saved in the new one on the next save cycle  *)
(* (worldManager.cpp:197): once its file is gone and it has left memory, it  *)
(* is there to be loaded.                                                    *)
OldFormatConverted ==
  (\E n \in 1..made : OldBlocks \subseteq blocks[n]) /\ ~oldFile /\ mem = 0 /\ loader = "idle"
    => OldBlocks \subseteq fileHolds

-----------------------------------------------------------------------------
(* ChunkStore implements ChunkPromise for changes of blocks: the content is   *)
(* the object in the map, or what would be loaded if there is none.           *)
Content == IF mem # 0 THEN blocks[mem] ELSE fileHolds

Promise == INSTANCE ChunkPromise WITH
  Edits <- Blocks,
  content <- Content \cap Blocks,
  durable <- fileHolds \cap Blocks,
  readable <- file # "empty",
  saving <- Saving,
  pending <- Pending \cap Blocks,
  exempt <- exempt \cap Blocks,
  owed <- owed \cap Blocks

(* One saver keeps the promise.                                               *)
KeepsPromise == Promise!Spec
=============================================================================
