--------------------------- MODULE ChunkStoreProofs ---------------------------
(***************************************************************************)
(* Theorems about ChunkStore, for any sets of edits and of players and for *)
(* one saver: types, what the modified flag and the file can be trusted    *)
(* for, and that ChunkStore implements ChunkPromise.                       *)
(***************************************************************************)
EXTENDS ChunkStore, TLAPS

(* Only the main thread saves. *)
OneSaver == \A s, t \in Savers : s = t

(* The saver is between BeginSave or Again and RemoveChunk. *)
Cycle == {"test", "open", "serialise", "write", "reset", "remove"}

(* Block changes that the promise covers. *)
Promised(S) == (S \cap Blocks) \ exempt

-----------------------------------------------------------------------------
(* The parts of the invariant.                                              *)

(* Objects in use have been made. *)
ObjectsMade ==
  /\ mem <= made
  /\ \A p \in Players : hand[p] <= made

(* The object being saved stays in the map until the saver removes it. *)
HeldInMap == \A s \in Savers : saver[s] \in Cycle => mem # 0 /\ held[s] = mem

(* The file is open only during a save, or was left so by a crash; then it  *)
(* cannot be loaded, so the chunk does not get into memory any more. *)
FileOpen ==
  file = "empty" =>
    \/ \E s \in Savers : saver[s] \in {"serialise", "write"}
    \/ /\ \A s \in Savers : saver[s] = "idle"
       /\ mem = 0
       /\ loader \in {"idle", "read"}
       /\ crashes > 0

NoFileEmpty == file = "none" => fileHolds = {}

(* What the worker is about to add is what the file holds. *)
Loaded ==
  /\ loader = "read" => file # "none"
  /\ loader \in {"read old", "unlink"} => file = "none"
  /\ loader = "unlink" => got \cap Blocks = {}
  /\ loader = "add" => got \cap Blocks = fileHolds \cap Blocks

(* The file is never ahead of memory. *)
FileBehind == mem # 0 => fileHolds \cap Blocks \subseteq blocks[mem]

(* Edits are made once. *)
EditsOnce ==
  /\ exempt \subseteq done
  /\ fileHolds \cap Blocks \subseteq done
  /\ mem # 0 => blocks[mem] \cap Blocks \subseteq done
  /\ \A p \in Players : editor[p] # "idle" => edit[p] \in done
  /\ \A p, q \in Players : editor[p] # "idle" /\ editor[q] # "idle" /\ edit[p] = edit[q] => p = q

(* An edit in the hands of a player is in its object once it is made; if    *)
(* that is not the chunk any more, a save came in between.                  *)
EditsKept ==
  \A p \in Players :
    /\ editor[p] = "look" => edit[p] \in Chests
    /\ editor[p] = "flag" /\ edit[p] \in Blocks => edit[p] \in blocks[hand[p]]
    /\ editor[p] \in {"change", "flag"} /\ edit[p] \in Blocks /\ hand[p] # mem => edit[p] \in exempt

(* Edits that are under way during a save are not promised. *)
SavingExempts ==
  Saving => \A p \in Players : editor[p] # "idle" => edit[p] \in exempt

(* An edit is on file, or the flag is up, or it is about to be. *)
CleanOrFlagged ==
  mem # 0 =>
    \A e \in Promised(blocks[mem]) :
      \/ e \in fileHolds
      \/ modified[mem]
      \/ \E p \in Players : editor[p] = "flag" /\ edit[p] = e /\ hand[p] = mem

(* What has been read for the file, and what has been written to it. *)
Written ==
  \A s \in Savers :
    /\ saver[s] = "write" => /\ Promised(blocks[mem]) \subseteq snapshot[s]
                             /\ fileHolds \cap Blocks \subseteq snapshot[s]
                             /\ snapshot[s] \cap Blocks \subseteq blocks[mem]
    /\ saver[s] = "reset" => Promised(blocks[mem]) \subseteq fileHolds

(* What the save owes is in the chunk, and on file when it is dropped. *)
Owed ==
  Saving =>
    /\ owed \cap Blocks \subseteq Content
    /\ owed \cap Blocks \subseteq done \ exempt
    /\ \A s \in Savers : saver[s] \in {"remove", "again"} => owed \cap Blocks \subseteq fileHolds

NothingFailed == failed => crashes > 0

IInv ==
  /\ ObjectsMade /\ HeldInMap /\ FileOpen /\ NoFileEmpty /\ Loaded /\ FileBehind
  /\ EditsOnce /\ EditsKept /\ SavingExempts /\ CleanOrFlagged /\ Written /\ Owed /\ NothingFailed

-----------------------------------------------------------------------------
(* Types.                                                                   *)

(* 0 stands for no object, the others are numbered from 1. *)
LEMMA ObjectNumbers ==
  0 \in Objects /\ \A n \in Objects : n \in Nat /\ (n # 0 => n \in 1..MaxObjects)
BY StoreAssumption DEF Objects

(* The empty store has its types. *)
LEMMA InitType == Init => TypeOK
<1> SUFFICES ASSUME Init PROVE TypeOK
  OBVIOUS
<1>1. 0 \in Objects
  BY StoreAssumption DEF Objects
<1>2. blocks \in [1..MaxObjects -> SUBSET Holds] /\ modified \in [1..MaxObjects -> BOOLEAN]
  BY DEF Init
<1>3. snapshot \in [Savers -> SUBSET Holds] /\ freeing \in [Savers -> BOOLEAN]
  BY DEF Init
<1>4. crashes \in 0..MaxCrashes
  BY StoreAssumption DEF Init
<1> QED
  BY <1>1, <1>2, <1>3, <1>4 DEF Init, TypeOK

(* Players change only objects that exist, and keep one in hand until they are done. *)
LEMMA PlayerType ==
  ASSUME TypeOK, NEW p \in Players, PlayerStep(p)
  PROVE  TypeOK'
<1>1. ASSUME NEW e \in Edits, BeginEdit(p, e) PROVE TypeOK'
  BY <1>1 DEF BeginEdit, TypeOK, chunkVars, diskVars, saverVars, loadVars
<1>2. CASE Change(p)
  <2>1. hand[p] \in 1..MaxObjects /\ edit[p] \in Holds
    BY <1>2, ObjectNumbers DEF Change, TypeOK, Holds
  <2>2. blocks' \in [1..MaxObjects -> SUBSET Holds]
    BY <1>2, <2>1 DEF Change, TypeOK
  <2>3. \A q \in Players : editor'[q] # "idle" => editor[q] # "idle"
    BY <1>2 DEF Change, TypeOK
  <2>4. \A q \in Players : editor'[q] \in {"change", "flag"} => editor[q] \in {"change", "flag"}
    BY <1>2 DEF Change, TypeOK
  <2>5. editor' \in [Players -> {"idle", "change", "look", "flag"}]
    BY <1>2 DEF Change, TypeOK
  <2>6. UNCHANGED <<mem, made, modified, diskVars, seen, saverVars, edit, hand, done, loadVars,
                    crashes, histVars>>
    BY <1>2 DEF Change
  <2> QED
    BY <2>2, <2>3, <2>4, <2>5, <2>6 DEF TypeOK, diskVars, saverVars, loadVars, histVars
<1>3. CASE LookAgain(p)
  BY <1>3 DEF LookAgain, TypeOK, chunkVars, diskVars, saverVars, loadVars, histVars
<1>4. CASE Flag(p)
  <2>1. hand[p] \in 1..MaxObjects
    BY <1>4, ObjectNumbers DEF Flag, TypeOK
  <2>2. modified' \in [1..MaxObjects -> BOOLEAN]
    BY <1>4 DEF Flag, TypeOK
  <2>3. editor' \in [Players -> {"idle", "change", "look", "flag"}]
    BY <1>4 DEF Flag, TypeOK
  <2>4. \A q \in Players : editor'[q] # "idle" => editor'[q] = editor[q]
    BY <1>4 DEF Flag, TypeOK
  <2>5. UNCHANGED <<mem, made, blocks, diskVars, seen, saverVars, edit, hand, done, loadVars,
                    crashes, histVars>>
    BY <1>4 DEF Flag
  <2> QED
    BY <2>2, <2>3, <2>4, <2>5 DEF TypeOK, diskVars, saverVars, loadVars, histVars
<1> QED
  BY <1>1, <1>2, <1>3, <1>4 DEF PlayerStep

(* Savers move edits between memory and file, never anything else. *)
LEMMA SaverType ==
  ASSUME TypeOK, NEW s \in Savers, SaverStep(s)
  PROVE  TypeOK'
<1> USE DEF Goto, Saved, chunkVars, diskVars, editVars, loadVars, histVars
<1>1. CASE BeginSave(s)
  <2>1. exempt' \in SUBSET Edits
    BY <1>1 DEF BeginSave, TypeOK, Pending
  <2>2. mem \in 1..MaxObjects
    BY <1>1, ObjectNumbers DEF BeginSave, TypeOK
  <2>3. owed' \in SUBSET Holds
    BY <1>1, <2>2 DEF BeginSave, TypeOK
  <2> QED
    BY <1>1, <2>1, <2>3 DEF BeginSave, TypeOK
<1>2. CASE Test(s)
  BY <1>2 DEF Test, TypeOK
<1>3. CASE Open(s)
  BY <1>3 DEF Open, TypeOK
<1>4. CASE Serialise(s)
  <2>1. held[s] \in 1..MaxObjects
    BY <1>4, ObjectNumbers DEF Serialise, TypeOK
  <2> QED
    BY <1>4, <2>1 DEF Serialise, TypeOK
<1>5. CASE Write(s)
  BY <1>5 DEF Write, TypeOK
<1>6. CASE Reset(s)
  <2>1. modified' \in [1..MaxObjects -> BOOLEAN]
    BY <1>6 DEF Reset, TypeOK
  <2> QED
    BY <1>6, <2>1 DEF Reset, TypeOK
<1>7. CASE RemoveChunk(s)
  BY <1>7, ObjectNumbers DEF RemoveChunk, TypeOK
<1>8. CASE Again(s)
  BY <1>8 DEF Again, TypeOK
<1> QED
  BY <1>1, <1>2, <1>3, <1>4, <1>5, <1>6, <1>7, <1>8 DEF SaverStep

(* AddChunk makes a new object, so its number is one that is left. *)
LEMMA LoaderType ==
  ASSUME TypeOK, LoaderStep
  PROVE  TypeOK'
<1> USE DEF diskVars, saverVars, editVars, histVars
<1>1. CASE LookUp
  BY <1>1 DEF LookUp, TypeOK, chunkVars
<1>2. CASE Read
  BY <1>2 DEF Read, ReadBack, TypeOK, chunkVars
<1>3. CASE ReadOld
  BY <1>3 DEF ReadOld, TypeOK, chunkVars, Holds
<1>4. CASE Unlink
  BY <1>4 DEF Unlink, TypeOK, chunkVars
<1>5. CASE AddChunk
  <2>1. made + 1 \in Objects
    BY <1>5, StoreAssumption DEF AddChunk, TypeOK, Objects
  <2>2. blocks' \in [1..MaxObjects -> SUBSET Holds] /\ modified' \in [1..MaxObjects -> BOOLEAN]
    BY <1>5 DEF AddChunk, TypeOK
  <2> QED
    BY <1>5, <2>1, <2>2 DEF AddChunk, TypeOK
<1> QED
  BY <1>1, <1>2, <1>3, <1>4, <1>5 DEF LoaderStep

(* A crash leaves the files and nothing in anybody's hands. *)
LEMMA CrashType ==
  ASSUME TypeOK, Crash
  PROVE  TypeOK'
<1>1. mem' \in Objects
  BY StoreAssumption DEF Crash, Objects
<1>2. crashes \in 0..MaxCrashes
  BY DEF TypeOK
<1>3. crashes' \in 0..MaxCrashes
  BY <1>2, StoreAssumption DEF Crash
<1>4. snapshot' \in [Savers -> SUBSET Holds] /\ saver' = [s \in Savers |-> "idle"]
  BY DEF Crash
<1>5. editor' = [p \in Players |-> "idle"] /\ loader' = "idle"
  BY DEF Crash
<1> QED
  BY <1>1, <1>3, <1>4, <1>5 DEF Crash, TypeOK, diskVars

(* Types, over all steps. *)
LEMMA NextType == TypeOK /\ [Next]_vars => TypeOK'
<1> SUFFICES ASSUME TypeOK, [Next]_vars PROVE TypeOK'
  OBVIOUS
<1>1. CASE Look
  BY <1>1 DEF Look, TypeOK, chunkVars, diskVars, saverVars, editVars, loadVars, histVars
<1>2. CASE UNCHANGED vars
  BY <1>2 DEF vars, TypeOK, chunkVars, diskVars, saverVars, editVars, loadVars, histVars
<1> QED
  BY <1>1, <1>2, PlayerType, SaverType, LoaderType, CrashType DEF Next

(* Every variable has its type, and a thread that works on an object has one *)
(* (chunk.cpp, world.cpp: no null pointer is followed).                      *)
THEOREM TypeCorrect == Spec => []TypeOK
<1> QED
  BY InitType, NextType, PTL DEF Spec

-----------------------------------------------------------------------------
(* A step keeps the parts of the invariant.                                 *)

(* Numbers are given in ascending order. *)
LEMMA ObjectsMadeStep ==
  ASSUME TypeOK, OneSaver, ObjectsMade, Next
  PROVE  ObjectsMade'
<1> USE DEF Goto, Saved, chunkVars, diskVars, saverVars, editVars, loadVars, histVars
<1>1. made \in Nat /\ \A p \in Players : hand[p] \in Nat
  BY ObjectNumbers DEF TypeOK
<1>2. ASSUME NEW p \in Players, NEW e \in Edits, BeginEdit(p, e) PROVE ObjectsMade'
  BY <1>2 DEF BeginEdit, ObjectsMade, TypeOK
<1>3. ASSUME NEW p \in Players, LookAgain(p) PROVE ObjectsMade'
  BY <1>3 DEF LookAgain, ObjectsMade, TypeOK
<1>4. ASSUME NEW s \in Savers, RemoveChunk(s) PROVE ObjectsMade'
  BY <1>4, <1>1 DEF RemoveChunk, ObjectsMade
<1>5. CASE AddChunk
  BY <1>5, <1>1 DEF AddChunk, ObjectsMade
<1>6. CASE Crash
  BY <1>6, <1>1 DEF Crash, ObjectsMade
<1>7. ASSUME NEW p \in Players, Change(p) \/ Flag(p) PROVE ObjectsMade'
  BY <1>7 DEF Change, Flag, ObjectsMade
<1>8. ASSUME NEW s \in Savers, BeginSave(s) \/ Test(s) \/ Open(s) \/ Serialise(s) PROVE ObjectsMade'
  BY <1>8 DEF BeginSave, Test, Open, Serialise, ObjectsMade
<1>9. ASSUME NEW s \in Savers, Write(s) \/ Reset(s) \/ Again(s) PROVE ObjectsMade'
  BY <1>9 DEF Write, Reset, Again, ObjectsMade
<1>10. CASE LookUp \/ Read \/ ReadOld \/ Unlink
  BY <1>10 DEF LookUp, Read, ReadOld, Unlink, ObjectsMade
<1>11. CASE Look
  BY <1>11 DEF Look, ObjectsMade
<1> QED
  BY <1>2, <1>3, <1>4, <1>5, <1>6, <1>7, <1>8, <1>9, <1>10, <1>11
     DEF Next, PlayerStep, SaverStep, LoaderStep

(* AddChunk does not come while a save runs: it needs an empty place in the map. *)
LEMMA HeldInMapStep ==
  ASSUME TypeOK, OneSaver, HeldInMap, Next
  PROVE  HeldInMap'
<1> USE DEF Goto, Saved, chunkVars, diskVars, saverVars, editVars, loadVars, histVars
<1>1. saver \in [Savers -> Cycle \cup {"idle", "again"}] /\ held \in [Savers -> Objects]
  BY DEF TypeOK, Cycle
<1>2. ASSUME NEW s \in Savers, BeginSave(s) PROVE HeldInMap'
  <2>1. \A t \in Savers : t = s
    BY DEF OneSaver
  <2> QED
    BY <1>2, <1>1, <2>1 DEF BeginSave, HeldInMap, Cycle
<1>3. ASSUME NEW s \in Savers, Test(s) PROVE HeldInMap'
  <2>1. \A t \in Savers : t = s
    BY DEF OneSaver
  <2> QED
    BY <1>3, <1>1, <2>1 DEF Test, HeldInMap, Cycle
<1>4. ASSUME NEW s \in Savers, Open(s) PROVE HeldInMap'
  <2>1. \A t \in Savers : t = s
    BY DEF OneSaver
  <2> QED
    BY <1>4, <1>1, <2>1 DEF Open, HeldInMap, Cycle
<1>5. ASSUME NEW s \in Savers, Serialise(s) PROVE HeldInMap'
  <2>1. \A t \in Savers : t = s
    BY DEF OneSaver
  <2> QED
    BY <1>5, <1>1, <2>1 DEF Serialise, HeldInMap, Cycle
<1>6. ASSUME NEW s \in Savers, Write(s) PROVE HeldInMap'
  <2>1. \A t \in Savers : t = s
    BY DEF OneSaver
  <2> QED
    BY <1>6, <1>1, <2>1 DEF Write, HeldInMap, Cycle
<1>7. ASSUME NEW s \in Savers, Reset(s) PROVE HeldInMap'
  <2>1. \A t \in Savers : t = s
    BY DEF OneSaver
  <2> QED
    BY <1>7, <1>1, <2>1 DEF Reset, HeldInMap, Cycle
<1>8. ASSUME NEW s \in Savers, RemoveChunk(s) PROVE HeldInMap'
  <2>1. \A t \in Savers : t = s
    BY DEF OneSaver
  <2> QED
    BY <1>8, <1>1, <2>1 DEF RemoveChunk, HeldInMap, Cycle
<1>9. ASSUME NEW s \in Savers, Again(s) PROVE HeldInMap'
  <2>1. \A t \in Savers : t = s
    BY DEF OneSaver
  <2> QED
    BY <1>9, <1>1, <2>1 DEF Again, HeldInMap, Cycle
<1>10. CASE AddChunk
  BY <1>10 DEF AddChunk, HeldInMap, TypeOK
<1>11. CASE Crash
  BY <1>11 DEF Crash, HeldInMap, Cycle
<1>12. ASSUME NEW p \in Players, NEW e \in Edits, BeginEdit(p, e) PROVE HeldInMap'
  BY <1>12 DEF BeginEdit, HeldInMap
<1>13. ASSUME NEW p \in Players, Change(p) \/ LookAgain(p) \/ Flag(p) PROVE HeldInMap'
  BY <1>13 DEF Change, LookAgain, Flag, HeldInMap
<1>14. CASE LookUp \/ Read \/ ReadOld \/ Unlink
  BY <1>14 DEF LookUp, Read, ReadOld, Unlink, HeldInMap
<1>15. CASE Look
  BY <1>15 DEF Look, HeldInMap
<1> QED
  BY <1>2, <1>3, <1>4, <1>5, <1>6, <1>7, <1>8, <1>9, <1>10, <1>11, <1>12, <1>13, <1>14, <1>15
     DEF Next, PlayerStep, SaverStep, LoaderStep

(* The file is opened by a saver that holds the chunk in the map; a crash leaves it open. *)
LEMMA FileOpenStep ==
  ASSUME TypeOK, OneSaver, FileOpen, HeldInMap, Next
  PROVE  FileOpen'
<1> USE DEF Goto, Saved, chunkVars, diskVars, saverVars, editVars, loadVars, histVars
<1>1. saver \in [Savers -> Cycle \cup {"idle", "again"}] /\ held \in [Savers -> Objects]
  BY DEF TypeOK, Cycle
<1>2. ASSUME NEW s \in Savers, BeginSave(s) PROVE FileOpen'
  <2>1. \A t \in Savers : t = s
    BY DEF OneSaver
  <2> QED
    BY <1>2, <1>1, <2>1 DEF BeginSave, FileOpen, HeldInMap, Cycle
<1>3. ASSUME NEW s \in Savers, Test(s) PROVE FileOpen'
  <2>1. \A t \in Savers : t = s
    BY DEF OneSaver
  <2> QED
    BY <1>3, <1>1, <2>1 DEF Test, FileOpen, HeldInMap, Cycle
<1>4. ASSUME NEW s \in Savers, Open(s) PROVE FileOpen'
  <2>1. \A t \in Savers : t = s
    BY DEF OneSaver
  <2> QED
    BY <1>4, <1>1, <2>1 DEF Open, FileOpen, HeldInMap, Cycle
<1>5. ASSUME NEW s \in Savers, Serialise(s) PROVE FileOpen'
  <2>1. \A t \in Savers : t = s
    BY DEF OneSaver
  <2> QED
    BY <1>5, <1>1, <2>1 DEF Serialise, FileOpen, HeldInMap, Cycle
<1>6. ASSUME NEW s \in Savers, Write(s) PROVE FileOpen'
  <2>1. \A t \in Savers : t = s
    BY DEF OneSaver
  <2> QED
    BY <1>6, <1>1, <2>1 DEF Write, FileOpen, HeldInMap, Cycle
<1>7. ASSUME NEW s \in Savers, Reset(s) PROVE FileOpen'
  <2>1. \A t \in Savers : t = s
    BY DEF OneSaver
  <2> QED
    BY <1>7, <1>1, <2>1 DEF Reset, FileOpen, HeldInMap, Cycle
<1>8. ASSUME NEW s \in Savers, RemoveChunk(s) PROVE FileOpen'
  <2>1. \A t \in Savers : t = s
    BY DEF OneSaver
  <2> QED
    BY <1>8, <1>1, <2>1 DEF RemoveChunk, FileOpen, HeldInMap, Cycle
<1>9. ASSUME NEW s \in Savers, Again(s) PROVE FileOpen'
  <2>1. \A t \in Savers : t = s
    BY DEF OneSaver
  <2> QED
    BY <1>9, <1>1, <2>1 DEF Again, FileOpen, HeldInMap, Cycle
<1>10. CASE LookUp \/ Read \/ ReadOld \/ Unlink
  BY <1>10 DEF LookUp, Read, ReadOld, Unlink, FileOpen, HeldInMap, Cycle
<1>11. CASE AddChunk
  BY <1>11, <1>1 DEF AddChunk, FileOpen, HeldInMap, Cycle, TypeOK
<1>12. CASE Crash
  <2>1. crashes \in 0..MaxCrashes /\ crashes' = crashes + 1
    BY <1>12 DEF Crash, TypeOK
  <2>2. crashes' > 0
    BY <2>1, StoreAssumption
  <2> QED
    BY <1>12, <2>2 DEF Crash, FileOpen
<1>13. ASSUME NEW p \in Players, NEW e \in Edits, BeginEdit(p, e) PROVE FileOpen'
  BY <1>13 DEF BeginEdit, FileOpen
<1>14. ASSUME NEW p \in Players, Change(p) \/ LookAgain(p) \/ Flag(p) PROVE FileOpen'
  BY <1>14 DEF Change, LookAgain, Flag, FileOpen
<1>15. CASE Look
  BY <1>15 DEF Look, FileOpen
<1> QED
  BY <1>2, <1>3, <1>4, <1>5, <1>6, <1>7, <1>8, <1>9, <1>10, <1>11, <1>12, <1>13, <1>14, <1>15
     DEF Next, PlayerStep, SaverStep, LoaderStep

(* Open creates the file and Write fills it. *)
LEMMA NoFileEmptyStep ==
  ASSUME TypeOK, OneSaver, NoFileEmpty, Next
  PROVE  NoFileEmpty'
<1> USE DEF Goto, Saved, chunkVars, diskVars, saverVars, editVars, loadVars, histVars
<1>1. ASSUME NEW s \in Savers, Open(s) \/ Write(s) PROVE NoFileEmpty'
  BY <1>1 DEF Open, Write, NoFileEmpty
<1>2. ASSUME NEW p \in Players, NEW e \in Edits, BeginEdit(p, e) PROVE NoFileEmpty'
  BY <1>2 DEF BeginEdit, NoFileEmpty
<1>3. ASSUME NEW p \in Players, Change(p) \/ LookAgain(p) \/ Flag(p) PROVE NoFileEmpty'
  BY <1>3 DEF Change, LookAgain, Flag, NoFileEmpty
<1>4. ASSUME NEW s \in Savers, BeginSave(s) \/ Test(s) \/ Serialise(s) \/ Reset(s) PROVE NoFileEmpty'
  BY <1>4 DEF BeginSave, Test, Serialise, Reset, NoFileEmpty
<1>5. ASSUME NEW s \in Savers, RemoveChunk(s) \/ Again(s) PROVE NoFileEmpty'
  BY <1>5 DEF RemoveChunk, Again, NoFileEmpty
<1>6. CASE LookUp \/ Read \/ ReadOld \/ Unlink
  BY <1>6 DEF LookUp, Read, ReadOld, Unlink, NoFileEmpty
<1>7. CASE AddChunk \/ Look \/ Crash
  BY <1>7 DEF AddChunk, Look, Crash, NoFileEmpty
<1> QED
  BY <1>1, <1>2, <1>3, <1>4, <1>5, <1>6, <1>7 DEF Next, PlayerStep, SaverStep, LoaderStep

(* No file changes while the worker loads, since savers hold the chunk in the map. *)
LEMMA LoadedStep ==
  ASSUME TypeOK, OneSaver, Loaded, HeldInMap, NoFileEmpty, Next
  PROVE  Loaded'
<1> USE DEF Goto, Saved, chunkVars, diskVars, saverVars, editVars, loadVars, histVars
<1>1. ASSUME NEW s \in Savers, Open(s) PROVE Loaded'
  <2>1. loader = "idle"
    BY <1>1 DEF Open, HeldInMap, Cycle, TypeOK
  <2> QED
    BY <1>1, <2>1 DEF Open, Loaded
<1>2. ASSUME NEW s \in Savers, Write(s) PROVE Loaded'
  <2>1. loader = "idle"
    BY <1>2 DEF Write, HeldInMap, Cycle, TypeOK
  <2> QED
    BY <1>2, <2>1 DEF Write, Loaded
<1>3. CASE LookUp
  BY <1>3 DEF LookUp, Loaded, NoFileEmpty, TypeOK
<1>4. CASE Read
  BY <1>4, StoreAssumption DEF Read, ReadBack, Loaded, NoFileEmpty
<1>5. CASE ReadOld
  BY <1>5, StoreAssumption DEF ReadOld, Loaded, NoFileEmpty
<1>6. CASE Unlink
  BY <1>6 DEF Unlink, Loaded, NoFileEmpty
<1>7. CASE AddChunk
  BY <1>7 DEF AddChunk, Loaded
<1>8. CASE Crash
  BY <1>8 DEF Crash, Loaded
<1>9. ASSUME NEW p \in Players, NEW e \in Edits, BeginEdit(p, e) PROVE Loaded'
  BY <1>9 DEF BeginEdit, Loaded
<1>10. ASSUME NEW p \in Players, Change(p) \/ LookAgain(p) \/ Flag(p) PROVE Loaded'
  BY <1>10 DEF Change, LookAgain, Flag, Loaded
<1>11. ASSUME NEW s \in Savers, BeginSave(s) \/ Test(s) \/ Serialise(s) \/ Reset(s) PROVE Loaded'
  BY <1>11 DEF BeginSave, Test, Serialise, Reset, Loaded
<1>12. ASSUME NEW s \in Savers, RemoveChunk(s) \/ Again(s) PROVE Loaded'
  BY <1>12 DEF RemoveChunk, Again, Loaded
<1>13. CASE Look
  BY <1>13 DEF Look, Loaded
<1> QED
  BY <1>1, <1>2, <1>3, <1>4, <1>5, <1>6, <1>7, <1>8, <1>9, <1>10, <1>11, <1>12, <1>13
     DEF Next, PlayerStep, SaverStep, LoaderStep

(* A file that is open when a worker reads it was left so by a crash. *)
LEMMA NothingFailedStep ==
  ASSUME TypeOK, OneSaver, NothingFailed, FileOpen, HeldInMap, Next
  PROVE  NothingFailed'
<1> USE DEF Goto, Saved, chunkVars, diskVars, saverVars, editVars, loadVars, histVars
<1>1. CASE Read
  <2>1. CASE file = "empty"
    <3>1. mem = 0
      BY <1>1 DEF Read, TypeOK
    <3>2. \A s \in Savers : saver[s] \notin Cycle
      BY <3>1 DEF HeldInMap
    <3>3. crashes > 0
      BY <2>1, <3>2 DEF FileOpen, Cycle
    <3> QED
      BY <1>1, <3>3 DEF Read, NothingFailed
  <2>2. CASE file = "whole"
    BY <1>1, <2>2 DEF Read, NothingFailed
  <2> QED
    BY <1>1, <2>1, <2>2 DEF Read
<1>2. CASE Crash
  <2>1. crashes \in 0..MaxCrashes /\ crashes' = crashes + 1
    BY <1>2 DEF Crash, TypeOK
  <2>2. crashes' > 0
    BY <2>1, StoreAssumption
  <2> QED
    BY <1>2, <2>2 DEF Crash, NothingFailed
<1>3. ASSUME NEW p \in Players, NEW e \in Edits, BeginEdit(p, e) PROVE NothingFailed'
  BY <1>3 DEF BeginEdit, NothingFailed
<1>4. ASSUME NEW p \in Players, Change(p) \/ LookAgain(p) \/ Flag(p) PROVE NothingFailed'
  BY <1>4 DEF Change, LookAgain, Flag, NothingFailed
<1>5. ASSUME NEW s \in Savers, BeginSave(s) \/ Test(s) \/ Open(s) \/ Serialise(s) PROVE NothingFailed'
  BY <1>5 DEF BeginSave, Test, Open, Serialise, NothingFailed
<1>6. ASSUME NEW s \in Savers, Write(s) \/ Reset(s) \/ RemoveChunk(s) \/ Again(s) PROVE NothingFailed'
  BY <1>6 DEF Write, Reset, RemoveChunk, Again, NothingFailed
<1>7. CASE LookUp \/ ReadOld \/ Unlink \/ AddChunk
  BY <1>7 DEF LookUp, ReadOld, Unlink, AddChunk, NothingFailed
<1>8. CASE Look
  BY <1>8 DEF Look, NothingFailed
<1> QED
  BY <1>1, <1>2, <1>3, <1>4, <1>5, <1>6, <1>7, <1>8 DEF Next, PlayerStep, SaverStep, LoaderStep

(* What Write writes was in the chunk, and nothing is taken out of it. *)
LEMMA FileBehindStep ==
  ASSUME TypeOK, OneSaver, FileBehind, HeldInMap, Loaded, Written, ObjectsMade, Next
  PROVE  FileBehind'
<1> USE DEF Goto, Saved, chunkVars, diskVars, saverVars, editVars, loadVars, histVars
<1>1. blocks \in [1..MaxObjects -> SUBSET Holds]
  BY DEF TypeOK
<1>2. ASSUME NEW p \in Players, Change(p) PROVE FileBehind'
  <2>1. hand[p] \in 1..MaxObjects /\ editor[p] = "change"
    BY <1>2, ObjectNumbers DEF Change, TypeOK
  <2>2. /\ blocks'[hand[p]] = blocks[hand[p]] \cup {edit[p]}
        /\ \A n \in 1..MaxObjects : n # hand[p] => blocks'[n] = blocks[n]
    BY <1>2, <2>1, <1>1 DEF Change
  <2>3. mem # 0 => mem \in 1..MaxObjects
    BY ObjectNumbers DEF TypeOK
  <2> QED
    BY <1>2, <2>2, <2>3 DEF Change, FileBehind
<1>3. ASSUME NEW s \in Savers, Write(s) PROVE FileBehind'
  BY <1>3 DEF Write, FileBehind, Written, HeldInMap, Cycle
<1>4. ASSUME NEW s \in Savers, RemoveChunk(s) PROVE FileBehind'
  BY <1>4 DEF RemoveChunk, FileBehind
<1>5. CASE AddChunk
  <2>1. made + 1 \in 1..MaxObjects
    BY <1>5, StoreAssumption DEF AddChunk, TypeOK, Objects
  <2>2. blocks'[mem'] = got
    BY <1>5, <2>1, <1>1 DEF AddChunk
  <2> QED
    BY <1>5, <2>2 DEF AddChunk, FileBehind, Loaded
<1>6. CASE Crash
  BY <1>6 DEF Crash, FileBehind
<1>7. ASSUME NEW p \in Players, NEW e \in Edits, BeginEdit(p, e) PROVE FileBehind'
  BY <1>7 DEF BeginEdit, FileBehind
<1>8. ASSUME NEW p \in Players, LookAgain(p) \/ Flag(p) PROVE FileBehind'
  BY <1>8 DEF LookAgain, Flag, FileBehind
<1>9. ASSUME NEW s \in Savers, BeginSave(s) \/ Test(s) \/ Open(s) \/ Serialise(s) PROVE FileBehind'
  BY <1>9 DEF BeginSave, Test, Open, Serialise, FileBehind
<1>10. ASSUME NEW s \in Savers, Reset(s) \/ Again(s) PROVE FileBehind'
  BY <1>10 DEF Reset, Again, FileBehind
<1>11. CASE LookUp \/ Read \/ ReadOld \/ Unlink
  BY <1>11 DEF LookUp, Read, ReadOld, Unlink, FileBehind
<1>12. CASE Look
  BY <1>12 DEF Look, FileBehind
<1> QED
  BY <1>2, <1>3, <1>4, <1>5, <1>6, <1>7, <1>8, <1>9, <1>10, <1>11, <1>12
     DEF Next, PlayerStep, SaverStep, LoaderStep

(* Whatever holds an edit got it from the player who made it. *)
LEMMA EditsOnceStep ==
  ASSUME TypeOK, OneSaver, EditsOnce, HeldInMap, Loaded, Written, EditsKept, Next
  PROVE  EditsOnce'
<1> USE DEF Goto, Saved, chunkVars, diskVars, saverVars, editVars, loadVars, histVars
<1>1. blocks \in [1..MaxObjects -> SUBSET Holds]
  BY DEF TypeOK
<1>2. ASSUME NEW p \in Players, NEW e \in Edits, BeginEdit(p, e) PROVE EditsOnce'
  <2>1. /\ e \notin done /\ done' = done \cup {e}
        /\ edit'[p] = e /\ editor'[p] = "change"
        /\ \A q \in Players : q # p => edit'[q] = edit[q] /\ editor'[q] = editor[q]
        /\ exempt' \subseteq exempt \cup {e}
    BY <1>2 DEF BeginEdit, TypeOK
  <2>2. \A q \in Players : q # p /\ editor'[q] # "idle" => edit'[q] \in done
    BY <2>1 DEF EditsOnce
  <2>3. UNCHANGED <<fileHolds, mem, blocks>>
    BY <1>2 DEF BeginEdit
  <2> QED
    BY <2>1, <2>2, <2>3 DEF EditsOnce
<1>3. ASSUME NEW p \in Players, Change(p) PROVE EditsOnce'
  <2>1. hand[p] \in 1..MaxObjects /\ editor[p] = "change"
    BY <1>3, ObjectNumbers DEF Change, TypeOK
  <2>2. /\ blocks'[hand[p]] = blocks[hand[p]] \cup {edit[p]}
        /\ \A n \in 1..MaxObjects : n # hand[p] => blocks'[n] = blocks[n]
    BY <1>3, <2>1, <1>1 DEF Change
  <2>3. mem # 0 => mem \in 1..MaxObjects
    BY ObjectNumbers DEF TypeOK
  <2>4. edit[p] \in done
    BY <2>1 DEF EditsOnce
  <2>5. \A q \in Players : editor'[q] # "idle" => editor[q] # "idle"
    BY <1>3, <2>1 DEF Change, TypeOK
  <2>6. UNCHANGED <<exempt, done, fileHolds, mem, edit>>
    BY <1>3 DEF Change
  <2> QED
    BY <2>2, <2>3, <2>4, <2>5, <2>6 DEF EditsOnce
<1>4. ASSUME NEW p \in Players, LookAgain(p) \/ Flag(p) PROVE EditsOnce'
  <2>1. \A q \in Players : editor'[q] # "idle" => editor[q] # "idle"
    BY <1>4 DEF LookAgain, Flag, TypeOK
  <2> QED
    BY <1>4, <2>1 DEF LookAgain, Flag, EditsOnce
<1>5. ASSUME NEW s \in Savers, BeginSave(s) PROVE EditsOnce'
  <2>1. Pending \subseteq done
    BY DEF Pending, EditsOnce
  <2>2. exempt' \subseteq done
    BY <1>5, <2>1 DEF BeginSave, EditsOnce
  <2> QED
    BY <1>5, <2>2 DEF BeginSave, EditsOnce
<1>6. ASSUME NEW s \in Savers, Write(s) PROVE EditsOnce'
  <2>1. mem # 0 /\ snapshot[s] \cap Blocks \subseteq blocks[mem]
    BY <1>6 DEF Write, Written, HeldInMap, Cycle
  <2> QED
    BY <1>6, <2>1 DEF Write, EditsOnce
<1>7. ASSUME NEW s \in Savers, RemoveChunk(s) PROVE EditsOnce'
  BY <1>7 DEF RemoveChunk, EditsOnce
<1>8. CASE AddChunk
  <2>1. made + 1 \in 1..MaxObjects
    BY <1>8, StoreAssumption DEF AddChunk, TypeOK, Objects
  <2>2. blocks'[mem'] = got
    BY <1>8, <2>1, <1>1 DEF AddChunk
  <2> QED
    BY <1>8, <2>2 DEF AddChunk, EditsOnce, Loaded
<1>9. CASE Crash
  BY <1>9 DEF Crash, EditsOnce
<1>10. ASSUME NEW s \in Savers, Test(s) \/ Open(s) \/ Serialise(s) \/ Reset(s) PROVE EditsOnce'
  BY <1>10 DEF Test, Open, Serialise, Reset, EditsOnce
<1>11. ASSUME NEW s \in Savers, Again(s) PROVE EditsOnce'
  BY <1>11 DEF Again, EditsOnce
<1>12. CASE LookUp \/ Read \/ ReadOld \/ Unlink
  BY <1>12 DEF LookUp, Read, ReadOld, Unlink, EditsOnce
<1>13. CASE Look
  BY <1>13 DEF Look, EditsOnce
<1> QED
  BY <1>2, <1>3, <1>4, <1>5, <1>6, <1>7, <1>8, <1>9, <1>10, <1>11, <1>12, <1>13
     DEF Next, PlayerStep, SaverStep, LoaderStep

(* A chunk leaves the map in a save, or in a crash that takes the players' threads with it. *)
LEMMA EditsKeptStep ==
  ASSUME TypeOK, OneSaver, EditsKept, HeldInMap, ObjectsMade, SavingExempts, Next
  PROVE  EditsKept'
<1> USE DEF Goto, Saved, chunkVars, diskVars, saverVars, editVars, loadVars, histVars
<1>1. blocks \in [1..MaxObjects -> SUBSET Holds]
  BY DEF TypeOK
<1>2. ASSUME NEW p \in Players, NEW e \in Edits, BeginEdit(p, e) PROVE EditsKept'
  <2>1. /\ editor'[p] = "change" /\ hand'[p] = mem
        /\ \A q \in Players : q # p => edit'[q] = edit[q] /\ editor'[q] = editor[q] /\ hand'[q] = hand[q]
    BY <1>2 DEF BeginEdit, TypeOK
  <2> QED
    BY <1>2, <2>1 DEF BeginEdit, EditsKept
<1>3. ASSUME NEW p \in Players, Change(p) PROVE EditsKept'
  <2>1. hand[p] \in 1..MaxObjects /\ editor[p] = "change"
    BY <1>3, ObjectNumbers DEF Change, TypeOK
  <2>2. /\ blocks'[hand[p]] = blocks[hand[p]] \cup {edit[p]}
        /\ \A n \in 1..MaxObjects : n # hand[p] => blocks'[n] = blocks[n]
    BY <1>3, <2>1, <1>1 DEF Change
  <2>3. mem # 0 => mem \in 1..MaxObjects
    BY ObjectNumbers DEF TypeOK
  <2>4. \A q \in Players : q # p => editor'[q] = editor[q]
    BY <1>3 DEF Change, TypeOK
  <2>5. /\ editor'[p] = "look" => edit[p] \in Chests
        /\ editor'[p] \in {"idle", "look", "flag"}
    BY <1>3 DEF Change, TypeOK
  <2>6. \A q \in Players : editor[q] = "flag" => hand[q] \in 1..MaxObjects
    BY ObjectNumbers DEF TypeOK
  <2>7. UNCHANGED <<mem, edit, hand, exempt>>
    BY <1>3 DEF Change
  <2>8. ASSUME NEW q \in Players, q # p, editor'[q] = "flag", edit'[q] \in Blocks
        PROVE  edit'[q] \in blocks'[hand'[q]]
    BY <2>2, <2>4, <2>6, <2>7, <2>8 DEF EditsKept
  <2> QED
    BY <2>1, <2>2, <2>4, <2>5, <2>7, <2>8 DEF EditsKept
<1>4. ASSUME NEW p \in Players, LookAgain(p) PROVE EditsKept'
  <2>1. edit[p] \notin Blocks
    BY <1>4, StoreAssumption DEF LookAgain, EditsKept
  <2>2. \A q \in Players : q # p => editor'[q] = editor[q] /\ hand'[q] = hand[q]
    BY <1>4 DEF LookAgain, TypeOK
  <2>3. editor'[p] # "look"
    BY <1>4 DEF LookAgain, TypeOK
  <2> QED
    BY <1>4, <2>1, <2>2, <2>3 DEF LookAgain, EditsKept
<1>5. ASSUME NEW p \in Players, Flag(p) PROVE EditsKept'
  <2>1. /\ editor'[p] = "idle"
        /\ \A q \in Players : q # p => editor'[q] = editor[q]
    BY <1>5 DEF Flag, TypeOK
  <2> QED
    BY <1>5, <2>1 DEF Flag, EditsKept
<1>6. ASSUME NEW s \in Savers, BeginSave(s) PROVE EditsKept'
  BY <1>6 DEF BeginSave, EditsKept
<1>7. ASSUME NEW s \in Savers, RemoveChunk(s) PROVE EditsKept'
  <2>1. \A q \in Players : editor[q] # "idle" => edit[q] \in exempt
    BY <1>7 DEF RemoveChunk, SavingExempts, Saving
  <2> QED
    BY <1>7, <2>1 DEF RemoveChunk, EditsKept
<1>8. CASE AddChunk
  <2>1. made + 1 \in 1..MaxObjects
    BY <1>8, StoreAssumption DEF AddChunk, TypeOK, Objects
  <2>2. blocks'[mem'] = got
    BY <1>8, <2>1, <1>1 DEF AddChunk
  <2>3. \A q \in Players : editor[q] = "flag" => blocks'[hand[q]] = blocks[hand[q]]
    <3> SUFFICES ASSUME NEW q \in Players, editor[q] = "flag" PROVE blocks'[hand[q]] = blocks[hand[q]]
      OBVIOUS
    <3>1. hand[q] \in 1..MaxObjects
      BY ObjectNumbers DEF TypeOK
    <3>2. hand[q] # made + 1
      <4>1. hand[q] <= made /\ made \in Nat
        BY ObjectNumbers DEF ObjectsMade, TypeOK
      <4> QED
        BY <3>1, <4>1
    <3> QED
      BY <1>8, <1>1, <3>1, <3>2 DEF AddChunk
  <2>4. mem = 0 /\ \A q \in Players : editor[q] \in {"change", "flag"} => hand[q] # 0
    BY <1>8 DEF AddChunk, TypeOK
  <2>5. UNCHANGED <<editor, edit, hand, exempt>>
    BY <1>8 DEF AddChunk
  <2> QED
    BY <2>3, <2>4, <2>5 DEF EditsKept
<1>9. CASE Crash
  BY <1>9 DEF Crash, EditsKept
<1>10. ASSUME NEW s \in Savers, Test(s) \/ Open(s) \/ Serialise(s) \/ Write(s) PROVE EditsKept'
  BY <1>10 DEF Test, Open, Serialise, Write, EditsKept
<1>11. ASSUME NEW s \in Savers, Reset(s) \/ Again(s) PROVE EditsKept'
  BY <1>11 DEF Reset, Again, EditsKept
<1>12. CASE LookUp \/ Read \/ ReadOld \/ Unlink
  BY <1>12 DEF LookUp, Read, ReadOld, Unlink, EditsKept
<1>13. CASE Look
  BY <1>13 DEF Look, EditsKept
<1> QED
  BY <1>2, <1>3, <1>4, <1>5, <1>6, <1>7, <1>8, <1>9, <1>10, <1>11, <1>12, <1>13
     DEF Next, PlayerStep, SaverStep, LoaderStep

(* BeginSave and BeginEdit put the edits that overlap the save into exempt. *)
LEMMA SavingExemptsStep ==
  ASSUME TypeOK, OneSaver, SavingExempts, Next
  PROVE  SavingExempts'
<1> USE DEF Goto, Saved, chunkVars, diskVars, saverVars, editVars, loadVars, histVars
<1>1. ASSUME NEW p \in Players, NEW e \in Edits, BeginEdit(p, e) PROVE SavingExempts'
  BY <1>1 DEF BeginEdit, SavingExempts, Saving, TypeOK
<1>2. ASSUME NEW p \in Players, Change(p) \/ LookAgain(p) \/ Flag(p) PROVE SavingExempts'
  BY <1>2 DEF Change, LookAgain, Flag, SavingExempts, Saving, TypeOK
<1>3. ASSUME NEW s \in Savers, BeginSave(s) PROVE SavingExempts'
  BY <1>3 DEF BeginSave, SavingExempts, Saving, Pending, TypeOK
<1>4. ASSUME NEW s \in Savers, Test(s) PROVE SavingExempts'
  BY <1>4 DEF Test, SavingExempts, Saving, Pending, TypeOK
<1>5. ASSUME NEW s \in Savers, Open(s) PROVE SavingExempts'
  BY <1>5 DEF Open, SavingExempts, Saving, Pending, TypeOK
<1>6. ASSUME NEW s \in Savers, Serialise(s) PROVE SavingExempts'
  BY <1>6 DEF Serialise, SavingExempts, Saving, Pending, TypeOK
<1>7. ASSUME NEW s \in Savers, Write(s) PROVE SavingExempts'
  BY <1>7 DEF Write, SavingExempts, Saving, Pending, TypeOK
<1>8. ASSUME NEW s \in Savers, Reset(s) PROVE SavingExempts'
  BY <1>8 DEF Reset, SavingExempts, Saving, Pending, TypeOK
<1>9. ASSUME NEW s \in Savers, RemoveChunk(s) PROVE SavingExempts'
  BY <1>9 DEF RemoveChunk, SavingExempts, Saving, Pending, TypeOK
<1>10. ASSUME NEW s \in Savers, Again(s) PROVE SavingExempts'
  BY <1>10 DEF Again, SavingExempts, Saving, Pending, TypeOK
<1>11. CASE Crash
  BY <1>11 DEF Crash, SavingExempts, Saving
<1>12. CASE LookUp \/ Read \/ ReadOld \/ Unlink
  BY <1>12 DEF LookUp, Read, ReadOld, Unlink, SavingExempts, Saving
<1>13. CASE AddChunk \/ Look
  BY <1>13 DEF AddChunk, Look, SavingExempts, Saving
<1> QED
  BY <1>1, <1>2, <1>3, <1>4, <1>5, <1>6, <1>7, <1>8, <1>9, <1>10, <1>11, <1>12, <1>13
     DEF Next, PlayerStep, SaverStep, LoaderStep

(* The flag comes down when the edits are on file; a new edit brings it up. *)
LEMMA CleanOrFlaggedStep ==
  ASSUME TypeOK, OneSaver, CleanOrFlagged, HeldInMap, Loaded, Written,
          ObjectsMade, EditsKept, SavingExempts, EditsOnce, Next
  PROVE  CleanOrFlagged'
<1> USE DEF Goto, Saved, chunkVars, diskVars, saverVars, editVars, loadVars, histVars
<1>1. blocks \in [1..MaxObjects -> SUBSET Holds]
  BY DEF TypeOK
<1>2. ASSUME NEW p \in Players, NEW e \in Edits, BeginEdit(p, e) PROVE CleanOrFlagged'
  <2>1. /\ exempt \subseteq exempt'
        /\ \A q \in Players : editor[q] = "flag" => editor'[q] = "flag" /\ edit'[q] = edit[q]
                                                     /\ hand'[q] = hand[q]
    BY <1>2 DEF BeginEdit, TypeOK
  <2> QED
    BY <1>2, <2>1 DEF BeginEdit, CleanOrFlagged, Promised
<1>3. ASSUME NEW p \in Players, Change(p) PROVE CleanOrFlagged'
  <2>1. hand[p] \in 1..MaxObjects /\ editor[p] = "change"
    BY <1>3, ObjectNumbers DEF Change, TypeOK
  <2>2. /\ blocks'[hand[p]] = blocks[hand[p]] \cup {edit[p]}
        /\ \A n \in 1..MaxObjects : n # hand[p] => blocks'[n] = blocks[n]
    BY <1>3, <2>1, <1>1 DEF Change
  <2>3. mem # 0 => mem \in 1..MaxObjects
    BY ObjectNumbers DEF TypeOK
  <2>4. \A q \in Players : q # p => editor'[q] = editor[q]
    BY <1>3 DEF Change, TypeOK
  <2>5. edit[p] \in Blocks => editor'[p] = "flag"
    BY <1>3, StoreAssumption DEF Change, TypeOK
  <2>6. UNCHANGED <<mem, modified, edit, hand, exempt, fileHolds>>
    BY <1>3 DEF Change
  <2> QED
    BY <2>1, <2>2, <2>3, <2>4, <2>5, <2>6 DEF CleanOrFlagged, Promised
<1>4. ASSUME NEW p \in Players, LookAgain(p) PROVE CleanOrFlagged'
  <2>1. \A q \in Players : editor[q] = "flag" => q # p /\ editor'[q] = "flag" /\ hand'[q] = hand[q]
    BY <1>4 DEF LookAgain, TypeOK
  <2> QED
    BY <1>4, <2>1 DEF LookAgain, CleanOrFlagged, Promised
<1>5. ASSUME NEW p \in Players, Flag(p) PROVE CleanOrFlagged'
  <2>1. \A q \in Players : q # p => editor'[q] = editor[q]
    BY <1>5 DEF Flag, TypeOK
  <2>2. hand[p] \in 1..MaxObjects
    BY <1>5, ObjectNumbers DEF Flag, TypeOK
  <2>3. /\ modified'[hand[p]] = TRUE
        /\ \A n \in 1..MaxObjects : modified[n] => modified'[n]
    BY <1>5, <2>2 DEF Flag, TypeOK
  <2>4. mem # 0 => mem \in 1..MaxObjects
    BY ObjectNumbers DEF TypeOK
  <2>5. UNCHANGED <<mem, blocks, edit, hand, exempt, fileHolds>>
    BY <1>5 DEF Flag
  <2> QED
    BY <2>1, <2>3, <2>4, <2>5 DEF CleanOrFlagged, Promised
<1>6. ASSUME NEW s \in Savers, BeginSave(s) PROVE CleanOrFlagged'
  BY <1>6 DEF BeginSave, CleanOrFlagged, Promised
<1>7. ASSUME NEW s \in Savers, Write(s) PROVE CleanOrFlagged'
  <2>1. mem # 0 /\ Promised(blocks[mem]) \subseteq snapshot[s]
    BY <1>7 DEF Write, Written, HeldInMap, Cycle
  <2> QED
    BY <1>7, <2>1 DEF Write, CleanOrFlagged, Promised
<1>8. ASSUME NEW s \in Savers, Reset(s) PROVE CleanOrFlagged'
  <2>1. Promised(blocks[mem]) \subseteq fileHolds
    BY <1>8 DEF Reset, Written
  <2> QED
    BY <1>8, <2>1 DEF Reset, CleanOrFlagged, Promised
<1>9. ASSUME NEW s \in Savers, RemoveChunk(s) PROVE CleanOrFlagged'
  BY <1>9 DEF RemoveChunk, CleanOrFlagged
<1>10. CASE AddChunk
  <2>1. made + 1 \in 1..MaxObjects
    BY <1>10, StoreAssumption DEF AddChunk, TypeOK, Objects
  <2>2. blocks'[mem'] = got
    BY <1>10, <2>1, <1>1 DEF AddChunk
  <2> QED
    BY <1>10, <2>2 DEF AddChunk, CleanOrFlagged, Promised, Loaded
<1>11. CASE Crash
  BY <1>11 DEF Crash, CleanOrFlagged
<1>12. CASE LookUp \/ Read \/ ReadOld \/ Unlink
  <2>1. UNCHANGED <<mem, blocks, modified, fileHolds, editor, edit, hand, exempt>>
    BY <1>12 DEF LookUp, Read, ReadOld, Unlink
  <2> QED
    BY <2>1 DEF CleanOrFlagged, Promised
<1>13. ASSUME NEW s \in Savers, Test(s) \/ Open(s) \/ Serialise(s) \/ Again(s) PROVE CleanOrFlagged'
  BY <1>13 DEF Test, Open, Serialise, Again, CleanOrFlagged, Promised
<1>14. CASE Look
  BY <1>14 DEF Look, CleanOrFlagged, Promised
<1> QED
  BY <1>2, <1>3, <1>4, <1>5, <1>6, <1>7, <1>8, <1>9, <1>10, <1>11, <1>12, <1>13, <1>14
     DEF Next, PlayerStep, SaverStep, LoaderStep

(* An edit made after GetAsNbt is exempt. *)
LEMMA WrittenStep ==
  ASSUME TypeOK, OneSaver, Written, HeldInMap, FileBehind, SavingExempts, Next
  PROVE  Written'
<1> USE DEF Goto, Saved, chunkVars, diskVars, saverVars, editVars, loadVars, histVars
<1>1. blocks \in [1..MaxObjects -> SUBSET Holds]
  BY DEF TypeOK
<1>2. saver \in [Savers -> Cycle \cup {"idle", "again"}] /\ snapshot \in [Savers -> SUBSET Holds]
  BY DEF TypeOK, Cycle
<1>3. ASSUME NEW p \in Players, NEW e \in Edits, BeginEdit(p, e) PROVE Written'
  BY <1>3 DEF BeginEdit, Written, Promised
<1>4. ASSUME NEW p \in Players, Change(p) PROVE Written'
  <2>1. hand[p] \in 1..MaxObjects /\ editor[p] = "change"
    BY <1>4, ObjectNumbers DEF Change, TypeOK
  <2>2. /\ blocks'[hand[p]] = blocks[hand[p]] \cup {edit[p]}
        /\ \A n \in 1..MaxObjects : n # hand[p] => blocks'[n] = blocks[n]
    BY <1>4, <2>1, <1>1 DEF Change
  <2>3. mem # 0 => mem \in 1..MaxObjects
    BY ObjectNumbers DEF TypeOK
  <2>4. \A s \in Savers : saver[s] \in Cycle => edit[p] \in exempt
    BY <2>1 DEF SavingExempts, Saving, Cycle
  <2>5. UNCHANGED <<mem, saver, snapshot, fileHolds, exempt>>
    BY <1>4 DEF Change
  <2>6. \A s \in Savers : saver[s] \in Cycle => mem # 0
    BY DEF HeldInMap
  <2> QED
    BY <2>2, <2>3, <2>4, <2>5, <2>6 DEF Written, Promised, Cycle
<1>5. ASSUME NEW s \in Savers, BeginSave(s) PROVE Written'
  <2>1. \A t \in Savers : t = s
    BY DEF OneSaver
  <2> QED
    BY <1>5, <1>2, <2>1 DEF BeginSave, Written, Promised, HeldInMap, FileBehind, Cycle
<1>6. ASSUME NEW s \in Savers, Test(s) PROVE Written'
  <2>1. \A t \in Savers : t = s
    BY DEF OneSaver
  <2> QED
    BY <1>6, <1>2, <2>1 DEF Test, Written, Promised, HeldInMap, FileBehind, Cycle
<1>7. ASSUME NEW s \in Savers, Open(s) PROVE Written'
  <2>1. \A t \in Savers : t = s
    BY DEF OneSaver
  <2> QED
    BY <1>7, <1>2, <2>1 DEF Open, Written, Promised, HeldInMap, FileBehind, Cycle
<1>8. ASSUME NEW s \in Savers, Serialise(s) PROVE Written'
  <2>1. \A t \in Savers : t = s
    BY DEF OneSaver
  <2> QED
    BY <1>8, <1>2, <2>1 DEF Serialise, Written, Promised, HeldInMap, FileBehind, Cycle
<1>9. ASSUME NEW s \in Savers, Write(s) PROVE Written'
  <2>1. \A t \in Savers : t = s
    BY DEF OneSaver
  <2> QED
    BY <1>9, <1>2, <2>1 DEF Write, Written, Promised, HeldInMap, FileBehind, Cycle
<1>10. ASSUME NEW s \in Savers, Reset(s) PROVE Written'
  <2>1. \A t \in Savers : t = s
    BY DEF OneSaver
  <2> QED
    BY <1>10, <1>2, <2>1 DEF Reset, Written, Promised, HeldInMap, FileBehind, Cycle
<1>11. ASSUME NEW s \in Savers, RemoveChunk(s) PROVE Written'
  <2>1. \A t \in Savers : t = s
    BY DEF OneSaver
  <2> QED
    BY <1>11, <1>2, <2>1 DEF RemoveChunk, Written, Promised, HeldInMap, FileBehind, Cycle
<1>12. ASSUME NEW s \in Savers, Again(s) PROVE Written'
  <2>1. \A t \in Savers : t = s
    BY DEF OneSaver
  <2> QED
    BY <1>12, <1>2, <2>1 DEF Again, Written, Promised, HeldInMap, FileBehind, Cycle
<1>13. CASE AddChunk
  <2>1. \A s \in Savers : saver[s] \notin Cycle
    BY <1>13 DEF AddChunk, HeldInMap, TypeOK
  <2> QED
    BY <1>13, <2>1 DEF AddChunk, Written, Cycle
<1>14. CASE Crash
  BY <1>14 DEF Crash, Written
<1>15. ASSUME NEW p \in Players, LookAgain(p) \/ Flag(p) PROVE Written'
  BY <1>15 DEF LookAgain, Flag, Written, Promised
<1>16. CASE LookUp \/ Read \/ ReadOld \/ Unlink
  BY <1>16 DEF LookUp, Read, ReadOld, Unlink, Written, Promised
<1>17. CASE Look
  BY <1>17 DEF Look, Written, Promised
<1> QED
  BY <1>3, <1>4, <1>5, <1>6, <1>7, <1>8, <1>9, <1>10, <1>11, <1>12, <1>13, <1>14, <1>15, <1>16, <1>17
     DEF Next, PlayerStep, SaverStep, LoaderStep

(* A saver that finds the chunk unmodified, or has written it, has nothing  *)
(* left to do for what the save owes.                                       *)
LEMMA OwedOnFile ==
  ASSUME HeldInMap, CleanOrFlagged, Written, SavingExempts, Owed, NEW s \in Savers,
         (saver[s] = "test" /\ ~modified[held[s]]) \/ saver[s] = "reset"
  PROVE  owed \cap Blocks \subseteq fileHolds
<1>1. mem # 0 /\ held[s] = mem /\ Saving
  BY DEF HeldInMap, Cycle, Saving
<1>2. \A q \in Players : editor[q] # "idle" => edit[q] \in exempt
  BY <1>1 DEF SavingExempts
<1>3. Promised(blocks[mem]) \subseteq fileHolds
  BY <1>1, <1>2 DEF CleanOrFlagged, Promised, Written
<1> QED
  BY <1>1, <1>3 DEF Owed, Promised, Content

(* What the save owes was promised when it began. *)
LEMMA OwedStep ==
  ASSUME TypeOK, OneSaver, Owed, HeldInMap, CleanOrFlagged, Written, SavingExempts, Loaded, EditsOnce, Next
  PROVE  Owed'
<1> USE DEF Goto, Saved, chunkVars, diskVars, saverVars, editVars, loadVars, histVars
<1>1. blocks \in [1..MaxObjects -> SUBSET Holds]
  BY DEF TypeOK
<1>2. saver \in [Savers -> Cycle \cup {"idle", "again"}] /\ held \in [Savers -> Objects]
  BY DEF TypeOK, Cycle
<1>3. ASSUME NEW p \in Players, NEW e \in Edits, BeginEdit(p, e) PROVE Owed'
  <2>1. e \notin done /\ exempt' \subseteq exempt \cup {e} /\ done' = done \cup {e}
    BY <1>3 DEF BeginEdit
  <2>2. UNCHANGED <<mem, blocks, fileHolds, saver, owed>>
    BY <1>3 DEF BeginEdit
  <2> QED
    BY <2>1, <2>2 DEF Owed, Saving, Content
<1>4. ASSUME NEW p \in Players, Change(p) PROVE Owed'
  <2>1. hand[p] \in 1..MaxObjects /\ editor[p] = "change"
    BY <1>4, ObjectNumbers DEF Change, TypeOK
  <2>2. /\ blocks'[hand[p]] = blocks[hand[p]] \cup {edit[p]}
        /\ \A n \in 1..MaxObjects : n # hand[p] => blocks'[n] = blocks[n]
    BY <1>4, <2>1, <1>1 DEF Change
  <2>3. mem # 0 => mem \in 1..MaxObjects
    BY ObjectNumbers DEF TypeOK
  <2>4. UNCHANGED <<mem, fileHolds, saver, owed, done, exempt>>
    BY <1>4 DEF Change
  <2>5. Content \subseteq Content'
    BY <2>2, <2>3, <2>4 DEF Content
  <2> QED
    BY <2>4, <2>5 DEF Owed, Saving
<1>5. ASSUME NEW s \in Savers, BeginSave(s) PROVE Owed'
  <2>1. \A t \in Savers : t = s
    BY DEF OneSaver
  <2>2. owed' = blocks[mem] \ exempt' /\ saver' = [saver EXCEPT ![s] = "test"]
    BY <1>5, <2>1 DEF BeginSave, OtherSavers
  <2>3. mem # 0 /\ UNCHANGED <<mem, blocks, fileHolds, done>>
    BY <1>5 DEF BeginSave
  <2>4. blocks[mem] \cap Blocks \subseteq done
    BY <2>3 DEF EditsOnce
  <2> QED
    BY <1>2, <2>1, <2>2, <2>3, <2>4 DEF Owed, Saving, Content
<1>6. ASSUME NEW s \in Savers, Open(s) PROVE Owed'
  <2>1. \A t \in Savers : t = s
    BY DEF OneSaver
  <2> QED
    BY <1>6, <1>2, <2>1 DEF Open, Owed, Saving, Content, OtherSavers
<1>7. ASSUME NEW s \in Savers, Serialise(s) PROVE Owed'
  <2>1. \A t \in Savers : t = s
    BY DEF OneSaver
  <2> QED
    BY <1>7, <1>2, <2>1 DEF Serialise, Owed, Saving, Content, OtherSavers
<1>8. ASSUME NEW s \in Savers, Again(s) PROVE Owed'
  <2>1. \A t \in Savers : t = s
    BY DEF OneSaver
  <2> QED
    BY <1>8, <1>2, <2>1 DEF Again, Owed, Saving, Content, OtherSavers
<1>9. ASSUME NEW s \in Savers, Write(s) PROVE Owed'
  <2>1. \A t \in Savers : t = s
    BY DEF OneSaver
  <2>2. mem # 0 /\ saver'[s] = "reset" /\ UNCHANGED <<mem, blocks, owed, done, exempt>>
    BY <1>9, <1>2 DEF Write, HeldInMap, Cycle
  <2>3. Saving
    BY <1>9 DEF Write, Saving
  <2> QED
    BY <2>1, <2>2, <2>3 DEF Owed, Content
<1>10. ASSUME NEW s \in Savers, Test(s) PROVE Owed'
  <2>1. \A t \in Savers : t = s
    BY DEF OneSaver
  <2>2. mem # 0 /\ held[s] = mem /\ Saving
    BY <1>10 DEF Test, HeldInMap, Cycle, Saving
  <2>5. ~modified[mem] => owed \cap Blocks \subseteq fileHolds
    BY <1>10, <2>2, OwedOnFile DEF Test
  <2>6. UNCHANGED <<mem, blocks, fileHolds, done, exempt>>
    BY <1>10 DEF Test
  <2>7. CASE modified[mem]
    <3>1. saver'[s] = "open" /\ owed' = owed
      BY <1>10, <1>2, <2>2, <2>7 DEF Test
    <3> QED
      BY <2>1, <2>2, <2>6, <3>1 DEF Owed, Content
  <2>8. CASE ~modified[mem] /\ freeing[s]
    <3>1. saver'[s] = "remove" /\ owed' = owed
      BY <1>10, <1>2, <2>2, <2>8 DEF Test
    <3> QED
      BY <2>1, <2>2, <2>5, <2>6, <2>8, <3>1 DEF Owed, Content
  <2>9. CASE ~modified[mem] /\ ~freeing[s]
    <3>1. saver'[s] = "idle"
      BY <1>10, <1>2, <2>2, <2>9 DEF Test
    <3> QED
      BY <2>1, <3>1 DEF Owed, Saving
  <2> QED
    BY <2>7, <2>8, <2>9
<1>11. ASSUME NEW s \in Savers, Reset(s) PROVE Owed'
  <2>1. \A t \in Savers : t = s
    BY DEF OneSaver
  <2>2. mem # 0 /\ Saving
    BY <1>11 DEF Reset, HeldInMap, Cycle, Saving
  <2>3. owed \cap Blocks \subseteq fileHolds
    BY <1>11, OwedOnFile DEF Reset
  <2>4. UNCHANGED <<mem, blocks, fileHolds, done, exempt>>
    BY <1>11 DEF Reset
  <2>5. CASE freeing[s]
    BY <1>11, <2>1, <2>2, <2>3, <2>4, <2>5 DEF Reset, Owed, Content
  <2>6. CASE ~freeing[s]
    BY <1>11, <1>2, <2>1, <2>6 DEF Reset, Owed, Saving
  <2> QED
    BY <2>5, <2>6
<1>12. ASSUME NEW s \in Savers, RemoveChunk(s) PROVE Owed'
  <2>1. \A t \in Savers : t = s
    BY DEF OneSaver
  <2>2. Saving /\ owed \cap Blocks \subseteq fileHolds
    BY <1>12 DEF RemoveChunk, Owed, Saving
  <2> QED
    BY <1>12, <2>1, <2>2 DEF RemoveChunk, Owed, Content
<1>13. CASE AddChunk
  <2>1. made + 1 \in 1..MaxObjects
    BY <1>13, StoreAssumption DEF AddChunk, TypeOK, Objects
  <2>2. blocks'[mem'] = got
    BY <1>13, <2>1, <1>1 DEF AddChunk
  <2>3. mem = 0 /\ \A s \in Savers : saver[s] \in {"idle", "again"}
    BY <1>13, <1>2 DEF AddChunk, HeldInMap, TypeOK
  <2>4. got \cap Blocks = fileHolds \cap Blocks
    BY <1>13 DEF AddChunk, Loaded
  <2>5. UNCHANGED <<fileHolds, saver, owed, done, exempt>>
    BY <1>13 DEF AddChunk
  <2>6. mem' # 0
    BY <1>13, <2>1 DEF AddChunk
  <2>7. Content' \cap Blocks = fileHolds \cap Blocks /\ Content = fileHolds
    BY <2>2, <2>3, <2>4, <2>6 DEF Content
  <2> QED
    BY <2>5, <2>7 DEF Owed, Saving
<1>14. CASE Crash
  BY <1>14 DEF Crash, Owed, Saving
<1>15. ASSUME NEW p \in Players, LookAgain(p) \/ Flag(p) PROVE Owed'
  BY <1>15 DEF LookAgain, Flag, Owed, Saving, Content, OtherSavers
<1>16. CASE LookUp \/ Read \/ ReadOld \/ Unlink
  BY <1>16 DEF LookUp, Read, ReadOld, Unlink, Owed, Saving, Content, OtherSavers
<1>17. CASE Look
  BY <1>17 DEF Look, Owed, Saving, Content, OtherSavers
<1> QED
  BY <1>3, <1>4, <1>5, <1>6, <1>7, <1>8, <1>9, <1>10, <1>11, <1>12, <1>13, <1>14, <1>15, <1>16, <1>17
     DEF Next, PlayerStep, SaverStep, LoaderStep

-----------------------------------------------------------------------------
(* The whole invariant.                                                     *)

(* Nothing is in memory, on its way or owed at the beginning. *)
LEMMA InitInv == Init => IInv
<1> SUFFICES ASSUME Init PROVE IInv
  OBVIOUS
<1>1. ObjectsMade /\ HeldInMap /\ FileOpen /\ NoFileEmpty /\ Loaded /\ NothingFailed
  BY DEF Init, ObjectsMade, HeldInMap, FileOpen, NoFileEmpty, Loaded, NothingFailed, Cycle
<1>2. FileBehind /\ EditsOnce /\ EditsKept /\ SavingExempts /\ CleanOrFlagged
  BY DEF Init, FileBehind, EditsOnce, EditsKept, SavingExempts, CleanOrFlagged
<1>3. Written /\ Owed
  BY DEF Init, Written, Owed, Saving
<1> QED
  BY <1>1, <1>2, <1>3 DEF IInv

(* All parts of the invariant together; each part's lemma says which others it needs. *)
LEMMA NextInv ==
  ASSUME OneSaver, TypeOK, IInv, [Next]_vars
  PROVE  IInv'
<1>1. CASE Next
  <2>1. ObjectsMade' /\ HeldInMap' /\ NoFileEmpty'
    BY <1>1, ObjectsMadeStep, HeldInMapStep, NoFileEmptyStep DEF IInv
  <2>2. FileOpen' /\ Loaded' /\ NothingFailed'
    BY <1>1, FileOpenStep, LoadedStep, NothingFailedStep DEF IInv
  <2>3. FileBehind' /\ EditsOnce' /\ EditsKept'
    BY <1>1, FileBehindStep, EditsOnceStep, EditsKeptStep DEF IInv
  <2>4. SavingExempts' /\ CleanOrFlagged'
    BY <1>1, SavingExemptsStep, CleanOrFlaggedStep DEF IInv
  <2>5. Written' /\ Owed'
    BY <1>1, WrittenStep, OwedStep DEF IInv
  <2> QED
    BY <2>1, <2>2, <2>3, <2>4, <2>5 DEF IInv
<1>2. CASE UNCHANGED vars
  <2> USE <1>2 DEF vars, chunkVars, diskVars, saverVars, editVars, loadVars, histVars
  <2>1. ObjectsMade' /\ HeldInMap' /\ FileOpen' /\ NoFileEmpty' /\ Loaded' /\ NothingFailed'
    BY DEF IInv, ObjectsMade, HeldInMap, FileOpen, NoFileEmpty, Loaded, NothingFailed
  <2>2. FileBehind' /\ EditsOnce' /\ EditsKept'
    BY DEF IInv, FileBehind, EditsOnce, EditsKept
  <2>3. SavingExempts' /\ CleanOrFlagged'
    BY DEF IInv, SavingExempts, Saving, CleanOrFlagged, Promised
  <2>4. Written' /\ Owed'
    BY DEF IInv, Written, Promised, Owed, Saving, Content
  <2> QED
    BY <2>1, <2>2, <2>3, <2>4 DEF IInv
<1> QED
  BY <1>1, <1>2

(* With one saver the parts above hold in every state: the chunk and its    *)
(* file never part unless the modified flag, or a thread about to raise it, *)
(* says so (world.cpp:232, chunk.cpp's setters).                            *)
THEOREM Invariance ==
  ASSUME OneSaver
  PROVE  Spec => []IInv
<1>1. Init => TypeOK /\ IInv
  BY InitType, InitInv
<1>2. TypeOK /\ IInv /\ [Next]_vars => TypeOK' /\ IInv'
  BY NextType, NextInv
<1> QED
  BY <1>1, <1>2, PTL DEF Spec

(* A chunk in memory that is not marked modified is on disk but for what    *)
(* was changed while a save was under way, so SaveChunk may skip it         *)
(* (world.cpp:232).                                                         *)
THEOREM CleanChunksAreOnDisk ==
  ASSUME OneSaver
  PROVE  Spec => []CleanIsOnDisk
<1>1. IInv => CleanIsOnDisk
  <2> SUFFICES ASSUME IInv, mem # 0, ~modified[mem], ~Saving, Pending = {}
               PROVE  (blocks[mem] \cap Blocks) \ exempt \subseteq fileHolds
    BY DEF CleanIsOnDisk
  <2>1. \A p \in Players : editor[p] = "idle"
    BY DEF Pending
  <2> QED
    BY <2>1 DEF IInv, CleanOrFlagged, Promised
<1> QED
  BY <1>1, Invariance, PTL

(* A load fails only on a file that a crash left half written               *)
(* (worldManager.cpp:211).                                                  *)
THEOREM LoadsFailOnlyAfterACrash ==
  ASSUME OneSaver
  PROVE  Spec => []ReadableUnlessCrashed
<1>1. IInv => ReadableUnlessCrashed
  BY DEF IInv, NothingFailed, ReadableUnlessCrashed
<1> QED
  BY <1>1, Invariance, PTL

-----------------------------------------------------------------------------
(* ChunkStore implements ChunkPromise.                                      *)

(* What the promise sees.                                                   *)
PromiseVars ==
  <<Content \cap Blocks, fileHolds \cap Blocks, file # "empty", Saving, Pending \cap Blocks,
    exempt \cap Blocks, owed \cap Blocks>>

(* The file is whole when no save is in the middle of it.                   *)
LEMMA FileReadable ==
  ASSUME OneSaver, FileOpen, NEW s \in Savers, saver[s] \in {"test", "reset", "remove", "again"}
  PROVE  file # "empty"
BY DEF OneSaver, FileOpen

(* BeginEdit, Change and Flag are the three steps of an edit; chests are not seen there. *)
LEMMA PlayerRefines ==
  ASSUME TypeOK, IInv, NEW p \in Players, PlayerStep(p)
  PROVE  Promise!Next \/ UNCHANGED PromiseVars
<1> USE DEF chunkVars, diskVars, saverVars, loadVars, histVars
<1>1. ASSUME NEW e \in Edits, BeginEdit(p, e)
      PROVE  Promise!Next \/ UNCHANGED PromiseVars
  <2>1. Pending' = Pending \cup {e}
    <3>1. /\ editor[p] = "idle" /\ editor'[p] # "idle" /\ edit'[p] = e
          /\ \A q \in Players : q # p => edit'[q] = edit[q] /\ editor'[q] = editor[q]
      BY <1>1 DEF BeginEdit, TypeOK
    <3> QED
      BY <3>1 DEF Pending
  <2>2. e \notin done /\ mem # 0
    BY <1>1 DEF BeginEdit
  <2>3. e \notin exempt /\ e \notin Pending /\ (e \in Blocks => e \notin Content)
    BY <2>2 DEF IInv, EditsOnce, Pending, Content
  <2>4. /\ UNCHANGED <<Content, fileHolds, file, Saving, owed>>
        /\ exempt' = IF Saving THEN exempt \cup {e} ELSE exempt
    BY <1>1 DEF BeginEdit, Content, Saving
  <2>5. CASE e \in Blocks
    <3>1. Promise!BeginEdit(e)
      BY <2>1, <2>3, <2>4, <2>5 DEF Promise!BeginEdit
    <3> QED
      BY <2>5, <3>1 DEF Promise!Next
  <2>6. CASE e \notin Blocks
    BY <2>1, <2>4, <2>6 DEF PromiseVars
  <2> QED
    BY <2>5, <2>6
<1>2. CASE Change(p)
  <2>1. hand[p] \in 1..MaxObjects /\ editor[p] = "change"
    BY <1>2, ObjectNumbers DEF Change, TypeOK
  <2>2. /\ blocks'[hand[p]] = blocks[hand[p]] \cup {edit[p]}
        /\ \A n \in 1..MaxObjects : n # hand[p] => blocks'[n] = blocks[n]
    BY <1>2, <2>1 DEF Change, TypeOK
  <2>3. mem # 0 => mem \in 1..MaxObjects
    BY ObjectNumbers DEF TypeOK
  <2>4. UNCHANGED <<mem, fileHolds, file, Saving, owed, exempt, edit>>
    BY <1>2 DEF Change, Saving
  <2>5. CASE edit[p] \in Blocks
    <3>1. editor' = [editor EXCEPT ![p] = "flag"]
      BY <1>2, <2>5, StoreAssumption DEF Change
    <3>2. UNCHANGED Pending
      BY <2>1, <2>4, <3>1 DEF Pending, TypeOK
    <3>3. edit[p] \in Pending
      BY <2>1 DEF Pending
    <3>4. CASE hand[p] = mem
      <4>1. Content' = Content \cup {edit[p]}
        BY <2>1, <2>2, <2>4, <3>4, StoreAssumption DEF Content
      <4>2. Promise!ApplyEdit(edit[p])
        BY <2>4, <2>5, <3>2, <3>3, <4>1 DEF Promise!ApplyEdit
      <4> QED
        BY <2>5, <4>2 DEF Promise!Next
    <3>5. CASE hand[p] # mem
      <4>1. UNCHANGED Content
        BY <2>2, <2>3, <2>4, <3>5 DEF Content
      <4> QED
        BY <2>4, <3>2, <4>1 DEF PromiseVars
    <3> QED
      BY <3>4, <3>5
  <2>6. CASE edit[p] \notin Blocks
    <3>1. UNCHANGED (Content \cap Blocks)
      BY <2>2, <2>3, <2>4, <2>6 DEF Content
    <3>2. \A q \in Players : q # p => editor'[q] = editor[q]
      BY <1>2 DEF Change, TypeOK
    <3>3. UNCHANGED (Pending \cap Blocks)
      BY <2>4, <2>6, <3>2 DEF Pending
    <3> QED
      BY <2>4, <3>1, <3>3 DEF PromiseVars
  <2> QED
    BY <2>5, <2>6
<1>3. CASE LookAgain(p)
  <2>1. edit[p] \notin Blocks
    BY <1>3, StoreAssumption DEF LookAgain, IInv, EditsKept
  <2>2. \A q \in Players : q # p => editor'[q] = editor[q]
    BY <1>3 DEF LookAgain, TypeOK
  <2>3. UNCHANGED edit
    BY <1>3 DEF LookAgain
  <2>4. UNCHANGED (Pending \cap Blocks)
    BY <2>1, <2>2, <2>3 DEF Pending
  <2> QED
    BY <1>3, <2>4 DEF LookAgain, PromiseVars, Content, Saving
<1>4. CASE Flag(p)
  <2>1. /\ editor[p] = "flag" /\ editor'[p] = "idle" /\ UNCHANGED edit
        /\ \A q \in Players : q # p => editor'[q] = editor[q]
    BY <1>4 DEF Flag, TypeOK
  <2>2. UNCHANGED <<Content, fileHolds, file, Saving, exempt, owed>>
    BY <1>4 DEF Flag, Content, Saving
  <2>3. CASE edit[p] \in Blocks
    <3>1. edit[p] \in Pending
      BY <2>1 DEF Pending
    <3>2. Pending' = Pending \ {edit[p]}
      BY <2>1 DEF IInv, EditsOnce, Pending
    <3>3. hand[p] # 0
      BY <2>1 DEF TypeOK
    <3>4. edit[p] \in Content \cup exempt
      BY <2>1, <2>3, <3>3 DEF IInv, EditsKept, Content
    <3>5. Promise!EndEdit(edit[p])
      BY <2>2, <2>3, <3>1, <3>2, <3>4 DEF Promise!EndEdit
    <3> QED
      BY <2>3, <3>5 DEF Promise!Next
  <2>4. CASE edit[p] \notin Blocks
    <3>1. UNCHANGED (Pending \cap Blocks)
      BY <2>1, <2>4 DEF Pending
    <3> QED
      BY <2>2, <3>1 DEF PromiseVars
  <2> QED
    BY <2>3, <2>4
<1> QED
  BY <1>1, <1>2, <1>3, <1>4 DEF PlayerStep

(* Open, Write, RemoveChunk and Again are Rewrite, Persist, Forget and EndSave of the promise. *)
LEMMA SaverRefines ==
  ASSUME OneSaver, TypeOK, IInv, NEW s \in Savers, SaverStep(s)
  PROVE  Promise!Next \/ UNCHANGED PromiseVars
<1> USE DEF Goto, Saved, chunkVars, diskVars, saverVars, editVars, loadVars, histVars
<1>1. \A t \in Savers : t = s
  BY DEF OneSaver
<1>2. Saving <=> saver[s] # "idle"
  BY <1>1 DEF Saving
<1>3. Saving' <=> saver'[s] # "idle"
  BY <1>1 DEF Saving
<1>4. saver \in [Savers -> Cycle \cup {"idle", "again"}] /\ held \in [Savers -> Objects]
  BY DEF TypeOK, Cycle
<1>5. saver[s] \in Cycle => mem # 0 /\ held[s] = mem
  BY DEF IInv, HeldInMap
<1>6. saver[s] \in {"test", "reset", "remove", "again"} => file # "empty"
  BY FileReadable DEF IInv
<1>7. saver[s] \in {"remove", "again"} => owed \cap Blocks \subseteq fileHolds
  BY <1>2 DEF IInv, Owed
<1>8. (saver[s] = "test" /\ ~modified[held[s]]) \/ saver[s] = "reset" => owed \cap Blocks \subseteq fileHolds
  BY OwedOnFile DEF IInv
<1>9. CASE BeginSave(s)
  <2>1. ~Saving /\ Saving' /\ mem # 0
    BY <1>2, <1>3, <1>4, <1>9 DEF BeginSave
  <2>2. exempt' = exempt \cup Pending /\ owed' = blocks[mem] \ exempt'
    BY <1>1, <1>9 DEF BeginSave, OtherSavers
  <2>3. UNCHANGED <<Content, fileHolds, file, Pending>>
    BY <1>9 DEF BeginSave, Content, Pending
  <2>4. Content = blocks[mem]
    BY <2>1 DEF Content
  <2>5. Promise!BeginSave
    BY <2>1, <2>2, <2>3, <2>4 DEF Promise!BeginSave
  <2> QED
    BY <2>5 DEF Promise!Next
<1>10. CASE Test(s)
  <2>1. UNCHANGED <<Content, fileHolds, file, Pending, exempt>> /\ Saving
    BY <1>2, <1>10 DEF Test, Content, Pending
  <2>2. CASE modified[held[s]] \/ freeing[s]
    <3>1. Saving' /\ owed' = owed
      BY <1>3, <1>4, <1>10, <2>2 DEF Test
    <3> QED
      BY <2>1, <3>1 DEF PromiseVars
  <2>3. CASE ~modified[held[s]] /\ ~freeing[s]
    <3>1. ~Saving' /\ owed' = {}
      BY <1>1, <1>3, <1>4, <1>10, <2>3 DEF Test, OtherSavers
    <3>2. file # "empty" /\ owed \cap Blocks \subseteq fileHolds
      BY <1>6, <1>8, <1>10, <2>3 DEF Test
    <3>3. Promise!EndSave
      BY <2>1, <3>1, <3>2 DEF Promise!EndSave
    <3> QED
      BY <3>3 DEF Promise!Next
  <2> QED
    BY <2>2, <2>3
<1>11. CASE Open(s)
  <2>1. UNCHANGED <<Content, fileHolds, Pending, exempt, owed>> /\ file' = "empty"
    BY <1>11 DEF Open, Content, Pending
  <2>2. Saving /\ Saving'
    BY <1>2, <1>3, <1>4, <1>11 DEF Open
  <2>3. Promise!Rewrite
    BY <2>1, <2>2 DEF Promise!Rewrite
  <2> QED
    BY <2>3 DEF Promise!Next
<1>12. CASE Serialise(s)
  <2>1. UNCHANGED <<Content, fileHolds, file, Pending, exempt, owed>>
    BY <1>12 DEF Serialise, Content, Pending
  <2>2. Saving /\ Saving'
    BY <1>2, <1>3, <1>4, <1>12 DEF Serialise
  <2> QED
    BY <2>1, <2>2 DEF PromiseVars
<1>13. CASE Write(s)
  <2>1. UNCHANGED <<Content, Pending, exempt, owed>> /\ file' = "whole" /\ fileHolds' = snapshot[s]
    BY <1>5, <1>13 DEF Write, Content, Pending, Cycle
  <2>2. Saving /\ Saving'
    BY <1>2, <1>3, <1>4, <1>13 DEF Write
  <2>3. /\ fileHolds \cap Blocks \subseteq snapshot[s] \cap Blocks
        /\ snapshot[s] \cap Blocks \subseteq Content \cap Blocks
    BY <1>5, <1>13 DEF Write, IInv, Written, Content, Cycle
  <2>4. Promise!Persist
    BY <2>1, <2>2, <2>3 DEF Promise!Persist
  <2> QED
    BY <2>4 DEF Promise!Next
<1>14. CASE Reset(s)
  <2>1. UNCHANGED <<Content, fileHolds, file, Pending, exempt>> /\ Saving
    BY <1>2, <1>14 DEF Reset, Content, Pending
  <2>2. CASE freeing[s]
    <3>1. Saving' /\ owed' = owed
      BY <1>3, <1>4, <1>14, <2>2 DEF Reset
    <3> QED
      BY <2>1, <3>1 DEF PromiseVars
  <2>3. CASE ~freeing[s]
    <3>1. ~Saving' /\ owed' = {}
      BY <1>1, <1>3, <1>4, <1>14, <2>3 DEF Reset, OtherSavers
    <3>2. file # "empty" /\ owed \cap Blocks \subseteq fileHolds
      BY <1>6, <1>8, <1>14 DEF Reset
    <3>3. Promise!EndSave
      BY <2>1, <3>1, <3>2 DEF Promise!EndSave
    <3> QED
      BY <3>3 DEF Promise!Next
  <2> QED
    BY <2>2, <2>3
<1>15. CASE RemoveChunk(s)
  <2>1. UNCHANGED <<fileHolds, file, Pending, exempt, owed>> /\ Content' = fileHolds
    BY <1>15 DEF RemoveChunk, Content, Pending
  <2>2. Saving /\ Saving'
    BY <1>2, <1>3, <1>4, <1>15 DEF RemoveChunk
  <2>3. file # "empty" /\ owed \cap Blocks \subseteq fileHolds
    BY <1>6, <1>7, <1>15 DEF RemoveChunk
  <2>4. Promise!Forget
    BY <2>1, <2>2, <2>3 DEF Promise!Forget
  <2> QED
    BY <2>4 DEF Promise!Next
<1>16. CASE Again(s)
  <2>1. UNCHANGED <<Content, fileHolds, file, Pending, exempt>> /\ Saving
    BY <1>2, <1>16 DEF Again, Content, Pending
  <2>2. CASE mem # 0
    <3>1. Saving' /\ owed' = owed
      BY <1>3, <1>4, <1>16, <2>2 DEF Again
    <3> QED
      BY <2>1, <3>1 DEF PromiseVars
  <2>3. CASE mem = 0
    <3>1. ~Saving' /\ owed' = {}
      BY <1>1, <1>3, <1>4, <1>16, <2>3 DEF Again, OtherSavers
    <3>2. file # "empty" /\ owed \cap Blocks \subseteq fileHolds
      BY <1>6, <1>7, <1>16 DEF Again
    <3>3. Promise!EndSave
      BY <2>1, <3>1, <3>2 DEF Promise!EndSave
    <3> QED
      BY <3>3 DEF Promise!Next
  <2> QED
    BY <2>2, <2>3
<1> QED
  BY <1>9, <1>10, <1>11, <1>12, <1>13, <1>14, <1>15, <1>16 DEF SaverStep

(* Loading puts into memory what one would find in the file; the promise    *)
(* does not see it.                                                         *)
LEMMA LoaderRefines ==
  ASSUME TypeOK, IInv, LoaderStep
  PROVE  UNCHANGED PromiseVars
<1> USE DEF saverVars, editVars, histVars, diskVars
<1>1. CASE LookUp \/ Read \/ ReadOld \/ Unlink
  BY <1>1 DEF LookUp, Read, ReadOld, Unlink, PromiseVars, Content, Saving, Pending, chunkVars
<1>2. CASE AddChunk
  <2>1. made + 1 \in 1..MaxObjects
    BY <1>2, StoreAssumption DEF AddChunk, TypeOK, Objects
  <2>2. blocks'[mem'] = got /\ mem' # 0
    BY <1>2, <2>1 DEF AddChunk, TypeOK
  <2>3. mem = 0 /\ got \cap Blocks = fileHolds \cap Blocks
    BY <1>2 DEF AddChunk, TypeOK, IInv, Loaded
  <2>4. UNCHANGED (Content \cap Blocks)
    BY <2>2, <2>3 DEF Content
  <2> QED
    BY <1>2, <2>4 DEF AddChunk, PromiseVars, Saving, Pending
<1> QED
  BY <1>1, <1>2 DEF LoaderStep

(* What memory had goes, and the promise falls back to what is durable. *)
LEMMA CrashRefines ==
  ASSUME TypeOK, Crash
  PROVE  Promise!Next
<1>1. Content' = fileHolds /\ ~Saving' /\ Pending' = {} /\ owed' = {}
  BY DEF Crash, Content, Saving, Pending, diskVars
<1>2. UNCHANGED <<fileHolds, file, exempt>>
  BY DEF Crash, diskVars
<1>3. Promise!Crash
  BY <1>1, <1>2 DEF Promise!Crash
<1> QED
  BY <1>3 DEF Promise!Next

(* One saver keeps the promise: no edit that a save cycle owed is lost when *)
(* the chunk is dropped, and a crash takes the chunk back to its file       *)
(* (SaveChunk, FreeUnseenChunks and LoadOldV2Chunk in world.cpp).           *)
THEOREM Refinement ==
  ASSUME OneSaver
  PROVE  Spec => KeepsPromise
<1>1. Init => Promise!Init
  BY DEF Init, Promise!Init, Content, Saving, Pending
<1>2. TypeOK /\ IInv /\ [Next]_vars => [Promise!Next]_Promise!vars
  <2> SUFFICES ASSUME TypeOK, IInv, [Next]_vars PROVE Promise!Next \/ UNCHANGED PromiseVars
    BY DEF Promise!vars, PromiseVars
  <2>1. CASE Look
    BY <2>1 DEF Look, PromiseVars, Content, Saving, Pending, chunkVars, diskVars, saverVars,
                editVars, histVars
  <2>2. CASE UNCHANGED vars
    BY <2>2 DEF vars, PromiseVars, Content, Saving, Pending, chunkVars, diskVars, saverVars,
                editVars, histVars
  <2> QED
    BY <2>1, <2>2, PlayerRefines, SaverRefines, LoaderRefines, CrashRefines DEF Next
<1> QED
  BY <1>1, <1>2, TypeCorrect, Invariance, PTL DEF Spec, KeepsPromise, Promise!Spec
=============================================================================
