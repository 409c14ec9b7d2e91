----------------------------- MODULE ChunkColumn ------------------------------
(***************************************************************************)
(* One vertical column of a chunk: its blocks, its entry in the height map *)
(* and its sky light.  GenerateHeightMap lights a new column, SetBlockType *)
(* changes one block and relights, and a column that is read from its file *)
(* gets its blocks back one SetBlockType at a time, then its saved light.  *)
(***************************************************************************)
EXTENDS Blocks

CONSTANTS CHUNK_HEIGHT, \* blocks in a column (128 in the code)
          Ids           \* the block ids that are used

ASSUME HeightAssumption == CHUNK_HEIGHT \in Nat /\ CHUNK_HEIGHT > 1
ASSUME IdsAssumption == Ids \subseteq Int /\ BLOCK.AIR \in Ids

VARIABLES
  types,     \* block ids, by height
  sky,       \* sky light, by height
  heightMap, \* the height of the column: sky light reaches down to here
  file,      \* the blocks as they were last written
  loading    \* the next block to read from the file; CHUNK_HEIGHT: not reading

vars == <<types, sky, heightMap, file, loading>>

Y == 0 .. CHUNK_HEIGHT - 1

(* ------------------------------ the height ------------------------------ *)

(* The light passes the block unhindered; above the column there is air.   *)
Clear(ts, y) == y \in Y => GetOpacity(ts[y]) = 0

(* Variant: the height is that of the block itself, one below the first     *)
(* block of air. *)
WalkDownToBlock(ts, from) ==
  CHOOSE n \in 0 .. from :
    /\ n = 0 \/ ~Clear(ts, n)
    /\ \A m \in n + 1 .. from : Clear(ts, m)

(* Walking down from a height to the first one with a block under it. *)
WalkDown(ts, from) ==
  CHOOSE n \in 0 .. from :
    /\ n = 0 \/ ~Clear(ts, n - 1)
    /\ \A m \in n + 1 .. from : Clear(ts, m - 1)

(* What GenerateHeightMap gives a column of these blocks. *)
GeneratedHeight(ts) == WalkDown(ts, CHUNK_HEIGHT - 1)

(* ------------------------------- sky light ------------------------------ *)

Int8(n) == ((n + 128) % 256) - 128

Nibble(n) == n % 16

(* The counter of the first lighting on its way down from the height h: an *)
(* int8_t, from which an opacity of up to 255 is taken until it is gone.   *)
FallingLight(ts, h) ==
  LET light[y \in 0 .. h] ==
        IF y = h THEN 15
        ELSE IF light[y + 1] <= 0 THEN 0
        ELSE Int8(light[y + 1] - GetOpacity(ts[y]))
  IN light

(* Above the height nothing is in its way; the lowest block is never lit.   *)
GeneratedSky(ts) ==
  LET h == GeneratedHeight(ts)
      light == FallingLight(ts, h)
  IN [y \in Y |-> IF y = 0 THEN 0
                  ELSE IF y >= h THEN 15
                  ELSE IF light[y] > 0 THEN Nibble(light[y]) ELSE 0]

(* The light below the height h after relighting: every block takes at     *)
(* least one level.                                                        *)
Filtered(ts, h) ==
  LET light[y \in 0 .. h] ==
        IF y = h THEN 15
        ELSE LET opacity == GetOpacity(ts[y])
                 left == light[y + 1] - (IF opacity = 0 THEN 1 ELSE opacity)
             IN IF left < 0 THEN 0 ELSE left
  IN light

(* Variant: what a removed block has uncovered stays dark. *)
RelitBelowOnly(ts, old, h, light) ==
  LET below == Filtered(ts, h)
  IN [y \in Y |-> IF y < h /\ below[y + 1] > 0 THEN below[y]
                  ELSE IF y < h /\ y >= old THEN 0
                  ELSE light[y]]

(* Above the new height nothing is darkened, below it the light is         *)
(* filtered until it is gone; what is deeper keeps its value.              *)
Relit(ts, old, h, light) ==
  LET below == Filtered(ts, h)
  IN [y \in Y |-> IF y < h /\ below[y + 1] > 0 THEN below[y]
                  ELSE IF y >= h /\ y < old THEN 15
                  ELSE IF y < h /\ y >= old THEN 0
                  ELSE light[y]]

(* Variant: the walk down is forgotten. *)
NewHeightUnwalked(ts, y, old) == IF y > old THEN y ELSE old

(* Variant: the walk begins at the old height, also for a block above it. *)
NewHeightFromOld(ts, y, old) == WalkDown(ts, old)

(* The height after the block at y has changed. *)
NewHeight(ts, y, old) == WalkDown(ts, IF y > old THEN y ELSE old)

(* ------------------------------ operations ------------------------------ *)

SetBlockType(y, id) ==
  /\ types' = [types EXCEPT ![y] = id]
  /\ heightMap' = NewHeight(types', y, heightMap)
  /\ sky' = IF heightMap' = heightMap THEN sky
            ELSE Relit(types', heightMap, heightMap', sky)

(* A generated column; no terrain reaches the topmost block. *)
Init ==
  /\ types \in [Y -> Ids]
  /\ Clear(types, CHUNK_HEIGHT - 1)
  /\ heightMap = GeneratedHeight(types)
  /\ sky = GeneratedSky(types)
  /\ file = types
  /\ loading = CHUNK_HEIGHT

(* A player or a feature of the terrain changes a block.  The game's client *)
(* does not build on the topmost block.                                     *)
Change(y, id) ==
  /\ loading = CHUNK_HEIGHT
  /\ y < CHUNK_HEIGHT - 1
  /\ SetBlockType(y, id)
  /\ UNCHANGED <<file, loading>>

(* The chunk is saved and freed; somebody asks for it again.  The arrays of *)
(* the new Chunk are not initialised: reading starts with whatever blocks   *)
(* and height (a byte) the memory holds.                                    *)
Reload ==
  /\ loading = CHUNK_HEIGHT
  /\ file' = types
  /\ types' \in [Y -> Ids]
  /\ heightMap' \in 0 .. 2 * CHUNK_HEIGHT - 1
  /\ loading' = 0
  /\ sky' = sky

(* One turn of ReadFromNbt's first loop.  The saved light then replaces     *)
(* whatever the relighting made of it, so that is left out.                 *)
ReadBlock ==
  /\ loading < CHUNK_HEIGHT
  /\ types' = [types EXCEPT ![loading] = file[loading]]
  /\ heightMap' = NewHeight(types', loading, heightMap)
  /\ loading' = loading + 1
  /\ UNCHANGED <<sky, file>>

Next ==
  \/ \E y \in Y, id \in Ids : Change(y, id)
  \/ Reload
  \/ ReadBlock

Spec == Init /\ [][Next]_vars

-----------------------------------------------------------------------------
InUse == loading = CHUNK_HEIGHT

TypeOK ==
  /\ types \in [Y -> Ids]
  /\ sky \in [Y -> 0 .. 15]
  /\ heightMap \in 0 .. 2 * CHUNK_HEIGHT - 1
  /\ file \in [Y -> Ids]
  /\ loading \in 0 .. CHUNK_HEIGHT

(* The entry of the height map lies on a block that stops or dims the      *)
(* light, however the blocks were changed: CanBlockSeeTheSky and the       *)
(* surface that features are placed on never float in the air.             *)
HeightIsOnABlock == InUse => heightMap = 0 \/ ~Clear(types, heightMap - 1)

(* From its height upwards a column has full sky light, also after its     *)
(* height was lowered or raised and after a reload (the lowest block is    *)
(* never lit by GenerateHeightMap). *)
FullLightAbove == InUse => \A y \in Y : y >= heightMap /\ y > 0 => sky[y] = 15

(* RelightBlock may leave the height of a column too low (a block put on   *)
(* top of it does not raise it) but never too high.                        *)
NeverTooHigh == InUse => heightMap <= GeneratedHeight(types)

(* Reading the column back gives the height GenerateHeightMap would: a     *)
(* height that was left too low does not survive a reload.                 *)
ReloadMendsHeight == [][loading' = CHUNK_HEIGHT /\ loading # CHUNK_HEIGHT
                          => heightMap' = GeneratedHeight(types')]_vars

(* GetOpacity is how much the sky light is filtered by a block, so the     *)
(* light of a new column cannot grow on its way down. *)
FilteredDownwards == InUse => \A y \in Y \ {0} : y + 1 \in Y => sky[y] <= sky[y + 1]
===============================================================================
