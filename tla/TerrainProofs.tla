----------------------------- MODULE TerrainProofs -----------------------------
(***************************************************************************)
(* What RelightBlock promises about the height map and the sky light, for  *)
(* every column height and every set of blocks; and that PopulateChunk     *)
(* stays within the chunks that are known to exist, for every row of       *)
(* chunks and every value of the tree noise.                               *)
(***************************************************************************)
EXTENDS ChunkColumn, Population, TLAPS, WellFoundedInduction

(* Every nonempty set of naturals has a least element. *)
LEMMA Least ==
  ASSUME NEW S \in SUBSET Nat, S # {}
  PROVE  \E m \in S : \A k \in S : m <= k
<1> DEFINE R == OpToRel(<, Nat)
<1>1. IsWellFoundedOn(R, Nat)
  BY NatLessThanWellFounded
<1>2. \E m \in S : \A k \in S : ~(<<k, m>> \in R)
  <2> HIDE DEF R
  <2> QED BY <1>1, WFMin
<1>3. \A k, m \in Nat : k < m => <<k, m>> \in R
  BY DEF OpToRel
<1> HIDE DEF R
<1>4. PICK m \in S : \A k \in S : ~(<<k, m>> \in R)
  BY <1>2
<1>5. \A k \in S : ~(k < m)
  BY <1>3, <1>4
<1> QED BY <1>5

(* Walking down ends at the first height with something under it, or at the *)
(* bottom of the column.                                                    *)
LEMMA WalkDownFact ==
  ASSUME NEW ts, NEW from \in Nat
  PROVE  /\ WalkDown(ts, from) \in 0 .. from
         /\ WalkDown(ts, from) = 0 \/ ~Clear(ts, WalkDown(ts, from) - 1)
         /\ \A m \in WalkDown(ts, from) + 1 .. from : Clear(ts, m - 1)
<1> DEFINE Stop(n) == n = 0 \/ ~Clear(ts, n - 1)
           S == {d \in Nat : d <= from /\ Stop(from - d)}
<1>1. from \in S
  OBVIOUS
<1>2. PICK d \in S : \A k \in S : d <= k
  <2> HIDE DEF S
  <2>1. S \in SUBSET Nat
    BY DEF S
  <2> QED BY <1>1, <2>1, Least
<1>3. from - d \in 0 .. from /\ Stop(from - d)
  BY <1>2
<1>4. ASSUME NEW m \in from - d + 1 .. from PROVE Clear(ts, m - 1)
  <2>1. from - m \in Nat /\ from - m < d
    BY <1>3, <1>4
  <2>2. from - m \notin S
    BY <1>2, <2>1
  <2>3. from - (from - m) = m
    BY <1>3, <1>4
  <2> QED BY <2>1, <2>2, <2>3
<1>5. \E n \in 0 .. from :
        /\ n = 0 \/ ~Clear(ts, n - 1)
        /\ \A m \in n + 1 .. from : Clear(ts, m - 1)
  BY <1>3, <1>4
<1> QED BY <1>5, Zenon DEF WalkDown

(* A column of these blocks may have the height h: it lies on a block, and  *)
(* it is not above the column.                                              *)
OnABlock(ts, h) == h = 0 \/ ~Clear(ts, h - 1)

(* What is true of a column between two operations. *)
LitColumn ==
  /\ OnABlock(types, heightMap)
  /\ Clear(types, CHUNK_HEIGHT - 1)
  /\ \A y \in Y : y >= heightMap /\ y > 0 => sky[y] = 15

(* What is true of one that is being read: the blocks below loading are    *)
(* final, and no height between the current one and them is missed.        *)
ReadColumn ==
  /\ Clear(file, CHUNK_HEIGHT - 1)
  /\ \A y \in Y : y >= GeneratedHeight(file) /\ y > 0 => sky[y] = 15
  /\ \A y \in 0 .. loading - 1 : types[y] = file[y]
  /\ loading > 0 => /\ OnABlock(types, heightMap)
                    /\ \A m \in heightMap + 1 .. loading - 1 : Clear(types, m - 1)

Shape ==
  /\ types \in [Y -> Ids]
  /\ file \in [Y -> Ids]
  /\ heightMap \in Nat
  /\ loading \in 0 .. CHUNK_HEIGHT

IInv ==
  /\ Shape
  /\ loading = CHUNK_HEIGHT => LitColumn
  /\ loading < CHUNK_HEIGHT => ReadColumn

(* Above the column there is only air. *)
LEMMA AirAbove == \A ts : \A y \in Nat : y >= CHUNK_HEIGHT => Clear(ts, y)
BY HeightAssumption DEF Clear, Y

(* The height GenerateHeightMap gives is the highest possible one, and any  *)
(* height that misses no block is that one.                                 *)
LEMMA HighestHeight ==
  ASSUME NEW ts, Clear(ts, CHUNK_HEIGHT - 1), NEW h \in Nat, OnABlock(ts, h)
  PROVE  /\ GeneratedHeight(ts) \in Y
         /\ h <= GeneratedHeight(ts)
         /\ (\A m \in h + 1 .. CHUNK_HEIGHT - 1 : Clear(ts, m - 1)) => h = GeneratedHeight(ts)
<1> DEFINE g == GeneratedHeight(ts)
<1>1. CHUNK_HEIGHT - 1 \in Nat /\ CHUNK_HEIGHT \in Nat
  BY HeightAssumption
<1>2. /\ g \in 0 .. CHUNK_HEIGHT - 1
      /\ g = 0 \/ ~Clear(ts, g - 1)
      /\ \A m \in g + 1 .. CHUNK_HEIGHT - 1 : Clear(ts, m - 1)
  BY <1>1, WalkDownFact DEF GeneratedHeight
<1> HIDE DEF g
<1>3. h < CHUNK_HEIGHT
  <2>1. CASE h = 0
    BY <2>1, HeightAssumption
  <2>2. CASE h # 0 /\ h >= CHUNK_HEIGHT
    <3>1. h - 1 \in Nat /\ (h - 1 = CHUNK_HEIGHT - 1 \/ h - 1 >= CHUNK_HEIGHT)
      BY <2>2, <1>1
    <3>2. Clear(ts, h - 1)
      BY <3>1, AirAbove
    <3> QED BY <3>2, <2>2 DEF OnABlock
  <2> QED BY <2>1, <2>2, <1>1
<1>4. h <= g
  <2> SUFFICES ASSUME h > g PROVE FALSE
    BY <1>2
  <2>1. h \in g + 1 .. CHUNK_HEIGHT - 1 /\ h # 0
    BY <1>1, <1>2, <1>3
  <2> QED BY <2>1, <1>2 DEF OnABlock
<1>5. ASSUME \A m \in h + 1 .. CHUNK_HEIGHT - 1 : Clear(ts, m - 1) PROVE h = g
  <2> SUFFICES ASSUME g > h PROVE FALSE
    BY <1>2, <1>4
  <2>1. g \in h + 1 .. CHUNK_HEIGHT - 1 /\ g # 0
    BY <1>1, <1>2
  <2> QED BY <2>1, <1>2, <1>5
<1> QED BY <1>2, <1>4, <1>5 DEF g, Y

(* Relighting puts the height on a block and lights everything above it.    *)
LEMMA NewHeightFact ==
  ASSUME NEW ts, NEW y \in Y, NEW old \in Nat
  PROVE  /\ NewHeight(ts, y, old) \in Nat
         /\ OnABlock(ts, NewHeight(ts, y, old))
         /\ \A m \in NewHeight(ts, y, old) + 1 .. y : Clear(ts, m - 1)
<1> DEFINE from == IF y > old THEN y ELSE old
<1>1. from \in Nat /\ from >= y
  BY HeightAssumption DEF Y
<1> HIDE DEF from
<1>2. /\ WalkDown(ts, from) \in 0 .. from
      /\ WalkDown(ts, from) = 0 \/ ~Clear(ts, WalkDown(ts, from) - 1)
      /\ \A m \in WalkDown(ts, from) + 1 .. from : Clear(ts, m - 1)
  BY <1>1, WalkDownFact
<1>3. NewHeight(ts, y, old) = WalkDown(ts, from)
  BY DEF NewHeight, from
<1>4. y \in Nat
  BY HeightAssumption DEF Y
<1> QED BY <1>1, <1>2, <1>3, <1>4 DEF OnABlock

LEMMA RelitFact ==
  ASSUME NEW ts, NEW old \in Nat, NEW h \in Nat, NEW light,
         \A y \in Y : y >= old /\ y > 0 => light[y] = 15
  PROVE  \A y \in Y : y >= h /\ y > 0 => Relit(ts, old, h, light)[y] = 15
<1> DEFINE below == Filtered(ts, h)
<1> HIDE DEF below
<1>1. Relit(ts, old, h, light) =
        [y \in Y |-> IF y < h /\ below[y + 1] > 0 THEN below[y]
                     ELSE IF y >= h /\ y < old THEN 15
                     ELSE IF y < h /\ y >= old THEN 0
                     ELSE light[y]]
  BY DEF Relit, below
<1>2. \A y \in Y : y \in Nat
  BY HeightAssumption DEF Y
<1>3. ASSUME NEW y \in Y, y >= h, y > 0 PROVE Relit(ts, old, h, light)[y] = 15
  <2>1. ~(y < h)
    BY <1>2, <1>3
  <2>2. CASE y < old
    BY <1>1, <2>1, <2>2, <1>3
  <2>3. CASE ~(y < old)
    <3>1. y >= old
      BY <1>2, <2>3
    <3> QED BY <1>1, <2>1, <2>3, <3>1, <1>3
  <2> QED BY <2>2, <2>3
<1> QED BY <1>3

LEMMA InitInv == Init => IInv
<1> SUFFICES ASSUME Init PROVE IInv
  OBVIOUS
<1> USE HeightAssumption
<1>1. CHUNK_HEIGHT - 1 \in Nat
  OBVIOUS
<1>2. /\ heightMap \in 0 .. CHUNK_HEIGHT - 1
      /\ OnABlock(types, heightMap)
  BY <1>1, WalkDownFact DEF Init, GeneratedHeight, OnABlock
<1>3. \A y \in Y : y >= heightMap /\ y > 0 => sky[y] = 15
  BY <1>2 DEF Init, GeneratedSky, Y
<1>4. Shape /\ loading = CHUNK_HEIGHT /\ Clear(types, CHUNK_HEIGHT - 1)
  BY <1>2 DEF Init, Shape
<1> QED BY <1>2, <1>3, <1>4 DEF IInv, LitColumn

(* A block is changed: the new height is on a block, and a height that      *)
(* moved lights what is above it.                                           *)
LEMMA ChangeInv ==
  ASSUME IInv, NEW y \in Y, NEW id \in Ids, Change(y, id)
  PROVE  IInv'
<1>1. /\ Shape /\ LitColumn /\ loading = CHUNK_HEIGHT /\ loading' = CHUNK_HEIGHT
      /\ file' = file /\ types' = [types EXCEPT ![y] = id] /\ y < CHUNK_HEIGHT - 1
      /\ heightMap' = NewHeight(types', y, heightMap)
  BY DEF IInv, Change, SetBlockType
<1>2. types' \in [Y -> Ids] /\ heightMap \in Nat
  BY <1>1 DEF Shape
<1>3. heightMap' \in Nat /\ OnABlock(types', heightMap')
  BY <1>1, <1>2, NewHeightFact
<1>4. Clear(types', CHUNK_HEIGHT - 1)
  <2>1. CHUNK_HEIGHT - 1 \in Y => types'[CHUNK_HEIGHT - 1] = types[CHUNK_HEIGHT - 1]
    BY <1>1, HeightAssumption DEF Shape, Y
  <2> QED BY <1>1, <2>1 DEF LitColumn, Clear
<1>5. \A z \in Y : z >= heightMap' /\ z > 0 => sky'[z] = 15
  <2>1. \A z \in Y : z >= heightMap /\ z > 0 => sky[z] = 15
    BY <1>1 DEF LitColumn
  <2>2. CASE heightMap' = heightMap
    <3>1. sky' = sky
      BY <2>2 DEF Change, SetBlockType
    <3> QED BY <2>1, <2>2, <3>1
  <2>3. CASE heightMap' # heightMap
    <3>1. sky' = Relit(types', heightMap, heightMap', sky)
      BY <2>3 DEF Change, SetBlockType
    <3> QED BY <1>2, <1>3, <2>1, <3>1, RelitFact
  <2> QED BY <2>2, <2>3
<1>6. Shape'
  BY <1>1, <1>2, <1>3 DEF Shape
<1>7. LitColumn'
  BY <1>3, <1>4, <1>5 DEF LitColumn
<1> QED BY <1>1, <1>6, <1>7, HeightAssumption DEF IInv

(* What is written to the file keeps the light above its highest height.    *)
LEMMA ReloadInv ==
  ASSUME IInv, Reload
  PROVE  IInv'
<1> USE HeightAssumption
<1>1. /\ Shape /\ LitColumn /\ loading = CHUNK_HEIGHT /\ loading' = 0
      /\ file' = types /\ sky' = sky /\ types' \in [Y -> Ids]
      /\ heightMap' \in 0 .. 2 * CHUNK_HEIGHT - 1
  BY DEF IInv, Reload
<1>2. GeneratedHeight(types) \in Y /\ heightMap <= GeneratedHeight(types)
  BY <1>1, HighestHeight DEF LitColumn, Shape
<1>3. \A y \in Y : y >= GeneratedHeight(types) /\ y > 0 => sky[y] = 15
  BY <1>1, <1>2 DEF LitColumn, Shape, Y
<1>4. Shape'
  BY <1>1 DEF Shape
<1>5. ReadColumn'
  BY <1>1, <1>3 DEF ReadColumn, LitColumn
<1> QED BY <1>1, <1>4, <1>5 DEF IInv

(* One block read, also the last one, after which the height is the one a   *)
(* new column of these blocks would have.                                   *)
LEMMA ReadBlockFact ==
  ASSUME IInv, ReadBlock
  PROVE  /\ IInv'
         /\ loading' = CHUNK_HEIGHT => heightMap' = GeneratedHeight(types')
<1> USE HeightAssumption
<1>1. /\ Shape /\ ReadColumn /\ loading \in Y /\ loading' = loading + 1
      /\ types' = [types EXCEPT ![loading] = file[loading]]
      /\ heightMap' = NewHeight(types', loading, heightMap)
      /\ file' = file /\ sky' = sky
  BY DEF IInv, ReadBlock, Shape, Y
<1>2. types' \in [Y -> Ids] /\ heightMap \in Nat
  BY <1>1 DEF Shape
<1>3. /\ heightMap' \in Nat /\ OnABlock(types', heightMap')
      /\ \A m \in heightMap' + 1 .. loading : Clear(types', m - 1)
  BY <1>1, <1>2, NewHeightFact
<1>4. \A y \in 0 .. loading : types'[y] = file[y]
  BY <1>1 DEF ReadColumn, Shape, Y
<1>5. Shape'
  BY <1>1, <1>2, <1>3 DEF Shape, Y
<1>6. CASE loading' < CHUNK_HEIGHT
  <2>1. loading' - 1 = loading
    BY <1>1 DEF Y
  <2>2. \A y \in Y : y >= GeneratedHeight(file') /\ y > 0 => sky'[y] = 15
    BY <1>1 DEF ReadColumn
  <2>3. ReadColumn'
    BY <1>1, <1>3, <1>4, <2>1, <2>2 DEF ReadColumn
  <2> QED BY <1>5, <1>6, <2>3 DEF IInv
<1>7. CASE loading' = CHUNK_HEIGHT
  <2>1. types' = file
    BY <1>1, <1>2, <1>4, <1>7 DEF Shape, Y
  <2>2. Clear(types', CHUNK_HEIGHT - 1)
    BY <1>1, <2>1 DEF ReadColumn
  <2>3. loading = CHUNK_HEIGHT - 1
    BY <1>1, <1>7 DEF Y
  <2>4. heightMap' = GeneratedHeight(types')
    BY <1>3, <2>2, <2>3, HighestHeight
  <2>5. \A y \in Y : y >= heightMap' /\ y > 0 => sky'[y] = 15
    BY <1>1, <2>1, <2>4 DEF ReadColumn
  <2>6. LitColumn'
    BY <1>3, <2>2, <2>5 DEF LitColumn
  <2> QED BY <1>5, <1>7, <2>4, <2>6 DEF IInv
<1>8. loading' < CHUNK_HEIGHT \/ loading' = CHUNK_HEIGHT
  BY <1>1 DEF Y
<1> QED BY <1>6, <1>7, <1>8

LEMMA NextInv == IInv /\ [Next]_vars => IInv'
<1> SUFFICES ASSUME IInv, [Next]_vars PROVE IInv'
  OBVIOUS
<1>1. CASE Next
  BY <1>1, ChangeInv, ReloadInv, ReadBlockFact DEF Next
<1>2. CASE UNCHANGED vars
  BY <1>2 DEF vars, IInv, Shape, LitColumn, ReadColumn, OnABlock
<1> QED BY <1>1, <1>2

THEOREM Invariance == Spec => []IInv
BY InitInv, NextInv, PTL DEF Spec

(* The height map never points at a place with nothing under it, however    *)
(* high a column is and whatever is built, broken, saved and read back.     *)
THEOREM HeightOnABlock == Spec => []HeightIsOnABlock
<1>1. IInv => HeightIsOnABlock
  BY DEF IInv, LitColumn, HeightIsOnABlock, InUse, OnABlock
<1> QED BY <1>1, Invariance, PTL

(* Everything from the height upwards has full sky light. *)
THEOREM FullLight == Spec => []FullLightAbove
<1>1. IInv => FullLightAbove
  BY DEF IInv, LitColumn, FullLightAbove, InUse
<1> QED BY <1>1, Invariance, PTL

(* The height map may be too low, but is never too high. *)
THEOREM HeightNeverTooHigh == Spec => []NeverTooHigh
<1>1. IInv => NeverTooHigh
  BY HighestHeight DEF IInv, Shape, LitColumn, NeverTooHigh, InUse
<1> QED BY <1>1, Invariance, PTL

(* Whatever the memory of the new Chunk held, reading a column from its     *)
(* file ends with the height GenerateHeightMap would give it.               *)
THEOREM ReloadMends == Spec => ReloadMendsHeight
<1>1. IInv /\ [Next]_vars =>
        [loading' = CHUNK_HEIGHT /\ loading # CHUNK_HEIGHT
           => heightMap' = GeneratedHeight(types')]_vars
  <2> SUFFICES ASSUME IInv, Next, loading' = CHUNK_HEIGHT, loading # CHUNK_HEIGHT
               PROVE  heightMap' = GeneratedHeight(types')
    BY DEF vars
  <2>1. ReadBlock
    BY HeightAssumption DEF Next, Change, Reload
  <2> QED BY <2>1, ReadBlockFact
<1> QED BY <1>1, Invariance, PTL DEF Spec, ReloadMendsHeight

-----------------------------------------------------------------------------
(* How far the features of the terrain reach. *)

(* A feature that begins at this offset stays within the chunk and the next one. *)
Fits(from, reach) == \A offset \in reach : offset \in Int /\ from + offset \in 0 .. CHUNK_WIDTH

(* Lakes and dungeons, and the blobs of ore, which begin eight blocks later. *)
LEMMA GroundFits ==
  /\ Fits(8, Lake) /\ Fits(8, Dungeon)
  /\ \A size \in {6, 7, 8, 16, 32} : Fits(0, Blob(size))
<1>1. Fits(8, Lake)
  <2>1. ASSUME NEW offset \in Lake PROVE offset \in -8 .. 7
    <3>1. PICK a \in {-8}, b \in 0 .. 15 : offset = a + b
      BY DEF Lake, Sums
    <3> QED BY <3>1
  <2> QED BY <2>1 DEF Fits, CHUNK_WIDTH
<1>2. Fits(8, Dungeon)
  BY DEF Fits, Dungeon, Span, CHUNK_WIDTH
<1>3. \A size \in {6, 7, 8, 16, 32} : Fits(0, Blob(size))
  BY DEF Fits, Blob, CHUNK_WIDTH
<1> QED BY <1>1, <1>2, <1>3

(* Plants, springs and snow. *)
LEMMA PlantsFit ==
  /\ Fits(8, Flowers) /\ Fits(8, Tallgrass) /\ Fits(8, Deadbush) /\ Fits(8, Sugarcane)
  /\ Fits(8, Pumpkins) /\ Fits(8, Cacti) /\ Fits(8, Liquid) /\ Fits(8, {0})
<1>1. \A n \in {4, 8} : \A d \in Scatter(n) : d \in -7 .. 7
  BY DEF Scatter
<1>2. \A plant : \A d \in Neighbours(plant) : d \in -1 .. 1
  BY DEF Neighbours, Span
<1>3. \A plant : Fits(8, Sums(Scatter(8), Neighbours(plant))) /\ Fits(8, Sums(Scatter(4), Neighbours(plant)))
  BY <1>1, <1>2 DEF Fits, Sums, CHUNK_WIDTH
<1>4. Fits(8, {0}) /\ Fits(8, Pumpkins) /\ Fits(8, Liquid)
  BY <1>1 DEF Fits, Pumpkins, Liquid, Span, CHUNK_WIDTH
<1>5. \A A : Fits(8, A) => Fits(8, {0} \cup A)
  BY <1>4 DEF Fits
<1> QED BY <1>3, <1>4, <1>5 DEF Flowers, Tallgrass, Deadbush, Sugarcane, Cacti

LEMMA SpansFit ==
  ASSUME NEW n \in 0 .. 8
  PROVE  Fits(8, Span(n))
BY DEF Fits, Span, CHUNK_WIDTH

(* The leaves of a taiga tree get no wider than the maximum.                *)
LEMMA TaigaFits ==
  ASSUME NEW h \in {3, 4}, NEW w \in 1 .. 5
  PROVE  TaigaRadii(h, w) \subseteq 0 .. 5
<1> DEFINE next(above, layer) ==
             IF above >= 1 /\ layer = h THEN above - 1
             ELSE IF above < w THEN above + 1 ELSE above
           body(f) == [layer \in 0 .. h |-> IF layer = 0 THEN 0 ELSE next(f[layer - 1], layer)]
<1>1. \A n \in 0 .. 5, layer \in 0 .. 4 : next(n, layer) \in 0 .. 5
  OBVIOUS
<1> HIDE DEF next
<1>2. \E f : f = body(f)
  <2>1. PICK a : a = next(0, 1)
    OBVIOUS
  <2>2. PICK b : b = next(a, 2)
    OBVIOUS
  <2>3. PICK c : c = next(b, 3)
    OBVIOUS
  <2>4. PICK d : d = next(c, 4)
    OBVIOUS
  <2>5. PICK f : f = [layer \in 0 .. h |-> IF layer = 0 THEN 0 ELSE IF layer = 1 THEN a
                        ELSE IF layer = 2 THEN b ELSE IF layer = 3 THEN c ELSE d]
    OBVIOUS
  <2>6. \A layer \in 1 .. h : f[layer] = next(f[layer - 1], layer)
    <3>1. CASE h = 3
      BY <2>1, <2>2, <2>3, <2>5, <3>1
    <3>2. CASE h = 4
      BY <2>1, <2>2, <2>3, <2>4, <2>5, <3>2
    <3> QED BY <3>1, <3>2
  <2> QED BY <2>5, <2>6
<1>3. PICK radius : radius = CHOOSE f : f = body(f)
  OBVIOUS
<1>4. radius = body(radius)
  <2> HIDE DEF body
  <2> QED BY <1>2, <1>3
<1>5. radius[0] = 0 /\ \A layer \in 1 .. h : radius[layer] = next(radius[layer - 1], layer)
  BY <1>4
<1>6. radius[1] \in 0 .. 5 /\ radius[2] \in 0 .. 5 /\ radius[3] \in 0 .. 5
  BY <1>1, <1>5
<1>7. \A layer \in 0 .. h : radius[layer] \in 0 .. 5
  BY <1>1, <1>5, <1>6
<1>8. TaigaRadii(h, w) = {radius[layer] : layer \in 0 .. h}
  BY <1>3 DEF TaigaRadii, next
<1> QED BY <1>7, <1>8

(* Nor do those of the other one. *)
LEMMA TaigaAltFits ==
  ASSUME NEW h \in 4 .. 8, NEW w \in {2, 3}, NEW first \in {0, 1}
  PROVE  TaigaAltRadii(h, w, first) \subseteq 0 .. 3
<1> DEFINE next(above) ==
             IF above.radius >= above.threshold
             THEN [radius |-> above.back, back |-> 1,
                   threshold |-> IF above.threshold < w THEN above.threshold + 1 ELSE w]
             ELSE [above EXCEPT !.radius = @ + 1]
           top == [radius |-> first, back |-> 0, threshold |-> 1]
           body(f) == [n \in 0 .. h |-> IF n = 0 THEN top ELSE next(f[n - 1])]
           Layers == [radius : 0 .. 3, back : 0 .. 1, threshold : 1 .. 3]
<1>1. top \in Layers /\ \A above \in Layers : next(above) \in Layers
  <2>1. ASSUME NEW above \in Layers PROVE next(above) \in Layers
    <3>1. above.radius \in 0 .. 3 /\ above.back \in 0 .. 1 /\ above.threshold \in 1 .. 3
      OBVIOUS
    <3>2. CASE above.radius >= above.threshold
      BY <3>1, <3>2
    <3>3. CASE ~(above.radius >= above.threshold)
      <4>1. next(above) = [radius |-> above.radius + 1, back |-> above.back, threshold |-> above.threshold]
        BY <3>3
      <4> QED BY <3>1, <3>3, <4>1
    <3> QED BY <3>2, <3>3
  <2> QED BY <2>1
<1> HIDE DEF next, top, Layers
<1>2. \E f : f = body(f)
  <2>1. PICK a : a = next(top)
    OBVIOUS
  <2>2. PICK b : b = next(a)
    OBVIOUS
  <2>3. PICK c : c = next(b)
    OBVIOUS
  <2>4. PICK d : d = next(c)
    OBVIOUS
  <2>5. PICK e : e = next(d)
    OBVIOUS
  <2>6. PICK g : g = next(e)
    OBVIOUS
  <2>7. PICK k : k = next(g)
    OBVIOUS
  <2>8. PICK l : l = next(k)
    OBVIOUS
  <2>9. PICK f : f = [n \in 0 .. h |-> IF n = 0 THEN top ELSE IF n = 1 THEN a ELSE IF n = 2 THEN b
                        ELSE IF n = 3 THEN c ELSE IF n = 4 THEN d ELSE IF n = 5 THEN e
                        ELSE IF n = 6 THEN g ELSE IF n = 7 THEN k ELSE l]
    OBVIOUS
  <2>10. ASSUME NEW n \in 1 .. h PROVE f[n] = next(f[n - 1])
    <3>1. n \in 1 .. 8 /\ n - 1 \in 0 .. h
      OBVIOUS
    <3>2. CASE n \in {1, 2, 3, 4}
      BY <2>1, <2>2, <2>3, <2>4, <2>9, <3>1, <3>2
    <3>3. CASE n \in {5, 6, 7, 8}
      BY <2>5, <2>6, <2>7, <2>8, <2>9, <3>1, <3>3
    <3> QED BY <3>1, <3>2, <3>3
  <2>11. f = body(f)
    BY <2>9, <2>10
  <2> HIDE DEF body
  <2> QED BY <2>11
<1>3. PICK layers : layers = CHOOSE f : f = body(f)
  OBVIOUS
<1>4. layers = body(layers)
  <2> HIDE DEF body
  <2> QED BY <1>2, <1>3
<1>5. layers[0] = top /\ \A n \in 1 .. h : layers[n] = next(layers[n - 1])
  BY <1>4
<1>6. \A n \in 1 .. h : layers[n - 1] \in Layers => layers[n] \in Layers
  BY <1>1, <1>5
<1>7. layers[1] \in Layers /\ layers[2] \in Layers /\ layers[3] \in Layers /\ layers[4] \in Layers
  BY <1>1, <1>5, <1>6
<1>8. (h >= 5 => layers[5] \in Layers) /\ (h >= 6 => layers[6] \in Layers)
      /\ (h >= 7 => layers[7] \in Layers) /\ (h >= 8 => layers[8] \in Layers)
  BY <1>6, <1>7
<1>9. \A n \in 0 .. h : layers[n] \in Layers
  BY <1>1, <1>5, <1>7, <1>8
<1>10. TaigaAltRadii(h, w, first) = {layers[n].radius : n \in 0 .. h}
  BY <1>3 DEF TaigaAltRadii, next, top
<1> QED BY <1>9, <1>10 DEF Layers

(* No branch of a big tree reaches further than five blocks, *)
LEMMA BranchFits ==
  ASSUME NEW h \in 5 .. 16, NEW y \in 0 .. 11, y <= h
  PROVE  BranchReach(h, y) \in 0 .. 5
<1> DEFINE Reached(n) == /\ n = 0 \/ (2 * n - 1) * (2 * n - 1) * 1000000 < 1763584 * y * (h - y)
                         /\ (2 * n + 1) * (2 * n + 1) * 1000000 >= 1763584 * y * (h - y)
<1>1. PICK m : m = y * (h - y)
  OBVIOUS
<1>2. m \in 0 .. 64 /\ 1763584 * y * (h - y) = 1763584 * m
  BY <1>1, SMT
<1>3. \E n \in 0 .. 5 : Reached(n)
  <2>1. Reached(0) \/ Reached(1) \/ Reached(2) \/ Reached(3) \/ Reached(4) \/ Reached(5)
    BY <1>2, SMT
  <2> HIDE DEF Reached
  <2> QED BY <2>1
<1>4. \A n \in 0 .. h : Reached(n) => n \in 0 .. 5
  <2> SUFFICES ASSUME NEW n \in 6 .. h PROVE ~Reached(n)
    BY SMT
  <2>1. (2 * n - 1) * (2 * n - 1) >= 121
    BY SMT
  <2>2. PICK k : k = (2 * n - 1) * (2 * n - 1)
    OBVIOUS
  <2>3. k \in Nat /\ k >= 121
    BY <2>1, <2>2, SMT
  <2>4. ~(n = 0 \/ k * 1000000 < 1763584 * m)
    BY <1>2, <2>3, SMT
  <2> QED BY <1>2, <2>2, <2>4, SMT
<1>5. BranchReach(h, y) = IF 10 * y < 3 * h THEN 0 ELSE CHOOSE n \in 0 .. h : Reached(n)
  BY DEF BranchReach
<1> HIDE DEF Reached
<1> QED BY <1>3, <1>4, <1>5

(* and with the leaves at its end it is just what fits. *)
LEMMA TreesFit == \A kind \in {"small", "birch", "big", "taiga", "taigaAlt"} : Fits(8, Tree(kind))
<1>1. Fits(8, SmallTree)
  <2>1. \A widthBase \in -3 .. 0 : 1 - Quotient(widthBase, 2) \in 0 .. 8
    BY DEF Quotient
  <2>2. ASSUME NEW offset \in SmallTree PROVE \E r \in 0 .. 8 : offset \in Span(r)
    <3>1. CASE \E r \in {0, 1, 2} : offset \in Span(r)
      BY <3>1
    <3>2. CASE \E widthBase \in -3 .. 0 : offset \in Span(1 - Quotient(widthBase, 2))
      BY <2>1, <3>2
    <3> QED BY <3>1, <3>2 DEF SmallTree
  <2> QED BY <2>2, SpansFit DEF Fits
<1>2. Fits(8, TaigaTree)
  <2>1. ASSUME NEW offset \in TaigaTree PROVE \E r \in 0 .. 8 : offset \in Span(r)
    <3>1. PICK h \in {3, 4}, w \in 1 .. 5 : \E r \in {w} \cup TaigaRadii(h, w) : offset \in Span(r)
      BY DEF TaigaTree
    <3>2. \A r \in {w} \cup TaigaRadii(h, w) : r \in 0 .. 8
      BY TaigaFits
    <3> QED BY <3>1, <3>2
  <2> QED BY <2>1, SpansFit DEF Fits
<1>3. Fits(8, TaigaAltTree)
  <2>1. ASSUME NEW offset \in TaigaAltTree PROVE \E r \in 0 .. 8 : offset \in Span(r)
    <3>1. PICK h \in 4 .. 8, w \in {2, 3}, first \in {0, 1} :
            \E r \in {w} \cup TaigaAltRadii(h, w, first) : offset \in Span(r)
      BY DEF TaigaAltTree
    <3>2. \A r \in {w} \cup TaigaAltRadii(h, w, first) : r \in 0 .. 8
      BY TaigaAltFits
    <3> QED BY <3>1, <3>2
  <2> QED BY <2>1, SpansFit DEF Fits
<1>4. Fits(8, BigTree)
  <2>1. ASSUME NEW offset \in BigTree PROVE offset \in -8 .. 8
    <3>1. PICK h \in 5 .. 16, y \in 0 .. 11 :
            y <= h - trunkThickness /\ offset \in Sums(Span(BranchReach(h, y)), LeafReach(2) \cup LeafReach(3))
      BY DEF BigTree
    <3>2. BranchReach(h, y) \in 0 .. 5
      BY <3>1, BranchFits DEF trunkThickness
    <3>3. PICK a \in Span(BranchReach(h, y)), b \in LeafReach(2) \cup LeafReach(3) : offset = a + b
      BY <3>1 DEF Sums
    <3>4. a \in -5 .. 5
      BY <3>2 DEF Span
    <3>5. b \in -3 .. 3
      BY DEF LeafReach, Span
    <3> QED BY <3>3, <3>4, <3>5
  <2> QED BY <2>1 DEF Fits, CHUNK_WIDTH
<1> QED BY <1>1, <1>2, <1>3, <1>4 DEF Tree

-----------------------------------------------------------------------------
(* The program of a biome. *)

Fit(s) == s.from \in {0, 8} /\ Fits(s.from, s.reach)

AllFit(program) == \E S : program \in Seq(S) /\ \A s \in S : Fit(s)

LEMMA StageFits ==
  ASSUME NEW name, NEW from \in {0, 8}, NEW times, NEW reach, Fits(from, reach)
  PROVE  Fit(Stage(name, from, times, reach))
BY DEF Stage, Fit

LEMMA BothFit ==
  ASSUME NEW p, NEW q, AllFit(p), AllFit(q)
  PROVE  AllFit(p \o q)
<1>1. PICK S : p \in Seq(S) /\ \A s \in S : Fit(s)
  BY DEF AllFit
<1>2. PICK T : q \in Seq(T) /\ \A s \in T : Fit(s)
  BY DEF AllFit
<1>3. p \in Seq(S \cup T) /\ q \in Seq(S \cup T)
  BY <1>1, <1>2
<1>4. p \o q \in Seq(S \cup T)
  BY <1>3
<1> QED BY <1>1, <1>2, <1>4 DEF AllFit

(* Every stage of every biome's program fits. *)
LEMMA ProgramFits ==
  ASSUME NEW biome
  PROVE  /\ Len(Program(biome)) \in Nat \ {0}
         /\ \A i \in 1 .. Len(Program(biome)) : Fit(Program(biome)[i])
<1>1. AllFit(Ground)
  <2>1. PICK s1 : s1 = Stage("lake", 8, {0, 1}, Lake) /\ Fit(s1)
    BY GroundFits, StageFits
  <2>2. PICK s2 : s2 = Stage("lava lake", 8, {0, 1}, Lake) /\ Fit(s2)
    BY GroundFits, StageFits
  <2>3. PICK s3 : s3 = Stage("dungeon", 8, {8}, Dungeon) /\ Fit(s3)
    BY GroundFits, StageFits
  <2>4. PICK s4 : s4 = Stage("clay", 0, {10}, Blob(32)) /\ Fit(s4)
    BY GroundFits, StageFits
  <2>5. PICK s5 : s5 = Stage("dirt", 0, {20}, Blob(32)) /\ Fit(s5)
    BY GroundFits, StageFits
  <2>6. PICK s6 : s6 = Stage("gravel", 0, {10}, Blob(32)) /\ Fit(s6)
    BY GroundFits, StageFits
  <2>7. PICK s7 : s7 = Stage("coal", 0, {20}, Blob(16)) /\ Fit(s7)
    BY GroundFits, StageFits
  <2>8. PICK s8 : s8 = Stage("iron", 0, {20}, Blob(8)) /\ Fit(s8)
    BY GroundFits, StageFits
  <2>9. PICK s9 : s9 = Stage("gold", 0, {2}, Blob(8)) /\ Fit(s9)
    BY GroundFits, StageFits
  <2>10. PICK s10 : s10 = Stage("redstone", 0, {8}, Blob(7)) /\ Fit(s10)
    BY GroundFits, StageFits
  <2>11. PICK s11 : s11 = Stage("diamond", 0, {1}, Blob(7)) /\ Fit(s11)
    BY GroundFits, StageFits
  <2>12. PICK s12 : s12 = Stage("lapis", 0, {1}, Blob(6)) /\ Fit(s12)
    BY GroundFits, StageFits
  <2>13. Ground = <<s1, s2, s3, s4, s5, s6, s7, s8, s9, s10, s11, s12>>
    BY <2>1, <2>2, <2>3, <2>4, <2>5, <2>6, <2>7, <2>8, <2>9, <2>10, <2>11, <2>12 DEF Ground
  <2>14. PICK S : S = {s1, s2, s3, s4, s5, s6, s7, s8, s9, s10, s11, s12}
    OBVIOUS
  <2>15. Ground \in Seq(S)
    BY <2>13, <2>14
  <2>16. \A s \in S : Fit(s)
    <3>1. Fit(s1) /\ Fit(s2) /\ Fit(s3) /\ Fit(s4) /\ Fit(s5) /\ Fit(s6)
      BY <2>1, <2>2, <2>3, <2>4, <2>5, <2>6
    <3>2. Fit(s7) /\ Fit(s8) /\ Fit(s9) /\ Fit(s10) /\ Fit(s11) /\ Fit(s12)
      BY <2>7, <2>8, <2>9, <2>10, <2>11, <2>12
    <3> QED BY <2>14, <3>1, <3>2
  <2> QED BY <2>15, <2>16 DEF AllFit
<1>2. AllFit(Trees(biome))
  <2>1. Fits(8, UNION {Tree(kind) : kind \in TreeKinds(biome)})
    BY TreesFit DEF Fits, TreeKinds
  <2>2. PICK s1 : /\ s1 = Stage("trees", 8, NumberOfTrees(biome), UNION {Tree(kind) : kind \in TreeKinds(biome)})
                  /\ Fit(s1)
    BY <2>1, StageFits
  <2>3. Trees(biome) = <<s1>>
    BY <2>2 DEF Trees
  <2>4. PICK S : S = {s1}
    OBVIOUS
  <2>5. Trees(biome) \in Seq(S)
    BY <2>3, <2>4
  <2>6. \A s \in S : Fit(s)
    BY <2>2, <2>4
  <2> QED BY <2>5, <2>6 DEF AllFit
<1>3. AllFit(Plants(biome))
  <2>1. PICK s1 : s1 = Stage("dandelions", 8, {NumberOfFlowers(biome)}, Flowers) /\ Fit(s1)
    BY PlantsFit, StageFits
  <2>2. PICK s2 : s2 = Stage("tallgrass", 8, {AmountOfTallgrass(biome)}, Tallgrass) /\ Fit(s2)
    BY PlantsFit, StageFits
  <2>3. PICK s3 : s3 = Stage("deadbush", 8, {OnlyIn(biome, "Desert", 2)}, Deadbush) /\ Fit(s3)
    BY PlantsFit, StageFits
  <2>4. PICK s4 : s4 = Stage("rose", 8, {0, 1}, Flowers) /\ Fit(s4)
    BY PlantsFit, StageFits
  <2>5. PICK s5 : s5 = Stage("brown mushroom", 8, {0, 1}, Flowers) /\ Fit(s5)
    BY PlantsFit, StageFits
  <2>6. PICK s6 : s6 = Stage("red mushroom", 8, {0, 1}, Flowers) /\ Fit(s6)
    BY PlantsFit, StageFits
  <2>7. PICK s7 : s7 = Stage("sugarcane", 8, {10}, Sugarcane) /\ Fit(s7)
    BY PlantsFit, StageFits
  <2>8. PICK s8 : s8 = Stage("pumpkins", 8, {0, 1}, Pumpkins) /\ Fit(s8)
    BY PlantsFit, StageFits
  <2>9. PICK s9 : s9 = Stage("cacti", 8, {OnlyIn(biome, "Desert", 10)}, Cacti) /\ Fit(s9)
    BY PlantsFit, StageFits
  <2>10. Plants(biome) = <<s1, s2, s3, s4, s5, s6, s7, s8, s9>>
    BY <2>1, <2>2, <2>3, <2>4, <2>5, <2>6, <2>7, <2>8, <2>9 DEF Plants
  <2>11. PICK S : S = {s1, s2, s3, s4, s5, s6, s7, s8, s9}
    OBVIOUS
  <2>12. Plants(biome) \in Seq(S)
    BY <2>10, <2>11
  <2>13. \A s \in S : Fit(s)
    BY <2>1, <2>2, <2>3, <2>4, <2>5, <2>6, <2>7, <2>8, <2>9, <2>11
  <2> QED BY <2>12, <2>13 DEF AllFit
<1>4. AllFit(Surface)
  <2>1. PICK s1 : s1 = Stage("water", 8, {50}, Liquid) /\ Fit(s1)
    BY PlantsFit, StageFits
  <2>2. PICK s2 : s2 = Stage("lava", 8, {20}, Liquid) /\ Fit(s2)
    BY PlantsFit, StageFits
  <2>3. PICK s3 : s3 = Stage("snow", 8, {1}, {0}) /\ Fit(s3)
    BY PlantsFit, StageFits
  <2>4. Surface = <<s1, s2, s3>>
    BY <2>1, <2>2, <2>3 DEF Surface
  <2>5. PICK S : S = {s1, s2, s3}
    OBVIOUS
  <2>6. Surface \in Seq(S)
    BY <2>4, <2>5
  <2>7. \A s \in S : Fit(s)
    BY <2>1, <2>2, <2>3, <2>5
  <2> QED BY <2>6, <2>7 DEF AllFit
<1>5. AllFit(Program(biome))
  BY <1>1, <1>2, <1>3, <1>4, BothFit DEF Program
<1>6. Program(biome) # <<>>
  BY DEF Program, Ground
<1> QED BY <1>5, <1>6 DEF AllFit

-----------------------------------------------------------------------------
(* The worker. *)

(* A job is at a coordinate that its stage draws, and has looked at a block *)
(* of the chunk or of the next one. *)
Works(c) ==
  /\ job.chunk = {c}
  /\ c \in made /\ c + 1 \in made
  /\ job.stage \in 1 .. Len(Program(job.biome))
  /\ \A at \in job.at : at \in Int /\ at - CHUNK_WIDTH * c - Current.from \in 0 .. CHUNK_WIDTH - 1
  /\ \A block \in job.block : block \in Int /\ block - CHUNK_WIDTH * c \in 0 .. 2 * CHUNK_WIDTH - 1

Whole(j) == j = [chunk |-> j.chunk, from |-> j.from, biome |-> j.biome, stage |-> j.stage,
                 left |-> j.left, at |-> j.at, block |-> j.block]

JobInSquare == Whole(job) /\ (job # NoJob => \E c \in Int : Works(c))

SquareInv == targets \in Seq(Int) /\ JobInSquare

(* The invariant holds at the start, and every step keeps it. *)
LEMMA SquareInit == PopulationInit => SquareInv
<1>1. Whole(NoJob)
  BY DEF Whole, NoJob
<1> QED BY <1>1 DEF PopulationInit, SquareInv, JobInSquare

LEMMA SquareNext == SquareInv /\ [PopulationNext]_populationVars => SquareInv'
<1> SUFFICES ASSUME SquareInv, [PopulationNext]_populationVars PROVE SquareInv'
  OBVIOUS
<1>1. targets \in Seq(Int) /\ JobInSquare
  BY DEF SquareInv
(* What a job has, from one step to the next. *)
<1>2. ASSUME UNCHANGED job, made \subseteq made' PROVE JobInSquare'
  BY <1>1, <1>2 DEF JobInSquare, Works, Current
<1>3. ASSUME NEW pos \in Row, GenerateChunk(pos) PROVE SquareInv'
  <2>1. pos \in Int /\ pos - 1 \in Int
    BY PopulationAssumption
  <2>2. targets' \in Seq(Int)
    BY <1>3, <2>1 DEF GenerateChunk
  <2>3. UNCHANGED job /\ made \subseteq made'
    BY <1>3 DEF GenerateChunk
  <2> QED BY <1>2, <2>2, <2>3 DEF SquareInv
<1>4. CASE SkipTarget
  <2>1. UNCHANGED job /\ made \subseteq made' /\ targets' \in Seq(Int)
    BY <1>1, <1>4 DEF SkipTarget
  <2> QED BY <1>2, <2>1 DEF SquareInv
<1>5. CASE BeginPopulate
  <2>1. PICK c : c = Head(targets) /\ c \in Int /\ c \in made /\ c + 1 \in made
    BY <1>1, <1>5 DEF BeginPopulate, Complete
  <2>2. PICK times : job' = [NoJob EXCEPT !.chunk = {Head(targets)}, !.from = {biomeMap.chunk},
                                         !.biome = biomeMap.biome, !.stage = 1, !.left = times]
    BY <1>5 DEF BeginPopulate
  <2>3. job' = [chunk |-> {c}, from |-> {biomeMap.chunk}, biome |-> biomeMap.biome, stage |-> 1,
                left |-> times, at |-> {}, block |-> {}]
    BY <2>1, <2>2 DEF NoJob, NoBlock
  <2>4. 1 \in 1 .. Len(Program(biomeMap.biome))
    BY ProgramFits
  <2>5. Whole(job') /\ job'.chunk = {c} /\ job'.at = {} /\ job'.block = {}
        /\ job'.stage \in 1 .. Len(Program(job'.biome))
    BY <2>3, <2>4 DEF Whole
  <2>6. targets' \in Seq(Int) /\ made' = made
    BY <1>1, <1>5 DEF BeginPopulate
  <2>7. Works(c)'
    BY <2>1, <2>5, <2>6 DEF Works
  <2> QED BY <2>1, <2>5, <2>6, <2>7 DEF SquareInv, JobInSquare
<1>6. CASE Running /\ UNCHANGED <<made, targets>> /\ (Attempt \/ Touch \/ NextStage)
  <2>1. PICK c \in Int : Works(c)
    BY <1>1, <1>6 DEF JobInSquare, Running
  <2>2. PICK stage, biome : stage = job.stage /\ biome = job.biome /\ stage \in 1 .. Len(Program(biome))
    BY <2>1 DEF Works
  <2>3. PICK from \in {0, 8} : from = Current.from /\ \A offset \in Current.reach :
                                  offset \in Int /\ from + offset \in 0 .. CHUNK_WIDTH
    BY <2>2, ProgramFits DEF Current, Fit, Fits
  <2>4. SUFFICES Whole(job') /\ Works(c)'
    BY <1>1, <1>6 DEF SquareInv, JobInSquare
  <2>5. CASE Attempt
    <3>1. PICK r \in 0 .. CHUNK_WIDTH - 1 :
            job' = [job EXCEPT !.left = @ - 1, !.at = {CHUNK_WIDTH * c + r + Current.from}, !.block = NoBlock]
      BY <2>1, <2>5 DEF Attempt, Works
    <3>2. PICK at : at = CHUNK_WIDTH * c + r + Current.from
      OBVIOUS
    <3>3. at \in Int /\ at - CHUNK_WIDTH * c - from \in 0 .. CHUNK_WIDTH - 1
      <4>1. at = CHUNK_WIDTH * c + r + from
        BY <2>3, <3>2
      <4> QED BY <4>1 DEF CHUNK_WIDTH
    <3>4. job' = [chunk |-> job.chunk, from |-> job.from, biome |-> job.biome, stage |-> job.stage,
                  left |-> job.left - 1, at |-> {at}, block |-> {}]
      BY <1>1, <3>1, <3>2 DEF JobInSquare, Whole, NoBlock
    <3>5. Whole(job') /\ job'.chunk = job.chunk /\ job'.biome = job.biome /\ job'.stage = job.stage
          /\ job'.at = {at} /\ job'.block = {}
      BY <3>4 DEF Whole
    <3>6. Current'.from = from
      BY <2>3, <3>5 DEF Current
    <3>7. c \in made' /\ c + 1 \in made' /\ job.chunk = {c} /\ stage \in 1 .. Len(Program(biome))
      BY <1>6, <2>1, <2>2 DEF Works
    <3> QED BY <2>2, <3>3, <3>5, <3>6, <3>7 DEF Works
  <2>6. CASE Touch
    <3>1. PICK at \in job.at, offset \in Current.reach :
            job' = [job EXCEPT !.block = {at + offset}, !.at = NoBlock]
      BY <2>6 DEF Touch
    <3>2. PICK block : block = at + offset
      OBVIOUS
    <3>3. at \in Int /\ at - CHUNK_WIDTH * c - from \in 0 .. CHUNK_WIDTH - 1
          /\ offset \in Int /\ from + offset \in 0 .. CHUNK_WIDTH
      BY <2>1, <2>3, <3>1 DEF Works
    <3>4. block \in Int /\ block - CHUNK_WIDTH * c \in 0 .. 2 * CHUNK_WIDTH - 1
      BY <3>2, <3>3 DEF CHUNK_WIDTH
    <3>5. job' = [chunk |-> job.chunk, from |-> job.from, biome |-> job.biome, stage |-> job.stage,
                  left |-> job.left, at |-> {}, block |-> {block}]
      BY <1>1, <3>1, <3>2 DEF JobInSquare, Whole, NoBlock
    <3>6. Whole(job') /\ job'.chunk = job.chunk /\ job'.biome = job.biome /\ job'.stage = job.stage
          /\ job'.at = {} /\ job'.block = {block}
      BY <3>5 DEF Whole
    <3>7. c \in made' /\ c + 1 \in made' /\ job.chunk = {c} /\ stage \in 1 .. Len(Program(biome))
      BY <1>6, <2>1, <2>2 DEF Works
    <3> QED BY <2>2, <3>4, <3>6, <3>7 DEF Works
  <2>7. CASE NextStage
    <3>1. PICK times : job' = [job EXCEPT !.stage = @ + 1, !.left = times, !.at = NoBlock, !.block = NoBlock]
      BY <2>7 DEF NextStage
    <3>2. job' = [chunk |-> job.chunk, from |-> job.from, biome |-> job.biome, stage |-> job.stage + 1,
                  left |-> times, at |-> {}, block |-> {}]
      BY <1>1, <3>1 DEF JobInSquare, Whole, NoBlock
    <3>3. Whole(job') /\ job'.chunk = job.chunk /\ job'.biome = job.biome /\ job'.stage = job.stage + 1
          /\ job'.at = {} /\ job'.block = {}
      BY <3>2 DEF Whole
    <3>4. job.stage + 1 \in 1 .. Len(Program(job.biome))
      <4>1. Len(Program(biome)) \in Nat /\ stage < Len(Program(biome))
        BY <2>2, <2>7, ProgramFits DEF NextStage
      <4> QED BY <2>2, <4>1
    <3>5. c \in made' /\ c + 1 \in made' /\ job.chunk = {c}
      BY <1>6, <2>1 DEF Works
    <3> QED BY <3>3, <3>4, <3>5 DEF Works
  <2> QED BY <1>6, <2>5, <2>6, <2>7
<1>7. CASE EndPopulate
  <2>1. job' = NoJob /\ targets' = targets
    BY <1>7 DEF EndPopulate
  <2>2. Whole(NoJob)
    BY DEF Whole, NoJob
  <2> QED BY <1>1, <2>1, <2>2 DEF SquareInv, JobInSquare
<1>8. CASE UNCHANGED populationVars
  <2>1. UNCHANGED <<job, made, targets>>
    BY <1>8 DEF populationVars
  <2> QED BY <1>1, <1>2, <2>1 DEF SquareInv
<1>9. (Attempt \/ Touch \/ NextStage) => Running /\ UNCHANGED <<made, targets>>
  BY DEF Attempt, Touch, NextStage
<1> QED BY <1>3, <1>4, <1>5, <1>6, <1>7, <1>8, <1>9 DEF PopulationNext

(* Whatever is drawn, a feature reads and writes blocks only of chunks that *)
(* GetChunk has seen to be there (PopulateChunk). *)
THEOREM FeaturesStayInSquare == PopulationSpec => []FootprintInSquare
<1>1. SquareInv => FootprintInSquare
  <2> SUFFICES ASSUME SquareInv, NEW block \in job.block, NEW chunk \in job.chunk
               PROVE  ChunkOf(block) \in {chunk, chunk + 1} \cap made
    BY DEF FootprintInSquare
  <2>1. job # NoJob
    BY DEF NoJob, NoBlock
  <2>2. PICK c \in Int : Works(c)
    BY <2>1 DEF SquareInv, JobInSquare
  <2>3. chunk = c /\ c \in made /\ c + 1 \in made
        /\ block \in Int /\ block - CHUNK_WIDTH * c \in 0 .. 2 * CHUNK_WIDTH - 1
    BY <2>2 DEF Works
  <2>4. block \div 16 \in {c, c + 1}
    BY <2>3 DEF CHUNK_WIDTH
  <2> QED BY <2>3, <2>4 DEF ChunkOf, CHUNK_WIDTH
<1> QED BY <1>1, SquareInit, SquareNext, PTL DEF PopulationSpec
================================================================================
