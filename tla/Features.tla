-------------------------------- MODULE Features --------------------------------
(***************************************************************************)
(* How far the features of the terrain reach: for each of them, the        *)
(* offsets from its starting coordinate, along one horizontal axis, of the *)
(* blocks it may read or write.  The features are alike in x and z.  Where *)
(* the code computes with doubles, the bounds are worked out in integers,  *)
(* with a sine taken as at most 1.                                         *)
(***************************************************************************)
EXTENDS Integers, FiniteSets

Span(n) == -n .. n

Sums(A, B) == {a + b : a \in A, b \in B}

(* rand.nextInt(n) - rand.nextInt(n) *)
Scatter(n) == {a - b : a, b \in 0 .. n - 1}

(* Division of C++, towards zero. *)
Quotient(a, b) == IF a < 0 THEN -((-a) \div b) ELSE a \div b

(* ------------------------------ the ground ------------------------------ *)

(* Variant: the corner of the mask at the coordinate instead of its middle. *)
LakeFromCorner == Sums({0}, 0 .. 15)

(* A mask of 16 by 16 blocks, set from 1 to 14, with its edges. *)
Lake == Sums({-8}, 0 .. 15)

(* A room of two or three blocks to either side, and its walls; a chest     *)
(* inside looks at its neighbours. *)
Dungeon == UNION {Span(width + 1) : width \in {2, 3}}

(* A row of ellipsoids between two points at most size / 8 from the middle, *)
(* which is 8 blocks off; their radius is at most (size / 8 + 1) / 2.  In   *)
(* sixteenths. *)
Blob(size) ==
  LET reach == 2 * size + (size + 8)
  IN (128 - reach) \div 16 .. (128 + reach) \div 16

(* ------------------------------- the plants ----------------------------- *)

(* Where CanStay looks, beside the block itself. *)
Neighbours(plant) == IF plant \in {"cactus", "sugarcane"} THEN Span(1) ELSE {0}

Flowers == Sums(Scatter(8), Neighbours("flower"))

(* It first looks for the ground below its coordinate. *)
Tallgrass == {0} \cup Sums(Scatter(8), Neighbours("tallgrass"))

Deadbush == {0} \cup Sums(Scatter(8), Neighbours("deadbush"))

Sugarcane == Sums(Scatter(4), Neighbours("sugarcane"))

Pumpkins == Scatter(8)

Cacti == Sums(Scatter(8), Neighbours("cactus"))

Liquid == Span(1)

(* ------------------------------- the trees ------------------------------ *)

(* Of an oak or a birch: the space that is tested, and the leaves.          *)
SmallTree ==
  (UNION {Span(width) : width \in {0, 1, 2}})
  \cup (UNION {Span(1 - Quotient(widthBase, 2)) : widthBase \in -3 .. 0})

(* The radii of a taiga tree's leaves, from the top layer down: they grow   *)
(* to the maximum, and shrink before the last layer. *)
TaigaRadii(leavesHeight, maxLeafRadius) ==
  LET radius[layer \in 0 .. leavesHeight] ==
        IF layer = 0 THEN 0
        ELSE LET above == radius[layer - 1]
             IN IF above >= 1 /\ layer = leavesHeight THEN above - 1
                ELSE IF above < maxLeafRadius THEN above + 1 ELSE above
  IN {radius[layer] : layer \in 0 .. leavesHeight}

TaigaTree ==
  LET shapes == {s \in [leavesHeight : {3, 4}, maxLeafRadius : 1 .. 5] : s.maxLeafRadius <= s.leavesHeight + 1}
  IN UNION {UNION {Span(r) : r \in {s.maxLeafRadius} \cup TaigaRadii(s.leavesHeight, s.maxLeafRadius)} :
              s \in shapes}

(* Those of the other taiga tree go back each time they have reached a      *)
(* threshold, which grows with it. *)
TaigaAltRadii(leavesHeight, maxLeafRadius, first) ==
  LET Layer(above) ==
        IF above.radius >= above.threshold
        THEN [radius |-> above.back, back |-> 1,
              threshold |-> IF above.threshold < maxLeafRadius THEN above.threshold + 1 ELSE maxLeafRadius]
        ELSE [above EXCEPT !.radius = @ + 1]
      layers[n \in 0 .. leavesHeight] ==
        IF n = 0 THEN [radius |-> first, back |-> 0, threshold |-> 1] ELSE Layer(layers[n - 1])
  IN {layers[n].radius : n \in 0 .. leavesHeight}

TaigaAltTree ==
  UNION {UNION {Span(r) : r \in {maxLeafRadius} \cup TaigaAltRadii(leavesHeight, maxLeafRadius, first)} :
           leavesHeight \in 4 .. 8, maxLeafRadius \in {2, 3}, first \in {0, 1}}

(* A layer of a big tree has branches from three tenths of its height on.   *)
(* The canopy's radius is half the distance to the surface of a sphere over *)
(* the whole height, a branch at most 1.328 times as long, rounded:         *)
(* (2n - 1) ^ 2 < (2 * 1.328 * radius) ^ 2. *)
BranchReach(totalHeight, y) ==
  IF 10 * y < 3 * totalHeight THEN 0
  ELSE CHOOSE n \in 0 .. totalHeight :
         /\ n = 0 \/ (2 * n - 1) * (2 * n - 1) * 1000000 < 1763584 * y * (totalHeight - y)
         /\ (2 * n + 1) * (2 * n + 1) * 1000000 >= 1763584 * y * (totalHeight - y)

(* The circle of leaves around the end of a branch. *)
LeafReach(radius) ==
  {du \in Span(radius) : \E dv \in Span(radius) :
     LET twice(d) == 2 * (IF d < 0 THEN -d ELSE d) + 1
     IN twice(du) * twice(du) + twice(dv) * twice(dv) <= 4 * radius * radius}

trunkThickness == 5

(* Branches start at most trunkThickness below the top; the trunk and the   *)
(* wood of the branches lie between their ends. *)
BigTree ==
  LET branches == {b \in [totalHeight : 5 .. 16, y : 0 .. 11] : b.y <= b.totalHeight - trunkThickness}
  IN UNION {Sums(Span(BranchReach(b.totalHeight, b.y)), LeafReach(2) \cup LeafReach(3)) : b \in branches}

Tree(kind) ==
  CASE kind \in {"small", "birch"} -> SmallTree
    [] kind = "big" -> BigTree
    [] kind = "taiga" -> TaigaTree
    [] kind = "taigaAlt" -> TaigaAltTree
=============================================================================
