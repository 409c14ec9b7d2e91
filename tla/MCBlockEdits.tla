----------------------------- MODULE MCBlockEdits -----------------------------
(* A column of three blocks and the block beside its middle, in three worlds: *)
(* a door on the ground, grass with water above, and a slab. *)
EXTENDS BlockEdits, TLC

At3(x, y) == <<x, y, 0>>

Column(low, middle, high, beside) ==
  [pos \in {At3(0, 1), At3(0, 2), At3(0, 3), At3(1, 2)} |->
     CASE pos = At3(0, 1) -> low [] pos = At3(0, 2) -> middle
       [] pos = At3(0, 3) -> high [] OTHER -> beside]

B(type, meta) == [type |-> type, meta |-> meta]

Interchangeable == Permutations(Players)

MCWorlds ==
  { Column(B(BLOCK.STONE, 0), B(BLOCK.DOOR_WOOD, 1), B(BLOCK.DOOR_WOOD, 9), B(BLOCK.TORCH, 2)),
    Column(B(BLOCK.GRASS, 0), Air, Air, B(BLOCK.WATER_STILL, 0)),
    Column(B(BLOCK.SLAB, 0), Air, Air, B(BLOCK.TRAPDOOR, 1)) }

DigAt(pos, broken, creative) == [op |-> "dig", pos |-> pos, broken |-> broken, creative |-> creative]

PlaceAt(pos, face, item) ==
  [op |-> "place", pos |-> pos, face |-> face, item |-> item, yaw |-> 4]

MCRequests ==
  { DigAt(At3(0, 2), TRUE, FALSE), DigAt(At3(0, 3), TRUE, FALSE),
    DigAt(At3(0, 1), FALSE, TRUE),
    PlaceAt(At3(0, 1), Face.yPlus, ITEM.DOOR_WOOD),
    PlaceAt(At3(0, 2), Face.xPlus, BLOCK.STONE),
    PlaceAt(At3(0, 1), Face.yPlus, BLOCK.CHEST),
    PlaceAt(At3(0, 1), Face.yPlus, BLOCK.SPONGE),
    PlaceAt(At3(0, 1), Face.yPlus, ITEM.HOE_IRON),
    [op |-> "sign", pos |-> At3(0, 2)] }
=============================================================================
