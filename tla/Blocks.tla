-------------------------------- MODULE Blocks --------------------------------
(***************************************************************************)
(* The block and item tables: what a block lets through, what it drops,    *)
(* how high an item stacks, and which block a held item becomes when it is *)
(* placed.  Nothing here has state; BlockEdits, ChunkColumn and Inventory  *)
(* are built from it.                                                      *)
(***************************************************************************)
EXTENDS Integers

(* The ids of enums/blocks.h that the rules below tell apart. *)
BLOCK ==
  [ INVALID |-> -1, AIR |-> 0, STONE |-> 1, GRASS |-> 2, DIRT |-> 3, COBBLESTONE |-> 4,
    PLANKS |-> 5, SAPLING |-> 6, BEDROCK |-> 7, WATER_FLOWING |-> 8, WATER_STILL |-> 9,
    LAVA_FLOWING |-> 10, LAVA_STILL |-> 11, SAND |-> 12, ORE_COAL |-> 16, LEAVES |-> 18,
    SPONGE |-> 19, GLASS |-> 20, ORE_LAPIS_LAZULI |-> 21, DISPENSER |-> 23, BED |-> 26,
    COBWEB |-> 30, TALLGRASS |-> 31, DEADBUSH |-> 32, WOOL |-> 35, DANDELION |-> 37,
    ROSE |-> 38, MUSHROOM_BROWN |-> 39, MUSHROOM_RED |-> 40, DOUBLE_SLAB |-> 43,
    SLAB |-> 44, TNT |-> 46, TORCH |-> 50, FIRE |-> 51, MOB_SPAWNER |-> 52,
    STAIRS_WOOD |-> 53, CHEST |-> 54, REDSTONE |-> 55, ORE_DIAMOND |-> 56,
    CRAFTING_TABLE |-> 58, CROP_WHEAT |-> 59, FARMLAND |-> 60, FURNACE |-> 61,
    FURNACE_LIT |-> 62, SIGN |-> 63, DOOR_WOOD |-> 64, LADDER |-> 65,
    STAIRS_COBBLESTONE |-> 67, SIGN_WALL |-> 68, LEVER |-> 69, DOOR_IRON |-> 71,
    ORE_REDSTONE_OFF |-> 73, ORE_REDSTONE_ON |-> 74, REDSTONE_TORCH_OFF |-> 75,
    REDSTONE_TORCH_ON |-> 76, BUTTON_STONE |-> 77, SNOW_LAYER |-> 78, ICE |-> 79,
    CACTUS |-> 81, CLAY |-> 82, SUGARCANE |-> 83, PUMPKIN |-> 86, GLOWSTONE |-> 89,
    NETHER_PORTAL |-> 90, PUMPKIN_LIT |-> 91, CAKE |-> 92, REDSTONE_REPEATER_OFF |-> 93,
    REDSTONE_REPEATER_ON |-> 94, TRAPDOOR |-> 96, MAX |-> 97 ]

(* Crops at this size are ripe. *)
MAX_CROP_SIZE == 7

(* The ids of enums/items.h that the rules below tell apart. *)
ITEM ==
  [ MINIMUM |-> 255, SHOVEL_IRON |-> 256, PICKAXE_IRON |-> 257, AXE_IRON |-> 258,
    FLINT_AND_STEEL |-> 259, COAL |-> 263, DIAMOND |-> 264, SHOVEL_WOOD |-> 269,
    PICKAXE_WOOD |-> 270, AXE_WOOD |-> 271, SHOVEL_STONE |-> 273, PICKAXE_STONE |-> 274,
    AXE_STONE |-> 275, SHOVEL_DIAMOND |-> 277, PICKAXE_DIAMOND |-> 278, AXE_DIAMOND |-> 279,
    SHOVEL_GOLD |-> 284, PICKAXE_GOLD |-> 285, AXE_GOLD |-> 286, HOE_WOOD |-> 290,
    HOE_STONE |-> 291, HOE_IRON |-> 292, HOE_DIAMOND |-> 293, HOE_GOLD |-> 294,
    SEEDS_WHEAT |-> 295, WHEAT |-> 296, SIGN |-> 323, DOOR_WOOD |-> 324, DOOR_IRON |-> 330,
    REDSTONE |-> 331, CLAY |-> 337, SUGARCANE |-> 338, GLOWSTONE_DUST |-> 348, DYE |-> 351,
    BED |-> 355, REDSTONE_REPEATER |-> 356 ]

SLOT_EMPTY == -1

(* An Item is an id, an amount and a damage value; this is Item{}. *)
NoItem == [id |-> SLOT_EMPTY, amount |-> 0, damage |-> 0]

(* ----------------------------- what ids are ----------------------------- *)

IsBlock(id) == id > BLOCK.INVALID /\ id < BLOCK.MAX

IsHoe(id) == id \in {ITEM.HOE_DIAMOND, ITEM.HOE_GOLD, ITEM.HOE_IRON, ITEM.HOE_STONE, ITEM.HOE_WOOD}

IsPickaxe(id) == id \in {ITEM.PICKAXE_DIAMOND, ITEM.PICKAXE_GOLD, ITEM.PICKAXE_IRON,
                         ITEM.PICKAXE_STONE, ITEM.PICKAXE_WOOD}

IsAxe(id) == id \in {ITEM.AXE_DIAMOND, ITEM.AXE_GOLD, ITEM.AXE_IRON, ITEM.AXE_STONE, ITEM.AXE_WOOD}

IsShovel(id) == id \in {ITEM.SHOVEL_DIAMOND, ITEM.SHOVEL_GOLD, ITEM.SHOVEL_IRON,
                        ITEM.SHOVEL_STONE, ITEM.SHOVEL_WOOD}

IsTool(id) == IsShovel(id) \/ IsAxe(id) \/ IsPickaxe(id) \/ IsHoe(id) \/ id = ITEM.FLINT_AND_STEEL

(* How many of an item one slot holds; armour and weapons stack like blocks. *)
GetMaxStack(id) == IF ~IsBlock(id) /\ IsTool(id) THEN 1 ELSE 64

(* ------------------------- what blocks do to light ---------------------- *)

Water == {BLOCK.WATER_FLOWING, BLOCK.WATER_STILL}

IsLiquid(id) == id \in Water \cup {BLOCK.LAVA_FLOWING, BLOCK.LAVA_STILL}

IsOpaque(id) ==
  /\ ~IsLiquid(id)
  /\ id \notin {BLOCK.AIR, BLOCK.LEAVES, BLOCK.TALLGRASS, BLOCK.TORCH, BLOCK.DANDELION,
                BLOCK.ROSE, BLOCK.FIRE, BLOCK.FARMLAND, BLOCK.SNOW_LAYER}

GetOpacity(id) ==
  IF id \in Water \cup {BLOCK.ICE} THEN 3
  ELSE IF id \in {BLOCK.LEAVES, BLOCK.COBWEB} THEN 1
  ELSE IF IsLiquid(id) \/ IsOpaque(id) THEN 255
  ELSE 0

IsSolid(id) == IsOpaque(id) \/ id = BLOCK.LEAVES

(* ------------------------- what blocks do to players -------------------- *)

IsInstantlyBreakable(id) ==
  id \in {BLOCK.SAPLING, BLOCK.DEADBUSH, BLOCK.TALLGRASS, BLOCK.DANDELION, BLOCK.ROSE,
          BLOCK.MUSHROOM_BROWN, BLOCK.MUSHROOM_RED, BLOCK.TNT, BLOCK.TORCH, BLOCK.FIRE,
          BLOCK.REDSTONE, BLOCK.CROP_WHEAT, BLOCK.REDSTONE_TORCH_OFF,
          BLOCK.REDSTONE_TORCH_ON, BLOCK.SUGARCANE, BLOCK.REDSTONE_REPEATER_OFF,
          BLOCK.REDSTONE_REPEATER_ON}

HasInventory(id) ==
  id \in {BLOCK.CHEST, BLOCK.CRAFTING_TABLE, BLOCK.FURNACE, BLOCK.FURNACE_LIT, BLOCK.DISPENSER}

IsInteractable(id) ==
  \/ HasInventory(id)
  \/ id \in {BLOCK.BED, BLOCK.DOOR_IRON, BLOCK.DOOR_WOOD, BLOCK.TRAPDOOR, BLOCK.BUTTON_STONE,
             BLOCK.LEVER}

(* --------------------------------- drops -------------------------------- *)

NoDrop(id) ==
  \/ IsLiquid(id)
  \/ id \in {BLOCK.AIR, BLOCK.BEDROCK, BLOCK.GLASS, BLOCK.COBWEB, BLOCK.DEADBUSH,
             BLOCK.TALLGRASS, BLOCK.FIRE, BLOCK.MOB_SPAWNER, BLOCK.ICE,
             BLOCK.NETHER_PORTAL, BLOCK.CAKE}

KeepDamageOnDrop(id) == id \in {BLOCK.WOOL, BLOCK.SLAB, BLOCK.DOUBLE_SLAB}

(* The item a broken block turns into, where it is not the block itself.   *)
(* Ripe wheat is the one that depends on the block's metadata.             *)
DropId(id, damage) ==
  CASE id = BLOCK.CROP_WHEAT -> IF damage < MAX_CROP_SIZE THEN ITEM.SEEDS_WHEAT ELSE ITEM.WHEAT
    [] id = BLOCK.STONE -> BLOCK.COBBLESTONE
    [] id = BLOCK.GRASS -> BLOCK.DIRT
    [] id = BLOCK.SUGARCANE -> ITEM.SUGARCANE
    [] id = BLOCK.ORE_COAL -> ITEM.COAL
    [] id = BLOCK.LEAVES -> BLOCK.SAPLING
    [] id = BLOCK.ORE_LAPIS_LAZULI -> ITEM.DYE
    [] id = BLOCK.BED -> ITEM.BED
    [] id = BLOCK.REDSTONE -> ITEM.REDSTONE
    [] id = BLOCK.ORE_DIAMOND -> ITEM.DIAMOND
    [] id \in {BLOCK.SIGN, BLOCK.SIGN_WALL} -> ITEM.SIGN
    [] id = BLOCK.DOOR_WOOD -> ITEM.DOOR_WOOD
    [] id = BLOCK.DOOR_IRON -> ITEM.DOOR_IRON
    [] id \in {BLOCK.ORE_REDSTONE_OFF, BLOCK.ORE_REDSTONE_ON} -> ITEM.REDSTONE
    [] id \in {BLOCK.REDSTONE_TORCH_OFF, BLOCK.REDSTONE_TORCH_ON} -> BLOCK.REDSTONE_TORCH_ON
    [] id = BLOCK.CLAY -> ITEM.CLAY
    [] id = BLOCK.GLOWSTONE -> ITEM.GLOWSTONE_DUST
    [] id \in {BLOCK.REDSTONE_REPEATER_ON, BLOCK.REDSTONE_REPEATER_OFF} -> BLOCK.REDSTONE_REPEATER_OFF
    [] id = BLOCK.DOUBLE_SLAB -> BLOCK.SLAB
    [] OTHER -> id

DropAmount(id) ==
  IF id \in {BLOCK.ORE_LAPIS_LAZULI, BLOCK.ORE_REDSTONE_OFF, BLOCK.ORE_REDSTONE_ON, BLOCK.CLAY} THEN 4
  ELSE IF id \in {BLOCK.GLOWSTONE, BLOCK.DOUBLE_SLAB} THEN 2
  ELSE 1

(* What breaking a block with this metadata gives. *)
GetDrop(type, meta) ==
  IF NoDrop(type) THEN NoItem
  ELSE [ id |-> DropId(type, meta), amount |-> DropAmount(type),
         damage |-> IF type = BLOCK.ORE_LAPIS_LAZULI THEN 4
                    ELSE IF KeepDamageOnDrop(type) THEN meta ELSE 0 ]

(* ------------------------------- placement ------------------------------ *)

(* The six faces of a block; the four horizontal ones are also the player's *)
(* orientations. *)
Face == [yMinus |-> 0, yPlus |-> 1, zMinus |-> 2, zPlus |-> 3, xMinus |-> 4, xPlus |-> 5]

Move(pos, dx, dy, dz) == <<pos[1] + dx, pos[2] + dy, pos[3] + dz>>

(* The block next to pos on the given face. *)
BlockToFace(pos, face) ==
  CASE face = Face.yMinus -> Move(pos, 0, -1, 0)
    [] face = Face.yPlus  -> Move(pos, 0, 1, 0)
    [] face = Face.zMinus -> Move(pos, 0, 0, -1)
    [] face = Face.zPlus  -> Move(pos, 0, 0, 1)
    [] face = Face.xMinus -> Move(pos, -1, 0, 0)
    [] face = Face.xPlus  -> Move(pos, 1, 0, 0)
    [] OTHER -> pos

(* The yaw in sixteenths of a turn, 0 facing +Z: the nearest quarter.      *)
GetPlayerOrientation(yaw) ==
  <<Face.zPlus, Face.xMinus, Face.zMinus, Face.xPlus>>[(((yaw + 2) \div 4) % 4) + 1]

(* A standing sign faces the player who places it. *)
GetSignOrientation(yaw) == (yaw + 8) % 16

(* The metadata for four sides, given in the order -Z, +Z, -X, +X; the      *)
(* item's own damage where the side is another one. *)
BySide(side, metas, otherwise) ==
  IF side \in Face.zMinus .. Face.xPlus THEN metas[side - 1] ELSE otherwise

IsTorch(id) == id \in {BLOCK.TORCH, BLOCK.REDSTONE_TORCH_OFF, BLOCK.REDSTONE_TORCH_ON}

IsDoorItem(id) == id \in {ITEM.DOOR_WOOD, ITEM.DOOR_IRON}

IsRepeater(id) == id \in {ITEM.REDSTONE_REPEATER, BLOCK.REDSTONE_REPEATER_OFF, BLOCK.REDSTONE_REPEATER_ON}

(* What a door or a bed needs free: the block its other half goes to. *)
OtherHalf(id, pos, dir) ==
  CASE IsDoorItem(id) -> Move(pos, 0, 1, 0)
    [] id = ITEM.BED /\ dir = Face.zPlus  -> Move(pos, 0, 0, 1)
    [] id = ITEM.BED /\ dir = Face.xMinus -> Move(pos, -1, 0, 0)
    [] id = ITEM.BED /\ dir = Face.zMinus -> Move(pos, 0, 0, -1)
    [] id = ITEM.BED /\ dir = Face.xPlus  -> Move(pos, 1, 0, 0)

(* The block type a held item is placed as; type is the block next to it   *)
(* that must be air for a door or a bed (or any, for the other items).     *)
PlacedType(id, face, beside) ==
  CASE IsHoe(id) -> BLOCK.INVALID
    [] id = ITEM.SEEDS_WHEAT -> BLOCK.CROP_WHEAT
    [] id = ITEM.REDSTONE -> BLOCK.REDSTONE
    [] id = ITEM.SIGN -> IF face = Face.yPlus THEN BLOCK.SIGN ELSE BLOCK.SIGN_WALL
    [] id = ITEM.SUGARCANE -> BLOCK.SUGARCANE
    [] IsDoorItem(id) \/ id = ITEM.BED ->
         IF beside # BLOCK.AIR \/ face # Face.yPlus THEN BLOCK.INVALID
         ELSE IF id = ITEM.DOOR_WOOD THEN BLOCK.DOOR_WOOD
         ELSE IF id = ITEM.DOOR_IRON THEN BLOCK.DOOR_IRON
         ELSE BLOCK.BED
    [] IsRepeater(id) -> BLOCK.REDSTONE_REPEATER_OFF
    [] IsTorch(id) /\ face = Face.yMinus -> BLOCK.INVALID
    [] id > BLOCK.MAX -> BLOCK.INVALID
    [] OTHER -> id

(* The metadata it is placed with. *)
PlacedMeta(id, damage, face, yaw) ==
  LET dir == GetPlayerOrientation(yaw) IN
  CASE id = ITEM.SIGN ->
         IF face = Face.yPlus THEN GetSignOrientation(yaw) ELSE BySide(face, <<2, 3, 4, 5>>, damage)
    [] IsDoorItem(id) -> BySide(dir, <<3, 1, 2, 0>>, damage)
    [] id = ITEM.BED -> BySide(dir, <<2, 0, 1, 3>>, damage)
    [] IsRepeater(id) -> BySide(dir, <<0, 2, 3, 1>>, damage)
    [] id = BLOCK.TRAPDOOR -> BySide(face, <<0, 1, 2, 3>>, damage)
    [] id \in {BLOCK.STAIRS_WOOD, BLOCK.STAIRS_COBBLESTONE} -> BySide(dir, <<3, 2, 1, 0>>, damage)
    [] id \in {BLOCK.DISPENSER, BLOCK.FURNACE, BLOCK.FURNACE_LIT} -> BySide(dir, <<3, 2, 5, 4>>, damage)
    [] id \in {BLOCK.PUMPKIN, BLOCK.PUMPKIN_LIT} -> BySide(dir, <<0, 2, 3, 1>>, damage)
    [] IsTorch(id) -> BySide(face, <<4, 3, 2, 1>>, 0)
    [] id = BLOCK.LADDER -> BySide(face, <<2, 3, 4, 5>>, damage)
    [] OTHER -> damage
===============================================================================
