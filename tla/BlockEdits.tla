------------------------------ MODULE BlockEdits ------------------------------
(***************************************************************************)
(* Players that break, place and use blocks at the same time.  Every       *)
(* client's thread runs its handler on the blocks themselves: no lock is   *)
(* held from the moment a block is looked at to the moment it is written   *)
(* and told to the clients.  A handler is a stack of calls, each with the  *)
(* access it makes next, one access a step; what a call has read decides   *)
(* which calls follow.                                                     *)
(*                                                                         *)
(* What a handler gives to or takes from the player's slots is in Player;  *)
(* what it does to the light of the column is in ChunkColumn.              *)
(***************************************************************************)
EXTENDS Blocks, Sequences, FiniteSets, FiniteSetsExt

CONSTANTS Players,     \* the clients whose packets are handled
          Requests,    \* the packets they may send
          Worlds,      \* the blocks the loaded chunks may start with
          doTileDrops, \* the game rule
          MaxHandlers  \* bound on the packets handled

VARIABLES
  world,    \* position -> its block, for the positions in a loaded chunk
  todo,     \* player -> the calls its handler has still to make
  reg,      \* player -> the type, the metadata and the byte it has read
  request,  \* player -> the packet being handled
  tiles,    \* position -> the tile entities there
  shown,    \* position -> what the clients were last told of it
  taken,    \* position -> history: drops given since a block was put there
  raced,    \* history: positions two handlers were at
  disturbed, \* history: what handlers reached that met another, left half a door,
             \* or began where that had happened
  handled   \* the packets handled so far

vars == <<world, todo, reg, request, tiles, shown, taken, raced, disturbed, handled>>

Air == [type |-> BLOCK.AIR, meta |-> 0]

Doors == {BLOCK.DOOR_WOOD, BLOCK.DOOR_IRON}

Nothing == [type |-> BLOCK.AIR, meta |-> 0, byte |-> <<0, 0>>]

NoRequest == [op |-> "none"]

(* A position in no loaded chunk, or above or below it, reads as air. *)
BlockAt(pos) == IF pos \in DOMAIN world THEN world[pos] ELSE Air

(* ----------------------------- metadata bits ---------------------------- *)

IsTop(meta) == (meta \div 8) % 2 = 1

Toggled(meta) == IF (meta \div 4) % 2 = 1 THEN meta - 4 ELSE meta + 4

AsTop(meta) == IF IsTop(meta) THEN meta ELSE meta + 8

OtherDoorHalf(pos, meta) == Move(pos, 0, IF IsTop(meta) THEN -1 ELSE 1, 0)

(* Two blocks above each other share one byte of metadata. *)
Even(pos) == Move(pos, 0, -(pos[2] % 2), 0)

Odd(pos) == Move(Even(pos), 0, 1, 0)

(* Two halves of one door, both open or both shut. *)
BelongTogether(half, other) ==
  /\ other.type = half.type
  /\ ~(IsTop(other.meta) <=> IsTop(half.meta))
  /\ other.meta % 8 = half.meta % 8

(* ------------------------------ assumptions ----------------------------- *)

Positions == Int \X Int \X Int

Block == [type : Int, meta : 0 .. 15]

(* The doors of the worlds are whole, as far as their chunks are loaded. *)
ASSUME EditsAssumption ==
  /\ MaxHandlers \in Nat
  /\ doTileDrops \in BOOLEAN
  /\ \A r \in Requests :
       /\ r.op \in {"dig", "place", "sign"}
       /\ r.pos \in Positions
       /\ r.op = "dig" => r.broken \in BOOLEAN /\ r.creative \in BOOLEAN
       /\ r.op = "place" => r.face \in Int /\ r.item \in Int /\ r.yaw \in Int
  /\ \A w \in Worlds :
       /\ DOMAIN w \subseteq Positions
       /\ w \in [DOMAIN w -> Block]
       /\ \A pos \in DOMAIN w :
            w[pos].type \in Doors /\ OtherDoorHalf(pos, w[pos].meta) \in DOMAIN w =>
              BelongTogether(w[pos], w[OtherDoorHalf(pos, w[pos].meta)])

(* --------------------------------- calls -------------------------------- *)

(* A call, the access it makes next, and what it is about. *)
Call(name, access, pos, type, meta) ==
  <<[call |-> name, do |-> access, pos |-> pos, type |-> type, meta |-> meta]>>

(* GetBlockType, or GetBlockType and GetBlockMeta, and then the rest of the call. *)
AfterType(name, pos, type, meta) == Call(name, "type", pos, type, meta)

AfterLook(name, pos, type) == Call(name, "look", pos, type, 0)

(* The metadata is written into a byte that is read before. *)
SetBlockTypeAndMeta(pos, type, meta) == Call("write", "set", pos, type, meta)

(* The block is read anew for the broadcast. *)
UpdateBlock(pos) == AfterLook("tell", pos, BLOCK.AIR)

(* Variant: the clients are told before the block is changed. *)
TellThenPlace(pos, type, meta) == UpdateBlock(pos) \o SetBlockTypeAndMeta(pos, type, meta)

PlaceBlockUpdate(pos, type, meta) == SetBlockTypeAndMeta(pos, type, meta) \o UpdateBlock(pos)

InteractWithBlock(pos) == AfterLook("interact", pos, BLOCK.AIR)

(* The sponge's surroundings, in the order of the three loops. *)
LastCell == 124

Cell(pos, n) == Move(pos, (n \div 25) - 2, (n % 5) - 2, ((n \div 5) % 5) - 2)

Surroundings(pos) == {q \in DOMAIN world : \A i \in 1 .. 3 : q[i] - pos[i] \in -2 .. 2}

(* The loops from the n-th cell on; cells in no loaded chunk read as air. *)
SoakFrom(pos, n) ==
  LET loaded == {i \in n .. LastCell : Cell(pos, i) \in DOMAIN world}
  IN IF loaded = {} THEN <<>>
     ELSE AfterType("soak", Cell(pos, Min(loaded)), BLOCK.AIR, Min(loaded))

PlaceSponge(pos) == PlaceBlockUpdate(pos, BLOCK.SPONGE, 0) \o SoakFrom(pos, 0)

(* ------------------------- what follows a look -------------------------- *)

Breaks(r, type) == r.broken \/ r.creative \/ IsInstantlyBreakable(type)

(* Variant: of a door the other half is removed, and the half that was hit  *)
(* is left to it. *)
BreakOtherHalf(pos, type, meta) ==
  IF type \in Doors THEN AfterType("half", OtherDoorHalf(pos, meta), type, 0)
  ELSE PlaceBlockUpdate(pos, BLOCK.AIR, 0)

(* The other half of a door is looked at and removed first; a block that    *)
(* can be used is used once more after it is gone. *)
BreakBlock(pos, type, meta) ==
  (IF type \in Doors THEN AfterType("half", OtherDoorHalf(pos, meta), type, 0) ELSE <<>>)
  \o PlaceBlockUpdate(pos, BLOCK.AIR, 0)

DigAfterLook(r, type, meta) ==
  (IF Breaks(r, type) THEN BreakBlock(r.pos, type, meta) ELSE <<>>)
  \o (IF IsInteractable(type) THEN InteractWithBlock(r.pos) ELSE <<>>)

(* Variant: only the half that was used is moved. *)
UseThisHalf(pos, type, meta) ==
  PlaceBlockUpdate(pos, type, IF type \in {BLOCK.TRAPDOOR, BLOCK.DOOR_WOOD} THEN Toggled(meta) ELSE meta)

(* A wooden door moves its other half first; everything but it and a        *)
(* trapdoor is written back as it was read. *)
UseAfterLook(pos, type, meta) ==
  LET new == IF type \in {BLOCK.TRAPDOOR, BLOCK.DOOR_WOOD} THEN Toggled(meta) ELSE meta
  IN (IF type = BLOCK.DOOR_WOOD THEN AfterLook("swing", OtherDoorHalf(pos, new), type) ELSE <<>>)
     \o PlaceBlockUpdate(pos, type, new)

IsDouble(id) == IsDoorItem(id) \/ id = ITEM.BED

(* The block a packet wants to place into, and the one beside it where a    *)
(* door or bed puts its other half. *)
Target(r) == BlockToFace(r.pos, r.face)

SecondHalf(r) == OtherHalf(r.item, Target(r), GetPlayerOrientation(r.yaw))

PlaceAfterLook(r, type, meta) ==
  IF type = BLOCK.AIR THEN <<>>
  ELSE IF IsInteractable(type)
  THEN IF HasInventory(type) THEN <<>> ELSE InteractWithBlock(r.pos)
  ELSE IF r.item <= BLOCK.AIR THEN <<>>
  ELSE IF type = BLOCK.SLAB /\ meta = 0 /\ r.face = Face.yPlus
  THEN PlaceBlockUpdate(r.pos, BLOCK.DOUBLE_SLAB, 0)
  ELSE IF IsHoe(r.item) THEN AfterType("hoe", r.pos, BLOCK.AIR, 0)
  ELSE IF IsDouble(r.item) THEN AfterType("placed", SecondHalf(r), BLOCK.AIR, 0)
  ELSE Call("placed", "act", Target(r), BLOCK.AIR, 0)

(* GetPlacedBlock has put the top of a door before the placement is checked. *)
Placed(r, type, meta) ==
  (IF IsDouble(r.item) /\ type # BLOCK.INVALID
   THEN PlaceBlockUpdate(SecondHalf(r), type, AsTop(meta))
   ELSE <<>>)
  \o Call("put", "act", Target(r), type, meta)

IsValidPlacement(type, collides) == ~IsSolid(type) \/ ~collides

Put(pos, type, meta) ==
  IF type = BLOCK.SPONGE THEN PlaceSponge(pos) ELSE PlaceBlockUpdate(pos, type, meta)

(* --------------------------------- actions ------------------------------ *)

(* The positions a packet is about, *)
Places(r) ==
  IF r.op # "place" THEN {r.pos}
  ELSE {r.pos, Target(r)}
       \cup (IF IsDouble(r.item) THEN {SecondHalf(r)} ELSE {})
       \cup (IF r.item = BLOCK.SPONGE THEN Surroundings(Target(r)) ELSE {})

Near(pos) == {pos, Move(pos, 0, 1, 0), Move(pos, 0, -1, 0)}

(* and those its handler may look at or write, with those that share a byte *)
(* of metadata with them. *)
Reach(r) ==
  LET near == UNION {Near(pos) : pos \in Places(r)}
  IN {q \in DOMAIN world : {q, Even(q), Odd(q)} \cap near # {}}

Busy == {p \in Players : todo[p] # <<>>}

(* What a player may point at, by what it was told: it digs a block and     *)
(* places one where it sees air or water. *)
Sees(pos) == IF pos \in DOMAIN shown THEN shown[pos] ELSE Air

Sendable(r) ==
  CASE r.op = "dig" -> Sees(r.pos).type # BLOCK.AIR
    [] r.op = "place" -> \/ Sees(Target(r)).type \in {BLOCK.AIR} \cup Water
                         \/ IsInteractable(Sees(r.pos).type)
    [] OTHER -> TRUE

(* The handlers under way that a new one meets. *)
Met(r) == {q \in Busy : Reach(r) \cap Reach(request[q]) # {}}

(* HandlePlayerDigging and HandlePlayerBlockPlacement begin with a look at  *)
(* the block of the packet. *)
Receive(p) ==
  /\ todo[p] = <<>>
  /\ handled < MaxHandlers
  /\ \E r \in Requests :
       /\ r.op \in {"dig", "place"}
       /\ Sendable(r)
       /\ request' = [request EXCEPT ![p] = r]
       /\ todo' = [todo EXCEPT ![p] = AfterLook(r.op, r.pos, BLOCK.AIR)]
       /\ raced' = raced \cup UNION {Reach(r) \cap Reach(request[q]) : q \in Busy}
       /\ disturbed' = IF Met(r) = {} /\ Reach(r) \cap disturbed = {} THEN disturbed
                       ELSE disturbed \cup Reach(r) \cup (UNION {Reach(request[q]) : q \in Met(r)})
  /\ handled' = handled + 1
  /\ UNCHANGED <<world, reg, tiles, shown, taken>>

(* HandleUpdateSign: a new tile entity, beside any that was there before.   *)
UpdateSign(p) ==
  /\ todo[p] = <<>>
  /\ handled < MaxHandlers
  /\ \E r \in Requests :
       /\ r.op = "sign"
       /\ tiles' = [tiles EXCEPT ![r.pos] = @ + 1]
  /\ handled' = handled + 1
  /\ UNCHANGED <<world, todo, reg, request, shown, taken, raced, disturbed>>

(* The call a handler is in, and the access that call makes next. *)
Current(p) == Head(todo[p])

Next1(p, access) == todo[p] # <<>> /\ Current(p).do = access

At(p, name) == Next1(p, "act") /\ Current(p).call = name

Advance(p, access) == todo' = [todo EXCEPT ![p] = <<[Head(@) EXCEPT !.do = access]>> \o Tail(@)]

(* The current call ends; the calls of more are made in its place. *)
Return(p, more) == todo' = [todo EXCEPT ![p] = more \o Tail(@)]

(* What a handler has read, and its packet, end with it. *)
ReturnOrEnd(p, more) ==
  /\ Return(p, more)
  /\ IF todo'[p] # <<>> THEN UNCHANGED <<reg, request>>
     ELSE reg' = [reg EXCEPT ![p] = Nothing] /\ request' = [request EXCEPT ![p] = NoRequest]

ReadType(p) ==
  /\ \/ Next1(p, "type") /\ Advance(p, "act")
     \/ Next1(p, "look") /\ Advance(p, "meta")
  /\ reg' = [reg EXCEPT ![p].type = BlockAt(Current(p).pos).type]
  /\ UNCHANGED <<world, request, tiles, shown, taken, raced, disturbed, handled>>

ReadMeta(p) ==
  /\ Next1(p, "meta")
  /\ reg' = [reg EXCEPT ![p].meta = BlockAt(Current(p).pos).meta]
  /\ Advance(p, "act")
  /\ UNCHANGED <<world, request, tiles, shown, taken, raced, disturbed, handled>>

WriteType(p) ==
  /\ Next1(p, "set")
  /\ LET pos == Current(p).pos
     IN world' = IF pos \in DOMAIN world THEN [world EXCEPT ![pos].type = Current(p).type] ELSE world
  /\ Advance(p, "load")
  /\ UNCHANGED <<reg, request, tiles, shown, taken, raced, disturbed, handled>>

(* SetBlockMeta: the byte of two blocks is read and written back, *)
LoadMeta(p) ==
  /\ Next1(p, "load")
  /\ reg' = [reg EXCEPT ![p].byte = <<BlockAt(Even(Current(p).pos)).meta, BlockAt(Odd(Current(p).pos)).meta>>]
  /\ Advance(p, "store")
  /\ UNCHANGED <<world, request, tiles, shown, taken, raced, disturbed, handled>>

(* the other one's half of it as it was read. *)
StoreMeta(p) ==
  LET pos == Current(p).pos
      new(q) == IF q = pos THEN Current(p).meta % 16
                ELSE IF q = Even(pos) THEN reg[p].byte[1]
                ELSE IF q = Odd(pos) THEN reg[p].byte[2]
                ELSE world[q].meta
  IN /\ Next1(p, "store")
     /\ world' = IF pos \in DOMAIN world
                 THEN [q \in DOMAIN world |-> [world[q] EXCEPT !.meta = new(q)]]
                 ELSE world
     /\ reg' = [reg EXCEPT ![p].byte = Nothing.byte]
     /\ Return(p, <<>>)
     /\ UNCHANGED <<request, tiles, shown, taken, raced, disturbed, handled>>

(* BroadcastToClients puts it into every client's response. *)
Tell(p) ==
  /\ At(p, "tell")
  /\ LET pos == Current(p).pos
     IN shown' = IF pos \in DOMAIN shown
                 THEN [shown EXCEPT ![pos] = [type |-> reg[p].type, meta |-> reg[p].meta]]
                 ELSE shown
  /\ ReturnOrEnd(p, <<>>)
  /\ UNCHANGED <<world, tiles, taken, raced, disturbed, handled>>

(* The rest of HandlePlayerDigging: the drop is given before anything is    *)
(* removed.  A door's drop counts for its lower half. *)
Dig(p) ==
  LET r == request[p]
      type == reg[p].type
      meta == reg[p].meta
      base == IF type \in Doors /\ IsTop(meta) THEN Move(r.pos, 0, -1, 0) ELSE r.pos
      drops == /\ Breaks(r, type) /\ ~r.creative /\ doTileDrops
               /\ GetDrop(type, meta) # NoItem /\ base \in DOMAIN taken
  IN /\ At(p, "dig")
     /\ taken' = IF drops THEN [taken EXCEPT ![base] = @ + 1] ELSE taken
     /\ ReturnOrEnd(p, DigAfterLook(r, type, meta))
     /\ UNCHANGED <<world, tiles, shown, raced, disturbed, handled>>

DigOtherHalf(p) ==
  /\ At(p, "half")
  /\ ReturnOrEnd(p, IF reg[p].type = Current(p).type
                    THEN PlaceBlockUpdate(Current(p).pos, BLOCK.AIR, 0) ELSE <<>>)
  /\ UNCHANGED <<world, tiles, shown, taken, raced, disturbed, handled>>

Interact(p) ==
  /\ At(p, "interact")
  /\ ReturnOrEnd(p, UseAfterLook(Current(p).pos, reg[p].type, reg[p].meta))
  /\ UNCHANGED <<world, tiles, shown, taken, raced, disturbed, handled>>

SwingOtherHalf(p) ==
  /\ At(p, "swing")
  /\ ReturnOrEnd(p, IF reg[p].type = Current(p).type
                    THEN PlaceBlockUpdate(Current(p).pos, reg[p].type, Toggled(reg[p].meta)) ELSE <<>>)
  /\ UNCHANGED <<world, tiles, shown, taken, raced, disturbed, handled>>

(* The rest of HandlePlayerBlockPlacement, up to GetPlacedBlock. *)
Place(p) ==
  /\ \/ /\ At(p, "place")
        /\ ReturnOrEnd(p, PlaceAfterLook(request[p], reg[p].type, reg[p].meta))
     \/ /\ At(p, "hoe")
        /\ ReturnOrEnd(p, IF reg[p].type \in {BLOCK.GRASS, BLOCK.DIRT}
                          THEN PlaceBlockUpdate(Current(p).pos, BLOCK.FARMLAND, 0) ELSE <<>>)
  /\ UNCHANGED <<world, tiles, shown, taken, raced, disturbed, handled>>

(* What is put a first time has not been taken yet. *)
PutAnew(pos) == taken' = IF pos \in DOMAIN taken THEN [taken EXCEPT ![pos] = 0] ELSE taken

PlaceSecondHalf(p) ==
  LET r == request[p]
      type == PlacedType(r.item, r.face, reg[p].type)
  IN /\ At(p, "placed")
     /\ ReturnOrEnd(p, Placed(r, type, PlacedMeta(r.item, 0, r.face, r.yaw)))
     /\ IF IsDouble(r.item) /\ type # BLOCK.INVALID THEN PutAnew(SecondHalf(r)) ELSE UNCHANGED taken
     /\ UNCHANGED <<world, tiles, shown, raced, disturbed, handled>>

(* The player stands in the way, or the item places nothing. *)
Refuse(p) ==
  /\ At(p, "put")
  /\ Current(p).type = BLOCK.INVALID \/ ~IsValidPlacement(Current(p).type, TRUE)
  /\ ReturnOrEnd(p, <<>>)
  /\ disturbed' = IF Current(p).type \in Doors THEN disturbed \cup Reach(request[p]) ELSE disturbed
  /\ UNCHANGED <<world, tiles, shown, taken, raced, handled>>

(* The id of a door's block, which /give hands out, puts one half. *)
PutBlock(p) ==
  LET pos == Current(p).pos
      type == Current(p).type
  IN /\ At(p, "put")
     /\ type # BLOCK.INVALID
     /\ ReturnOrEnd(p, Put(pos, type, Current(p).meta))
     /\ PutAnew(pos)
     /\ tiles' = IF type = BLOCK.CHEST /\ pos \in DOMAIN tiles
                 THEN [tiles EXCEPT ![pos] = @ + 1] ELSE tiles
     /\ disturbed' = IF type \in Doors /\ ~IsDoorItem(request[p].item)
                     THEN disturbed \cup Reach(request[p]) ELSE disturbed
     /\ UNCHANGED <<world, shown, raced, handled>>

(* The next cell around the sponge. *)
Soak(p) ==
  /\ At(p, "soak")
  /\ ReturnOrEnd(p, (IF reg[p].type \in Water THEN PlaceBlockUpdate(Current(p).pos, BLOCK.AIR, 0) ELSE <<>>)
                    \o SoakFrom(Target(request[p]), Current(p).meta + 1))
  /\ UNCHANGED <<world, tiles, shown, taken, raced, disturbed, handled>>

Init ==
  /\ world \in Worlds
  /\ todo = [p \in Players |-> <<>>]
  /\ reg = [p \in Players |-> Nothing]
  /\ request = [p \in Players |-> NoRequest]
  /\ tiles = [pos \in DOMAIN world |-> 0]
  /\ shown = world
  /\ taken = [pos \in DOMAIN world |-> 0]
  /\ raced = {}
  /\ disturbed = {}
  /\ handled = 0

Next == \E p \in Players :
  \/ Receive(p) \/ UpdateSign(p)
  \/ ReadType(p) \/ ReadMeta(p) \/ WriteType(p) \/ LoadMeta(p) \/ StoreMeta(p) \/ Tell(p)
  \/ Dig(p) \/ DigOtherHalf(p) \/ Interact(p) \/ SwingOtherHalf(p)
  \/ Place(p) \/ PlaceSecondHalf(p) \/ Refuse(p) \/ PutBlock(p) \/ Soak(p)

Spec == Init /\ [][Next]_vars

(* ------------------------------- properties ----------------------------- *)

(* The positions no handler is at now, and no two were at together. *)
Settled == DOMAIN world \ (raced \cup UNION {Reach(request[p]) : p \in Busy})

(* A door has two halves that are of one kind, stand above each other and   *)
(* are both open or both shut, unless two players were at it at once, its   *)
(* placement was refused after its top was put, or somebody went on from    *)
(* what that left (HandlePlayerDigging, InteractWithBlock and               *)
(* GetPlacedBlock each do the halves one by one). *)
HalvesAgree ==
  \A pos \in Settled \ disturbed :
    world[pos].type \in Doors =>
      LET other == OtherDoorHalf(pos, world[pos].meta)
      IN other \in Settled \ disturbed =>
           BelongTogether(world[pos], world[other])

(* What the clients were told last of a block is the block, unless two      *)
(* players were at it at once: every write is followed by an UpdateBlock of *)
(* the same position that reads the block after the last write. *)
ShownIsTheBlock == \A pos \in Settled : shown[pos] = world[pos]

(* A block that was put once is given to a player once, with the exceptions *)
(* of HalvesAgree: what HandlePlayerDigging does after the drop never puts  *)
(* it back. *)
DroppedOnce == \A pos \in DOMAIN world \ disturbed : taken[pos] <= 1

(* What the comment of UpdateBlock says: the clients are informed of the    *)
(* updated block, also of one that two players change at once. *)
InformedOfTheBlock == Busy = {} => shown = world

(* What the comments in HandlePlayerBlockPlacement say: the placement is    *)
(* checked before a block is placed, so no half of a door stands alone. *)
NoHalfDoor ==
  Busy = {} => \A pos \in DOMAIN world :
    world[pos].type \in Doors =>
      BlockAt(OtherDoorHalf(pos, world[pos].meta)).type = world[pos].type
=============================================================================
