--------------------------------- MODULE Player --------------------------------
(***************************************************************************)
(* What the server keeps of a player: its slots, its windows, its health   *)
(* and its file.  The operations are those the packets and the commands    *)
(* call; Commands adds the commands, the lists of names and the threads.   *)
(*                                                                         *)
(* A player's slots change only in the thread of its client.  The main     *)
(* thread reads them for the periodic save, and both write the same file.  *)
(***************************************************************************)
EXTENDS Inventory, Functions

CONSTANTS Names,          \* the names of players
          COLS, ROWS,     \* slots of the hotbar and of a row, rows (9 and 3 in the code)
          Dug, Placeable, \* blocks that are broken, and items that can be placed
          Clicked,        \* the kinds of windows that are opened
          HealthArgs,     \* numbers given to /health
          OldFiles        \* player files the server may find when it is started

VARIABLES
  online,       \* name -> "out", "in" or "leaving": the loop of HandleClient is left
  slots,        \* name -> [hotbar |-> row, inventory |-> rows, armor |-> row]
  held,         \* name -> the selected column of the hotbar
  creative,     \* name -> creativeMode
  health,       \* name -> health
  windowIndex,  \* name -> the number of the latest window
  activeWindow, \* name -> activeWindowType
  screen,       \* name -> the client: windows announced to it and not shown yet, the one shown
  balance,      \* name -> history: how many items it should have
  file,         \* name -> its player file
  saves,        \* name, thread -> how far the thread is with saving the file
  left,         \* name -> history: the slots it left the game with
  mixed,        \* name -> history: two threads were saving at once, or the server crashed
  crashed       \* the server has followed a null pointer

playerVars == <<online, slots, held, creative, health, windowIndex, activeWindow, screen,
                balance, file, saves, left, mixed, crashed>>

HEALTH_MAX == 20

NONE == -1
CHEST == 0
CRAFTING_TABLE == 1
WindowTypes == NONE .. 3

(* A player's slots in its file are numbered through: the hotbar, the rows, *)
(* and the armor from here on. *)
ARMOR_SLOT == 100

NoFile == [state |-> "none"]
TornFile == [state |-> "torn"]

NotSaving == [at |-> "idle"]

NoScreen == [coming |-> <<>>, shown |-> 0]

Threads == {"own", "main"}

(* What a slot may hold: nothing, or a stack that is not overfull. *)
Item ==
  {NoItem} \cup {item \in [id : Nat \ {BLOCK.AIR}, amount : Nat \ {0}, damage : Int] :
                    item.amount <= GetMaxStack(item.id)}

Row == [0 .. COLS - 1 -> Item]

(* Nothing is ever worn. *)
Slots == [hotbar : Row, inventory : [1 .. ROWS -> Row], armor : [0 .. 3 -> {NoItem}]]

(* The slots fit below the armor's numbers, and a player's file has items    *)
(* as a slot may hold them, under numbers there are slots for.              *)
ASSUME PlayerAssumption ==
  /\ COLS \in Nat \ {0} /\ ROWS \in Nat \ {0} /\ COLS * (ROWS + 1) <= ARMOR_SLOT
  /\ Dug \subseteq (0 .. BLOCK.MAX) \X (0 .. 15)
  /\ Placeable \subseteq Nat \ {BLOCK.AIR}
  /\ Clicked \subseteq 0 .. 3
  /\ HealthArgs \subseteq Int
  /\ \A f \in OldFiles :
       \/ f = NoFile
       \/ /\ f = [state |-> "whole", slots |-> f.slots, health |-> f.health]
          /\ f.slots \in [DOMAIN f.slots -> Item]
          /\ DOMAIN f.slots \subseteq 0 .. COLS * (ROWS + 1) - 1 \cup ARMOR_SLOT .. ARMOR_SLOT + 3
          /\ f.health \in 0 .. HEALTH_MAX

EmptySlots == [ hotbar |-> EmptyRow(COLS), inventory |-> EmptyInventory(ROWS, COLS),
                armor |-> EmptyRow(4) ]

(* ---------------------------- counting items ---------------------------- *)

Amount(row) == SumFunction([c \in DOMAIN row |-> row[c].amount])

Stored(inv) == SumFunction([r \in DOMAIN inv |-> Amount(inv[r])])

Owned(s) == Amount(s.hotbar) + Stored(s.inventory)

(* -------------------------------- slots --------------------------------- *)

(* Variant: what went into the hotbar is not written back when the rows are *)
(* needed, too. *)
SpreadToRowsOnly(s, item) ==
  LET Rows(rest) == [slots |-> [s EXCEPT !.inventory = rest.inv], left |-> rest.item.amount]
      ThenRows(first) ==
        IF first.item.amount <= 0 THEN [slots |-> [s EXCEPT !.hotbar = first.row], left |-> 0]
        ELSE Rows(SpreadItems(s.inventory, first.item))
  IN ThenRows(SpreadItem(s.hotbar, item))

(* The hotbar first, then the rows of the inventory.  A negative amount     *)
(* asks for a full stack.  What does not fit is gone.                       *)
SpreadToSlots(s, item) ==
  LET Rows(hotbar, rest) ==
        [slots |-> [s EXCEPT !.hotbar = hotbar, !.inventory = rest.inv], left |-> rest.item.amount]
      ThenRows(first) ==
        IF first.item.amount <= 0 THEN [slots |-> [s EXCEPT !.hotbar = first.row], left |-> 0]
        ELSE Rows(first.row, SpreadItems(s.inventory, first.item))
  IN ThenRows(SpreadItem(s.hotbar, item))

Give(s, item) ==
  SpreadToSlots(s, IF item.amount < 0 THEN Left(item, GetMaxStack(item.id)) ELSE item)

GetHeldItem(s, column) == GetSlot(s.hotbar, column)

CanDecrementHotbar(s, column) ==
  LET item == GetHeldItem(s, column) IN item.id > BLOCK.AIR /\ item.amount > 0

(* Variant: the last one of a stack leaves an empty stack of its kind. *)
DecrementHotbarToNone(s, column) ==
  LET item == s.hotbar[column]
      used == IF IsHoe(item.id) THEN [item EXCEPT !.damage = @ - 1]
              ELSE Left(item, item.amount - 1)
  IN [s EXCEPT !.hotbar[column] = used]

(* A hoe loses one of its damage value, anything else is used up. *)
DecrementHotbar(s, column) ==
  LET item == s.hotbar[column]
      used == IF IsHoe(item.id) THEN [item EXCEPT !.damage = @ - 1]
              ELSE IF item.amount <= 1 THEN NoItem
              ELSE Left(item, item.amount - 1)
  IN [s EXCEPT !.hotbar[column] = used]

(* Respawn's ClearInventory leaves the hotbar as it is. *)
ClearInventory(s) ==
  [s EXCEPT !.armor = ClearSlots(@), !.inventory = ClearAllSlots(@)]

(* The player's starter items, each a full stack. *)
Starters == <<ITEM.PICKAXE_DIAMOND, ITEM.AXE_DIAMOND, ITEM.SHOVEL_DIAMOND,
              BLOCK.STONE, BLOCK.COBBLESTONE, BLOCK.PLANKS>>

StarterItem(n) == [id |-> Starters[n], amount |-> -1, damage |-> 0]

Equipped ==
  LET after[n \in 0 .. Len(Starters)] ==
        IF n = 0 THEN EmptySlots ELSE Give(after[n - 1], StarterItem(n)).slots
  IN after[Len(Starters)]

(* ------------------------------- the file ------------------------------- *)

Used(row) == {c \in DOMAIN row : row[c].id # SLOT_EMPTY}

(* What Save puts into the file: the slots that hold something, by number. *)
NbtSlots(s) ==
  LET main == GetLinearSlots(<<s.hotbar>> \o s.inventory, COLS)
      armor == [n \in ARMOR_SLOT .. ARMOR_SLOT + 3 |-> s.armor[n - ARMOR_SLOT]]
  IN [n \in Used(main) \cup Used(armor) |-> IF n < ARMOR_SLOT THEN main[n] ELSE armor[n]]

(* Variant: the numbers of the rows are not counted from behind the hotbar. *)
SlotsOfUnshifted(nbt) ==
  LET At(n) == IF n \in DOMAIN nbt THEN nbt[n] ELSE NoItem
  IN [ hotbar |-> [c \in 0 .. COLS - 1 |-> At(c)],
       inventory |-> SetLinearSlots(COLS, [n \in 0 .. COLS * ROWS - 1 |-> At(n)]),
       armor |-> [c \in 0 .. 3 |-> NoItem] ]

(* What Load makes of it.  The hotbar's numbers are its columns, the rows   *)
(* begin behind them; the armor is set under its number in the file, which *)
(* the row of four refuses.                                                 *)
SlotsOf(nbt) ==
  LET At(n) == IF n \in DOMAIN nbt THEN nbt[n] ELSE NoItem
      armor == [c \in 0 .. 3 |-> IF c >= ARMOR_SLOT THEN At(c) ELSE NoItem]
  IN [ hotbar |-> [c \in 0 .. COLS - 1 |-> At(c)],
       inventory |-> SetLinearSlots(COLS, [n \in 0 .. COLS * ROWS - 1 |-> At(n + COLS)]),
       armor |-> armor ]

Data(name) == [state |-> "whole", slots |-> NbtSlots(slots[name]), health |-> health[name]]

Saving(name, t) == saves[name][t].at # "idle"

(* Save first collects the player's data, then opens the file, which       *)
(* empties it, and writes. *)
BeginSave(name, t) ==
  /\ ~Saving(name, t)
  /\ saves' = [saves EXCEPT ![name][t] = [at |-> "open", data |-> Data(name)]]
  /\ mixed' = [mixed EXCEPT ![name] = @ \/ \E u \in Threads \ {t} : Saving(name, u)]

OpenFile(name, t) ==
  /\ saves[name][t].at = "open"
  /\ saves' = [saves EXCEPT ![name][t].at = "write"]
  /\ file' = [file EXCEPT ![name] = TornFile]

WriteFile(name, t) ==
  /\ saves[name][t].at = "write"
  /\ saves' = [saves EXCEPT ![name][t] = NotSaving]
  /\ file' = [file EXCEPT ![name] = saves[name][t].data]

(* ------------------------- a player comes and goes ---------------------- *)

In(name) == online[name] = "in" /\ ~crashed

(* The player objects go with their clients. *)
Destroyed(names) ==
  LET Reset(f, value) == [n \in Names |-> IF n \in names THEN value ELSE f[n]]
  IN /\ slots' = Reset(slots, EmptySlots)
     /\ held' = Reset(held, 0)
     /\ creative' = Reset(creative, FALSE)
     /\ health' = Reset(health, HEALTH_MAX)
     /\ windowIndex' = Reset(windowIndex, 0)
     /\ activeWindow' = Reset(activeWindow, NONE)
     /\ screen' = Reset(screen, NoScreen)
     /\ balance' = Reset(balance, 0)

(* HandleLoginRequest.  CreatePlayer makes a new object; Load replaces what *)
(* the file has.  A file that is empty has no root to get anything from.    *)
Login(name) ==
  /\ online[name] = "out" /\ ~crashed
  /\ IF file[name] = TornFile
     THEN /\ crashed' = TRUE
          /\ UNCHANGED <<online, slots, held, creative, health, windowIndex, activeWindow, screen, balance>>
     ELSE LET new == file[name] = NoFile
              now == IF new THEN Equipped ELSE SlotsOf(file[name].slots)
          IN /\ online' = [online EXCEPT ![name] = "in"]
             /\ slots' = [slots EXCEPT ![name] = now]
             /\ health' = [health EXCEPT ![name] = IF new THEN HEALTH_MAX ELSE file[name].health]
             /\ balance' = [balance EXCEPT ![name] =
                  IF new THEN Owned(now)
                  ELSE Amount(Restrict(file[name].slots,
                                       {n \in DOMAIN file[name].slots : n < ARMOR_SLOT}))]
             /\ held' = [held EXCEPT ![name] = 0]
             /\ creative' = [creative EXCEPT ![name] = FALSE]
             /\ windowIndex' = [windowIndex EXCEPT ![name] = 0]
             /\ activeWindow' = [activeWindow EXCEPT ![name] = NONE]
             /\ screen' = [screen EXCEPT ![name] = NoScreen]
             /\ crashed' = FALSE
  /\ mixed' = [mixed EXCEPT ![name] = \E t \in Threads : Saving(name, t)]
  /\ UNCHANGED <<file, saves, left>>

(* The loop of HandleClient is left: the client has gone or was kicked. *)
Leave(name) ==
  /\ In(name)
  /\ online' = [online EXCEPT ![name] = "leaving"]
  /\ left' = [left EXCEPT ![name] = slots[name]]
  /\ BeginSave(name, "own")
  /\ UNCHANGED <<slots, held, creative, health, windowIndex, activeWindow, screen, balance, file, crashed>>

(* Its own save is done: the client is taken off connectedClients, and the  *)
(* name is free again. *)
Gone(name) ==
  /\ online[name] = "leaving" /\ ~Saving(name, "own") /\ ~crashed
  /\ online' = [online EXCEPT ![name] = "out"]
  /\ Destroyed({name})
  /\ UNCHANGED <<file, saves, left, mixed, crashed>>

(* ------------------------------- handlers ------------------------------- *)

(* The part of HandlePlayerDigging that gives the drop.  The window stays   *)
(* as it is. *)
Dig(name, type, meta) ==
  /\ In(name)
  /\ ~creative[name]
  /\ LET given == Give(slots[name], GetDrop(type, meta))
     IN /\ slots' = [slots EXCEPT ![name] = given.slots]
        /\ balance' = [balance EXCEPT ![name] = @ + GetDrop(type, meta).amount - given.left]
  /\ UNCHANGED <<online, held, creative, health, windowIndex, activeWindow, screen, file, saves,
                 left, mixed, crashed>>

(* The part of HandlePlayerBlockPlacement that uses up what was placed.  A  *)
(* hoe is never placed, but the rule for slabs does not look at the item,   *)
(* only at its damage value, which must be the slab's metadata.             *)
Place(name) ==
  /\ In(name)
  /\ CanDecrementHotbar(slots[name], held[name])
  /\ LET item == GetHeldItem(slots[name], held[name])
     IN /\ item.id \in Placeable
        /\ IsHoe(item.id) => item.damage >= 0
        /\ IF creative[name] THEN UNCHANGED <<slots, balance>>
           ELSE /\ slots' = [slots EXCEPT ![name] = DecrementHotbar(@, held[name])]
                /\ balance' = [balance EXCEPT ![name] = IF IsHoe(item.id) THEN @ ELSE @ - 1]
  /\ UNCHANGED <<online, held, creative, health, windowIndex, activeWindow, screen, file, saves,
                 left, mixed, crashed>>

ChangeHeldItem(name, column) ==
  /\ In(name)
  /\ held' = [held EXCEPT ![name] = column]
  /\ UNCHANGED <<online, slots, creative, health, windowIndex, activeWindow, screen, balance, file,
                 saves, left, mixed, crashed>>

(* Respawn; keep is the game rule keepInventory. *)
Respawn(name, keep) ==
  /\ In(name)
  /\ health' = [health EXCEPT ![name] = HEALTH_MAX]
  /\ LET now == IF keep THEN slots[name] ELSE ClearInventory(slots[name])
     IN /\ slots' = [slots EXCEPT ![name] = now]
        /\ balance' = [balance EXCEPT ![name] =
             IF keep THEN @ ELSE @ - Stored(slots[name].inventory)]
  /\ UNCHANGED <<online, held, creative, windowIndex, activeWindow, screen, file, saves, left, mixed,
                 crashed>>

(* -------------------------------- windows ------------------------------- *)

(* The client is sent the number of the new window. *)
OpenWindow(name, type) ==
  /\ windowIndex' = [windowIndex EXCEPT ![name] = @ + 1]
  /\ activeWindow' = [activeWindow EXCEPT ![name] = type]
  /\ screen' = [screen EXCEPT ![name].coming = Append(@, windowIndex[name] + 1)]

(* A click on a chest, a crafting table, a furnace or a dispenser.  The     *)
(* client clicks on blocks only while it shows no window.                   *)
ClickBlock(name, type) ==
  /\ In(name)
  /\ screen[name].shown = 0
  /\ OpenWindow(name, type)
  /\ UNCHANGED <<online, slots, held, creative, health, balance, file, saves, left, mixed, crashed>>

(* The client shows the window it was told of, in place of another one. *)
ShowWindow(name) ==
  /\ In(name)
  /\ screen[name].coming # <<>>
  /\ screen' = [screen EXCEPT ![name] = [coming |-> Tail(@.coming), shown |-> Head(@.coming)]]
  /\ UNCHANGED <<online, slots, held, creative, health, windowIndex, activeWindow, balance, file,
                 saves, left, mixed, crashed>>

(* HandleCloseWindow: the client closes the window it shows.  A number that *)
(* is not the latest closes the latest, too.                                *)
CloseWindow(name) ==
  /\ In(name)
  /\ screen[name].shown # 0
  /\ LET index == windowIndex[name] - 1
     IN /\ windowIndex' = [windowIndex EXCEPT ![name] = IF index <= 0 THEN 0 ELSE index]
        /\ activeWindow' = [activeWindow EXCEPT ![name] = IF index <= 0 THEN NONE ELSE @]
        /\ screen' = [screen EXCEPT ![name] =
             [ coming |-> IF @.shown = windowIndex[name] THEN @.coming ELSE Append(@.coming, 0),
               shown |-> 0 ]]
  /\ UNCHANGED <<online, slots, held, creative, health, balance, file, saves, left, mixed, crashed>>

(* -------------------------------- health -------------------------------- *)

Int8(n) == ((n + 128) % 256) - 128

Clamped(n) == IF n > HEALTH_MAX THEN HEALTH_MAX ELSE IF n < 0 THEN 0 ELSE n

(* The argument is narrowed to a byte before it is clamped. *)
SetHealth(name, n) ==
  /\ health' = [health EXCEPT ![name] = Clamped(Int8(n))]
  /\ UNCHANGED <<online, slots, held, creative, windowIndex, activeWindow, screen, balance, file, saves,
                 left, mixed, crashed>>
===============================================================================
