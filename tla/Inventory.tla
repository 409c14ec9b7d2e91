------------------------------- MODULE Inventory -------------------------------
(***************************************************************************)
(* Rows of item slots and inventories made of rows.  A row is a function   *)
(* from column numbers to items, an inventory a sequence of rows; what the *)
(* code does on a column or a row that does not exist (it gives an empty   *)
(* item, or refuses) is kept, as a file may name any slot.                 *)
(***************************************************************************)
EXTENDS Blocks, Sequences, FiniteSets

Smaller(a, b) == IF a < b THEN a ELSE b

EmptyRow(cols) == [c \in 0 .. cols - 1 |-> NoItem]

EmptyInventory(rows, cols) == [r \in 1 .. rows |-> EmptyRow(cols)]

ClearSlots(row) == [c \in DOMAIN row |-> NoItem]

ClearAllSlots(inv) == [r \in DOMAIN inv |-> ClearSlots(inv[r])]

(* A column beyond the last reads as an empty item and cannot be written.   *)
GetSlot(row, c) == IF c \in DOMAIN row THEN row[c] ELSE NoItem

SetSlot(row, c, item) == IF c \in DOMAIN row THEN [row EXCEPT ![c] = item] ELSE row

(* Rows are numbered from 0; a row that does not exist has no slots. *)
GetRow(inv, r) == IF r + 1 \in DOMAIN inv THEN inv[r + 1] ELSE EmptyRow(0)

GetSlotAt(inv, col, row) == GetSlot(GetRow(inv, row), col)

SetSlotAt(inv, col, row, item) ==
  IF row + 1 \in DOMAIN inv THEN [inv EXCEPT ![row + 1] = SetSlot(@, col, item)] ELSE inv

(* ------------------------------ one slot -------------------------------- *)

(* How much of the item a slot takes. *)
Taken(slot, item) ==
  IF item.amount <= 0 THEN 0
  ELSE IF slot.id = SLOT_EMPTY THEN Smaller(GetMaxStack(item.id), item.amount)
  ELSE IF \/ slot.id # item.id
          \/ slot.damage # item.damage
          \/ slot.amount >= GetMaxStack(item.id) THEN 0
  ELSE Smaller(GetMaxStack(item.id) - slot.amount, item.amount)

(* The slot after as much of the item as it takes was put into it. *)
AddItem(slot, item) ==
  LET Add(taken) ==
        IF taken = 0 THEN slot
        ELSE [ id |-> item.id, damage |-> item.damage,
               amount |-> taken + (IF slot.id = SLOT_EMPTY THEN 0 ELSE slot.amount) ]
  IN Add(Taken(slot, item))

Left(item, amount) == [item EXCEPT !.amount = amount]

(* -------------------------------- a row --------------------------------- *)

(* What is left of the item in front of each column when only the slots in *)
(* Wanted are offered it, from the first column to the last.               *)
LeftAt(row, item, wanted) ==
  LET left[c \in 0 .. Cardinality(DOMAIN row)] ==
        IF c = 0 THEN item.amount
        ELSE IF c - 1 \in wanted THEN left[c - 1] - Taken(row[c - 1], Left(item, left[c - 1]))
        ELSE left[c - 1]
  IN left

Fill(row, item, wanted) ==
  LET Filled(left) ==
        [ row |-> [c \in DOMAIN row |->
                     IF c \in wanted THEN AddItem(row[c], Left(item, left[c])) ELSE row[c]],
          item |-> Left(item, left[Cardinality(DOMAIN row)]) ]
  IN Filled(LeftAt(row, item, wanted))

Stacks(row, item) ==
  {c \in DOMAIN row : row[c].id = item.id /\ row[c].damage = item.damage
                        /\ row[c].amount < GetMaxStack(item.id)}

Free(row) == {c \in DOMAIN row : row[c].id = SLOT_EMPTY}

(* First the stacks that have begun, then the empty slots. *)
SpreadItem(row, item) ==
  LET ThenFree(begun) ==
        IF begun.item.amount <= 0 THEN begun
        ELSE Fill(begun.row, begun.item, Free(begun.row))
  IN ThenFree(Fill(row, item, Stacks(row, item)))

(* ------------------------------ all rows -------------------------------- *)

(* Row after row, with what is left of the item. *)
SpreadItems(inv, item) ==
  LET after[r \in 0 .. Len(inv)] ==
        IF r = 0 THEN [row |-> EmptyRow(0), item |-> item]
        ELSE SpreadItem(inv[r], after[r - 1].item)
  IN [ inv |-> [r \in DOMAIN inv |-> after[r].row], item |-> after[Len(inv)].item ]

(* All slots in one numbering: column c of row r of a width is r * width + c. *)
GetLinearSlots(inv, width) ==
  [n \in 0 .. Len(inv) * width - 1 |-> inv[n \div width + 1][n % width]]

SetLinearSlots(width, slots) ==
  [r \in 1 .. (Cardinality(DOMAIN slots) + width - 1) \div width |->
     [c \in 0 .. width - 1 |-> GetSlot(slots, (r - 1) * width + c)]]
===============================================================================
