------------------------------- MODULE MCPlayers -------------------------------
(* One player who plays, another name, two slots and a row of two, and the items the tables tell apart. *)
EXTENDS Commands

MCDug == {<<BLOCK.STONE, 0>>, <<BLOCK.DOUBLE_SLAB, 1>>}
MCPlaceable == {BLOCK.COBBLESTONE, ITEM.HOE_WOOD}
MCOldFiles ==
  {NoFile,
   [state |-> "whole", slots |-> (0 :> [id |-> BLOCK.COBBLESTONE, amount |-> 1, damage |-> 0])
              @@ (3 :> [id |-> ITEM.HOE_WOOD, amount |-> 1, damage |-> 0])
              @@ (101 :> [id |-> 310, amount |-> 1, damage |-> 0]),
    health |-> 7]}
MCOldLists == {[operators |-> <<"a">>, whitelist |-> <<"a", "b">>]}
MCHealthArgs == {200}
===============================================================================
