--------------------------- MODULE MCWorldManager ---------------------------
(* Instances of WorldManager for TLC.                                      *)
EXTENDS WorldManager

(* The smallest piece of the plane with a chunk that can be populated: the *)
(* square of <<0, 0>>.                                                     *)
Quad == {0, 1} \X {0, 1}

Corner == {<<0, 0>>}
BesideCorner == Quad \ Corner
NoSpawn == {}
=============================================================================
