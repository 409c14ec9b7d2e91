-------------------------- MODULE MCClientSession --------------------------
(* Instances of ClientSession for TLC.                                     *)
EXTENDS ClientSession, TLC

(* Clients are interchangeable, and so are the names on the whitelist.     *)
Symmetry == Permutations(Clients) \cup Permutations(Whitelist)
=============================================================================
