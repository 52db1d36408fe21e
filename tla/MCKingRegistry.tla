--------------------------- MODULE MCKingRegistry ---------------------------
(* KingRegistry for TLC. *)
EXTENDS KingRegistry

Symmetry == Permutations(Address)
=============================================================================
