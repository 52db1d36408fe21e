---------------------------- MODULE MCGovernance ----------------------------
(* Governance for TLC: one evidence payload per validator. *)
EXTENDS Governance, TLC

MCEvidence == [validator : Account, digest : {1}]

Symmetry == Permutations(Account) \cup Permutations(Owner)
=============================================================================
