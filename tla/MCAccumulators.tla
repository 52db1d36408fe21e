--------------------------- MODULE MCAccumulators ---------------------------
(* Accumulators for TLC: commitments and assets are interchangeable. *)
EXTENDS Accumulators

Symmetry == Permutations(Commitment) \cup Permutations(Asset)
=============================================================================
