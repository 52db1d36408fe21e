------------------------ MODULE MCValidatorRegistry ------------------------
(* ValidatorRegistry for TLC: the evidence payloads of a small instance. *)
EXTENDS ValidatorRegistry, TLC

CONSTANTS Digests       \* distinct encodings of evidence against one validator

MCEvidence == [validator : Account, digest : Digests]

Symmetry == Permutations(Account) \cup Permutations(Digests)
=============================================================================
