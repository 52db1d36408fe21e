--------------------------- MODULE MCShieldedPool ---------------------------
(* ShieldedPool for TLC: the notes of a small instance. *)
EXTENDS ShieldedPool

CONSTANTS Digests       \* distinct encodings of evidence against one validator

MCEvidence == [validator : Account, digest : Digests]

Native(i, v) == [id |-> i, asset |-> "TKM", value |-> v]
Wrapped(i, v) == [id |-> i, asset |-> "PTKM", value |-> v]

\* A native note, and a wrapped one that change can be made of.
MixedTree == {Native(1, 2), Wrapped(3, 2), Wrapped(4, 1)}
\* A ring note and its change; either is the other's decoy.
RingNotes == {[id |-> 5, value |-> 2], [id |-> 6, value |-> 1]}
OneLegacyNote == {[id |-> 7, value |-> 1]}
=============================================================================
