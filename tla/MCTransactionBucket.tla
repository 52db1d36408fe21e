------------------------ MODULE MCTransactionBucket ------------------------
(* TransactionBucket for TLC. *)
EXTENDS TransactionBucket, TLC

Symmetry == Permutations(BatchId)
=============================================================================
