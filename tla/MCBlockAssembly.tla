-------------------------- MODULE MCBlockAssembly --------------------------
(* A block of four units of gas and three transactions, filled from two senders *)
(* with two transactions each.                                                  *)
EXTENDS BlockAssembly

MCBody == {[gas |-> g, stage |-> "none", claim |-> "none"] : g \in {1, 2}}
          \cup {[gas |-> 1, stage |-> "short", claim |-> "none"],
                [gas |-> 1, stage |-> "shielded", claim |-> "nullifier"],
                [gas |-> 1, stage |-> "tvm", claim |-> "root"],
                [gas |-> 1, stage |-> "handler", claim |-> "evidence"]}
=============================================================================
