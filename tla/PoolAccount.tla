---------------------------- MODULE PoolAccount ----------------------------
(***************************************************************************)
(* The reserved pool account (params.ShieldedPoolAddress) and the public    *)
(* accounts that pay into it and are paid from it.  Validator bonds, the    *)
(* backing of wrapped TKM (pTKM) and the value of every private note lie in *)
(* this ONE account balance; nothing in the state trie keeps them apart.    *)
(*                                                                         *)
(* Amounts are natural numbers of an abstract unit.  Gas is left out: it    *)
(* moves value between public accounts and the coinbase.  The two gas       *)
(* payments that do touch the pool (note-funded sponsorship and a coinbase  *)
(* that IS the pool address) are modelled in ShieldedPool.                  *)
(*                                                                         *)
(* Accounts are the stamped, unsuspended accounts: every operation modelled *)
(* on top of this module is refused by ValidateAntarticalStampState for any *)
(* other sender, and a withdrawal to any other recipient is refused too.    *)
(***************************************************************************)
EXTENDS Integers, FiniteSets

CONSTANTS
    Account,        \* stamped public accounts
    Funds,          \* balance of every account when the model starts
    Surplus,        \* value in the pool that nobody claims at that moment
    MaxHeight       \* BOUND: no block is built above this height

ASSUME AccountAssumption == IsFiniteSet(Account)
ASSUME FundsAssumption == Funds \in Nat /\ Surplus \in Nat
ASSUME MaxHeightAssumption == MaxHeight \in Nat

VARIABLES
    height,         \* number of the block being processed
    pool,           \* balance of the reserved pool account
    balance         \* balance of every public account

accountVars == <<height, pool, balance>>

AccountTypeOK ==
    /\ height \in 1..(MaxHeight + 1)
    /\ pool \in Nat
    /\ balance \in [Account -> Nat]

\* StateDB.SubBalance / AddBalance on one public account.
Minus(b, a, v) == [b EXCEPT ![a] = @ - v]
Plus(b, a, v) == [b EXCEPT ![a] = @ + v]
=============================================================================
