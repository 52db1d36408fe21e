-------------------------- MODULE SegregatedEscrow --------------------------
(***************************************************************************)
(* What the reserved pool account promises to the holders of its three      *)
(* classes of claims (validator bonds, wrapped TKM, native private notes):  *)
(* each class has an escrow of its own.  Value enters one escrow from a     *)
(* public account, and leaves one escrow to public accounts or is burned;   *)
(* no operation moves value between escrows or pays one class from another. *)
(***************************************************************************)
EXTENDS Integers

CONSTANTS Account, Class

VARIABLES held,     \* value in the account, surplus included
          escrow,   \* the part of it that backs each class
          acct      \* public balances

avars == <<held, escrow, acct>>

\* `burned' leaves the account without entering the escrow.
Fund(c, a, v, burned) ==
    /\ v + burned <= acct[a]
    /\ escrow' = [escrow EXCEPT ![c] = @ + v]
    /\ held' = held + v
    /\ acct' = [acct EXCEPT ![a] = @ - v - burned]

Pay(c, to, v, burned) ==
    /\ v + burned <= escrow[c]
    /\ escrow' = [escrow EXCEPT ![c] = @ - v - burned]
    /\ held' = held - v - burned
    /\ acct' = [acct EXCEPT ![to] = @ + v]

\* One withdrawal and one payment to the signer out of the same escrow.
PayTwo(c, to, v, signer, u) ==
    /\ v + u <= escrow[c]
    /\ escrow' = [escrow EXCEPT ![c] = @ - v - u]
    /\ held' = held - v - u
    /\ acct' = [[acct EXCEPT ![to] = @ + v] EXCEPT ![signer] = @ + u]

\* A gift to the account that no class may claim.
Donate(a, v) ==
    /\ v <= acct[a]
    /\ held' = held + v
    /\ acct' = [acct EXCEPT ![a] = @ - v]
    /\ UNCHANGED escrow

Init ==
    /\ held \in Nat
    /\ escrow \in [Class -> Nat]
    /\ acct \in [Account -> Nat]

Next ==
    \/ \E c \in Class, a \in Account :
         \E v \in 0..acct[a] : \E burned \in 0..(acct[a] - v) : Fund(c, a, v, burned)
    \/ \E c \in Class, to \in Account :
         \E v \in 0..escrow[c] : \E burned \in 0..(escrow[c] - v) : Pay(c, to, v, burned)
    \/ \E c \in Class, to, signer \in Account :
         \E v \in 0..escrow[c] : \E u \in 0..(escrow[c] - v) : PayTwo(c, to, v, signer, u)
    \/ \E a \in Account : \E v \in 0..acct[a] : Donate(a, v)

Spec == Init /\ [][Next]_avars
=============================================================================
