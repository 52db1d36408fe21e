----------------------------- MODULE Governance -----------------------------
(***************************************************************************)
(* Who may act: the Antartical stamp registry (core/antartical_stamp.go),    *)
(* the address votes that suspend an account (core/address_vote.go) and the  *)
(* gate in front of every transaction (ValidateAntarticalStampState),        *)
(* composed with the validator registry whose operations the gate guards.    *)
(*                                                                         *)
(* One action is one transaction of the block being processed.  Here Account *)
(* holds stamped and unstamped accounts.  Signatures, owner proofs and the   *)
(* beneficiary's authorization are sound: an owner digest is registered only *)
(* by someone who knows its preimage, who may be anybody.                    *)
(***************************************************************************)
EXTENDS ValidatorRegistry, MerkleTree

CONSTANTS
    Owner,                  \* stamp owner digests
    NoStamp,                \* the empty "stamp/address" slot
    Threshold,              \* AddressVoteThreshold
    VoteBurn,               \* AddressVoteBurnWei
    SponsorshipLifetime,    \* AntarticalStampSponsorshipLifetime, in blocks
    Amounts                 \* BOUND: amounts of public transfers

ASSUME ThresholdAssumption == Threshold \in Nat \ {0}
ASSUME VoteBurnAssumption == VoteBurn \in Nat \ {0}
ASSUME LifetimeAssumption == SponsorshipLifetime \in Nat \ {0}
ASSUME NoStampAssumption == NoStamp \notin Owner /\ Amounts \subseteq Nat

VARIABLES
    stampOf,        \* "stamp/address" and "stamp/address-owner"
    stampTree,      \* the node tree over the owners, with "stamp/owner-index"
    votes,          \* active vote slots: <<target, owner>>
    voteCount,      \* count slot of every target
    suspended       \* targets whose suspended slot is set

stampVars == <<stampOf, stampTree>>
voteVars == <<votes, voteCount, suspended>>
gvars == <<rvars, stampVars, voteVars>>

IsStamped(a) == stampOf[a] # NoStamp

-----------------------------------------------------------------------------
(* The stamp registry *)

\* ProcessAntarticalStamp runs twice for one transaction (ProcessShieldedTransaction
\* and ApplyTransactionWithEVM); the second stage finds the transaction's own
\* hash in the address slot and returns, so both together are one registration.

\* Mutant: the owner index is not consulted.
OwnerUnchecked(o) == TRUE

OwnerFree(o) == o \notin DOMAIN stampTree.indexOf

\* Mutant: an existing stamp may be replaced.
StampReplaceable(beneficiary) == TRUE

StampFree(beneficiary) == ~IsStamped(beneficiary)

SelfFunded(from, beneficiary) == from = beneficiary

\* ValidateAntarticalStampBasics and the sponsor checks of ProcessAntarticalStamp.
Sponsored(from, beneficiary, validUntil) ==
    /\ from # beneficiary
    /\ IsStamped(from)
    /\ validUntil > height
    /\ validUntil - height <= SponsorshipLifetime

RegisterStamp(from, beneficiary, owner, validUntil) ==
    /\ SelfFunded(from, beneficiary) \/ Sponsored(from, beneficiary, validUntil)
    /\ StampFree(beneficiary)
    /\ OwnerFree(owner)
    /\ HasRoom(stampTree)
    /\ stampTree' = AppendLeaf(stampTree, owner, owner)
    /\ stampOf' = [stampOf EXCEPT ![beneficiary] = owner]
    /\ UNCHANGED <<rvars, voteVars>>

-----------------------------------------------------------------------------
(* Address votes.  A suspended account may still vote and unvote. *)

\* Mutant: the balance is not checked before the burn.
BurnsAnyway(a) == TRUE

\* ValidateAddressVoteBalance.
CanBurn(a) == balance[a] >= VoteBurn

\* ValidateAddressVoteState for a vote.  Mutants: the active slot is not
\* consulted; a vote may be cast on oneself.
VoteRepeatable(from, target) ==
    /\ target # from
    /\ IsStamped(from)
    /\ voteCount[target] < Threshold /\ target \notin suspended
VoteOnSelf(from, target) ==
    /\ IsStamped(from)
    /\ <<target, stampOf[from]>> \notin votes
    /\ voteCount[target] < Threshold /\ target \notin suspended

VoteAllowed(from, target) ==
    /\ target # from
    /\ IsStamped(from)
    /\ <<target, stampOf[from]>> \notin votes
    /\ voteCount[target] < Threshold /\ target \notin suspended

Vote(from, target) ==
    /\ VoteAllowed(from, target)
    /\ CanBurn(from)
    /\ balance' = Minus(balance, from, VoteBurn)
    /\ votes' = votes \cup {<<target, stampOf[from]>>}
    /\ voteCount' = [voteCount EXCEPT ![target] = @ + 1]
    /\ suspended' = IF voteCount[target] + 1 >= Threshold
                    THEN suspended \cup {target} ELSE suspended
    /\ UNCHANGED <<height, pool, registryVars, stampVars>>

\* ValidateAddressVoteState for an unvote.
UnvoteAllowed(from, target) ==
    /\ target # from
    /\ IsStamped(from)
    /\ <<target, stampOf[from]>> \in votes

\* Mutant: the suspension is lifted only when the last vote is gone.
LiftedAtZero(target, count) == IF count = 0 THEN suspended \ {target} ELSE suspended

\* The suspended slot after an unvote has lowered the count.
Lifted(target, count) == IF count < Threshold THEN suspended \ {target} ELSE suspended

Unvote(from, target) ==
    /\ UnvoteAllowed(from, target)
    /\ voteCount[target] > 0
    /\ CanBurn(from)
    /\ balance' = Minus(balance, from, VoteBurn)
    /\ votes' = votes \ {<<target, stampOf[from]>>}
    /\ voteCount' = [voteCount EXCEPT ![target] = @ - 1]
    /\ suspended' = Lifted(target, voteCount[target] - 1)
    /\ UNCHANGED <<height, pool, registryVars, stampVars>>

-----------------------------------------------------------------------------
(* The gate: ValidateAntarticalStampState for everything else *)

\* Mutant: the sender is asked for a stamp only.
ActsIfStamped(from) == IsStamped(from)

MayAct(from) == IsStamped(from) /\ from \notin suspended

\* A public transfer; the recipient needs a stamp and may be suspended.
Transfer(from, to, amount) ==
    /\ MayAct(from)
    /\ from # to
    /\ IsStamped(to)
    /\ amount > 0 /\ balance[from] >= amount
    /\ balance' = Plus(Minus(balance, from, amount), to, amount)
    /\ UNCHANGED <<height, pool, registryVars, stampVars, voteVars>>

\* The registry's transactions, each signed by somebody the gate lets pass.
GatedRegistryTx ==
    /\ \/ \E a \in Account : MayAct(a) /\ \E h \in Activations : Register(a, h)
       \/ \E a \in Account : MayAct(a) /\ Exit(a)
       \/ \E a \in Account : MayAct(a) /\ Withdraw(a)
       \/ \E a \in Account, e \in Evidence : MayAct(a) /\ Slash(e)
    /\ UNCHANGED <<stampVars, voteVars>>

-----------------------------------------------------------------------------
GovInit ==
    /\ Init
    /\ stampOf = [a \in Account |-> NoStamp]
    /\ stampTree = EmptyTree
    /\ votes = {}
    /\ voteCount = [a \in Account |-> 0]
    /\ suspended = {}

GovNext ==
    \/ \E from, beneficiary \in Account, owner \in Owner,
          validUntil \in 0..(MaxHeight + SponsorshipLifetime + 1) :
          RegisterStamp(from, beneficiary, owner, validUntil)
    \/ \E from, target \in Account : Vote(from, target)
    \/ \E from, target \in Account : Unvote(from, target)
    \/ \E from, to \in Account, amount \in Amounts : Transfer(from, to, amount)
    \/ GatedRegistryTx
    \/ SealBlock /\ UNCHANGED <<stampVars, voteVars>>

GovSpec == GovInit /\ [][GovNext]_gvars

-----------------------------------------------------------------------------
(* Properties *)

\* Type invariant.
GovTypeOK ==
    /\ RegistryTypeOK
    /\ stampOf \in [Account -> Owner \cup {NoStamp}]
    /\ DOMAIN stampTree.indexOf \subseteq Owner
    /\ votes \subseteq Account \X Owner
    /\ voteCount \in [Account -> 0..Threshold]
    /\ suspended \subseteq Account

\* The stored count of a target is the number of owners with an active vote on
\* it, and the target is suspended exactly while that number has reached the
\* threshold, in every order of votes and unvotes of different voters.
SuspensionFollowsVotes ==
    \A t \in Account :
        /\ voteCount[t] = Cardinality({o \in Owner : <<t, o>> \in votes})
        /\ t \in suspended <=> voteCount[t] >= Threshold

\* The bookkeeping of the registry: one address per owner and one leaf per
\* stamped address, and every vote is the vote of a stamped account on another.
OwnersBound ==
    /\ \A a, b \in Account : (IsStamped(a) /\ stampOf[a] = stampOf[b]) => a = b
    /\ \A a \in Account : IsStamped(a) => stampOf[a] \in DOMAIN stampTree.indexOf
    /\ stampTree.next = Cardinality({a \in Account : IsStamped(a)})
    /\ \A v \in votes : \E a \in Account : a # v[1] /\ stampOf[a] = v[2]

\* A stamp binds one address to one owner, both ways, and is never replaced:
\* votes are stored under the owner, so with a shared or replaced owner an account
\* could count twice, be counted against itself, or lose the right to take its
\* vote back.  Every stamped owner can prove its stamp against the current root.
StampsBindOwners ==
    /\ OwnersBound
    /\ \A a \in Account : IsStamped(a) =>
          RootOf(stampTree.indexOf[stampOf[a]] - 1, stampOf[a],
                 Path(stampTree, stampOf[a])) = stampTree.root

\* What one step may do to a suspended account.
Frozen(a) ==
    /\ records'[a] # records[a] => \E e \in evidence' \ evidence : e.validator = a
    /\ balance'[a] < balance[a] =>
          /\ balance'[a] = balance[a] - VoteBurn
          /\ \E t \in Account : (<<t, stampOf[a]>> \in votes) # (<<t, stampOf[a]>> \in votes')

\* What a suspension does: the account's bond and record stay as they are until
\* the suspension is lifted, except for slashing, and no value leaves its balance
\* but what it burns by voting itself.  (Value only: the gas a transaction costs
\* its payer, a suspended sponsor too, and the accounts of contracts are outside
\* the model.)
SuspensionFreezes == [][\A a \in suspended : Frozen(a)]_gvars
=============================================================================
