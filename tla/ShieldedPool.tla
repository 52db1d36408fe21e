---------------------------- MODULE ShieldedPool ----------------------------
(***************************************************************************)
(* Private notes in the reserved pool account, beside the validator bonds:  *)
(* the shared Shield3/4/5 note tree (native TKM and wrapped pTKM), legacy   *)
(* V2 notes that may only migrate out, the Shield6 ring outputs, and the    *)
(* confidential backing ledger.  ShieldedPool extends ValidatorRegistry     *)
(* because confidentialNativeReserve reads the registry's records.          *)
(*                                                                         *)
(* A note is a record; its commitment, its nullifier (or key image) and its *)
(* link tag are injective functions of it, so the record stands for all     *)
(* three.  A proof or ring signature that verifies means: the inputs are    *)
(* notes of a known tree state and inputs = outputs + public release.  The  *)
(* four outputs of a Shield3/4/5 transaction are filled up with worthless   *)
(* ones that only count in nextIndex; Shield6 outputs may be worth zero and *)
(* still take a place in the accumulator and in rings.                      *)
(*                                                                         *)
(* ProcessShieldedTransaction runs before the transaction's value moves and *)
(* any later failure rejects the block (the miner reverts to a snapshot),   *)
(* so note creation and funding are one step.  The per-block `seen' map     *)
(* repeats what the nullifier, link-tag and key-image slots written in the  *)
(* same block already refuse, and is not modelled.                          *)
(***************************************************************************)
EXTENDS ValidatorRegistry

CONSTANTS
    TreeNote,       \* notes of the Shield3/4/5 tree: [id, asset, value]
    RingNote,       \* Shield6 outputs: [id, value]
    LegacyNote,     \* V2 notes that exist when Antartical activates: [id, value]
    MaxNote,        \* largest value of a note
    MaxSend,        \* shielded3.MaxSendWei: largest public deposit or withdrawal
    MaxFee,         \* BOUND: largest note-funded gas payment
    InputSlots,     \* shielded3.InputSlots: inputs of a Shield3/4 spend
    InputSlots5,    \* shielded3.Shield5InputSlots: inputs of a Shield5 spend
    OutputSlots,    \* outputs of one Shield3/4/5 transaction
    TreeSize,       \* 2^MerkleDepth leaves
    LegacyRoom,     \* migrations whose four outputs still fit in the V2 tree
    RingSlots,      \* ShieldedV6MaxInputs and ShieldedV6MaxOutputs
    RingSize,       \* shielded6.RingSize members in every ring
    RingTreeSize,   \* 2^ShieldedV6OutputTreeDepth outputs
    LedgerHeight    \* first block of the Shield6 / confidential-ledger rules

Asset == {"TKM", "PTKM"}

ASSUME TreeNoteAssumption ==
    /\ IsFiniteSet(TreeNote)
    /\ \A n \in TreeNote : n.asset \in Asset /\ n.value \in 0..MaxNote
ASSUME OtherNotesAssumption ==
    /\ IsFiniteSet(RingNote) /\ \A n \in RingNote : n.value \in 0..MaxNote
    /\ IsFiniteSet(LegacyNote) /\ \A n \in LegacyNote : n.value \in 0..MaxNote
ASSUME AmountAssumption == MaxNote \in Nat /\ MaxSend \in Nat /\ MaxFee \in Nat
ASSUME TreeAssumption ==
    /\ OutputSlots = 4
    /\ TreeSize \in Nat /\ TreeSize % OutputSlots = 0
    /\ InputSlots \in Nat /\ InputSlots5 \in Nat /\ LegacyRoom \in Nat
    /\ RingSize \in Nat \ {0} /\ RingSlots \in Nat /\ RingTreeSize \in Nat
    /\ LedgerHeight \in Nat

VARIABLES
    commitments,        \* Shield3/4/5 commitment slots (notes in the tree)
    nextIndex,          \* next free leaf of that tree, padding included
    nullifiers,         \* spent Shield3/4/5 notes
    linkTags,           \* Shield4/5 link tags recorded
    supply,             \* pTKM supply counter
    legacySpent,        \* V2 nullifiers recorded
    ring,               \* Shield6 accumulator outputs
    keyImages,          \* Shield6 key images recorded
    ledger              \* confidential ledger of each asset

noteVars == <<commitments, nextIndex, nullifiers, linkTags, supply,
              legacySpent, ring, keyImages, ledger>>
vars == <<accountVars, registryVars, noteVars>>

-----------------------------------------------------------------------------
(* Values.  The value of a set of notes is the number of units it holds. *)

Units(S) == {u \in S \X (1..MaxNote) : u[2] <= u[1].value}
ValueOf(S) == Cardinality(Units(S))

OfAsset(S, asset) == {n \in S : n.asset = asset}
Unspent == commitments \ nullifiers
UnspentLegacy == LegacyNote \ legacySpent
UnspentRing == ring \ keyImages

\* What the holders of native notes may still take out of the pool.
Owed == ValueOf(OfAsset(Unspent, "TKM")) + ValueOf(UnspentLegacy) + ValueOf(UnspentRing)

-----------------------------------------------------------------------------
(* confidential_ledger.go.  The totals that are only written (opening,       *)
(* deposited, withdrawn, fees) are left out; backing is what later           *)
(* transactions are checked against.                                         *)

LedgerActive == height >= LedgerHeight

\* confidentialNativeReserve; a negative reserve is an error there.
Reserve == pool - Bonded - supply

AssetReserve(asset) == IF asset = "PTKM" THEN supply ELSE Reserve

\* Mutant: the ledger opens with the whole account.
BackingFromPool(asset) ==
    IF ledger[asset].initialized THEN ledger[asset].backing ELSE pool

\* The first use of an asset's ledger opens it with the whole reserve.
Backing(asset) ==
    IF ledger[asset].initialized THEN ledger[asset].backing ELSE AssetReserve(asset)

LedgerAllowed(asset, deposit, withdrawal, fee) ==
    /\ Reserve >= 0
    /\ ledger["TKM"].initialized => Reserve >= ledger["TKM"].backing
    /\ AssetReserve(asset) >= Backing(asset)
    /\ Backing(asset) + deposit - withdrawal - fee >= 0

\* Mutant: the prepaid fee is not taken from the backing.
LedgerStepFeeless(asset, deposit, withdrawal, fee) ==
    IF LedgerActive
    THEN /\ LedgerAllowed(asset, deposit, withdrawal, fee)
         /\ ledger' = [ledger EXCEPT ![asset] =
                [initialized |-> TRUE, backing |-> Backing(asset) + deposit - withdrawal]]
    ELSE UNCHANGED ledger

\* ledgerTransition before the mutations and commitLedger after them.
LedgerStep(asset, deposit, withdrawal, fee) ==
    IF LedgerActive
    THEN /\ LedgerAllowed(asset, deposit, withdrawal, fee)
         /\ ledger' = [ledger EXCEPT ![asset] =
                [initialized |-> TRUE,
                 backing |-> Backing(asset) + deposit - withdrawal - fee]]
    ELSE UNCHANGED ledger

-----------------------------------------------------------------------------
(* The Shield3/4/5 tree: the checks of validateShieldedV3State and            *)
(* validateShieldedV4State, and the writes the three process functions share *)

\* Mutant: room for the first of the four outputs is enough.
TreeHasRoomForOne == nextIndex <= TreeSize
TreeHasRoom == nextIndex < TreeSize - 3

\* The outputs of one transaction: fresh commitments of one asset.
FreshOutputs(out, asset) ==
    /\ out \subseteq OfAsset(TreeNote, asset)
    /\ out \cap commitments = {}
    /\ Cardinality(out) <= OutputSlots

\* shieldedV3SpendablePoolReserve keeps the wrapped backing from native
\* releases; it does not look at the bonds.
SpendableReserve(asset) ==
    IF asset = "PTKM" THEN pool ELSE IF pool <= supply THEN 0 ELSE pool - supply

ReserveAllows(asset, withdrawal, sponsor) ==
    /\ asset = "PTKM" => pool >= supply /\ supply >= withdrawal
    /\ SpendableReserve(asset) >= withdrawal + sponsor

\* The pTKM supply counter.  Mutant: burning is lost.
Mint(asset, v) == supply' = IF asset = "PTKM" THEN supply + v ELSE supply
BurnNothing(asset, v) == supply' = supply
Burn(asset, v) == supply' = IF asset = "PTKM" THEN supply - v ELSE supply

AppendOutputs(out) ==
    /\ commitments' = commitments \cup out
    /\ nextIndex' = nextIndex + OutputSlots

Deposit(a, asset, out, v) ==
    /\ v \in 1..MaxSend
    /\ balance[a] >= v
    /\ FreshOutputs(out, asset)
    /\ ValueOf(out) = v
    /\ ReserveAllows(asset, 0, 0)
    /\ TreeHasRoom
    /\ LedgerStep(asset, v, 0, 0)
    /\ AppendOutputs(out)
    /\ Mint(asset, v)
    /\ pool' = pool + v
    /\ balance' = Minus(balance, a, v)
    /\ UNCHANGED <<height, registryVars, nullifiers, linkTags, legacySpent,
                   ring, keyImages>>

\* Mutant: the nullifier slots are not read.
SpentInputs(in, asset, slots) ==
    /\ in # {} /\ Cardinality(in) <= slots
    /\ in \subseteq OfAsset(commitments, asset)

\* The nullifiers of a spend: distinct, unspent, at most `slots' of them, of
\* notes of the asset under an anchor the chain knows.
SpendableInputs(in, asset, slots) ==
    /\ in # {} /\ Cardinality(in) <= slots
    /\ in \subseteq OfAsset(commitments, asset)
    /\ in \cap nullifiers = {}

\* Note-funded gas: native notes only.  Before the ledger it is paid to the
\* signer; under the ledger public mode forbids it and prepaid mode burns it.
Spend(sender, to, asset, in, out, withdrawal, sponsor) ==
    /\ withdrawal <= MaxSend
    /\ asset = "PTKM" => sponsor = 0
    /\ FreshOutputs(out, asset)
    /\ ValueOf(in) = ValueOf(out) + withdrawal + sponsor
    /\ ReserveAllows(asset, withdrawal, sponsor)
    /\ TreeHasRoom
    /\ LedgerStep(asset, 0, withdrawal, sponsor)
    /\ AppendOutputs(out)
    /\ nullifiers' = nullifiers \cup in
    /\ Burn(asset, withdrawal)
    /\ pool' = pool - withdrawal - sponsor
    /\ balance' = LET paid == Plus(balance, to, withdrawal)
                  IN  IF LedgerActive THEN paid ELSE Plus(paid, sender, sponsor)
    /\ UNCHANGED <<height, registryVars, legacySpent, ring, keyImages>>

SpendV3(sender, to, asset, in, out, withdrawal, sponsor) ==
    /\ SpendableInputs(in, asset, InputSlots)
    /\ Spend(sender, to, asset, in, out, withdrawal, sponsor)
    /\ UNCHANGED linkTags

\* Shield4 and Shield5 also refuse and record the link tag of the first input.
LinkFirst(in, first) ==
    /\ first \in in
    /\ first \notin linkTags
    /\ linkTags' = linkTags \cup {first}

SpendV4(sender, to, asset, in, first, out, withdrawal, sponsor) ==
    /\ SpendableInputs(in, asset, InputSlots)
    /\ LinkFirst(in, first)
    /\ Spend(sender, to, asset, in, out, withdrawal, sponsor)

SpendV5(sender, to, asset, in, first, out, withdrawal, sponsor) ==
    /\ SpendableInputs(in, asset, InputSlots5)
    /\ LinkFirst(in, first)
    /\ Spend(sender, to, asset, in, out, withdrawal, sponsor)

-----------------------------------------------------------------------------
(* processShieldedTransaction under Antartical: a V2 note leaves in full to   *)
(* its signer, and four zero-value outputs are appended to the V2 tree.      *)

MigrateV2(a, n) ==
    /\ n \in UnspentLegacy /\ n.value > 0
    /\ Cardinality(legacySpent) < LegacyRoom
    /\ LedgerStep("TKM", 0, n.value, 0)
    /\ pool >= n.value
    /\ legacySpent' = legacySpent \cup {n}
    /\ pool' = pool - n.value
    /\ balance' = Plus(balance, a, n.value)
    /\ UNCHANGED <<height, registryVars, commitments, nextIndex, nullifiers,
                   linkTags, supply, ring, keyImages>>

-----------------------------------------------------------------------------
(* processShieldedV6.  The ledger moves only at a public boundary.            *)

FreshRingOutputs(out) ==
    /\ out \subseteq RingNote
    /\ out \cap ring = {}
    /\ Cardinality(out) <= RingSlots
    /\ Cardinality(ring) + Cardinality(out) <= RingTreeSize

DepositV6(a, out, v) ==
    /\ LedgerActive
    /\ v > 0 /\ balance[a] >= v
    /\ FreshRingOutputs(out)
    /\ ValueOf(out) = v
    /\ LedgerStep("TKM", v, 0, 0)
    /\ ring' = ring \cup out
    /\ pool' = pool + v
    /\ balance' = Minus(balance, a, v)
    /\ UNCHANGED <<height, registryVars, commitments, nextIndex, nullifiers,
                   linkTags, supply, legacySpent, keyImages>>

\* Mutant: the key-image slots are not read.
SpentRingInputs(in) ==
    /\ in # {} /\ Cardinality(in) <= RingSlots
    /\ in \subseteq ring
    /\ Cardinality(ring) >= RingSize

\* A ring has RingSize distinct outputs that were there before the transaction.
RingInputs(in) ==
    /\ in # {} /\ Cardinality(in) <= RingSlots
    /\ in \subseteq ring /\ in \cap keyImages = {}
    /\ Cardinality(ring) >= RingSize

SpendV6(to, in, out, withdrawal) ==
    /\ LedgerActive
    /\ RingInputs(in)
    /\ withdrawal = 0 => out # {}
    /\ FreshRingOutputs(out)
    /\ ValueOf(in) = ValueOf(out) + withdrawal
    /\ IF withdrawal > 0 THEN LedgerStep("TKM", 0, withdrawal, 0) ELSE UNCHANGED ledger
    /\ ring' = ring \cup out
    /\ keyImages' = keyImages \cup in
    /\ pool' = pool - withdrawal
    /\ balance' = Plus(balance, to, withdrawal)
    /\ UNCHANGED <<height, registryVars, commitments, nextIndex, nullifiers,
                   linkTags, supply, legacySpent>>

-----------------------------------------------------------------------------
\* The fee of a transaction in a block whose coinbase is the pool address.
CoinbaseCredit(a, v) ==
    /\ v \in 1..MaxFee
    /\ balance[a] >= v
    /\ pool' = pool + v
    /\ balance' = Minus(balance, a, v)
    /\ UNCHANGED <<height, registryVars, noteVars>>

PoolInit ==
    /\ height = 1
    /\ pool = Surplus + ValueOf(LegacyNote)
    /\ balance = [a \in Account |-> Funds]
    /\ RegistryInit
    /\ commitments = {} /\ nextIndex = 0 /\ nullifiers = {} /\ linkTags = {}
    /\ supply = 0
    /\ legacySpent = {}
    /\ ring = {} /\ keyImages = {}
    /\ ledger = [asset \in Asset |-> [initialized |-> FALSE, backing |-> 0]]

\* The public amounts of a transaction are bounded by the pool and MaxSend.
TreeTx ==
    \E asset \in Asset : \E out \in SUBSET OfAsset(TreeNote, asset) :
        \/ \E a \in Account, v \in 1..MaxSend : Deposit(a, asset, out, v)
        \/ \E in \in SUBSET OfAsset(commitments, asset), sender, to \in Account,
              withdrawal \in 0..MaxSend, sponsor \in 0..MaxFee :
             \/ SpendV3(sender, to, asset, in, out, withdrawal, sponsor)
             \/ \E first \in in :
                  SpendV4(sender, to, asset, in, first, out, withdrawal, sponsor)
             \/ \E first \in in :
                  SpendV5(sender, to, asset, in, first, out, withdrawal, sponsor)

RingTx ==
    \E a \in Account, out \in SUBSET RingNote :
        \/ \E v \in 1..ValueOf(RingNote) : DepositV6(a, out, v)
        \/ \E in \in SUBSET ring, withdrawal \in 0..ValueOf(RingNote) :
              SpendV6(a, in, out, withdrawal)

PoolNext ==
    \/ RegistryTx /\ UNCHANGED noteVars
    \/ SealBlock /\ UNCHANGED noteVars
    \/ TreeTx
    \/ \E a \in Account, n \in LegacyNote : MigrateV2(a, n)
    \/ RingTx
    \/ \E a \in Account, v \in 1..MaxFee : CoinbaseCredit(a, v)

PoolSpec == PoolInit /\ [][PoolNext]_vars

-----------------------------------------------------------------------------
(* The promise: one segregated escrow per class of claims. *)

Classes == {"bonds", "wrapped", "notes"}

Claims == [c \in Classes |-> CASE c = "bonds" -> Bonded
                               [] c = "wrapped" -> supply
                               [] c = "notes" -> Owed]

Escrow == INSTANCE SegregatedEscrow WITH
            Class <- Classes, held <- pool, escrow <- Claims, acct <- balance

-----------------------------------------------------------------------------
(* Properties *)

\* Type invariant of the pool state.
PoolTypeOK ==
    /\ RegistryTypeOK
    /\ commitments \in SUBSET TreeNote
    /\ nextIndex \in 0..TreeSize
    /\ nullifiers \in SUBSET commitments
    /\ linkTags \in SUBSET nullifiers
    /\ supply \in Nat
    /\ legacySpent \in SUBSET LegacyNote
    /\ ring \in SUBSET RingNote
    /\ keyImages \in SUBSET ring
    /\ ledger \in [Asset -> [initialized : BOOLEAN, backing : Nat]]

\* The pool account covers every claim on it at once: all bonds, all wrapped
\* supply, and every unspent native note of every version.  No one of these is
\* kept apart in the state trie and no handler checks their sum.
Solvent == pool >= Bonded + supply + Owed

\* The pTKM supply counter, which mint and burn of three envelope versions
\* update, is the value of the unspent wrapped notes.
WrappedExact == supply = ValueOf(OfAsset(Unspent, "PTKM"))

\* Once opened, the native ledger's backing lies between what it must back and
\* what the account has left for it, and the wrapped ledger follows the supply.
\* Every path that moves the reserve has to move the ledger with it: one that
\* does not makes the backing check refuse all shielded transactions for good.
LedgerCovers ==
    /\ ledger["TKM"].initialized => Owed <= ledger["TKM"].backing
                                    /\ ledger["TKM"].backing <= Reserve
    /\ ledger["PTKM"].initialized => ledger["PTKM"].backing = supply

\* Nobody is locked out by what others did: the owner of any unspent note of
\* any version passes every reserve, link-tag and ledger check for any amount
\* up to its value (and MaxSend), and every matured bond can be paid.
HonestExit ==
    /\ \A n \in Unspent :
         /\ n \notin linkTags
         /\ \A w \in 1..MaxSend : w <= n.value =>
              /\ ReserveAllows(n.asset, w, 0)
              /\ LedgerActive => LedgerAllowed(n.asset, 0, w, 0)
    /\ \A n \in UnspentLegacy :
         pool >= n.value /\ (LedgerActive => LedgerAllowed("TKM", 0, n.value, 0))
    /\ \A n \in UnspentRing : LedgerActive => LedgerAllowed("TKM", 0, n.value, 0)
    /\ \A a \in Account : WithdrawalMature(a) => BondAvailable(a)

\* The shared account implements segregated escrows: every transaction of the
\* registry and of every shielded version takes from the escrow of its own class
\* exactly what it pays out or burns, although all of them draw on one balance
\* and the reserve checks of the versions see different parts of it.
ImplementsSegregatedEscrow == Escrow!Spec
=============================================================================
