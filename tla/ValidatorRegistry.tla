------------------------- MODULE ValidatorRegistry -------------------------
(***************************************************************************)
(* The Antartical validator registry (core/validator_registry.go): bonded   *)
(* records, the append-only index, exits, withdrawals of the bond and       *)
(* slashing.  One action is one transaction of the block being processed,   *)
(* with everything StateProcessor.Process does for it: the transfer of the  *)
(* transaction's value and then the registry handler.  A handler that       *)
(* returns an error makes the whole block invalid, so a refused transaction *)
(* has no step.                                                             *)
(*                                                                         *)
(* lastActive and slashedAt are history variables: they record what the     *)
(* chain did and no action reads them.                                      *)
(***************************************************************************)
EXTENDS PoolAccount, Sequences

CONSTANTS
    Bond,               \* ValidatorBondWei
    RegistrationFee,    \* ValidatorRegistrationFeeWei, burned
    ActivationDelay,    \* ValidatorActivationDelay
    UnbondingPeriod,    \* ValidatorUnbondingPeriod
    MaxSetSize,         \* ValidatorMaxSetSize
    Evidence            \* evidence payloads: [validator, digest]

ASSUME BondAssumption == Bond \in Nat \ {0}
ASSUME FeeAssumption == RegistrationFee \in Nat
ASSUME DelayAssumption == ActivationDelay \in Nat \ {0}
ASSUME UnbondingAssumption == UnbondingPeriod \in Nat \ {0}
ASSUME MaxSetAssumption == MaxSetSize \in Nat \ {0}
ASSUME EvidenceAssumption == \A e \in Evidence : e.validator \in Account

VARIABLES
    records,    \* record slots; stake 0 and found FALSE before registration
    index,      \* the append-only list of registered addresses
    evidence,   \* evidence payloads whose digest slot is set
    lastActive, \* history: last block whose committee held the account
    slashedAt   \* history: block of the account's last slashing, or 0

registryVars == <<records, index, evidence, lastActive, slashedAt>>

Record == [found : BOOLEAN, stake : {0, Bond}, activation : Nat, exit : Nat,
           jailedUntil : Nat, registeredAt : Nat, slashCount : Nat]

NoRecord == [found |-> FALSE, stake |-> 0, activation |-> 0, exit |-> 0,
             jailedUntil |-> 0, registeredAt |-> 0, slashCount |-> 0]

Indexed == {index[i] : i \in 1..Len(index)}

\* ValidatorRecord.activeAt: exit 0 is the "has not exited" sentinel.
ActiveAt(r, h) ==
    /\ r.stake > 0
    /\ r.activation <= h
    /\ r.exit = 0 \/ h < r.exit
    /\ h >= r.jailedUntil

\* ActiveValidatorRecords on the present state: the committee of block h.
ActiveSet(h) == {a \in Indexed : ActiveAt(records[a], h)}

\* The indexed records with a bond in the pool, and the bonds themselves as
\* confidentialNativeReserve subtracts them: record by record, along the index.
BondedAccounts == {a \in Indexed : records[a].stake > 0}
Bonded == Bond * Cardinality(BondedAccounts)

-----------------------------------------------------------------------------
(* ProcessValidatorRegistration *)

\* Mutants: no balance check, a second bond for a bonded record, no queue.
RegistrationUnfunded(a, activation) ==
    /\ activation >= height + ActivationDelay
    /\ records[a].stake = 0
    /\ Len(index) < MaxSetSize
RegistrationTwice(a, activation) ==
    /\ activation >= height + ActivationDelay
    /\ Len(index) < MaxSetSize
    /\ balance[a] >= Bond + RegistrationFee
RegistrationUnqueued(a, activation) ==
    /\ activation >= height
    /\ records[a].stake = 0
    /\ Len(index) < MaxSetSize
    /\ balance[a] >= Bond + RegistrationFee

RegistrationAllowed(a, activation) ==
    /\ activation >= height + ActivationDelay
    /\ records[a].stake = 0
    /\ Len(index) < MaxSetSize
    /\ balance[a] >= Bond + RegistrationFee

FreshRecord(activation) ==
    [found |-> TRUE, stake |-> Bond, activation |-> activation, exit |-> 0,
     jailedUntil |-> 0, registeredAt |-> height, slashCount |-> 0]

\* Mutant: a returning address is appended again.
AppendAlways(s, a) == Append(s, a)

\* A returning address keeps its place in the index.
AppendOnce(s, a) == IF a \in {s[i] : i \in 1..Len(s)} THEN s ELSE Append(s, a)

Register(a, activation) ==
    /\ RegistrationAllowed(a, activation)
    /\ balance' = Minus(balance, a, Bond + RegistrationFee)
    /\ pool' = pool + Bond
    /\ records' = [records EXCEPT ![a] = FreshRecord(activation)]
    /\ index' = AppendOnce(index, a)
    /\ UNCHANGED <<height, evidence, lastActive, slashedAt>>

-----------------------------------------------------------------------------
(* ProcessValidatorAction: exit and withdrawal *)

\* Mutant: an exit may be repeated.
ExitAgain(a) == records[a].stake > 0

ExitAllowed(a) ==
    /\ records[a].stake > 0
    /\ records[a].exit = 0

Exit(a) ==
    /\ ExitAllowed(a)
    /\ records' = [records EXCEPT ![a].exit = height,
                                  ![a].jailedUntil = height + UnbondingPeriod]
    /\ UNCHANGED <<height, pool, balance, index, evidence, lastActive, slashedAt>>

\* Mutant: one block early.
WithdrawalEarly(a) ==
    /\ records[a].stake > 0
    /\ records[a].exit # 0
    /\ height >= records[a].exit + UnbondingPeriod - 1

WithdrawalMature(a) ==
    /\ records[a].stake > 0
    /\ records[a].exit # 0
    /\ height >= records[a].exit + UnbondingPeriod

BondAvailable(a) == pool >= records[a].stake

Withdraw(a) ==
    /\ WithdrawalMature(a)
    /\ BondAvailable(a)
    /\ pool' = pool - records[a].stake
    /\ balance' = Plus(balance, a, records[a].stake)
    /\ records' = [records EXCEPT ![a].stake = 0,
                                  ![a].exit = height,
                                  ![a].jailedUntil = height]
    /\ UNCHANGED <<height, index, evidence, lastActive, slashedAt>>

-----------------------------------------------------------------------------
(* ProcessValidatorSlash.  Verified evidence is two signatures of one        *)
(* validator over two hashes at one height; the signatures are the            *)
(* environment's, and swapping the two halves is a second payload with its   *)
(* own digest.  A record with no bond left is slashed too.                   *)

SlashAllowed(e) ==
    /\ records[e.validator].found
    /\ e \notin evidence
    /\ BondAvailable(e.validator)

Slash(e) ==
    /\ SlashAllowed(e)
    /\ pool' = pool - records[e.validator].stake
    /\ records' = [records EXCEPT ![e.validator].stake = 0,
                                  ![e.validator].exit = height,
                                  ![e.validator].jailedUntil = height + UnbondingPeriod,
                                  ![e.validator].slashCount = @ + 1]
    /\ evidence' = evidence \cup {e}
    /\ slashedAt' = [slashedAt EXCEPT ![e.validator] = height]
    /\ UNCHANGED <<height, balance, index, lastActive>>

-----------------------------------------------------------------------------
(* The block is complete: its committee is the active set of its own post-   *)
(* state (block_validator.go reads it after Process), and the next begins.   *)

SealBlock ==
    /\ height <= MaxHeight
    /\ height' = height + 1
    /\ lastActive' = [a \in Account |->
                        IF a \in ActiveSet(height) THEN height ELSE lastActive[a]]
    /\ UNCHANGED <<pool, balance, records, index, evidence, slashedAt>>

RegistryInit ==
    /\ records = [a \in Account |-> NoRecord]
    /\ index = << >>
    /\ evidence = {}
    /\ lastActive = [a \in Account |-> 0]
    /\ slashedAt = [a \in Account |-> 0]

\* BOUND: activation heights beyond MaxHeight + 1 are never reached and behave
\* alike, so a registration asks for one of those up to it.
Activations == 1..(MaxHeight + ActivationDelay + 1)

RegistryTx ==
    \/ \E a \in Account, activation \in Activations : Register(a, activation)
    \/ \E a \in Account : Exit(a)
    \/ \E a \in Account : Withdraw(a)
    \/ \E e \in Evidence : Slash(e)

-----------------------------------------------------------------------------
(* The registry alone: the rest of the pool stays at Surplus. *)

rvars == <<accountVars, registryVars>>

Init ==
    /\ height = 1
    /\ pool = Surplus
    /\ balance = [a \in Account |-> Funds]
    /\ RegistryInit

Next == RegistryTx \/ SealBlock

Spec == Init /\ [][Next]_rvars

\* Miners keep extending the chain; nobody is obliged to send a transaction.
FairSpec == Spec /\ WF_rvars(SealBlock)

-----------------------------------------------------------------------------
(* Properties *)

\* Type invariant of the registry state.
RegistryTypeOK ==
    /\ AccountTypeOK
    /\ records \in [Account -> Record]
    /\ index \in Seq(Account)
    /\ evidence \in SUBSET Evidence
    /\ lastActive \in [Account -> 0..MaxHeight]
    /\ slashedAt \in [Account -> 0..(MaxHeight + 1)]

\* The index lists every account that ever registered, and none of them twice,
\* across exits, withdrawals, slashings and repeated registrations.  ValidatorRecords
\* walks this index, so an address missing from it would have a bond the ledger
\* cannot see, and one listed twice would be counted twice in the committee.
IndexSound ==
    /\ \A i, j \in 1..Len(index) : index[i] = index[j] => i = j
    /\ \A a \in Account : records[a].found <=> a \in Indexed
    /\ Len(index) <= MaxSetSize

\* The registry takes from the pool account exactly what it put there: whatever
\* the order of registrations, exits, withdrawals and slashings, the value of
\* everyone else in the pool (here Surplus) is untouched and every bond of a
\* record with stake is present in full.
BondsAccounted == pool = Surplus + Bonded

\* A committee member registered at least ActivationDelay blocks ago: nothing
\* that an earlier life of the same address left in its record (an activation
\* height, an exit, a jail that has run out) makes it active sooner.
QueuedActivation ==
    \A a \in ActiveSet(height) : records[a].registeredAt + ActivationDelay <= height

\* Transactions of a block can take members out of that block's committee and
\* never put one in: the committee a certificate is checked against (the block's
\* own post-state) is contained in the one known when the block began.
CommitteeOnlyShrinks ==
    [][height' = height => ActiveSet(height)' \subseteq ActiveSet(height)]_rvars

\* A bond returns to its owner only when the owner has been in no committee
\* for more than UnbondingPeriod blocks, so evidence about its last committee
\* could reach the chain while the bond was still there to burn.
AccountableWithdrawal ==
    [][\A a \in Account :
         (records[a].stake > 0 /\ records'[a].stake = 0 /\ evidence' = evidence)
            => height > lastActive[a] + UnbondingPeriod]_rvars

\* An exit that the horizon leaves room for always matures: nothing a validator
\* or anyone else can do keeps postponing the withdrawal (it is slashed, already
\* withdrawn, or the withdrawal check of ValidateValidatorActionState passes).
ExitMatures ==
    \A a \in Account :
        (records[a].exit # 0 /\ records[a].stake > 0
            /\ records[a].exit + UnbondingPeriod <= MaxHeight + 1)
        ~> (records[a].stake = 0 \/ (WithdrawalMature(a) /\ BondAvailable(a)))

\* What docs/ANTARTICAL_VALIDATORS.md and the comment in ProcessValidatorSlash
\* say of slashing: the slashed validator is out of selection for the whole
\* unbonding period.
SlashedStaysOut ==
    \A a \in ActiveSet(height) :
        slashedAt[a] = 0 \/ height >= slashedAt[a] + UnbondingPeriod
=============================================================================
