---------------------- MODULE ValidatorRegistryProofs ----------------------
(***************************************************************************)
(* Proofs about ValidatorRegistry, for every set of accounts, every bond,   *)
(* fee and period, and every horizon.                                       *)
(*                                                                         *)
(* RegistryInv is the inductive invariant.  It says nothing of the pool     *)
(* beyond its type, so the same lemmas serve the registry alone and the     *)
(* registry inside ShieldedPool: there is one lemma per operation that      *)
(* gives both RegistryInv' and what the operation does to Bonded.           *)
(***************************************************************************)
EXTENDS ValidatorRegistry, FiniteSetTheorems, TLAPS

RecordSoundAt(a) ==
    /\ ~records[a].found => records[a].stake = 0
    /\ records[a].stake > 0 =>
          records[a].registeredAt + ActivationDelay <= records[a].activation
    /\ records[a].exit <= height
    /\ lastActive[a] < height
    /\ records[a].stake > 0 /\ records[a].exit # 0 => lastActive[a] < records[a].exit

RecordSound == \A a \in Account : RecordSoundAt(a)

RegistryInv == RegistryTypeOK /\ IndexSound /\ RecordSound

\* The assumptions on the constants, for citing together.
LEMMA Parameters ==
    /\ Bond \in Nat /\ Bond > 0
    /\ RegistrationFee \in Nat
    /\ ActivationDelay \in Nat /\ ActivationDelay > 0
    /\ UnbondingPeriod \in Nat /\ UnbondingPeriod > 0
    /\ MaxSetSize \in Nat
    /\ MaxHeight \in Nat
    /\ Funds \in Nat /\ Surplus \in Nat
    /\ IsFiniteSet(Account)
    /\ \A e \in Evidence : e.validator \in Account
BY BondAssumption, FeeAssumption, DelayAssumption, UnbondingAssumption, MaxSetAssumption,
   MaxHeightAssumption, FundsAssumption, AccountAssumption, EvidenceAssumption

-----------------------------------------------------------------------------
(* What the registry claims from the pool *)

Staked == {a \in Account : records[a].stake > 0}

\* The index misses no bond: a record with stake is a found record.
LEMMA BondedByRecord ==
    RegistryInv => /\ BondedAccounts = Staked
                   /\ IsFiniteSet(BondedAccounts)
<1> SUFFICES ASSUME RegistryInv
             PROVE  /\ BondedAccounts = Staked
                    /\ IsFiniteSet(BondedAccounts)
    OBVIOUS
<1>1. BondedAccounts = Staked
  <2>1. Indexed \subseteq Account
    BY DEF Indexed, RegistryInv, RegistryTypeOK
  <2>2. \A a \in Account : records[a].stake > 0 => a \in Indexed
    BY Parameters DEF RegistryInv, RegistryTypeOK, IndexSound, RecordSound, RecordSoundAt, Record
  <2> QED BY <2>1, <2>2 DEF BondedAccounts, Staked
<1>2. IsFiniteSet(BondedAccounts)
  BY <1>1, FS_Subset, Parameters DEF Staked
<1> QED BY <1>1, <1>2

\* The claim is a natural number.
LEMMA BondedNat == RegistryInv => Bonded \in Nat
<1> SUFFICES ASSUME RegistryInv PROVE Bonded \in Nat
    OBVIOUS
<1>1. Cardinality(BondedAccounts) \in Nat
  BY BondedByRecord, FS_CardinalityType
<1> QED BY <1>1, Parameters DEF Bonded

\* A new bond adds Bond to the claim.
LEMMA BondedGrows ==
    ASSUME RegistryInv, RegistryInv', NEW a \in Account, records[a].stake = 0,
           \A b \in Account : records'[b].stake > 0 <=> (records[b].stake > 0 \/ b = a)
    PROVE  Bonded' = Bonded + Bond
<1>1. BondedAccounts' = BondedAccounts \cup {a}
  <2>1. (BondedAccounts = Staked)'
    BY BondedByRecord, PTL
  <2> QED BY <2>1, BondedByRecord DEF Staked
<1>2. a \notin BondedAccounts
  BY BondedByRecord DEF Staked
<1>3. Cardinality(BondedAccounts') = Cardinality(BondedAccounts) + 1
  BY <1>1, <1>2, BondedByRecord, FS_AddElement
<1>4. Cardinality(BondedAccounts) \in Nat
  BY BondedByRecord, FS_CardinalityType
<1> QED BY <1>3, <1>4, Parameters DEF Bonded

\* A bond that is paid out or burned takes Bond from the claim.
LEMMA BondedShrinks ==
    ASSUME RegistryInv, RegistryInv', NEW a \in Account, records[a].stake > 0,
           \A b \in Account : records'[b].stake > 0 <=> (records[b].stake > 0 /\ b # a)
    PROVE  Bonded' = Bonded - Bond
<1>1. BondedAccounts' = BondedAccounts \ {a}
  <2>1. (BondedAccounts = Staked)'
    BY BondedByRecord, PTL
  <2> QED BY <2>1, BondedByRecord DEF Staked
<1>2. a \in BondedAccounts
  BY BondedByRecord DEF Staked
<1>3. Cardinality(BondedAccounts') = Cardinality(BondedAccounts) - 1
  BY <1>1, <1>2, BondedByRecord, FS_RemoveElement
<1>4. Cardinality(BondedAccounts) \in Nat
  BY BondedByRecord, FS_CardinalityType
<1> QED BY <1>3, <1>4, Parameters DEF Bonded

\* Steps that leave every stake alone leave the claim alone.
LEMMA BondedSame ==
    ASSUME RegistryInv, RegistryInv',
           \A b \in Account : records'[b].stake > 0 <=> records[b].stake > 0
    PROVE  Bonded' = Bonded
<1>1. (BondedAccounts = Staked)'
  BY BondedByRecord, PTL
<1> QED BY <1>1, BondedByRecord DEF Staked, Bonded

-----------------------------------------------------------------------------
Elems(s) == {s[i] : i \in 1..Len(s)}
Distinct(s) == \A i, j \in 1..Len(s) : s[i] = s[j] => i = j

\* AppendOnce adds an element to a list without repetition exactly once.
LEMMA AppendOnceFacts ==
    ASSUME NEW S, NEW s \in Seq(S), NEW a \in S
    PROVE  /\ AppendOnce(s, a) \in Seq(S)
           /\ Len(AppendOnce(s, a)) \in {Len(s), Len(s) + 1}
           /\ Elems(AppendOnce(s, a)) = Elems(s) \cup {a}
           /\ Distinct(s) => Distinct(AppendOnce(s, a))
<1>1. CASE a \in Elems(s)
  <2>1. AppendOnce(s, a) = s
    BY <1>1 DEF AppendOnce, Elems
  <2> QED BY <1>1, <2>1
<1>2. CASE a \notin Elems(s)
  <2> DEFINE t == Append(s, a)
  <2>1. AppendOnce(s, a) = t
    BY <1>2 DEF AppendOnce, Elems
  <2>2. /\ t \in Seq(S) /\ Len(t) = Len(s) + 1 /\ Len(s) \in Nat
        /\ t[Len(s) + 1] = a
        /\ \A i \in 1..Len(s) : t[i] = s[i]
    OBVIOUS
  <2>3. 1..Len(t) = (1..Len(s)) \cup {Len(s) + 1}
    BY <2>2
  <2> HIDE DEF t
  <2>4. Elems(t) = Elems(s) \cup {a}
    BY <2>2, <2>3 DEF Elems
  <2>5. Distinct(s) => Distinct(t)
    BY <1>2, <2>2, <2>3 DEF Elems, Distinct
  <2> QED BY <2>1, <2>2, <2>4, <2>5
<1> QED BY <1>1, <1>2

-----------------------------------------------------------------------------
(* The operations *)

\* Init establishes the invariant.
LEMMA RegistryInitInv ==
    ASSUME RegistryInit, AccountTypeOK, height = 1
    PROVE  RegistryInv /\ Bonded = 0
<1> USE Parameters
<1>1. RegistryTypeOK
  BY DEF RegistryTypeOK, RegistryInit, NoRecord, Record
<1>2. IndexSound
  BY DEF IndexSound, RegistryInit, NoRecord, Indexed
<1>3. RecordSound
  BY DEF RecordSound, RecordSoundAt, RegistryInit, NoRecord
<1>4. Bonded = 0
  <2>1. BondedAccounts = {}
    BY DEF BondedAccounts, Indexed, RegistryInit
  <2> QED BY <2>1, FS_EmptySet DEF Bonded
<1> QED BY <1>1, <1>2, <1>3, <1>4 DEF RegistryInv

\* Registration: the record is fresh, the index gains the address at most once
\* and the pool gains the bond it claims.
LEMMA RegisterStep ==
    ASSUME RegistryInv, NEW a \in Account, NEW activation \in Activations,
           Register(a, activation)
    PROVE  RegistryInv' /\ Bonded' = Bonded + Bond
<1> USE Parameters
<1> USE DEF RegistryInv, Register, RegistrationAllowed
<1>0. activation \in Nat
  BY DEF Activations, RegistryTypeOK, AccountTypeOK
<1>1. records' \in [Account -> Record] /\ FreshRecord(activation) \in Record
  BY <1>0 DEF RegistryTypeOK, AccountTypeOK, FreshRecord, Record
<1>2. /\ index' \in Seq(Account)
      /\ Len(index') \in {Len(index), Len(index) + 1}
      /\ Indexed' = Indexed \cup {a}
      /\ Distinct(index')
  <2>1. index \in Seq(Account) /\ index' = AppendOnce(index, a) /\ Distinct(index)
    BY DEF RegistryTypeOK, IndexSound, Distinct
  <2>2. Indexed = Elems(index) /\ Indexed' = Elems(index')
    BY DEF Indexed, Elems
  <2> QED BY <2>1, <2>2, AppendOnceFacts
<1>3. RegistryTypeOK'
  BY <1>1, <1>2 DEF RegistryTypeOK, AccountTypeOK, Minus
<1>5. IndexSound'
  <2>2. \A b \in Account : records'[b].found <=> b \in Indexed'
    BY <1>2 DEF IndexSound, FreshRecord, RegistryTypeOK
  <2>3. Len(index') <= MaxSetSize
    BY <1>2 DEF IndexSound, RegistryTypeOK
  <2> QED BY <1>2, <2>2, <2>3 DEF IndexSound, Distinct
<1>6. RecordSound'
  BY <1>0 DEF RecordSound, RecordSoundAt, FreshRecord, RegistryTypeOK, AccountTypeOK, Record
<1>7. \A b \in Account : records'[b].stake > 0 <=> (records[b].stake > 0 \/ b = a)
  BY DEF FreshRecord, RegistryTypeOK
<1>8. RegistryInv'
  BY <1>3, <1>5, <1>6
<1> QED BY <1>7, <1>8, BondedGrows

\* What exit, withdrawal and slashing share: they rewrite one record, found
\* before and after, and set its exit to the present height.
LEMMA RecordUpdate ==
    ASSUME RegistryInv, NEW v \in Account, NEW rec \in Record,
           records' = [records EXCEPT ![v] = rec],
           rec.found = records[v].found,
           rec.exit = height,
           rec.stake \in {0, records[v].stake},
           rec.registeredAt = records[v].registeredAt,
           rec.activation = records[v].activation,
           AccountTypeOK', UNCHANGED <<height, index, lastActive>>,
           evidence' \in SUBSET Evidence,
           slashedAt' \in [Account -> 0..(MaxHeight + 1)]
    PROVE  /\ RegistryInv'
           /\ records'[v].stake = rec.stake
           /\ \A b \in Account : b # v => records'[b] = records[b]
<1>1. /\ records \in [Account -> Record]
      /\ height \in Nat
      /\ lastActive \in [Account -> 0..MaxHeight]
  BY Parameters DEF RegistryInv, RegistryTypeOK, AccountTypeOK
<1>2. /\ records'[v] = rec
      /\ \A b \in Account : b # v => records'[b] = records[b]
  BY <1>1
<1>3. RegistryTypeOK'
  BY <1>1 DEF RegistryInv, RegistryTypeOK
<1>4. IndexSound'
  <2>1. \A b \in Account : records'[b].found <=> records[b].found
    BY <1>2
  <2> QED BY <2>1 DEF RegistryInv, IndexSound, Indexed
<1>5. RecordSound'
  <2> SUFFICES ASSUME NEW b \in Account
               PROVE  RecordSoundAt(b)'
    BY DEF RecordSound
  <2>1. RecordSoundAt(b)
    BY DEF RegistryInv, RecordSound
  <2>2. CASE b = v
    <3>1. rec.stake > 0 => rec.stake = records[v].stake
      BY Parameters, <1>1 DEF Record
    <3> QED BY <1>1, <1>2, <2>1, <2>2, <3>1, Parameters DEF RecordSoundAt, Record
  <2>3. CASE b # v
    BY <1>2, <2>1, <2>3 DEF RecordSoundAt
  <2> QED BY <2>2, <2>3
<1> QED BY <1>2, <1>3, <1>4, <1>5 DEF RegistryInv

\* Exit: the stake stays, and the exit height is above the last committee.
LEMMA ExitStep ==
    ASSUME RegistryInv, NEW a \in Account, Exit(a)
    PROVE  RegistryInv' /\ Bonded' = Bonded
<1> DEFINE r == records[a]
           rec == [r EXCEPT !.exit = height, !.jailedUntil = height + UnbondingPeriod]
<1>1. /\ records \in [Account -> Record] /\ height \in Nat /\ r \in Record
      /\ AccountTypeOK /\ evidence \in SUBSET Evidence
      /\ slashedAt \in [Account -> 0..(MaxHeight + 1)]
  BY Parameters DEF RegistryInv, RegistryTypeOK, AccountTypeOK
<1>2. records' = [records EXCEPT ![a] = rec]
  BY <1>1 DEF Exit, Record
<1>3. /\ rec \in Record /\ rec.exit = height
      /\ rec.found = r.found /\ rec.stake = r.stake
      /\ rec.registeredAt = r.registeredAt /\ rec.activation = r.activation
  <2>1. height + UnbondingPeriod \in Nat
    BY <1>1, Parameters
  <2> QED BY <1>1, <2>1 DEF Record
<1> HIDE DEF rec
<1>4. AccountTypeOK' /\ UNCHANGED <<height, index, lastActive, evidence, slashedAt>>
  BY <1>1 DEF Exit, AccountTypeOK
<1>5. /\ RegistryInv'
      /\ records'[a].stake = rec.stake
      /\ \A b \in Account : b # a => records'[b] = records[b]
  BY <1>1, <1>2, <1>3, <1>4, RecordUpdate
<1>6. \A b \in Account : records'[b].stake > 0 <=> records[b].stake > 0
  BY <1>3, <1>5
<1> QED BY <1>5, <1>6, BondedSame

\* Withdrawal: the claim falls by the stake that is paid.
LEMMA WithdrawStep ==
    ASSUME RegistryInv, NEW a \in Account, Withdraw(a)
    PROVE  RegistryInv' /\ Bonded' = Bonded - Bond /\ records[a].stake = Bond
<1> DEFINE r == records[a]
           rec == [r EXCEPT !.stake = 0, !.exit = height, !.jailedUntil = height]
<1>1. /\ records \in [Account -> Record] /\ height \in Nat /\ r \in Record
      /\ AccountTypeOK /\ evidence \in SUBSET Evidence
      /\ slashedAt \in [Account -> 0..(MaxHeight + 1)]
  BY Parameters DEF RegistryInv, RegistryTypeOK, AccountTypeOK
<1>2. records' = [records EXCEPT ![a] = rec]
  BY <1>1 DEF Withdraw, Record
<1>3. /\ rec \in Record /\ rec.exit = height
      /\ rec.found = r.found /\ rec.stake = 0
      /\ rec.registeredAt = r.registeredAt /\ rec.activation = r.activation
      /\ r.stake = Bond
  BY <1>1, Parameters DEF Record, Withdraw, WithdrawalMature
<1> HIDE DEF rec
<1>4. AccountTypeOK' /\ UNCHANGED <<height, index, lastActive, evidence, slashedAt>>
  BY <1>1, <1>3, Parameters DEF Withdraw, BondAvailable, AccountTypeOK, Plus
<1>5. /\ RegistryInv'
      /\ records'[a].stake = rec.stake
      /\ \A b \in Account : b # a => records'[b] = records[b]
  BY <1>1, <1>2, <1>3, <1>4, RecordUpdate
<1>6. \A b \in Account : records'[b].stake > 0 <=> (records[b].stake > 0 /\ b # a)
  BY <1>3, <1>5, Parameters
<1> QED BY <1>3, <1>5, <1>6, BondedShrinks, Parameters

\* Slashing: the claim falls by whatever stake was left, possibly none.
LEMMA SlashStep ==
    ASSUME RegistryInv, NEW e \in Evidence, Slash(e)
    PROVE  /\ RegistryInv' /\ Bonded' = Bonded - records[e.validator].stake
           /\ records[e.validator].stake \in {0, Bond}
<1> DEFINE v == e.validator
           r == records[v]
           rec == [r EXCEPT !.stake = 0, !.exit = height,
                            !.jailedUntil = height + UnbondingPeriod,
                            !.slashCount = @ + 1]
<1>1. /\ v \in Account
      /\ records \in [Account -> Record] /\ height \in Nat /\ r \in Record
      /\ AccountTypeOK /\ evidence \in SUBSET Evidence
      /\ height \in 0..(MaxHeight + 1)
      /\ slashedAt \in [Account -> 0..(MaxHeight + 1)]
  BY Parameters DEF RegistryInv, RegistryTypeOK, AccountTypeOK
<1>2. records' = [records EXCEPT ![v] = rec]
  BY <1>1 DEF Slash, Record
<1>3. /\ rec \in Record /\ rec.exit = height
      /\ rec.found = r.found /\ rec.stake = 0
      /\ rec.registeredAt = r.registeredAt /\ rec.activation = r.activation
      /\ r.stake \in {0, Bond}
  <2>1. height + UnbondingPeriod \in Nat /\ r.slashCount + 1 \in Nat
    BY <1>1, Parameters DEF Record
  <2> QED BY <1>1, <2>1 DEF Record
<1> HIDE DEF rec
<1>4. AccountTypeOK' /\ UNCHANGED <<height, index, lastActive>>
  BY <1>1, <1>3, Parameters DEF Slash, SlashAllowed, BondAvailable, AccountTypeOK
<1>5. /\ evidence' \in SUBSET Evidence
      /\ slashedAt' \in [Account -> 0..(MaxHeight + 1)]
  BY <1>1 DEF Slash
<1>6. /\ RegistryInv'
      /\ records'[v].stake = rec.stake
      /\ \A b \in Account : b # v => records'[b] = records[b]
  BY <1>1, <1>2, <1>3, <1>4, <1>5, RecordUpdate
<1>7. CASE r.stake = 0
  <2>1. \A b \in Account : records'[b].stake > 0 <=> records[b].stake > 0
    BY <1>3, <1>6, <1>7
  <2>2. Bonded' = Bonded
    BY <1>6, <2>1, BondedSame
  <2> QED BY <1>3, <1>6, <1>7, <2>2, BondedNat
<1>8. CASE r.stake = Bond
  <2>1. \A b \in Account : records'[b].stake > 0 <=> (records[b].stake > 0 /\ b # v)
    BY <1>3, <1>6
  <2>2. Bonded' = Bonded - Bond
    BY <1>1, <1>6, <1>8, <2>1, Parameters, BondedShrinks
  <2> QED BY <1>3, <1>6, <1>8, <2>2
<1> QED BY <1>3, <1>7, <1>8

\* Sealing a block: a member of its committee has not exited, so its last
\* committee stays below any later exit.
LEMMA SealStep ==
    ASSUME RegistryInv, SealBlock
    PROVE  RegistryInv' /\ Bonded' = Bonded
<1> USE Parameters
<1> USE DEF RegistryInv, SealBlock
<1>1. RegistryTypeOK'
  BY DEF RegistryTypeOK, AccountTypeOK
<1>2. IndexSound'
  BY DEF IndexSound, Indexed
<1>3. RecordSound'
  BY DEF RecordSound, RecordSoundAt, ActiveSet, ActiveAt, RegistryTypeOK, AccountTypeOK, Record
<1> QED BY <1>1, <1>2, <1>3, BondedSame

\* A registry transaction moves the pool and the claims on it together.
LEMMA RegistryTxStep ==
    ASSUME RegistryInv, RegistryTx
    PROVE  /\ RegistryInv'
           /\ \E d \in Int : pool' = pool + d /\ Bonded' = Bonded + d
           /\ UNCHANGED height
<1> USE Parameters
<1> DEFINE Together == \E d \in Int : pool' = pool + d /\ Bonded' = Bonded + d
<1>0. pool \in Nat /\ Bonded \in Nat
  BY BondedNat DEF RegistryInv, RegistryTypeOK, AccountTypeOK
<1>1. ASSUME NEW a \in Account, NEW activation \in Activations, Register(a, activation)
      PROVE  RegistryInv' /\ Together /\ UNCHANGED height
  <2>1. RegistryInv' /\ Bonded' = Bonded + Bond
    BY <1>1, RegisterStep
  <2>2. pool' = pool + Bond /\ UNCHANGED height
    BY <1>1 DEF Register
  <2> QED BY <1>0, <2>1, <2>2
<1>2. ASSUME NEW a \in Account, Exit(a)
      PROVE  RegistryInv' /\ Together /\ UNCHANGED height
  <2>1. RegistryInv' /\ Bonded' = Bonded + 0
    BY <1>0, <1>2, ExitStep
  <2>2. pool' = pool + 0 /\ UNCHANGED height
    BY <1>0, <1>2 DEF Exit
  <2> QED BY <2>1, <2>2
<1>3. ASSUME NEW a \in Account, Withdraw(a)
      PROVE  RegistryInv' /\ Together /\ UNCHANGED height
  <2>1. RegistryInv' /\ Bonded' = Bonded - Bond /\ records[a].stake = Bond
    BY <1>3, WithdrawStep
  <2>2. pool' = pool - records[a].stake /\ UNCHANGED height
    BY <1>3 DEF Withdraw
  <2>3. -Bond \in Int /\ pool' = pool + (-Bond) /\ Bonded' = Bonded + (-Bond)
    BY <1>0, <2>1, <2>2
  <2> QED BY <2>1, <2>2, <2>3
<1>4. ASSUME NEW e \in Evidence, Slash(e)
      PROVE  RegistryInv' /\ Together /\ UNCHANGED height
  <2> DEFINE k == records[e.validator].stake
  <2>1. RegistryInv' /\ Bonded' = Bonded - k /\ k \in {0, Bond}
    BY <1>4, SlashStep
  <2>2. pool' = pool - k /\ UNCHANGED height
    BY <1>4 DEF Slash
  <2> HIDE DEF k
  <2>3. -k \in Int /\ pool' = pool + (-k) /\ Bonded' = Bonded + (-k)
    BY <1>0, <2>1, <2>2
  <2> QED BY <2>1, <2>2, <2>3
<1> QED BY <1>1, <1>2, <1>3, <1>4 DEF RegistryTx

\* Stuttering keeps the invariant.
LEMMA RegistryStutter ==
    ASSUME RegistryInv, UNCHANGED rvars
    PROVE  RegistryInv' /\ Bonded' = Bonded
<1> USE DEF rvars, accountVars, registryVars
<1>1. RegistryTypeOK'
  BY DEF RegistryInv, RegistryTypeOK, AccountTypeOK
<1>2. IndexSound'
  BY DEF RegistryInv, IndexSound, Indexed
<1>3. RecordSound'
  BY DEF RegistryInv, RecordSound, RecordSoundAt
<1> QED BY <1>1, <1>2, <1>3, BondedSame DEF RegistryInv

-----------------------------------------------------------------------------
(* The theorems *)

\* The inductive invariant of the registry alone.
THEOREM RegistryInvariant == Spec => [](RegistryInv /\ BondsAccounted)
<1>1. Init => RegistryInv /\ BondsAccounted
  <2> SUFFICES ASSUME Init PROVE RegistryInv /\ BondsAccounted
    OBVIOUS
  <2>1. AccountTypeOK
    BY Parameters DEF Init, AccountTypeOK
  <2> QED BY <2>1, RegistryInitInv, Parameters DEF Init, BondsAccounted
<1>2. RegistryInv /\ BondsAccounted /\ [Next]_rvars => (RegistryInv /\ BondsAccounted)'
  <2> SUFFICES ASSUME RegistryInv, BondsAccounted, [Next]_rvars
               PROVE  RegistryInv' /\ BondsAccounted'
    OBVIOUS
  <2>0. pool \in Nat /\ Bonded \in Nat /\ Surplus \in Nat
    BY BondedNat, Parameters DEF RegistryInv, RegistryTypeOK, AccountTypeOK
  <2>1. CASE RegistryTx
    <3>1. RegistryInv'
      BY <2>1, RegistryTxStep
    <3>2. PICK d \in Int : pool' = pool + d /\ Bonded' = Bonded + d
      BY <2>1, RegistryTxStep
    <3> QED BY <2>0, <3>1, <3>2 DEF BondsAccounted
  <2>2. CASE SealBlock
    BY <2>0, <2>2, SealStep DEF BondsAccounted, SealBlock
  <2>3. CASE UNCHANGED rvars
    BY <2>0, <2>3, RegistryStutter DEF BondsAccounted, rvars, accountVars
  <2> QED BY <2>1, <2>2, <2>3 DEF Next
<1> QED BY <1>1, <1>2, PTL DEF Spec

\* Type correctness of the registry state.
THEOREM RegistryTypeCorrect == Spec => []RegistryTypeOK
<1>1. RegistryInv => RegistryTypeOK
  BY DEF RegistryInv
<1> QED BY <1>1, RegistryInvariant, PTL

\* The append-only index lists every registered address exactly once and stays
\* within ValidatorMaxSetSize, through any number of re-registrations.
THEOREM IndexCorrect == Spec => []IndexSound
<1>1. RegistryInv => IndexSound
  BY DEF RegistryInv
<1> QED BY <1>1, RegistryInvariant, PTL

\* The registry takes from the pool exactly the bonds it put there.
THEOREM BondsCorrect == Spec => []BondsAccounted
BY RegistryInvariant, PTL

\* No committee member is active before ValidatorActivationDelay has passed
\* since its own registration.
THEOREM QueueCorrect == Spec => []QueuedActivation
<1>1. RegistryInv => QueuedActivation
  <2> SUFFICES ASSUME RegistryInv, NEW a \in ActiveSet(height)
               PROVE  records[a].registeredAt + ActivationDelay <= height
    BY DEF QueuedActivation
  <2>1. a \in Account
    BY DEF ActiveSet, Indexed, RegistryInv, RegistryTypeOK
  <2>2. records[a] \in Record /\ height \in Nat
    BY <2>1, Parameters DEF RegistryInv, RegistryTypeOK, AccountTypeOK
  <2>3. RecordSoundAt(a)
    BY <2>1 DEF RegistryInv, RecordSound
  <2> QED BY <2>1, <2>2, <2>3, Parameters DEF ActiveSet, ActiveAt, RecordSoundAt, Record
<1> QED BY <1>1, RegistryInvariant, PTL

\* The transactions of a block never add a member to its committee: whoever is
\* active in the post-state was active, with the same record, when it began.
THEOREM CommitteeCorrect == Spec => CommitteeOnlyShrinks
<1>1. RegistryInv /\ RegistryInv' /\ [Next]_rvars =>
        [height' = height => ActiveSet(height)' \subseteq ActiveSet(height)]_rvars
  <2> SUFFICES ASSUME RegistryInv, RegistryInv', Next, height' = height,
                      NEW a \in ActiveSet(height)'
               PROVE  a \in ActiveSet(height)
    BY DEF Next
  <2> USE Parameters
  <2>1. a \in Indexed' /\ ActiveAt(records'[a], height')
    BY DEF ActiveSet
  <2>2. a \in Account
    BY <2>1 DEF Indexed, RegistryInv, RegistryTypeOK
  <2>3. height \in Nat /\ records \in [Account -> Record] /\ records' \in [Account -> Record]
    BY DEF RegistryInv, RegistryTypeOK, AccountTypeOK
  <2>4. RecordSoundAt(a)' /\ RecordSoundAt(a)
    BY <2>2 DEF RegistryInv, RecordSound
  <2>5. records'[a] = records[a] => a \in ActiveSet(height)
    <3>1. (records[a].found <=> a \in Indexed)'
      BY <2>2 DEF RegistryInv, IndexSound
    <3>2. records[a].found <=> a \in Indexed
      BY <2>2 DEF RegistryInv, IndexSound
    <3> QED BY <2>1, <3>1, <3>2 DEF ActiveSet
  <2>6. ASSUME NEW b \in Account, NEW activation \in Activations, Register(b, activation)
        PROVE  a \in ActiveSet(height)
    <3>1. CASE a = b
      <4>1. activation >= height + ActivationDelay /\ records'[a].activation = activation
        BY <2>2, <2>3, <2>6, <3>1 DEF Register, RegistrationAllowed, FreshRecord
      <4> QED BY <2>1, <2>3, <4>1 DEF ActiveAt, Activations
    <3>2. CASE a # b
      BY <2>2, <2>3, <2>5, <2>6, <3>2 DEF Register
    <3> QED BY <3>1, <3>2
  <2>7. ASSUME NEW b \in Account, Exit(b)
        PROVE  a \in ActiveSet(height)
    <3>1. CASE a = b
      <4>1. records'[a].exit = height /\ height # 0
        BY <2>2, <2>3, <2>7, <3>1 DEF Exit, Record, RegistryInv, RegistryTypeOK, AccountTypeOK
      <4> QED BY <2>1, <2>3, <4>1 DEF ActiveAt
    <3>2. CASE a # b
      BY <2>2, <2>3, <2>5, <2>7, <3>2 DEF Exit
    <3> QED BY <3>1, <3>2
  <2>8. ASSUME NEW b \in Account, Withdraw(b)
        PROVE  a \in ActiveSet(height)
    <3>1. CASE a = b
      <4>1. records'[a].stake = 0
        BY <2>2, <2>3, <2>8, <3>1 DEF Withdraw, Record
      <4> QED BY <2>1, <4>1 DEF ActiveAt
    <3>2. CASE a # b
      BY <2>2, <2>3, <2>5, <2>8, <3>2 DEF Withdraw
    <3> QED BY <3>1, <3>2
  <2>9. ASSUME NEW e \in Evidence, Slash(e)
        PROVE  a \in ActiveSet(height)
    <3>1. CASE a = e.validator
      <4>1. records'[a].stake = 0
        BY <2>2, <2>3, <2>9, <3>1 DEF Slash, Record
      <4> QED BY <2>1, <4>1 DEF ActiveAt
    <3>2. CASE a # e.validator
      BY <2>2, <2>3, <2>5, <2>9, <3>2 DEF Slash
    <3> QED BY <3>1, <3>2
  <2>10. ~SealBlock
    BY <2>3 DEF SealBlock
  <2> QED BY <2>6, <2>7, <2>8, <2>9, <2>10 DEF Next, RegistryTx
<1> QED BY <1>1, RegistryInvariant, PTL DEF Spec, CommitteeOnlyShrinks

\* A bond is returned only to an account that has been in no committee for
\* more than the unbonding period.
THEOREM WithdrawalCorrect == Spec => AccountableWithdrawal
<1> DEFINE Returned(a) == records[a].stake > 0 /\ records'[a].stake = 0 /\ evidence' = evidence
<1>1. RegistryInv /\ [Next]_rvars =>
        [\A a \in Account :
           (records[a].stake > 0 /\ records'[a].stake = 0 /\ evidence' = evidence)
              => height > lastActive[a] + UnbondingPeriod]_rvars
  <2> SUFFICES ASSUME RegistryInv, Next, NEW a \in Account, Returned(a)
               PROVE  height > lastActive[a] + UnbondingPeriod
    BY DEF Next
  <2> USE Parameters
  <2>1. /\ height \in Nat /\ records \in [Account -> Record]
        /\ lastActive \in [Account -> 0..MaxHeight]
    BY DEF RegistryInv, RegistryTypeOK, AccountTypeOK
  <2>2. RecordSoundAt(a)
    BY DEF RegistryInv, RecordSound
  <2>3. ASSUME NEW b \in Account, NEW activation \in Activations, Register(b, activation)
        PROVE  FALSE
    <3>1. records'[a] = records[a] \/ records'[a].stake = Bond
      BY <2>1, <2>3 DEF Register, FreshRecord
    <3> QED BY <3>1
  <2>4. ASSUME NEW b \in Account, Exit(b)
        PROVE  FALSE
    <3>1. records'[a].stake = records[a].stake
      BY <2>1, <2>4 DEF Exit, Record
    <3> QED BY <3>1
  <2>5. ASSUME NEW b \in Account, Withdraw(b)
        PROVE  height > lastActive[a] + UnbondingPeriod
    <3>1. a = b
      BY <2>1, <2>5 DEF Withdraw
    <3>2. records[a].exit # 0 /\ height >= records[a].exit + UnbondingPeriod
      BY <2>5, <3>1 DEF Withdraw, WithdrawalMature
    <3>3. lastActive[a] < records[a].exit
      BY <2>2, <3>2 DEF RecordSoundAt
    <3>4. records[a].exit \in Nat /\ lastActive[a] \in Nat
      BY <2>1 DEF Record
    <3> QED BY <2>1, <3>2, <3>3, <3>4
  <2>6. ASSUME NEW e \in Evidence, Slash(e)
        PROVE  FALSE
    BY <2>6 DEF Slash, SlashAllowed
  <2>7. ~SealBlock
    BY DEF SealBlock
  <2> QED BY <2>3, <2>4, <2>5, <2>6, <2>7 DEF Next, RegistryTx
<1> QED BY <1>1, RegistryInvariant, PTL DEF Spec, AccountableWithdrawal
=============================================================================
