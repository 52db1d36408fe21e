------------------------- MODULE ShieldedPoolProofs -------------------------
(***************************************************************************)
(* Proofs about ShieldedPool, for every set of accounts and notes, every    *)
(* amount limit, tree size and horizon.                                     *)
(*                                                                         *)
(* The argument has two halves that meet in NoteAccounting.  The first      *)
(* (values of sets of notes) turns what a transaction does to commitments   *)
(* and nullifiers into numbers: by how much each class of claims moves.     *)
(* The second (accounting) shows that the invariant survives any step that  *)
(* moves the pool, one class of claims and its ledger by the same amounts.  *)
(***************************************************************************)
EXTENDS ShieldedPool, ValidatorRegistryProofs

\* The ledger is only written once its rules are active.
LedgerTimely == \A asset \in Asset : ledger[asset].initialized => LedgerActive

PoolInv ==
    /\ PoolTypeOK
    /\ RegistryInv
    /\ Solvent
    /\ WrappedExact
    /\ LedgerCovers
    /\ LedgerTimely

\* The assumptions on the constants of ShieldedPool.
LEMMA NoteParameters ==
    /\ IsFiniteSet(TreeNote) /\ IsFiniteSet(RingNote) /\ IsFiniteSet(LegacyNote)
    /\ \A n \in TreeNote : n.asset \in Asset /\ n.value \in 0..MaxNote
    /\ \A n \in RingNote : n.value \in 0..MaxNote
    /\ \A n \in LegacyNote : n.value \in 0..MaxNote
    /\ MaxNote \in Nat /\ MaxSend \in Nat /\ MaxFee \in Nat
    /\ OutputSlots = 4 /\ TreeSize \in Nat /\ LedgerHeight \in Nat
BY TreeNoteAssumption, OtherNotesAssumption, AmountAssumption, TreeAssumption

-----------------------------------------------------------------------------
(* Values of sets of notes *)

\* A finite set of notes has finitely many units.
LEMMA UnitsFinite ==
    ASSUME NEW S, IsFiniteSet(S)
    PROVE  IsFiniteSet(Units(S)) /\ ValueOf(S) \in Nat
<1>1. IsFiniteSet(1..MaxNote)
  BY FS_Interval, NoteParameters
<1>2. IsFiniteSet(S \X (1..MaxNote))
  BY <1>1, FS_Product
<1>3. Units(S) \in SUBSET (S \X (1..MaxNote))
  BY DEF Units
<1>4. IsFiniteSet(Units(S))
  BY <1>2, <1>3, FS_Subset
<1> QED BY <1>4, FS_CardinalityType DEF ValueOf

\* No notes, no value.
LEMMA ValueEmpty == ValueOf({}) = 0
<1>1. Units({}) = {}
  BY DEF Units
<1> QED BY <1>1, FS_EmptySet DEF ValueOf

\* The values of disjoint sets add up.
LEMMA ValueUnion ==
    ASSUME NEW S, NEW T, IsFiniteSet(S), IsFiniteSet(T), S \cap T = {}
    PROVE  /\ IsFiniteSet(S \cup T)
           /\ ValueOf(S \cup T) = ValueOf(S) + ValueOf(T)
<1>1. Units(S \cup T) = Units(S) \cup Units(T)
  BY DEF Units
<1>2. Units(S) \cap Units(T) = {}
  BY DEF Units
<1>3. Cardinality(Units(S) \cap Units(T)) = 0
  BY <1>2, FS_EmptySet
<1>4. /\ IsFiniteSet(Units(S)) /\ IsFiniteSet(Units(T))
      /\ ValueOf(S) \in Nat /\ ValueOf(T) \in Nat
  BY UnitsFinite
<1>5. Cardinality(Units(S) \cup Units(T))
        = Cardinality(Units(S)) + Cardinality(Units(T)) - Cardinality(Units(S) \cap Units(T))
  BY <1>4, FS_Union
<1>6. ValueOf(S \cup T) = ValueOf(S) + ValueOf(T)
  <2>1. ValueOf(S \cup T) = ValueOf(S) + ValueOf(T) - 0
    BY <1>1, <1>3, <1>5, Zenon DEF ValueOf
  <2> QED BY <2>1, <1>4
<1> QED BY <1>6, FS_Union

\* Taking a part away takes its value away.
LEMMA ValueDifference ==
    ASSUME NEW S, NEW T, IsFiniteSet(S), T \subseteq S
    PROVE  /\ IsFiniteSet(S \ T) /\ IsFiniteSet(T)
           /\ ValueOf(S \ T) = ValueOf(S) - ValueOf(T)
           /\ ValueOf(T) <= ValueOf(S)
<1>1. IsFiniteSet(S \ T) /\ IsFiniteSet(T)
  BY FS_Subset
<1>2. ValueOf((S \ T) \cup T) = ValueOf(S \ T) + ValueOf(T)
  <2>1. (S \ T) \cap T = {}
    OBVIOUS
  <2> QED BY <1>1, <2>1, ValueUnion
<1>3. (S \ T) \cup T = S
  OBVIOUS
<1>4. ValueOf(S) \in Nat /\ ValueOf(T) \in Nat /\ ValueOf(S \ T) \in Nat
  BY <1>1, UnitsFinite
<1>5. ValueOf(S) = ValueOf(S \ T) + ValueOf(T)
  BY <1>2, <1>3, Zenon
<1>6. \A x, y, z \in Nat : x = y + z => y = x - z /\ z <= x
  OBVIOUS
<1>7. ValueOf(S \ T) = ValueOf(S) - ValueOf(T) /\ ValueOf(T) <= ValueOf(S)
  BY <1>4, <1>5, <1>6
<1> QED BY <1>1, <1>7

\* One note is worth its value.
LEMMA ValueSingle ==
    ASSUME NEW n, n.value \in 0..MaxNote
    PROVE  ValueOf({n}) = n.value
<1> DEFINE f == [i \in 1..n.value |-> <<n, i>>]
<1>0. MaxNote \in Nat /\ n.value \in Nat
  BY NoteParameters
<1>1. f \in Bijection(1..n.value, Units({n}))
  <2>1. f \in [1..n.value -> Units({n})]
    BY <1>0 DEF Units
  <2>2. \A u \in Units({n}) : \E i \in 1..n.value : f[i] = u
    BY <1>0 DEF Units
  <2>3. \A i, j \in 1..n.value : f[i] = f[j] => i = j
    OBVIOUS
  <2>4. IsInjective(f)
    BY <2>3, Zenon DEF IsInjective
  <2> HIDE DEF f
  <2>5. f \in Injection(1..n.value, Units({n}))
    BY <2>1, <2>4 DEF Injection
  <2>6. f \in Surjection(1..n.value, Units({n}))
    BY <2>1, <2>2 DEF Surjection
  <2> QED BY <2>5, <2>6 DEF Bijection
<1>2. ExistsBijection(1..n.value, Units({n}))
  BY <1>1, Zenon DEF ExistsBijection
<1>3. IsFiniteSet(1..n.value) /\ Cardinality(1..n.value) = n.value
  BY <1>0, FS_Interval
<1> QED BY <1>2, <1>3, FS_Bijection DEF ValueOf

-----------------------------------------------------------------------------
(* The claims on the pool, as numbers *)

TreeValue(asset) == ValueOf(OfAsset(Unspent, asset))
LegacyValue == ValueOf(UnspentLegacy)
RingValue == ValueOf(UnspentRing)

\* Every class of claims is a finite set of notes.
LEMMA ClaimsFinite ==
    PoolTypeOK => /\ IsFiniteSet(OfAsset(Unspent, "TKM")) /\ IsFiniteSet(OfAsset(Unspent, "PTKM"))
                  /\ IsFiniteSet(UnspentLegacy) /\ IsFiniteSet(UnspentRing)
<1> SUFFICES ASSUME PoolTypeOK
             PROVE  /\ IsFiniteSet(OfAsset(Unspent, "TKM"))
                    /\ IsFiniteSet(OfAsset(Unspent, "PTKM"))
                    /\ IsFiniteSet(UnspentLegacy) /\ IsFiniteSet(UnspentRing)
    OBVIOUS
<1>1. /\ OfAsset(Unspent, "TKM") \in SUBSET TreeNote
      /\ OfAsset(Unspent, "PTKM") \in SUBSET TreeNote
      /\ UnspentLegacy \in SUBSET LegacyNote
      /\ UnspentRing \in SUBSET RingNote
  BY DEF PoolTypeOK, OfAsset, Unspent, UnspentLegacy, UnspentRing
<1> QED BY <1>1, NoteParameters, FS_Subset

LEMMA ClaimsNat ==
    PoolTypeOK => /\ TreeValue("TKM") \in Nat /\ TreeValue("PTKM") \in Nat
                  /\ LegacyValue \in Nat /\ RingValue \in Nat
                  /\ Owed = TreeValue("TKM") + LegacyValue + RingValue
                  /\ Owed \in Nat
<1> SUFFICES ASSUME PoolTypeOK
             PROVE  /\ TreeValue("TKM") \in Nat /\ TreeValue("PTKM") \in Nat
                    /\ LegacyValue \in Nat /\ RingValue \in Nat
                    /\ Owed = TreeValue("TKM") + LegacyValue + RingValue
                    /\ Owed \in Nat
    OBVIOUS
<1>1. /\ TreeValue("TKM") \in Nat /\ TreeValue("PTKM") \in Nat
      /\ LegacyValue \in Nat /\ RingValue \in Nat
  BY ClaimsFinite, UnitsFinite DEF TreeValue, LegacyValue, RingValue
<1>2. Owed = TreeValue("TKM") + LegacyValue + RingValue
  BY DEF Owed, TreeValue, LegacyValue, RingValue
<1>3. TreeValue("TKM") + LegacyValue + RingValue \in Nat
  BY <1>1
<1> QED BY <1>1, <1>2, <1>3

\* T is S with its part A replaced by the fresh notes B.
Exchanged(S, A, B, T) ==
    /\ IsFiniteSet(S) /\ IsFiniteSet(B)
    /\ A \subseteq S /\ S \cap B = {}
    /\ T = (S \ A) \cup B

\* Replacing a part of a set of notes by fresh notes.
LEMMA ValueExchange ==
    ASSUME NEW S, NEW A, NEW B, NEW T, Exchanged(S, A, B, T)
    PROVE  /\ ValueOf(T) = ValueOf(S) - ValueOf(A) + ValueOf(B)
           /\ ValueOf(A) \in Nat /\ ValueOf(B) \in Nat /\ ValueOf(S) \in Nat
           /\ ValueOf(A) <= ValueOf(S)
<1>1. /\ IsFiniteSet(S \ A) /\ IsFiniteSet(A)
      /\ ValueOf(S \ A) = ValueOf(S) - ValueOf(A)
      /\ ValueOf(A) <= ValueOf(S)
  BY ValueDifference DEF Exchanged
<1>2. (S \ A) \cap B = {} /\ T = (S \ A) \cup B /\ IsFiniteSet(S) /\ IsFiniteSet(B)
  BY DEF Exchanged
<1>3. ValueOf((S \ A) \cup B) = ValueOf(S \ A) + ValueOf(B)
  BY <1>1, <1>2, ValueUnion
<1>4. ValueOf(A) \in Nat /\ ValueOf(B) \in Nat /\ ValueOf(S) \in Nat
  BY <1>1, <1>2, UnitsFinite
<1> QED BY <1>1, <1>2, <1>3, <1>4

\* What a Shield3/4/5 transaction does to the claims: the inputs leave the
\* unspent notes of its asset, the outputs join them, the other asset is as before.
LEMMA TreeExchange ==
    ASSUME PoolTypeOK, NEW asset \in Asset, NEW in, NEW out,
           in \subseteq OfAsset(commitments, asset), in \cap nullifiers = {},
           FreshOutputs(out, asset),
           commitments' = commitments \cup out, nullifiers' = nullifiers \cup in
    PROVE  /\ commitments' \in SUBSET TreeNote /\ nullifiers' \in SUBSET commitments'
           /\ ValueOf(in) \in Nat /\ ValueOf(out) \in Nat
           /\ ValueOf(in) <= TreeValue(asset)
           /\ TreeValue(asset)' = TreeValue(asset) - ValueOf(in) + ValueOf(out)
           /\ \A b \in Asset : b # asset => TreeValue(b)' = TreeValue(b)
<1>0. /\ commitments \in SUBSET TreeNote /\ nullifiers \in SUBSET commitments
      /\ out \subseteq OfAsset(TreeNote, asset) /\ out \cap commitments = {}
  BY DEF PoolTypeOK, FreshOutputs
<1>1. commitments' \in SUBSET TreeNote /\ nullifiers' \in SUBSET commitments'
  BY <1>0 DEF OfAsset
<1>2. OfAsset(Unspent, asset)' = (OfAsset(Unspent, asset) \ in) \cup out
  BY <1>0 DEF OfAsset, Unspent
<1>3. in \subseteq OfAsset(Unspent, asset) /\ OfAsset(Unspent, asset) \cap out = {}
  BY <1>0 DEF OfAsset, Unspent
<1>4. IsFiniteSet(OfAsset(Unspent, asset))
  BY ClaimsFinite DEF Asset
<1>5. IsFiniteSet(out)
  BY <1>0, FS_Subset, NoteParameters DEF OfAsset
<1>6. ASSUME NEW b \in Asset, b # asset
      PROVE  OfAsset(Unspent, b)' = OfAsset(Unspent, b)
  BY <1>0, <1>6 DEF OfAsset, Unspent
<1>7. \A b \in Asset : b # asset => TreeValue(b)' = TreeValue(b)
  BY <1>6 DEF TreeValue
<1>8. Exchanged(OfAsset(Unspent, asset), in, out, OfAsset(Unspent, asset)')
  BY <1>2, <1>3, <1>4, <1>5, Zenon DEF Exchanged
<1>9. /\ ValueOf(OfAsset(Unspent, asset)')
            = ValueOf(OfAsset(Unspent, asset)) - ValueOf(in) + ValueOf(out)
      /\ ValueOf(in) \in Nat /\ ValueOf(out) \in Nat
      /\ ValueOf(in) <= ValueOf(OfAsset(Unspent, asset))
  BY <1>8, ValueExchange
<1> QED BY <1>1, <1>7, <1>9 DEF TreeValue

\* The same for the Shield6 outputs and key images.
LEMMA RingExchange ==
    ASSUME PoolTypeOK, NEW in, NEW out,
           in \subseteq ring, in \cap keyImages = {}, FreshRingOutputs(out),
           ring' = ring \cup out, keyImages' = keyImages \cup in
    PROVE  /\ ring' \in SUBSET RingNote /\ keyImages' \in SUBSET ring'
           /\ ValueOf(in) \in Nat /\ ValueOf(out) \in Nat
           /\ ValueOf(in) <= RingValue
           /\ RingValue' = RingValue - ValueOf(in) + ValueOf(out)
<1>0. /\ ring \in SUBSET RingNote /\ keyImages \in SUBSET ring
      /\ out \subseteq RingNote /\ out \cap ring = {}
  BY DEF PoolTypeOK, FreshRingOutputs
<1>1. ring' \in SUBSET RingNote /\ keyImages' \in SUBSET ring'
  BY <1>0
<1>2. UnspentRing' = (UnspentRing \ in) \cup out
  BY <1>0 DEF UnspentRing
<1>3. in \subseteq UnspentRing /\ UnspentRing \cap out = {}
  BY <1>0 DEF UnspentRing
<1>4. IsFiniteSet(UnspentRing) /\ IsFiniteSet(out)
  BY <1>0, ClaimsFinite, FS_Subset, NoteParameters
<1>5. Exchanged(UnspentRing, in, out, UnspentRing')
  BY <1>2, <1>3, <1>4, Zenon DEF Exchanged
<1>6. /\ ValueOf(UnspentRing') = ValueOf(UnspentRing) - ValueOf(in) + ValueOf(out)
      /\ ValueOf(in) \in Nat /\ ValueOf(out) \in Nat
      /\ ValueOf(in) <= ValueOf(UnspentRing)
  BY <1>5, ValueExchange
<1> QED BY <1>1, <1>6 DEF RingValue

\* A V2 migration takes one note out of the unspent ones.
LEMMA LegacyExchange ==
    ASSUME PoolTypeOK, NEW n \in UnspentLegacy, legacySpent' = legacySpent \cup {n}
    PROVE  /\ legacySpent' \in SUBSET LegacyNote
           /\ n.value \in Nat /\ n.value <= LegacyValue
           /\ LegacyValue' = LegacyValue - n.value
<1>1. n \in LegacyNote /\ legacySpent \in SUBSET LegacyNote
  BY DEF PoolTypeOK, UnspentLegacy
<1>2. UnspentLegacy' = UnspentLegacy \ {n}
  BY DEF UnspentLegacy
<1>3. {n} \subseteq UnspentLegacy
  OBVIOUS
<1>4. n.value \in 0..MaxNote /\ MaxNote \in Nat
  BY <1>1, NoteParameters
<1>5. ValueOf({n}) = n.value
  BY <1>4, ValueSingle
<1>6. IsFiniteSet(UnspentLegacy)
  BY ClaimsFinite
<1>7. /\ ValueOf(UnspentLegacy \ {n}) = ValueOf(UnspentLegacy) - ValueOf({n})
      /\ ValueOf({n}) <= ValueOf(UnspentLegacy)
  BY <1>3, <1>6, ValueDifference
<1> QED BY <1>1, <1>2, <1>4, <1>5, <1>7 DEF LegacyValue

\* What a step does not touch keeps its value.
LEMMA ClaimsFrame ==
    /\ UNCHANGED <<commitments, nullifiers>> => \A asset \in Asset : TreeValue(asset)' = TreeValue(asset)
    /\ UNCHANGED legacySpent => LegacyValue' = LegacyValue
    /\ UNCHANGED <<ring, keyImages>> => RingValue' = RingValue
BY DEF TreeValue, OfAsset, Unspent, LegacyValue, UnspentLegacy, RingValue, UnspentRing

\* Owed of the next state, before that state is known to be well typed.
LEMMA OwedSum == Owed' = TreeValue("TKM")' + LegacyValue' + RingValue'
BY DEF Owed, TreeValue, LegacyValue, RingValue

-----------------------------------------------------------------------------
(* Accounting *)

\* The pool, the claims of one class and their counter move together.
Moves(asset, d, w, f) ==
    /\ pool' = pool + (d - w - f)
    /\ asset = "TKM" => /\ supply' = supply
                        /\ TreeValue("PTKM")' = TreeValue("PTKM")
                        /\ Owed' = Owed + (d - w - f)
                        /\ w + f <= Owed
    /\ asset = "PTKM" => /\ supply' = supply + (d - w - f)
                         /\ TreeValue("PTKM")' = TreeValue("PTKM") + (d - w - f)
                         /\ Owed' = Owed
                         /\ w + f <= supply

\* What the accounting establishes about the next state.
Accounted ==
    /\ pool \in Nat /\ supply \in Nat
    /\ ledger \in [Asset -> [initialized : BOOLEAN, backing : Nat]]
    /\ Solvent /\ WrappedExact /\ LedgerCovers /\ LedgerTimely

\* The numbers of a state that satisfies the invariant.
LEMMA Numbers ==
    PoolInv => /\ pool \in Nat /\ supply \in Nat /\ Bonded \in Nat /\ Owed \in Nat
               /\ height \in Nat
               /\ ledger \in [Asset -> [initialized : BOOLEAN, backing : Nat]]
               /\ TreeValue("PTKM") = supply
               /\ pool >= Bonded + supply + Owed
BY BondedNat, ClaimsNat, Parameters
   DEF PoolInv, PoolTypeOK, RegistryTypeOK, AccountTypeOK, Solvent, WrappedExact, TreeValue

\* The ledger backs what it must, also when this transaction opens it.
LEMMA BackingBounds ==
    PoolInv => /\ Backing("TKM") \in Int /\ Owed <= Backing("TKM") /\ Backing("TKM") <= Reserve
               /\ Backing("PTKM") = supply
<1> SUFFICES ASSUME PoolInv
             PROVE  /\ Backing("TKM") \in Int
                    /\ Owed <= Backing("TKM") /\ Backing("TKM") <= Reserve
                    /\ Backing("PTKM") = supply
    OBVIOUS
<1>1. Owed <= Reserve /\ Reserve \in Int
  BY Numbers DEF Reserve
<1>2. ledger["TKM"].backing \in Nat
  BY Numbers DEF Asset
<1>3. Backing("TKM") = IF ledger["TKM"].initialized THEN ledger["TKM"].backing ELSE Reserve
  BY DEF Backing, AssetReserve
<1>4. Backing("PTKM") = IF ledger["PTKM"].initialized THEN ledger["PTKM"].backing ELSE supply
  BY DEF Backing, AssetReserve
<1> QED BY <1>1, <1>2, <1>3, <1>4, Numbers DEF PoolInv, LedgerCovers

\* A step that moves the ledger with the pool and with one class of claims.
LEMMA NoteAccounting ==
    ASSUME PoolInv, NEW asset \in Asset, NEW d \in Nat, NEW w \in Nat, NEW f \in Nat,
           LedgerStep(asset, d, w, f), Moves(asset, d, w, f),
           UNCHANGED height, Bonded' = Bonded
    PROVE  Accounted'
<1>1. PICK e \in Int : e = d - w - f
  OBVIOUS
<1>2. /\ pool' = pool + e
      /\ asset = "TKM" => /\ supply' = supply /\ TreeValue("PTKM")' = TreeValue("PTKM")
                          /\ Owed' = Owed + e /\ Owed + e >= 0
      /\ asset = "PTKM" => /\ supply' = supply + e
                           /\ TreeValue("PTKM")' = TreeValue("PTKM") + e
                           /\ Owed' = Owed /\ supply + e >= 0
  BY <1>1, Numbers DEF Moves
<1>3. asset = "TKM" \/ asset = "PTKM"
  BY DEF Asset
<1>4. pool' \in Nat /\ supply' \in Nat /\ Owed' \in Nat /\ pool' >= Bonded' + supply' + Owed'
  <2>1. CASE asset = "TKM"
    BY <1>2, <2>1, Numbers
  <2>2. CASE asset = "PTKM"
    BY <1>2, <2>2, Numbers
  <2> QED BY <1>3, <2>1, <2>2
<1>5. Solvent'
  BY <1>4 DEF Solvent
<1>6. WrappedExact'
  <2>1. TreeValue("PTKM")' = supply'
    <3>1. CASE asset = "TKM"
      BY <1>2, <3>1, Numbers
    <3>2. CASE asset = "PTKM"
      BY <1>2, <3>2, Numbers
    <3> QED BY <1>3, <3>1, <3>2
  <2> QED BY <2>1 DEF WrappedExact, TreeValue
<1>7. CASE ~LedgerActive
  <2>1. ledger' = ledger
    BY <1>7 DEF LedgerStep
  <2>2. \A b \in Asset : ~ledger[b].initialized
    BY <1>7 DEF PoolInv, LedgerTimely
  <2>3. \A b \in Asset : ~ledger'[b].initialized
    BY <2>1, <2>2
  <2>4. LedgerCovers' /\ LedgerTimely'
    BY <2>3 DEF LedgerCovers, LedgerTimely, Asset
  <2> QED BY <1>4, <1>5, <1>6, <2>1, <2>4, Numbers DEF Accounted
<1>8. CASE LedgerActive
  <2>1. ledger' = [ledger EXCEPT ![asset] =
                     [initialized |-> TRUE, backing |-> Backing(asset) + d - w - f]]
    BY <1>8 DEF LedgerStep
  <2>2. Backing(asset) + d - w - f >= 0
    BY <1>8 DEF LedgerStep, LedgerAllowed
  <2>3. Backing(asset) \in Int
    BY <1>3, BackingBounds, Numbers
  <2>4. Backing(asset) + d - w - f = Backing(asset) + e /\ Backing(asset) + e \in Nat
    BY <1>1, <2>2, <2>3
  <2>5. ledger' = [ledger EXCEPT ![asset] =
                     [initialized |-> TRUE, backing |-> Backing(asset) + e]]
    BY <2>1, <2>4
  <2>6. ledger' \in [Asset -> [initialized : BOOLEAN, backing : Nat]]
    BY <2>4, <2>5, Numbers
  <2>7. LedgerActive'
    BY <1>8 DEF LedgerActive
  <2>8. LedgerTimely'
    BY <2>7 DEF LedgerTimely
  <2>9. CASE asset = "TKM"
    <3>1. ledger'["TKM"].backing = Backing("TKM") + e /\ ledger'["PTKM"] = ledger["PTKM"]
      BY <2>5, <2>9, Numbers DEF Asset
    <3>2. Owed' <= Backing("TKM") + e
      BY <1>2, <2>9, Numbers, BackingBounds
    <3>3. Reserve' = Reserve + e
      BY <1>2, <2>9, Numbers DEF Reserve
    <3>4. Backing("TKM") + e <= Reserve + e
      BY Numbers, BackingBounds DEF Reserve
    <3>5. supply' = supply
      BY <1>2, <2>9
    <3>6. LedgerCovers'
      BY <3>1, <3>2, <3>3, <3>4, <3>5 DEF PoolInv, LedgerCovers
    <3> QED BY <1>4, <1>5, <1>6, <2>6, <2>8, <3>6 DEF Accounted
  <2>10. CASE asset = "PTKM"
    <3>1. ledger'["PTKM"].backing = supply + e /\ ledger'["TKM"] = ledger["TKM"]
      BY <2>5, <2>10, Numbers, BackingBounds DEF Asset
    <3>2. Owed' = Owed /\ supply' = supply + e
      BY <1>2, <2>10
    <3>3. Reserve' = Reserve
      BY <1>2, <2>10, Numbers DEF Reserve
    <3>4. LedgerCovers'
      BY <3>1, <3>2, <3>3 DEF PoolInv, LedgerCovers
    <3> QED BY <1>4, <1>5, <1>6, <2>6, <2>8, <3>4 DEF Accounted
  <2> QED BY <1>3, <2>9, <2>10
<1> QED BY <1>7, <1>8

\* A step that leaves notes and ledgers alone, moves a bond with the pool, and
\* perhaps gives the pool something.
LEMMA QuietAccounting ==
    ASSUME PoolInv, UNCHANGED <<supply, ledger>>, Owed' = Owed,
           TreeValue("PTKM")' = TreeValue("PTKM"),
           height' \in Nat, height' >= height, pool' \in Nat,
           NEW b \in Int, NEW gift \in Nat,
           pool' = pool + (b + gift), Bonded' = Bonded + b, Bonded' \in Nat
    PROVE  Accounted'
<1>1. pool' >= Bonded' + supply' + Owed'
  BY Numbers
<1>2. Solvent'
  BY <1>1 DEF Solvent
<1>3. WrappedExact'
  BY Numbers DEF WrappedExact, TreeValue
<1>4. Reserve' = Reserve + gift
  BY Numbers DEF Reserve
<1>5. Reserve + gift >= Reserve
  BY Numbers DEF Reserve
<1>6. LedgerCovers'
  <2>1. ledger["TKM"].backing \in Nat /\ Reserve \in Int
    BY Numbers DEF Asset, Reserve
  <2>2. ledger["TKM"].initialized => ledger["TKM"].backing <= Reserve + gift
    BY <2>1, <1>5 DEF PoolInv, LedgerCovers
  <2> QED BY <1>4, <2>2 DEF PoolInv, LedgerCovers
<1>7. LedgerTimely'
  <2>1. LedgerActive => LedgerActive'
    BY Numbers, NoteParameters DEF LedgerActive
  <2> QED BY <2>1 DEF PoolInv, LedgerTimely
<1> QED BY <1>2, <1>3, <1>6, <1>7, Numbers DEF Accounted

\* The registry's part of the invariant does not see a note transaction.
LEMMA RegistryFrame ==
    ASSUME RegistryInv, UNCHANGED <<height, registryVars>>,
           pool' \in Nat, balance' \in [Account -> Nat]
    PROVE  RegistryInv' /\ Bonded' = Bonded
<1> USE DEF registryVars
<1>1. RegistryTypeOK'
  BY DEF RegistryInv, RegistryTypeOK, AccountTypeOK
<1>2. IndexSound'
  BY DEF RegistryInv, IndexSound, Indexed
<1>3. RecordSound'
  BY DEF RegistryInv, RecordSound, RecordSoundAt
<1> QED BY <1>1, <1>2, <1>3, BondedSame DEF RegistryInv

\* The claim of the registry, before the next pool balance is known to be a number.
LEMMA BondedFrame == UNCHANGED registryVars => Bonded' = Bonded
BY DEF registryVars, Bonded, BondedAccounts, Indexed

-----------------------------------------------------------------------------
(* One lemma per operation *)

\* The shape of the note state, apart from its numbers.
NotesOK ==
    /\ commitments \in SUBSET TreeNote /\ nextIndex \in 0..TreeSize
    /\ nullifiers \in SUBSET commitments /\ linkTags \in SUBSET nullifiers
    /\ legacySpent \in SUBSET LegacyNote
    /\ ring \in SUBSET RingNote /\ keyImages \in SUBSET ring

\* The invariant in the three parts the operations establish separately.
LEMMA InvariantParts == PoolInv <=> RegistryInv /\ NotesOK /\ Accounted
BY DEF PoolInv, PoolTypeOK, RegistryInv, RegistryTypeOK, AccountTypeOK, NotesOK, Accounted

\* Four more leaves fit whenever the tree is not refused as full.
LEMMA LeavesFit ==
    ASSUME PoolInv, TreeHasRoom, nextIndex' = nextIndex + OutputSlots
    PROVE  nextIndex' \in 0..TreeSize
BY NoteParameters DEF PoolInv, PoolTypeOK, TreeHasRoom

\* A Shield3, Shield4 or Shield5 deposit.
LEMMA DepositStep ==
    ASSUME PoolInv, NEW a \in Account, NEW asset \in Asset, NEW out, NEW v \in 1..MaxSend,
           Deposit(a, asset, out, v)
    PROVE  PoolInv' /\ Moves(asset, v, 0, 0)
<1> USE DEF Deposit
<1>0. v \in Nat /\ PoolTypeOK /\ RegistryInv
  BY NoteParameters DEF PoolInv
<1>1. /\ FreshOutputs(out, asset) /\ commitments' = commitments \cup out
      /\ nullifiers' = nullifiers \cup {} /\ ValueOf(out) = v
  BY DEF AppendOutputs
<1>2. /\ commitments' \in SUBSET TreeNote /\ nullifiers' \in SUBSET commitments'
      /\ TreeValue(asset)' = TreeValue(asset) - ValueOf({}) + ValueOf(out)
      /\ \A b \in Asset : b # asset => TreeValue(b)' = TreeValue(b)
  BY <1>0, <1>1, TreeExchange
<1>3. TreeValue(asset)' = TreeValue(asset) + v
  <2>1. TreeValue(asset) \in Nat
    BY <1>0, ClaimsNat DEF Asset
  <2> QED BY <1>0, <1>1, <1>2, <2>1, ValueEmpty
<1>4. LegacyValue' = LegacyValue /\ RingValue' = RingValue
  BY ClaimsFrame
<1>5. Moves(asset, v, 0, 0)
  <2>1. CASE asset = "TKM"
    <3>1. Owed' = Owed + v
      BY <1>0, <1>3, <1>4, <2>1, OwedSum, ClaimsNat
    <3>2. supply' = supply /\ TreeValue("PTKM")' = TreeValue("PTKM")
      BY <1>2, <2>1 DEF Mint, Asset
    <3> QED BY <1>0, <2>1, <3>1, <3>2, Numbers DEF Moves
  <2>2. CASE asset = "PTKM"
    <3>1. TreeValue("TKM")' = TreeValue("TKM")
      BY <1>2, <2>2 DEF Asset
    <3>2. Owed' = Owed
      BY <1>0, <1>4, <3>1, OwedSum, ClaimsNat
    <3>3. supply' = supply + v /\ TreeValue("PTKM")' = TreeValue("PTKM") + v
      BY <1>3, <2>2 DEF Mint
    <3> QED BY <1>0, <2>2, <3>2, <3>3, Numbers DEF Moves
  <2> QED BY <2>1, <2>2 DEF Asset
<1>6. Accounted'
  BY <1>0, <1>5, NoteAccounting, BondedFrame
<1>7. balance' \in [Account -> Nat]
  BY <1>0 DEF Minus, RegistryInv, RegistryTypeOK, AccountTypeOK
<1>8. RegistryInv'
  BY <1>0, <1>6, <1>7, RegistryFrame DEF Accounted
<1>9. NotesOK'
  BY <1>0, <1>2, LeavesFit DEF AppendOutputs, NotesOK, PoolTypeOK
<1> QED BY <1>5, <1>6, <1>8, <1>9, InvariantParts, PTL

\* The common part of a Shield3, Shield4 or Shield5 spend.
LEMMA SpendStep ==
    ASSUME PoolInv, NEW sender \in Account, NEW to \in Account, NEW asset \in Asset,
           NEW in, NEW out, NEW w \in Nat, NEW sponsor \in Nat, NEW slots,
           SpendableInputs(in, asset, slots), Spend(sender, to, asset, in, out, w, sponsor),
           linkTags' \in SUBSET nullifiers'
    PROVE  PoolInv' /\ Moves(asset, 0, w, sponsor)
<1> USE DEF Spend
<1>0. PoolTypeOK /\ RegistryInv
  BY DEF PoolInv
<1>1. /\ in \subseteq OfAsset(commitments, asset) /\ in \cap nullifiers = {}
      /\ FreshOutputs(out, asset) /\ commitments' = commitments \cup out
      /\ nullifiers' = nullifiers \cup in
  BY DEF AppendOutputs, SpendableInputs
<1>2. /\ commitments' \in SUBSET TreeNote /\ nullifiers' \in SUBSET commitments'
      /\ ValueOf(in) \in Nat /\ ValueOf(out) \in Nat /\ ValueOf(in) <= TreeValue(asset)
      /\ TreeValue(asset)' = TreeValue(asset) - ValueOf(in) + ValueOf(out)
      /\ \A b \in Asset : b # asset => TreeValue(b)' = TreeValue(b)
  BY <1>0, <1>1, TreeExchange
<1>3. /\ TreeValue(asset)' = TreeValue(asset) + (0 - w - sponsor)
      /\ w + sponsor <= TreeValue(asset)
  <2>1. TreeValue(asset) \in Nat
    BY <1>0, ClaimsNat DEF Asset
  <2>2. ValueOf(in) = ValueOf(out) + w + sponsor
    OBVIOUS
  <2> QED BY <1>2, <2>1, <2>2
<1>4. LegacyValue' = LegacyValue /\ RingValue' = RingValue
  BY ClaimsFrame
<1>5. Moves(asset, 0, w, sponsor)
  <2>0. pool' = pool + (0 - w - sponsor)
    BY Numbers
  <2>1. CASE asset = "TKM"
    <3>1. Owed' = Owed + (0 - w - sponsor)
      BY <1>0, <1>3, <1>4, <2>1, OwedSum, ClaimsNat
    <3>2. w + sponsor <= Owed
      BY <1>0, <1>3, <2>1, ClaimsNat
    <3>3. supply' = supply /\ TreeValue("PTKM")' = TreeValue("PTKM")
      BY <1>2, <2>1 DEF Burn, Asset
    <3> QED BY <2>0, <2>1, <3>1, <3>2, <3>3 DEF Moves
  <2>2. CASE asset = "PTKM"
    <3>1. TreeValue("TKM")' = TreeValue("TKM")
      BY <1>2, <2>2 DEF Asset
    <3>2. Owed' = Owed
      BY <1>0, <1>4, <3>1, OwedSum, ClaimsNat
    <3>3. sponsor = 0 /\ supply' = supply - w
      BY <2>2 DEF Burn
    <3>4. supply' = supply + (0 - w - sponsor)
      BY <3>3, Numbers
    <3>5. w + sponsor <= supply
      BY <1>3, <2>2, Numbers
    <3> QED BY <1>3, <2>0, <2>2, <3>2, <3>4, <3>5 DEF Moves
  <2> QED BY <2>1, <2>2 DEF Asset
<1>6. Accounted'
  BY <1>5, NoteAccounting, BondedFrame
<1>7. balance' \in [Account -> Nat]
  <2>1. balance \in [Account -> Nat]
    BY <1>0 DEF RegistryInv, RegistryTypeOK, AccountTypeOK
  <2>2. \A b \in [Account -> Nat] : \A c \in Account : \A v \in Nat :
          Plus(b, c, v) \in [Account -> Nat]
    BY DEF Plus
  <2>3. \/ balance' = Plus(balance, to, w)
        \/ balance' = Plus(Plus(balance, to, w), sender, sponsor)
    OBVIOUS
  <2> QED BY <2>1, <2>2, <2>3
<1>8. RegistryInv'
  BY <1>0, <1>6, <1>7, RegistryFrame DEF Accounted
<1>9. NotesOK'
  BY <1>0, <1>2, LeavesFit DEF AppendOutputs, NotesOK, PoolTypeOK
<1> QED BY <1>5, <1>6, <1>8, <1>9, InvariantParts, PTL

\* A V2 note leaves the pool.
LEMMA MigrateStep ==
    ASSUME PoolInv, NEW a \in Account, NEW n \in LegacyNote, MigrateV2(a, n)
    PROVE  PoolInv' /\ Moves("TKM", 0, n.value, 0) /\ n.value \in Nat
<1> USE DEF MigrateV2
<1>0. PoolTypeOK /\ RegistryInv
  BY DEF PoolInv
<1>1. /\ legacySpent' \in SUBSET LegacyNote /\ n.value \in Nat /\ n.value <= LegacyValue
      /\ LegacyValue' = LegacyValue - n.value
  BY <1>0, LegacyExchange
<1>2. /\ TreeValue("TKM")' = TreeValue("TKM") /\ TreeValue("PTKM")' = TreeValue("PTKM")
      /\ RingValue' = RingValue
  BY ClaimsFrame DEF Asset
<1>3. Owed' = Owed + (0 - n.value - 0) /\ n.value + 0 <= Owed
  BY <1>0, <1>1, <1>2, OwedSum, ClaimsNat
<1>4. pool' = pool + (0 - n.value - 0)
  BY <1>1, Numbers
<1>5. Moves("TKM", 0, n.value, 0)
  BY <1>2, <1>3, <1>4 DEF Moves
<1>6. Accounted'
  BY <1>1, <1>5, NoteAccounting, BondedFrame DEF Asset
<1>7. balance' \in [Account -> Nat]
  BY <1>0, <1>1 DEF Plus, RegistryInv, RegistryTypeOK, AccountTypeOK
<1>8. RegistryInv'
  BY <1>0, <1>6, <1>7, RegistryFrame DEF Accounted
<1>9. NotesOK'
  BY <1>0, <1>1 DEF NotesOK, PoolTypeOK
<1> QED BY <1>1, <1>5, <1>6, <1>8, <1>9, InvariantParts, PTL

\* A Shield6 deposit.
LEMMA DepositV6Step ==
    ASSUME PoolInv, NEW a \in Account, NEW out, NEW v \in Nat, DepositV6(a, out, v)
    PROVE  PoolInv' /\ Moves("TKM", v, 0, 0)
<1> USE DEF DepositV6
<1>0. PoolTypeOK /\ RegistryInv
  BY DEF PoolInv
<1>1. /\ FreshRingOutputs(out) /\ ring' = ring \cup out /\ ValueOf(out) = v
      /\ {} \subseteq ring /\ {} \cap keyImages = {} /\ keyImages' = keyImages \cup {}
  OBVIOUS
<1>2. /\ ring' \in SUBSET RingNote /\ keyImages' \in SUBSET ring'
      /\ RingValue' = RingValue - ValueOf({}) + ValueOf(out)
  BY <1>0, <1>1, RingExchange, Zenon
<1>3. RingValue' = RingValue + v
  BY <1>0, <1>1, <1>2, ValueEmpty, ClaimsNat
<1>4. /\ TreeValue("TKM")' = TreeValue("TKM") /\ TreeValue("PTKM")' = TreeValue("PTKM")
      /\ LegacyValue' = LegacyValue
  BY ClaimsFrame DEF Asset
<1>5. Owed' = Owed + (v - 0 - 0) /\ 0 + 0 <= Owed
  BY <1>0, <1>3, <1>4, OwedSum, ClaimsNat
<1>6. pool' = pool + (v - 0 - 0)
  BY Numbers
<1>7. Moves("TKM", v, 0, 0)
  BY <1>4, <1>5, <1>6 DEF Moves
<1>8. Accounted'
  BY <1>7, NoteAccounting, BondedFrame DEF Asset
<1>9. balance' \in [Account -> Nat]
  BY <1>0 DEF Minus, RegistryInv, RegistryTypeOK, AccountTypeOK
<1>10. RegistryInv'
  BY <1>0, <1>8, <1>9, RegistryFrame DEF Accounted
<1>11. NotesOK'
  BY <1>0, <1>2 DEF NotesOK, PoolTypeOK
<1> QED BY <1>7, <1>8, <1>10, <1>11, InvariantParts, PTL

\* A Shield6 payment; without a public boundary the ledger is not consulted.
LEMMA SpendV6Step ==
    ASSUME PoolInv, NEW to \in Account, NEW in, NEW out, NEW w \in Nat, SpendV6(to, in, out, w)
    PROVE  PoolInv' /\ Moves("TKM", 0, w, 0)
<1> USE DEF SpendV6
<1>0. PoolTypeOK /\ RegistryInv
  BY DEF PoolInv
<1>1. in \subseteq ring /\ in \cap keyImages = {} /\ FreshRingOutputs(out)
  BY DEF RingInputs
<1>2. /\ ring' \in SUBSET RingNote /\ keyImages' \in SUBSET ring'
      /\ ValueOf(in) \in Nat /\ ValueOf(out) \in Nat /\ ValueOf(in) <= RingValue
      /\ RingValue' = RingValue - ValueOf(in) + ValueOf(out)
  BY <1>0, <1>1, RingExchange
<1>3. RingValue' = RingValue + (0 - w - 0) /\ w <= RingValue
  <2>1. ValueOf(in) = ValueOf(out) + w
    OBVIOUS
  <2> QED BY <1>0, <1>2, <2>1, ClaimsNat
<1>4. /\ TreeValue("TKM")' = TreeValue("TKM") /\ TreeValue("PTKM")' = TreeValue("PTKM")
      /\ LegacyValue' = LegacyValue
  BY ClaimsFrame DEF Asset
<1>5. Owed' = Owed + (0 - w - 0) /\ w + 0 <= Owed
  BY <1>0, <1>3, <1>4, OwedSum, ClaimsNat
<1>6. pool' = pool + (0 - w - 0)
  BY Numbers
<1>7. Moves("TKM", 0, w, 0)
  BY <1>4, <1>5, <1>6 DEF Moves
<1>8. Accounted'
  <2>1. CASE w > 0
    BY <1>7, <2>1, NoteAccounting, BondedFrame DEF Asset
  <2>2. CASE w = 0
    <3>1. Owed' = Owed /\ pool' = pool + (0 + 0)
      BY <1>5, <1>6, <2>2, Numbers
    <3>2. Bonded' = Bonded + 0 /\ Bonded' \in Nat /\ pool' \in Nat /\ height' \in Nat
          /\ height' >= height
      BY <3>1, Numbers, BondedFrame
    <3>3. UNCHANGED <<supply, ledger>>
      BY <2>2
    <3> QED BY <1>4, <3>1, <3>2, <3>3, QuietAccounting
  <2> QED BY <2>1, <2>2
<1>9. balance' \in [Account -> Nat]
  BY <1>0 DEF Plus, RegistryInv, RegistryTypeOK, AccountTypeOK
<1>10. RegistryInv'
  BY <1>0, <1>8, <1>9, RegistryFrame DEF Accounted
<1>11. NotesOK'
  BY <1>0, <1>2 DEF NotesOK, PoolTypeOK
<1> QED BY <1>7, <1>8, <1>10, <1>11, InvariantParts, PTL

\* Steps that leave every note and ledger alone: the registry's transactions,
\* the end of a block, a fee credited to the pool, and stuttering.
LEMMA QuietStep ==
    ASSUME PoolInv, UNCHANGED noteVars, RegistryInv',
           height' \in Nat, height' >= height,
           NEW b \in Int, NEW gift \in Nat, pool' = pool + (b + gift), Bonded' = Bonded + b
    PROVE  PoolInv'
<1> USE DEF noteVars
<1>0. PoolTypeOK /\ RegistryInv
  BY DEF PoolInv
<1>1. (Bonded \in Nat)'
  BY BondedNat, PTL
<1>2. pool' \in Nat
  BY DEF RegistryInv, RegistryTypeOK, AccountTypeOK
<1>3. /\ TreeValue("TKM")' = TreeValue("TKM") /\ TreeValue("PTKM")' = TreeValue("PTKM")
      /\ LegacyValue' = LegacyValue /\ RingValue' = RingValue
  BY ClaimsFrame DEF Asset
<1>4. Owed' = Owed
  BY <1>0, <1>3, OwedSum, ClaimsNat
<1>5. Accounted'
  BY <1>1, <1>2, <1>3, <1>4, QuietAccounting
<1>6. NotesOK'
  BY <1>0 DEF NotesOK, PoolTypeOK
<1> QED BY <1>5, <1>6, InvariantParts, PTL

\* Every transaction of the Shield3/4/5 tree.
LEMMA TreeTxStep ==
    ASSUME PoolInv, TreeTx
    PROVE  PoolInv'
<1>0. linkTags \in SUBSET nullifiers
  BY DEF PoolInv, PoolTypeOK
<1>1. ASSUME NEW asset \in Asset, NEW out, NEW a \in Account, NEW v \in 1..MaxSend,
             Deposit(a, asset, out, v)
      PROVE  PoolInv'
  BY <1>1, DepositStep
<1>2. ASSUME NEW asset \in Asset, NEW in, NEW out, NEW sender \in Account, NEW to \in Account,
             NEW w \in Nat, NEW sponsor \in Nat,
             SpendV3(sender, to, asset, in, out, w, sponsor)
      PROVE  PoolInv'
  <2>1. /\ SpendableInputs(in, asset, InputSlots)
        /\ Spend(sender, to, asset, in, out, w, sponsor)
        /\ linkTags' \in SUBSET nullifiers'
    BY <1>0, <1>2 DEF SpendV3, Spend
  <2> QED BY <2>1, SpendStep
<1>3. ASSUME NEW asset \in Asset, NEW in, NEW out, NEW sender \in Account, NEW to \in Account,
             NEW w \in Nat, NEW sponsor \in Nat, NEW first \in in,
             SpendV4(sender, to, asset, in, first, out, w, sponsor)
      PROVE  PoolInv'
  <2>1. /\ SpendableInputs(in, asset, InputSlots)
        /\ Spend(sender, to, asset, in, out, w, sponsor)
        /\ linkTags' \in SUBSET nullifiers'
    BY <1>0, <1>3 DEF SpendV4, LinkFirst, Spend
  <2> QED BY <2>1, SpendStep
<1>4. ASSUME NEW asset \in Asset, NEW in, NEW out, NEW sender \in Account, NEW to \in Account,
             NEW w \in Nat, NEW sponsor \in Nat, NEW first \in in,
             SpendV5(sender, to, asset, in, first, out, w, sponsor)
      PROVE  PoolInv'
  <2>1. /\ SpendableInputs(in, asset, InputSlots5)
        /\ Spend(sender, to, asset, in, out, w, sponsor)
        /\ linkTags' \in SUBSET nullifiers'
    BY <1>0, <1>4 DEF SpendV5, LinkFirst, Spend
  <2> QED BY <2>1, SpendStep
<1>5. 0..MaxSend \subseteq Nat /\ 0..MaxFee \subseteq Nat
  BY NoteParameters
<1> QED BY <1>1, <1>2, <1>3, <1>4, <1>5 DEF TreeTx

\* The fee credited to the pool when it is the coinbase.
LEMMA CoinbaseStep ==
    ASSUME PoolInv, NEW a \in Account, NEW v \in 1..MaxFee, CoinbaseCredit(a, v)
    PROVE  PoolInv'
<1> USE DEF CoinbaseCredit
<1>0. v \in Nat /\ RegistryInv
  BY NoteParameters DEF PoolInv
<1>1. pool' \in Nat /\ balance' \in [Account -> Nat]
  BY <1>0, Numbers DEF Minus, RegistryInv, RegistryTypeOK, AccountTypeOK
<1>2. RegistryInv' /\ Bonded' = Bonded
  BY <1>0, <1>1, RegistryFrame
<1>3. pool' = pool + (0 + v) /\ Bonded' = Bonded + 0 /\ height' \in Nat /\ height' >= height
  BY <1>0, <1>2, Numbers
<1> QED BY <1>0, <1>2, <1>3, QuietStep

\* Every step preserves the invariant.
LEMMA PoolStep ==
    ASSUME PoolInv, [PoolNext]_vars
    PROVE  PoolInv'
<1>0. RegistryInv
  BY DEF PoolInv
<1>1. CASE RegistryTx /\ UNCHANGED noteVars
  <2>1. RegistryInv' /\ UNCHANGED height
    BY <1>0, <1>1, RegistryTxStep
  <2>2. PICK d \in Int : pool' = pool + d /\ Bonded' = Bonded + d
    BY <1>0, <1>1, RegistryTxStep
  <2>3. pool' = pool + (d + 0) /\ height' \in Nat /\ height' >= height
    BY <2>1, <2>2, Numbers
  <2> QED BY <1>1, <2>1, <2>2, <2>3, QuietStep
<1>2. CASE SealBlock /\ UNCHANGED noteVars
  <2>1. RegistryInv' /\ Bonded' = Bonded
    BY <1>0, <1>2, SealStep
  <2>2. pool' = pool /\ height' = height + 1
    BY <1>2 DEF SealBlock
  <2>3. pool' = pool + (0 + 0) /\ Bonded' = Bonded + 0 /\ height' \in Nat /\ height' >= height
    BY <2>1, <2>2, Numbers
  <2> QED BY <1>2, <2>1, <2>3, QuietStep
<1>3. CASE TreeTx
  BY <1>3, TreeTxStep
<1>4. CASE \E a \in Account, n \in LegacyNote : MigrateV2(a, n)
  BY <1>4, MigrateStep
<1>5. CASE RingTx
  <2>1. ValueOf(RingNote) \in Nat
    BY NoteParameters, UnitsFinite
  <2>2. 1..ValueOf(RingNote) \subseteq Nat /\ 0..ValueOf(RingNote) \subseteq Nat
    BY <2>1
  <2> QED BY <1>5, <2>2, DepositV6Step, SpendV6Step DEF RingTx
<1>6. CASE \E a \in Account, v \in 1..MaxFee : CoinbaseCredit(a, v)
  BY <1>6, CoinbaseStep
<1>7. CASE UNCHANGED vars
  <2>1. UNCHANGED rvars /\ UNCHANGED noteVars
    BY <1>7 DEF vars, rvars
  <2>2. RegistryInv' /\ Bonded' = Bonded
    BY <1>0, <2>1, RegistryStutter
  <2>3. pool' = pool + (0 + 0) /\ Bonded' = Bonded + 0 /\ height' \in Nat /\ height' >= height
    BY <2>1, <2>2, Numbers DEF rvars, accountVars
  <2> QED BY <2>1, <2>2, <2>3, QuietStep
<1> QED BY <1>1, <1>2, <1>3, <1>4, <1>5, <1>6, <1>7 DEF PoolNext

\* The pool starts with the bondless registry, no private note but the legacy
\* ones, and their backing.
LEMMA PoolStart == PoolInit => PoolInv
<1> SUFFICES ASSUME PoolInit PROVE PoolInv
    OBVIOUS
<1> USE DEF PoolInit
<1>1. ValueOf(LegacyNote) \in Nat
  BY NoteParameters, UnitsFinite
<1>2. AccountTypeOK
  BY <1>1, Parameters DEF AccountTypeOK
<1>3. RegistryInv /\ Bonded = 0
  BY <1>2, RegistryInitInv
<1>4. NotesOK
  BY NoteParameters DEF NotesOK
<1>5. /\ OfAsset(Unspent, "TKM") = {} /\ OfAsset(Unspent, "PTKM") = {}
      /\ UnspentLegacy = LegacyNote /\ UnspentRing = {}
  BY DEF OfAsset, Unspent, UnspentLegacy, UnspentRing
<1>6. ValueOf(OfAsset(Unspent, "TKM")) = 0 /\ ValueOf(OfAsset(Unspent, "PTKM")) = 0
      /\ ValueOf(UnspentRing) = 0
  BY <1>5, ValueEmpty
<1>7. Owed = ValueOf(LegacyNote)
  BY <1>1, <1>5, <1>6 DEF Owed
<1>8. Solvent /\ WrappedExact
  BY <1>1, <1>3, <1>6, <1>7, Parameters DEF Solvent, WrappedExact
<1>9. /\ LedgerCovers /\ LedgerTimely
      /\ ledger \in [Asset -> [initialized : BOOLEAN, backing : Nat]]
  BY DEF LedgerCovers, LedgerTimely, Asset
<1> QED BY <1>2, <1>3, <1>4, <1>8, <1>9, InvariantParts DEF Accounted, AccountTypeOK

-----------------------------------------------------------------------------
(* The theorems *)

\* The inductive invariant of the whole pool account.
THEOREM PoolInvariant == PoolSpec => []PoolInv
BY PoolStart, PoolStep, PTL DEF PoolSpec

\* Type correctness of the pool state: among others, the spent notes are notes
\* of the tree, its leaves never exceed 2^MerkleDepth, and no counter goes below zero.
THEOREM PoolTypeCorrect == PoolSpec => []PoolTypeOK
<1>1. PoolInv => PoolTypeOK
  BY DEF PoolInv
<1> QED BY <1>1, PoolInvariant, PTL

\* The one account covers all bonds, all wrapped supply and all native notes of
\* all versions at once, whatever the reserve checks of the single versions see.
THEOREM SolventCorrect == PoolSpec => []Solvent
<1>1. PoolInv => Solvent
  BY DEF PoolInv
<1> QED BY <1>1, PoolInvariant, PTL

\* The supply counter is the value of the unspent wrapped notes.
THEOREM WrappedCorrect == PoolSpec => []WrappedExact
<1>1. PoolInv => WrappedExact
  BY DEF PoolInv
<1> QED BY <1>1, PoolInvariant, PTL

\* The confidential ledger never backs less than it must nor more than there is.
THEOREM LedgerCorrect == PoolSpec => []LedgerCovers
<1>1. PoolInv => LedgerCovers
  BY DEF PoolInv
<1> QED BY <1>1, PoolInvariant, PTL

\* The ledger lets every release through that its class of claims covers.
LEMMA LedgerOpen ==
    ASSUME PoolInv, NEW asset \in Asset, NEW w \in Nat,
           asset = "TKM" => w <= Owed, asset = "PTKM" => w <= supply
    PROVE  LedgerAllowed(asset, 0, w, 0)
<1>1. Reserve \in Int /\ Reserve >= 0
  BY Numbers DEF Reserve
<1>2. ledger["TKM"].initialized => Reserve >= ledger["TKM"].backing
  <2>1. ledger["TKM"].backing \in Nat
    BY Numbers DEF Asset
  <2> QED BY <1>1, <2>1 DEF PoolInv, LedgerCovers
<1>3. CASE asset = "TKM"
  <2>1. AssetReserve(asset) = Reserve
    BY <1>3 DEF AssetReserve
  <2>2. AssetReserve(asset) >= Backing(asset) /\ Backing(asset) + 0 - w - 0 >= 0
    BY <1>1, <1>3, <2>1, BackingBounds, Numbers
  <2> QED BY <1>1, <1>2, <2>2 DEF LedgerAllowed
<1>4. CASE asset = "PTKM"
  <2>1. AssetReserve(asset) = supply
    BY <1>4 DEF AssetReserve
  <2>2. AssetReserve(asset) >= Backing(asset) /\ Backing(asset) + 0 - w - 0 >= 0
    BY <1>4, <2>1, BackingBounds, Numbers
  <2> QED BY <1>1, <1>2, <2>2 DEF LedgerAllowed
<1> QED BY <1>3, <1>4 DEF Asset

\* A note is worth at most the set of notes it belongs to.
LEMMA ValueOfMember ==
    ASSUME NEW S, IsFiniteSet(S), NEW n \in S, n.value \in 0..MaxNote
    PROVE  n.value \in Nat /\ n.value <= ValueOf(S)
<1>1. ValueOf({n}) = n.value
  BY ValueSingle
<1>2. {n} \subseteq S
  OBVIOUS
<1>3. ValueOf({n}) <= ValueOf(S)
  BY <1>2, ValueDifference
<1> QED BY <1>1, <1>3, NoteParameters

\* A record with stake has its whole bond in the pool.
LEMMA BondCovered ==
    ASSUME PoolInv, NEW a \in Account, records[a].stake > 0
    PROVE  BondAvailable(a)
<1>0. RegistryInv
  BY DEF PoolInv
<1>1. a \in BondedAccounts /\ IsFiniteSet(BondedAccounts)
  BY <1>0, BondedByRecord DEF Staked
<1>2. Cardinality(BondedAccounts) \in Nat /\ Cardinality(BondedAccounts) # 0
  BY <1>1, FS_CardinalityType, FS_EmptySet
<1>3. \A b \in Nat : \A c \in Nat : c # 0 => b <= b * c
  OBVIOUS
<1>4. Bond <= Bonded
  BY <1>2, <1>3, Parameters DEF Bonded
<1>5. records[a].stake = Bond
  BY <1>0, Parameters DEF RegistryInv, RegistryTypeOK, Record
<1> QED BY <1>4, <1>5, Numbers, Parameters DEF BondAvailable

\* Nobody is locked out: every unspent note and every matured bond can leave,
\* for every history of other people's transactions.
THEOREM HonestExitCorrect == PoolSpec => []HonestExit
<1>1. PoolInv => HonestExit
  <2> SUFFICES ASSUME PoolInv PROVE HonestExit
      OBVIOUS
  <2>0. PoolTypeOK
    BY DEF PoolInv
  <2>1. ASSUME NEW n \in Unspent
        PROVE  /\ n \notin linkTags
               /\ \A w \in 1..MaxSend : w <= n.value =>
                    /\ ReserveAllows(n.asset, w, 0)
                    /\ LedgerActive => LedgerAllowed(n.asset, 0, w, 0)
    <3>1. n \notin linkTags /\ n \in TreeNote
      BY <2>0 DEF PoolTypeOK, Unspent
    <3>2. n.asset \in Asset /\ n.value \in 0..MaxNote
      BY <3>1, NoteParameters
    <3>3. n \in OfAsset(Unspent, n.asset) /\ IsFiniteSet(OfAsset(Unspent, n.asset))
      BY <2>0, <3>2, ClaimsFinite DEF OfAsset, Asset
    <3>4. n.value \in Nat /\ n.value <= TreeValue(n.asset)
      BY <3>2, <3>3, ValueOfMember DEF TreeValue
    <3>5. ASSUME NEW w \in 1..MaxSend, w <= n.value
          PROVE  ReserveAllows(n.asset, w, 0) /\ LedgerAllowed(n.asset, 0, w, 0)
      <4>0. w \in Nat /\ w > 0
        BY NoteParameters
      <4>1. n.asset = "TKM" => w <= Owed
        BY <2>0, <3>4, <3>5, <4>0, ClaimsNat
      <4>2. n.asset = "PTKM" => w <= supply
        BY <3>4, <3>5, <4>0, Numbers
      <4>3. LedgerAllowed(n.asset, 0, w, 0)
        BY <3>2, <4>0, <4>1, <4>2, LedgerOpen
      <4>4. ReserveAllows(n.asset, w, 0)
        BY <3>2, <4>0, <4>1, <4>2, Numbers DEF ReserveAllows, SpendableReserve, Asset
      <4> QED BY <4>3, <4>4
    <3> QED BY <3>1, <3>5
  <2>2. ASSUME NEW n \in UnspentLegacy
        PROVE  pool >= n.value /\ LedgerAllowed("TKM", 0, n.value, 0)
    <3>1. n.value \in 0..MaxNote
      BY NoteParameters DEF UnspentLegacy
    <3>2. n.value \in Nat /\ n.value <= LegacyValue
      BY <2>0, <3>1, ClaimsFinite, ValueOfMember DEF LegacyValue
    <3>3. n.value <= Owed
      BY <2>0, <3>2, ClaimsNat
    <3> QED BY <3>2, <3>3, LedgerOpen, Numbers DEF Asset
  <2>3. ASSUME NEW n \in UnspentRing
        PROVE  LedgerAllowed("TKM", 0, n.value, 0)
    <3>1. n.value \in 0..MaxNote
      BY <2>0, NoteParameters DEF UnspentRing, PoolTypeOK
    <3>2. n.value \in Nat /\ n.value <= RingValue
      BY <2>0, <3>1, ClaimsFinite, ValueOfMember DEF RingValue
    <3>3. n.value <= Owed
      BY <2>0, <3>2, ClaimsNat
    <3> QED BY <3>2, <3>3, LedgerOpen DEF Asset
  <2>4. \A a \in Account : WithdrawalMature(a) => BondAvailable(a)
    BY BondCovered DEF WithdrawalMature
  <2> QED BY <2>1, <2>2, <2>3, <2>4 DEF HonestExit
<1> QED BY <1>1, PoolInvariant, PTL
-----------------------------------------------------------------------------
(* The refinement: one segregated escrow per class of claims *)

ClassOf(asset) == IF asset = "PTKM" THEN "wrapped" ELSE "notes"

\* The three classes of the mapping.
LEMMA ClassClaims ==
    /\ Claims \in [Classes -> {Bonded, supply, Owed}]
    /\ Claims["bonds"] = Bonded /\ Claims["wrapped"] = supply /\ Claims["notes"] = Owed
BY DEF Claims, Classes

\* The public balances are natural numbers.
LEMMA Balances == PoolInv => balance \in [Account -> Nat]
BY DEF PoolInv, RegistryInv, RegistryTypeOK, AccountTypeOK

\* A transaction of one asset changes the claims of one class.
LEMMA MovesClaims ==
    ASSUME PoolInv, PoolInv', NEW asset \in Asset, NEW d \in Nat, NEW w \in Nat, NEW f \in Nat,
           Moves(asset, d, w, f), Bonded' = Bonded
    PROVE  /\ Claims' = [Claims EXCEPT ![ClassOf(asset)] = @ + (d - w - f)]
           /\ ClassOf(asset) \in Classes
           /\ Claims[ClassOf(asset)] \in Nat /\ w + f <= Claims[ClassOf(asset)]
<1>1. CASE asset = "TKM"
  <2>1. Owed' = Owed + (d - w - f) /\ supply' = supply /\ w + f <= Owed
    BY <1>1 DEF Moves
  <2> QED BY <1>1, <2>1, Numbers DEF ClassOf, Claims, Classes
<1>2. CASE asset = "PTKM"
  <2>1. supply' = supply + (d - w - f) /\ Owed' = Owed /\ w + f <= supply
    BY <1>2 DEF Moves
  <2> QED BY <1>2, <2>1, Numbers DEF ClassOf, Claims, Classes
<1> QED BY <1>1, <1>2 DEF Asset

\* A deposit funds the escrow of its class from the depositor.
LEMMA FundsEscrow ==
    ASSUME PoolInv, PoolInv', NEW asset \in Asset, NEW a \in Account, NEW v \in Nat,
           Moves(asset, v, 0, 0), Bonded' = Bonded,
           balance[a] >= v, balance' = Minus(balance, a, v)
    PROVE  Escrow!Next
<1> DEFINE c == ClassOf(asset)
<1>0. balance \in [Account -> Nat] /\ balance[a] \in Nat /\ pool \in Nat
  BY Balances, Numbers
<1>1. /\ Claims' = [Claims EXCEPT ![c] = @ + (v - 0 - 0)] /\ c \in Classes /\ Claims[c] \in Nat
  BY MovesClaims
<1> HIDE DEF c
<1>2. Claims' = [Claims EXCEPT ![c] = @ + v]
  BY <1>1
<1>3. pool' = pool + v
  BY <1>0 DEF Moves
<1>4. balance' = [balance EXCEPT ![a] = @ - v - 0]
  <2>1. balance[a] - v - 0 = balance[a] - v
    BY <1>0
  <2> QED BY <2>1 DEF Minus
<1>5. Escrow!Fund(c, a, v, 0)
  BY <1>0, <1>2, <1>3, <1>4 DEF Escrow!Fund
<1>6. v \in 0..balance[a] /\ 0 \in 0..(balance[a] - v)
  BY <1>0
<1> QED BY <1>1, <1>5, <1>6 DEF Escrow!Next

\* A release pays from the escrow of its class; `burned' reaches nobody.
LEMMA PaysEscrow ==
    ASSUME PoolInv, PoolInv', NEW asset \in Asset, NEW to \in Account,
           NEW w \in Nat, NEW burned \in Nat,
           Moves(asset, 0, w, burned), Bonded' = Bonded, balance' = Plus(balance, to, w)
    PROVE  Escrow!Next
<1> DEFINE c == ClassOf(asset)
<1>0. balance \in [Account -> Nat] /\ pool \in Nat
  BY Balances, Numbers
<1>1. /\ Claims' = [Claims EXCEPT ![c] = @ + (0 - w - burned)] /\ c \in Classes
      /\ Claims[c] \in Nat /\ w + burned <= Claims[c]
  BY MovesClaims
<1> HIDE DEF c
<1>2. Claims' = [Claims EXCEPT ![c] = @ - w - burned]
  <2>1. Claims[c] + (0 - w - burned) = Claims[c] - w - burned
    BY <1>1
  <2> QED BY <1>1, <2>1
<1>3. pool' = pool - w - burned
  BY <1>0 DEF Moves
<1>4. Escrow!Pay(c, to, w, burned)
  BY <1>1, <1>2, <1>3 DEF Escrow!Pay, Plus
<1>5. w \in 0..Claims[c] /\ burned \in 0..(Claims[c] - w)
  BY <1>1
<1> QED BY <1>1, <1>4, <1>5 DEF Escrow!Next

\* A release with gas for its signer, from one escrow.
LEMMA PaysTwoEscrow ==
    ASSUME PoolInv, PoolInv', NEW asset \in Asset, NEW to \in Account, NEW signer \in Account,
           NEW w \in Nat, NEW u \in Nat,
           Moves(asset, 0, w, u), Bonded' = Bonded,
           balance' = Plus(Plus(balance, to, w), signer, u)
    PROVE  Escrow!Next
<1> DEFINE c == ClassOf(asset)
<1>0. balance \in [Account -> Nat] /\ pool \in Nat
  BY Balances, Numbers
<1>1. /\ Claims' = [Claims EXCEPT ![c] = @ + (0 - w - u)] /\ c \in Classes
      /\ Claims[c] \in Nat /\ w + u <= Claims[c]
  BY MovesClaims
<1> HIDE DEF c
<1>2. Claims' = [Claims EXCEPT ![c] = @ - w - u]
  <2>1. Claims[c] + (0 - w - u) = Claims[c] - w - u
    BY <1>1
  <2> QED BY <1>1, <2>1
<1>3. pool' = pool - w - u
  BY <1>0 DEF Moves
<1>4. Escrow!PayTwo(c, to, w, signer, u)
  BY <1>1, <1>2, <1>3 DEF Escrow!PayTwo, Plus
<1>5. w \in 0..Claims[c] /\ u \in 0..(Claims[c] - w)
  BY <1>1
<1> QED BY <1>1, <1>4, <1>5 DEF Escrow!Next

\* Every transaction of the tree moves one escrow.
LEMMA TreeTxRefines ==
    ASSUME PoolInv, PoolInv', TreeTx
    PROVE  Escrow!Next
<1>0. linkTags \in SUBSET nullifiers
  BY DEF PoolInv, PoolTypeOK
<1>1. ASSUME NEW asset \in Asset, NEW out, NEW a \in Account, NEW v \in 1..MaxSend,
             Deposit(a, asset, out, v)
      PROVE  Escrow!Next
  <2>1. v \in Nat /\ Moves(asset, v, 0, 0)
    BY <1>1, DepositStep, NoteParameters
  <2>2. balance[a] >= v /\ balance' = Minus(balance, a, v) /\ Bonded' = Bonded
    BY <1>1, BondedFrame DEF Deposit
  <2> QED BY <2>1, <2>2, FundsEscrow
<1>2. ASSUME NEW asset \in Asset, NEW in, NEW out, NEW sender \in Account, NEW to \in Account,
             NEW w \in Nat, NEW sponsor \in Nat, NEW slots,
             SpendableInputs(in, asset, slots), Spend(sender, to, asset, in, out, w, sponsor),
             linkTags' \in SUBSET nullifiers'
      PROVE  Escrow!Next
  <2>1. Moves(asset, 0, w, sponsor)
    BY <1>2, SpendStep
  <2>2. Bonded' = Bonded
    BY <1>2, BondedFrame DEF Spend
  <2>3. CASE LedgerActive
    <3>1. balance' = Plus(balance, to, w)
      BY <1>2, <2>3 DEF Spend
    <3> QED BY <2>1, <2>2, <3>1, PaysEscrow
  <2>4. CASE ~LedgerActive
    <3>1. balance' = Plus(Plus(balance, to, w), sender, sponsor)
      BY <1>2, <2>4 DEF Spend
    <3> QED BY <2>1, <2>2, <3>1, PaysTwoEscrow
  <2> QED BY <2>3, <2>4
<1>3. ASSUME NEW asset \in Asset, NEW in, NEW out, NEW sender \in Account, NEW to \in Account,
             NEW w \in Nat, NEW sponsor \in Nat,
             \/ SpendV3(sender, to, asset, in, out, w, sponsor)
             \/ \E first \in in : SpendV4(sender, to, asset, in, first, out, w, sponsor)
             \/ \E first \in in : SpendV5(sender, to, asset, in, first, out, w, sponsor)
      PROVE  Escrow!Next
  <2>1. PICK slots : SpendableInputs(in, asset, slots)
    BY <1>3 DEF SpendV3, SpendV4, SpendV5
  <2>2. /\ Spend(sender, to, asset, in, out, w, sponsor)
        /\ linkTags' \in SUBSET nullifiers'
    BY <1>0, <1>3 DEF SpendV3, SpendV4, SpendV5, LinkFirst, Spend
  <2> QED BY <1>2, <2>1, <2>2
<1>4. 0..MaxSend \subseteq Nat /\ 0..MaxFee \subseteq Nat
  BY NoteParameters
<1> QED BY <1>1, <1>3, <1>4, SMTT(30) DEF TreeTx

\* Registrations fund, withdrawals and slashings pay the escrow of the bonds.
LEMMA RegistryTxRefines ==
    ASSUME PoolInv, PoolInv', RegistryTx, UNCHANGED noteVars
    PROVE  Escrow!Next \/ UNCHANGED Escrow!avars
<1>0. /\ balance \in [Account -> Nat] /\ pool \in Nat /\ RegistryInv
      /\ Bonded \in Nat /\ Bonded' \in Nat /\ "bonds" \in Classes
  <2>1. (PoolInv => Bonded \in Nat)'
    BY Numbers, PTL
  <2> QED BY <2>1, Balances, Numbers DEF PoolInv, Classes
<1>1. Owed' = Owed /\ supply' = supply
  BY DEF noteVars, Owed, OfAsset, Unspent, UnspentLegacy, UnspentRing
<1>2. ASSUME NEW e \in Int, Bonded' = Bonded + e
      PROVE  Claims' = [Claims EXCEPT !["bonds"] = @ + e]
  BY <1>1, <1>2 DEF Claims, Classes
<1>3. ASSUME NEW a \in Account, NEW activation \in Activations, Register(a, activation)
      PROVE  Escrow!Next
  <2>1. Bonded' = Bonded + Bond
    BY <1>0, <1>3, RegisterStep
  <2>2. /\ Bond \in Nat /\ RegistrationFee \in Nat /\ balance[a] \in Nat
        /\ Bond + RegistrationFee <= balance[a] /\ pool' = pool + Bond
    BY <1>0, <1>3, Parameters DEF Register, RegistrationAllowed
  <2>3. balance' = [balance EXCEPT ![a] = @ - Bond - RegistrationFee]
    <3>1. balance[a] - (Bond + RegistrationFee) = balance[a] - Bond - RegistrationFee
      BY <2>2
    <3> QED BY <1>3, <3>1 DEF Register, Minus
  <2>4. Claims' = [Claims EXCEPT !["bonds"] = @ + Bond]
    BY <1>2, <2>1, <2>2
  <2>5. Escrow!Fund("bonds", a, Bond, RegistrationFee)
    BY <2>2, <2>3, <2>4 DEF Escrow!Fund
  <2>6. Bond \in 0..balance[a] /\ RegistrationFee \in 0..(balance[a] - Bond)
    BY <2>2
  <2> QED BY <1>0, <2>5, <2>6 DEF Escrow!Next
<1>4. ASSUME NEW a \in Account, Exit(a)
      PROVE  UNCHANGED Escrow!avars
  <2>1. Bonded' = Bonded
    BY <1>0, <1>4, ExitStep
  <2> QED BY <1>1, <1>4, <2>1 DEF Exit, Claims, Escrow!avars
<1>5. ASSUME NEW to \in Account, NEW v \in Nat, NEW burned \in Nat,
             Bonded' = Bonded - v - burned, pool' = pool - v - burned,
             balance' = [balance EXCEPT ![to] = @ + v]
      PROVE  Escrow!Next
  <2>1. Claims["bonds"] = Bonded /\ v + burned <= Bonded
    BY <1>0, <1>5, ClassClaims
  <2>2. Claims' = [Claims EXCEPT !["bonds"] = @ + (0 - v - burned)]
    BY <1>0, <1>2, <1>5
  <2>3. Claims' = [Claims EXCEPT !["bonds"] = @ - v - burned]
    <3>1. Claims["bonds"] + (0 - v - burned) = Claims["bonds"] - v - burned
      BY <1>0, <2>1
    <3> QED BY <2>2, <3>1
  <2>4. Escrow!Pay("bonds", to, v, burned)
    BY <1>5, <2>1, <2>3 DEF Escrow!Pay
  <2>5. v \in 0..Claims["bonds"] /\ burned \in 0..(Claims["bonds"] - v)
    BY <1>0, <2>1
  <2> QED BY <1>0, <2>4, <2>5 DEF Escrow!Next
<1>6. ASSUME NEW a \in Account, Withdraw(a)
      PROVE  Escrow!Next
  <2>1. Bonded' = Bonded - Bond /\ records[a].stake = Bond /\ Bond \in Nat
    BY <1>0, <1>6, WithdrawStep, Parameters
  <2>2. Bonded' = Bonded - Bond - 0 /\ pool' = pool - Bond - 0
    BY <1>0, <1>6, <2>1 DEF Withdraw
  <2>3. balance' = [balance EXCEPT ![a] = @ + Bond]
    BY <1>6, <2>1 DEF Withdraw, Plus
  <2> QED BY <1>5, <2>1, <2>2, <2>3
<1>7. ASSUME NEW e \in Evidence, Slash(e)
      PROVE  Escrow!Next
  <2> DEFINE k == records[e.validator].stake
  <2>1. Bonded' = Bonded - k /\ k \in Nat /\ e.validator \in Account
    BY <1>0, <1>7, SlashStep, Parameters
  <2>2. pool' = pool - k /\ balance' = balance
    BY <1>7 DEF Slash
  <2> HIDE DEF k
  <2>3. /\ Bonded' = Bonded - 0 - k /\ pool' = pool - 0 - k
        /\ balance' = [balance EXCEPT ![e.validator] = @ + 0]
    BY <1>0, <2>1, <2>2
  <2> QED BY <1>5, <2>1, <2>3
<1> QED BY <1>3, <1>4, <1>6, <1>7 DEF RegistryTx

\* Every step of the shared account is a step of the segregated escrows.
LEMMA PoolStepRefines ==
    ASSUME PoolInv, [PoolNext]_vars
    PROVE  [Escrow!Next]_Escrow!avars
<1>0. PoolInv'
  BY PoolStep
<1>1. CASE RegistryTx /\ UNCHANGED noteVars
  BY <1>0, <1>1, RegistryTxRefines
<1>2. ASSUME UNCHANGED <<pool, balance, noteVars>>, Bonded' = Bonded
      PROVE  UNCHANGED Escrow!avars
  BY <1>2 DEF noteVars, Owed, OfAsset, Unspent, UnspentLegacy, UnspentRing, Claims, Escrow!avars
<1>3. CASE SealBlock /\ UNCHANGED noteVars
  <2>1. Bonded' = Bonded
    BY <1>3, SealStep DEF PoolInv
  <2> QED BY <1>2, <1>3, <2>1 DEF SealBlock
<1>4. CASE TreeTx
  BY <1>0, <1>4, TreeTxRefines
<1>5. ASSUME NEW a \in Account, NEW n \in LegacyNote, MigrateV2(a, n)
      PROVE  Escrow!Next
  <2>1. Moves("TKM", 0, n.value, 0) /\ n.value \in Nat
    BY <1>5, MigrateStep
  <2>2. Bonded' = Bonded /\ balance' = Plus(balance, a, n.value)
    BY <1>5, BondedFrame DEF MigrateV2
  <2> QED BY <1>0, <2>1, <2>2, PaysEscrow DEF Asset
<1>6. ASSUME NEW a \in Account, NEW out, NEW v \in Nat, DepositV6(a, out, v)
      PROVE  Escrow!Next
  <2>1. Moves("TKM", v, 0, 0)
    BY <1>6, DepositV6Step
  <2>2. Bonded' = Bonded /\ balance[a] >= v /\ balance' = Minus(balance, a, v)
    BY <1>6, BondedFrame DEF DepositV6
  <2> QED BY <1>0, <2>1, <2>2, FundsEscrow DEF Asset
<1>7. ASSUME NEW a \in Account, NEW in, NEW out, NEW w \in Nat, SpendV6(a, in, out, w)
      PROVE  Escrow!Next
  <2>1. Moves("TKM", 0, w, 0)
    BY <1>7, SpendV6Step
  <2>2. Bonded' = Bonded /\ balance' = Plus(balance, a, w)
    BY <1>7, BondedFrame DEF SpendV6
  <2> QED BY <1>0, <2>1, <2>2, PaysEscrow DEF Asset
<1>8. CASE RingTx
  <2>1. ValueOf(RingNote) \in Nat
    BY NoteParameters, UnitsFinite
  <2>2. 1..ValueOf(RingNote) \subseteq Nat /\ 0..ValueOf(RingNote) \subseteq Nat
    BY <2>1
  <2> QED BY <1>6, <1>7, <1>8, <2>2 DEF RingTx
<1>9. ASSUME NEW a \in Account, NEW v \in 1..MaxFee, CoinbaseCredit(a, v)
      PROVE  Escrow!Next
  <2>1. /\ v \in Nat /\ v <= balance[a] /\ balance[a] \in Nat
        /\ pool' = pool + v /\ balance' = Minus(balance, a, v) /\ UNCHANGED noteVars
    BY <1>9, Balances, NoteParameters DEF CoinbaseCredit
  <2>2. Bonded' = Bonded
    BY <1>9, BondedFrame DEF CoinbaseCredit
  <2>3. UNCHANGED Claims
    BY <2>1, <2>2 DEF noteVars, Owed, OfAsset, Unspent, UnspentLegacy, UnspentRing, Claims
  <2>4. Escrow!Donate(a, v)
    BY <2>1, <2>3 DEF Escrow!Donate, Minus
  <2>5. v \in 0..balance[a]
    BY <2>1
  <2> QED BY <2>4, <2>5 DEF Escrow!Next
<1>10. CASE UNCHANGED vars
  <2>1. Bonded' = Bonded
    BY <1>10, BondedFrame DEF vars
  <2> QED BY <1>2, <1>10, <2>1 DEF vars, accountVars
<1> QED BY <1>1, <1>3, <1>4, <1>5, <1>8, <1>9, <1>10 DEF PoolNext

\* The shared account implements one segregated escrow per class: no transaction
\* of any shielded version or of the registry pays one class of claims out of
\* another's backing.
THEOREM EscrowCorrect == PoolSpec => ImplementsSegregatedEscrow
<1>1. PoolInit => Escrow!Init
  <2> SUFFICES ASSUME PoolInit PROVE Escrow!Init
    OBVIOUS
  <2>1. PoolInv
    BY PoolStart
  <2> QED BY <2>1, Numbers, Balances DEF Claims, Classes, Escrow!Init
<1>2. PoolInv /\ [PoolNext]_vars => [Escrow!Next]_Escrow!avars
  BY PoolStepRefines
<1> QED BY <1>1, <1>2, PoolInvariant, PTL DEF PoolSpec, ImplementsSegregatedEscrow, Escrow!Spec
=============================================================================
