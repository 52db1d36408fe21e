-------------------------- MODULE GovernanceProofs --------------------------
(***************************************************************************)
(* Proofs about Governance, for every set of accounts and owners, every      *)
(* threshold, burn and sponsorship lifetime.  GovInv is the inductive        *)
(* invariant: the registry's own, the vote bookkeeping and the one-to-one    *)
(* stamps.  It adds to the properties that every target has finitely many    *)
(* voters, without which its Cardinality could not be counted up and down.   *)
(*                                                                         *)
(* The stamp tree and the note tree are the same algorithm, so the lemmas on *)
(* the node tree come from AccumulatorsProofs; nothing here depends on the   *)
(* constants and variables of Accumulators.                                  *)
(***************************************************************************)
EXTENDS Governance, ValidatorRegistryProofs, AccumulatorsProofs

Voters(t) == {o \in Owner : <<t, o>> \in votes}
Stamped == {a \in Account : IsStamped(a)}

StampsOK ==
    /\ stampOf \in [Account -> Owner \cup {NoStamp}]
    /\ DOMAIN stampTree.indexOf \subseteq Owner

VotesOK ==
    /\ votes \subseteq Account \X Owner
    /\ voteCount \in [Account -> 0..Threshold]
    /\ suspended \subseteq Account
    /\ \A t \in Account : IsFiniteSet(Voters(t))

GovInv == RegistryInv /\ BondsAccounted /\ StampsOK /\ VotesOK
            /\ SuspensionFollowsVotes /\ OwnersBound

\* The assumptions on the constants, for citing together.
LEMMA GovParameters ==
    /\ Threshold \in Nat /\ Threshold > 0
    /\ VoteBurn \in Nat /\ VoteBurn > 0
    /\ NoStamp \notin Owner /\ Amounts \subseteq Nat
    /\ IsFiniteSet(Account)
BY ThresholdAssumption, VoteBurnAssumption, NoStampAssumption, AccountAssumption

-----------------------------------------------------------------------------
(* Frames: what an operation of one part leaves alone in the others *)

\* A transaction that only moves public balances is invisible to the registry.
LEMMA BalanceFrame ==
    ASSUME RegistryInv, BondsAccounted, UNCHANGED <<height, pool, registryVars>>,
           balance' \in [Account -> Nat]
    PROVE  RegistryInv' /\ BondsAccounted'
<1> USE DEF registryVars
<1>0. pool' \in Nat
  BY DEF RegistryInv, RegistryTypeOK, AccountTypeOK
<1>1. RegistryTypeOK'
  BY <1>0 DEF RegistryInv, RegistryTypeOK, AccountTypeOK
<1>2. IndexSound'
  BY DEF RegistryInv, IndexSound, Indexed
<1>3. RecordSound'
  BY DEF RegistryInv, RecordSound, RecordSoundAt
<1>4. Bonded' = Bonded
  BY DEF Bonded, BondedAccounts, Indexed
<1> QED BY <1>1, <1>2, <1>3, <1>4 DEF RegistryInv, BondsAccounted

\* The votes' part, when no vote is cast or taken back.
LEMMA VotesFrame ==
    ASSUME VotesOK, SuspensionFollowsVotes, UNCHANGED voteVars
    PROVE  VotesOK' /\ SuspensionFollowsVotes'
BY DEF voteVars, VotesOK, Voters, SuspensionFollowsVotes

\* The stamps' part, when no stamp is registered and no vote changes.
LEMMA StampsFrame ==
    ASSUME StampsOK, OwnersBound, UNCHANGED <<stampVars, voteVars>>
    PROVE  StampsOK' /\ OwnersBound'
BY DEF stampVars, voteVars, StampsOK, OwnersBound, IsStamped

\* Every step of the registry itself keeps its invariant and its accounting.
LEMMA RegistryPart ==
    ASSUME RegistryInv, BondsAccounted, RegistryTx \/ SealBlock \/ UNCHANGED rvars
    PROVE  RegistryInv' /\ BondsAccounted'
<1>0. pool \in Nat /\ Bonded \in Nat /\ Surplus \in Nat
  BY BondedNat, Parameters DEF RegistryInv, RegistryTypeOK, AccountTypeOK
<1>1. CASE RegistryTx
  <2>1. RegistryInv'
    BY <1>1, RegistryTxStep
  <2>2. PICK d \in Int : pool' = pool + d /\ Bonded' = Bonded + d
    BY <1>1, RegistryTxStep
  <2> QED BY <1>0, <2>1, <2>2 DEF BondsAccounted
<1>2. CASE SealBlock
  BY <1>0, <1>2, SealStep DEF BondsAccounted, SealBlock
<1>3. CASE UNCHANGED rvars
  BY <1>0, <1>3, RegistryStutter DEF BondsAccounted, rvars, accountVars
<1> QED BY <1>1, <1>2, <1>3

-----------------------------------------------------------------------------
(* One lemma per operation *)

\* A registration binds a fresh owner to an unstamped address.
LEMMA RegisterStampStep ==
    ASSUME GovInv, NEW from \in Account, NEW beneficiary \in Account, NEW owner \in Owner,
           NEW validUntil, RegisterStamp(from, beneficiary, owner, validUntil)
    PROVE  GovInv'
<1> USE GovParameters
<1>0. /\ ~IsStamped(beneficiary) /\ owner \notin DOMAIN stampTree.indexOf
      /\ stampOf' = [stampOf EXCEPT ![beneficiary] = owner]
      /\ UNCHANGED <<rvars, voteVars>>
  BY DEF RegisterStamp, StampFree, OwnerFree
<1>1. /\ stampTree'.next = stampTree.next + 1
      /\ DOMAIN stampTree'.indexOf = DOMAIN stampTree.indexOf \cup {owner}
  BY DEF RegisterStamp, AppendLeaf
<1>2. RegistryInv' /\ BondsAccounted'
  BY <1>0, RegistryPart DEF GovInv
<1>3. VotesOK' /\ SuspensionFollowsVotes'
  BY <1>0, VotesFrame DEF GovInv
<1>4. StampsOK'
  BY <1>0, <1>1 DEF GovInv, StampsOK
<1>5. \A a \in Account : /\ a # beneficiary => stampOf'[a] = stampOf[a]
                         /\ IsStamped(a)' <=> (IsStamped(a) \/ a = beneficiary)
  BY <1>0 DEF GovInv, StampsOK, IsStamped
<1>6. stampOf'[beneficiary] = owner
  BY <1>0 DEF GovInv, StampsOK
<1>7. (stampTree.next = Cardinality(Stamped))'
  <2>1. Stamped' = Stamped \cup {beneficiary} /\ beneficiary \notin Stamped
    BY <1>0, <1>5 DEF Stamped
  <2>2. IsFiniteSet(Stamped)
    BY FS_Subset DEF Stamped
  <2>3. Cardinality(Stamped \cup {beneficiary}) = Cardinality(Stamped) + 1
    BY <2>1, <2>2, FS_AddElement
  <2>4. stampTree.next = Cardinality(Stamped)
    BY DEF GovInv, OwnersBound, Stamped
  <2> QED BY <1>1, <2>1, <2>3, <2>4
<1>8. OwnersBound'
  <2>1. \A a, b \in Account : (IsStamped(a)' /\ stampOf'[a] = stampOf'[b]) => a = b
    <3> SUFFICES ASSUME NEW a \in Account, NEW b \in Account,
                        IsStamped(a)', stampOf'[a] = stampOf'[b]
                 PROVE  a = b
      OBVIOUS
    <3>1. CASE a # beneficiary /\ b # beneficiary
      BY <3>1, <1>5 DEF GovInv, OwnersBound
    <3>2. ASSUME NEW c \in Account, c # beneficiary, IsStamped(c) PROVE stampOf'[c] # owner
      BY <3>2, <1>0, <1>5 DEF GovInv, OwnersBound
    <3>3. ASSUME NEW c \in Account, c # beneficiary, ~IsStamped(c) PROVE stampOf'[c] # owner
      BY <3>3, <1>5 DEF IsStamped
    <3> QED BY <3>1, <3>2, <3>3, <1>6
  <2>2. \A a \in Account : IsStamped(a)' => stampOf'[a] \in DOMAIN stampTree'.indexOf
    BY <1>1, <1>5, <1>6 DEF GovInv, OwnersBound
  <2>3. \A v \in votes' : \E a \in Account : a # v[1] /\ stampOf'[a] = v[2]
    <3> SUFFICES ASSUME NEW v \in votes
                 PROVE  \E a \in Account : a # v[1] /\ stampOf'[a] = v[2]
      BY <1>0 DEF voteVars
    <3>1. PICK a \in Account : a # v[1] /\ stampOf[a] = v[2]
      BY DEF GovInv, OwnersBound
    <3>2. v[2] \in Owner
      BY DEF GovInv, VotesOK
    <3>3. IsStamped(a)
      BY <3>1, <3>2 DEF IsStamped
    <3> QED BY <1>0, <1>5, <3>1, <3>3
  <2> QED BY <1>7, <2>1, <2>2, <2>3 DEF OwnersBound, Stamped
<1> QED BY <1>2, <1>3, <1>4, <1>8 DEF GovInv

\* The burn of a vote or an unvote leaves every balance a natural number.
LEMMA BurnStep ==
    ASSUME GovInv, NEW from \in Account, CanBurn(from),
           balance' = Minus(balance, from, VoteBurn), UNCHANGED <<height, pool, registryVars>>
    PROVE  RegistryInv' /\ BondsAccounted'
<1>1. balance \in [Account -> Nat]
  BY DEF GovInv, RegistryInv, RegistryTypeOK, AccountTypeOK
<1>2. balance' \in [Account -> Nat]
  BY <1>1, GovParameters DEF CanBurn, Minus
<1> QED BY <1>2, BalanceFrame DEF GovInv

\* A vote adds one new voter to its target's.
LEMMA VoteStep ==
    ASSUME GovInv, NEW from \in Account, NEW target \in Account, Vote(from, target)
    PROVE  GovInv'
<1> USE GovParameters
<1> DEFINE o == stampOf[from]
<1>0. /\ target # from /\ IsStamped(from) /\ o \in Owner
      /\ <<target, o>> \notin votes
      /\ voteCount[target] < Threshold /\ target \notin suspended
      /\ votes' = votes \cup {<<target, o>>}
      /\ voteCount' = [voteCount EXCEPT ![target] = @ + 1]
      /\ suspended' = IF voteCount[target] + 1 >= Threshold
                      THEN suspended \cup {target} ELSE suspended
      /\ UNCHANGED stampVars
  BY DEF Vote, VoteAllowed, IsStamped, GovInv, StampsOK
<1>1. RegistryInv' /\ BondsAccounted'
  BY BurnStep DEF Vote
<1>2. StampsOK'
  BY <1>0 DEF GovInv, StampsOK, stampVars
<1>3. OwnersBound'
  <2>1. \A v \in votes' : \E a \in Account : a # v[1] /\ stampOf'[a] = v[2]
    BY <1>0 DEF GovInv, OwnersBound, stampVars
  <2> QED BY <1>0, <2>1 DEF GovInv, OwnersBound, stampVars, IsStamped
<1>4. /\ Voters(target)' = Voters(target) \cup {o} /\ o \notin Voters(target)
      /\ \A t \in Account : t # target => Voters(t)' = Voters(t)
  BY <1>0 DEF Voters
<1>5. /\ IsFiniteSet(Voters(target)')
      /\ Cardinality(Voters(target)') = Cardinality(Voters(target)) + 1
  BY <1>4, FS_AddElement DEF GovInv, VotesOK
<1>6. /\ voteCount \in [Account -> 0..Threshold]
      /\ voteCount' \in [Account -> 0..Threshold]
      /\ voteCount'[target] = voteCount[target] + 1
      /\ \A t \in Account : t # target => voteCount'[t] = voteCount[t]
  BY <1>0 DEF GovInv, VotesOK
<1>7. VotesOK'
  <2>1. votes' \subseteq Account \X Owner /\ suspended' \subseteq Account
    BY <1>0 DEF GovInv, VotesOK
  <2>2. ASSUME NEW t \in Account PROVE IsFiniteSet(Voters(t)')
    BY <1>4, <1>5 DEF GovInv, VotesOK
  <2> QED BY <1>6, <2>1, <2>2 DEF VotesOK
<1>8. SuspensionFollowsVotes'
  <2> SUFFICES ASSUME NEW t \in Account
               PROVE  /\ voteCount'[t] = Cardinality(Voters(t)')
                      /\ t \in suspended' <=> voteCount'[t] >= Threshold
    BY DEF SuspensionFollowsVotes, Voters
  <2>1. /\ voteCount[t] = Cardinality(Voters(t))
        /\ t \in suspended <=> voteCount[t] >= Threshold
    BY DEF GovInv, SuspensionFollowsVotes, Voters
  <2>2. CASE t = target
    BY <1>0, <1>5, <1>6, <2>1, <2>2
  <2>3. CASE t # target
    BY <1>0, <1>4, <1>6, <2>1, <2>3
  <2> QED BY <2>2, <2>3
<1> QED BY <1>1, <1>2, <1>3, <1>7, <1>8 DEF GovInv

\* An unvote takes one of its target's voters away.
LEMMA UnvoteStep ==
    ASSUME GovInv, NEW from \in Account, NEW target \in Account, Unvote(from, target)
    PROVE  GovInv'
<1> USE GovParameters
<1> DEFINE o == stampOf[from]
<1>0. /\ o \in Owner /\ <<target, o>> \in votes /\ voteCount[target] > 0
      /\ votes' = votes \ {<<target, o>>}
      /\ voteCount' = [voteCount EXCEPT ![target] = @ - 1]
      /\ suspended' = IF voteCount[target] - 1 < Threshold
                      THEN suspended \ {target} ELSE suspended
      /\ UNCHANGED stampVars
  BY DEF Unvote, UnvoteAllowed, Lifted, IsStamped, GovInv, StampsOK
<1>1. RegistryInv' /\ BondsAccounted'
  BY BurnStep DEF Unvote
<1>2. StampsOK'
  BY <1>0 DEF GovInv, StampsOK, stampVars
<1>3. OwnersBound'
  <2>1. \A v \in votes' : \E a \in Account : a # v[1] /\ stampOf'[a] = v[2]
    BY <1>0 DEF GovInv, OwnersBound, stampVars
  <2> QED BY <1>0, <2>1 DEF GovInv, OwnersBound, stampVars, IsStamped
<1>4. /\ Voters(target)' = Voters(target) \ {o} /\ o \in Voters(target)
      /\ \A t \in Account : t # target => Voters(t)' = Voters(t)
  BY <1>0 DEF Voters
<1>5. /\ IsFiniteSet(Voters(target)')
      /\ Cardinality(Voters(target)') = Cardinality(Voters(target)) - 1
  BY <1>4, FS_RemoveElement DEF GovInv, VotesOK
<1>6. /\ voteCount \in [Account -> 0..Threshold]
      /\ voteCount' \in [Account -> 0..Threshold]
      /\ voteCount'[target] = voteCount[target] - 1
      /\ \A t \in Account : t # target => voteCount'[t] = voteCount[t]
  BY <1>0 DEF GovInv, VotesOK
<1>7. VotesOK'
  <2>1. votes' \subseteq Account \X Owner /\ suspended' \subseteq Account
    BY <1>0 DEF GovInv, VotesOK
  <2>2. ASSUME NEW t \in Account PROVE IsFiniteSet(Voters(t)')
    BY <1>4, <1>5 DEF GovInv, VotesOK
  <2> QED BY <1>6, <2>1, <2>2 DEF VotesOK
<1>8. SuspensionFollowsVotes'
  <2> SUFFICES ASSUME NEW t \in Account
               PROVE  /\ voteCount'[t] = Cardinality(Voters(t)')
                      /\ t \in suspended' <=> voteCount'[t] >= Threshold
    BY DEF SuspensionFollowsVotes, Voters
  <2>1. /\ voteCount[t] = Cardinality(Voters(t))
        /\ t \in suspended <=> voteCount[t] >= Threshold
    BY DEF GovInv, SuspensionFollowsVotes, Voters
  <2>2. CASE t = target
    BY <1>0, <1>5, <1>6, <2>1, <2>2
  <2>3. CASE t # target
    BY <1>0, <1>4, <1>6, <2>1, <2>3
  <2> QED BY <2>2, <2>3
<1> QED BY <1>1, <1>2, <1>3, <1>7, <1>8 DEF GovInv

\* A public transfer.
LEMMA TransferStep ==
    ASSUME GovInv, NEW from \in Account, NEW to \in Account, NEW amount \in Amounts,
           Transfer(from, to, amount)
    PROVE  GovInv'
<1>1. balance \in [Account -> Nat]
  BY DEF GovInv, RegistryInv, RegistryTypeOK, AccountTypeOK
<1>2. balance' \in [Account -> Nat]
  BY <1>1, GovParameters DEF Transfer, Plus, Minus
<1>3. RegistryInv' /\ BondsAccounted'
  BY <1>2, BalanceFrame DEF Transfer, GovInv
<1> QED BY <1>3, VotesFrame, StampsFrame DEF Transfer, GovInv

\* The registry's own steps.
LEMMA GatedStep ==
    ASSUME GovInv, RegistryTx \/ SealBlock \/ UNCHANGED rvars, UNCHANGED <<stampVars, voteVars>>
    PROVE  GovInv'
BY RegistryPart, VotesFrame, StampsFrame DEF GovInv

\* A gated registry transaction is a registry transaction.
LEMMA GatedIsRegistry == GatedRegistryTx => RegistryTx
BY EvidenceAssumption DEF GatedRegistryTx, RegistryTx

-----------------------------------------------------------------------------
(* The theorems *)

\* The inductive invariant of the composition.
THEOREM GovInvariant == GovSpec => []GovInv
<1>1. GovInit => GovInv
  <2> SUFFICES ASSUME GovInit PROVE GovInv
    OBVIOUS
  <2> USE GovParameters
  <2>1. RegistryInv /\ BondsAccounted
    <3>1. AccountTypeOK
      BY Parameters DEF GovInit, Init, AccountTypeOK
    <3> QED BY <3>1, RegistryInitInv, Parameters DEF GovInit, Init, BondsAccounted
  <2>2. StampsOK
    BY DEF GovInit, EmptyTree, StampsOK
  <2>3. \A t \in Account : Voters(t) = {}
    BY DEF GovInit, Voters
  <2>4. IsFiniteSet({}) /\ Cardinality({}) = 0
    BY FS_EmptySet
  <2>5. VotesOK
    BY <2>3, <2>4 DEF GovInit, VotesOK
  <2>6. SuspensionFollowsVotes
    BY <2>3, <2>4 DEF GovInit, SuspensionFollowsVotes, Voters
  <2>7. OwnersBound
    <3>1. Stamped = {}
      BY DEF GovInit, Stamped, IsStamped
    <3>2. stampTree.next = 0
      BY DEF GovInit, EmptyTree
    <3> QED BY <2>4, <3>1, <3>2 DEF OwnersBound, Stamped, GovInit
  <2> QED BY <2>1, <2>2, <2>5, <2>6, <2>7 DEF GovInv
<1>2. GovInv /\ [GovNext]_gvars => GovInv'
  <2> SUFFICES ASSUME GovInv, [GovNext]_gvars PROVE GovInv'
    OBVIOUS
  <2>1. ASSUME NEW from \in Account, NEW beneficiary \in Account, NEW owner \in Owner,
               NEW validUntil \in 0..(MaxHeight + SponsorshipLifetime + 1),
               RegisterStamp(from, beneficiary, owner, validUntil)
        PROVE  GovInv'
    BY <2>1, RegisterStampStep
  <2>2. ASSUME NEW from \in Account, NEW target \in Account, Vote(from, target)
        PROVE  GovInv'
    BY <2>2, VoteStep
  <2>3. ASSUME NEW from \in Account, NEW target \in Account, Unvote(from, target)
        PROVE  GovInv'
    BY <2>3, UnvoteStep
  <2>4. ASSUME NEW from \in Account, NEW to \in Account, NEW amount \in Amounts,
               Transfer(from, to, amount)
        PROVE  GovInv'
    BY <2>4, TransferStep
  <2>5. CASE GatedRegistryTx
    <3>1. RegistryTx /\ UNCHANGED <<stampVars, voteVars>>
      BY <2>5, GatedIsRegistry DEF GatedRegistryTx
    <3> QED BY <3>1, GatedStep
  <2>6. CASE SealBlock /\ UNCHANGED <<stampVars, voteVars>>
    BY <2>6, GatedStep
  <2>7. CASE UNCHANGED gvars
    BY <2>7, GatedStep DEF gvars
  <2> QED BY <2>1, <2>2, <2>3, <2>4, <2>5, <2>6, <2>7 DEF GovNext
<1> QED BY <1>1, <1>2, PTL DEF GovSpec

\* Type correctness of the stamp registry, the votes and the validator registry together.
THEOREM GovTypeCorrect == GovSpec => []GovTypeOK
<1>1. GovInv => GovTypeOK
  BY DEF GovInv, GovTypeOK, StampsOK, VotesOK, RegistryInv
<1> QED BY <1>1, GovInvariant, PTL

\* The stored vote count is the number of active votes and the suspended slot
\* follows it, whatever the order of AddressVote and AddressUnvote transactions.
THEOREM SuspensionCorrect == GovSpec => []SuspensionFollowsVotes
<1>1. GovInv => SuspensionFollowsVotes
  BY DEF GovInv
<1> QED BY <1>1, GovInvariant, PTL

\* The stamp registry binds addresses and owners one to one, holds one leaf per
\* stamped address, and every active vote is that of a stamped other account.
THEOREM OwnersCorrect == GovSpec => []OwnersBound
<1>1. GovInv => OwnersBound
  BY DEF GovInv
<1> QED BY <1>1, GovInvariant, PTL

\* Governance cannot unbalance the validator bonds: votes burn public balance
\* only, and a suspension leaves the bond where it is.
THEOREM GovBondsCorrect == GovSpec => []BondsAccounted
<1>1. GovInv => BondsAccounted
  BY DEF GovInv
<1> QED BY <1>1, GovInvariant, PTL

-----------------------------------------------------------------------------
(* What a suspension does *)

\* A registry transaction of an account the gate lets pass touches no suspended
\* account, and the slashing of a suspended account leaves its evidence.
LEMMA GateKeeps ==
    ASSUME GovInv, GatedRegistryTx, NEW s \in suspended
    PROVE  Frozen(s)
<1>0. /\ s \in Account /\ balance \in [Account -> Nat] /\ Bond \in Nat /\ RegistrationFee \in Nat
      /\ records \in [Account -> Record]
  BY Parameters DEF GovInv, VotesOK, RegistryInv, RegistryTypeOK, AccountTypeOK
<1>1. ASSUME NEW a \in Account, MayAct(a), NEW h \in Activations, Register(a, h)
      PROVE  Frozen(s)
  <2>1. s # a
    BY <1>1 DEF MayAct
  <2>2. records'[s] = records[s] /\ balance'[s] = balance[s]
    BY <1>0, <1>1, <2>1 DEF Register, Minus
  <2> QED BY <1>0, <2>2 DEF Frozen
<1>2. ASSUME NEW a \in Account, MayAct(a), Exit(a)
      PROVE  Frozen(s)
  <2>1. s # a
    BY <1>2 DEF MayAct
  <2>2. records'[s] = records[s] /\ balance'[s] = balance[s]
    BY <1>0, <1>2, <2>1 DEF Exit
  <2> QED BY <1>0, <2>2 DEF Frozen
<1>3. ASSUME NEW a \in Account, MayAct(a), Withdraw(a)
      PROVE  Frozen(s)
  <2>1. s # a
    BY <1>3 DEF MayAct
  <2>2. records'[s] = records[s] /\ balance'[s] = balance[s]
    BY <1>0, <1>3, <2>1 DEF Withdraw, Plus
  <2> QED BY <1>0, <2>2 DEF Frozen
<1>4. ASSUME NEW e \in Evidence, Slash(e)
      PROVE  Frozen(s)
  <2>1. e \in evidence' \ evidence
    BY <1>4 DEF Slash, SlashAllowed
  <2>2. s # e.validator => records'[s] = records[s]
    BY <1>0, <1>4, Parameters DEF Slash
  <2>3. balance'[s] = balance[s]
    BY <1>4 DEF Slash
  <2> QED BY <1>0, <2>1, <2>2, <2>3 DEF Frozen
<1> QED BY <1>1, <1>2, <1>3, <1>4 DEF GatedRegistryTx

\* A suspended account's bond and record stand still but for slashing, and its
\* balance falls, gas aside, only by what it burns with a vote or an unvote of its
\* own.
THEOREM FreezeCorrect == GovSpec => SuspensionFreezes
<1>1. ASSUME GovInv, GovNext, NEW s \in suspended
      PROVE  Frozen(s)
  <2>0. s \in Account /\ balance \in [Account -> Nat]
    BY <1>1 DEF GovInv, VotesOK, RegistryInv, RegistryTypeOK, AccountTypeOK
  <2>1. ASSUME NEW from \in Account, NEW beneficiary \in Account, NEW owner \in Owner,
               NEW validUntil \in 0..(MaxHeight + SponsorshipLifetime + 1),
               RegisterStamp(from, beneficiary, owner, validUntil)
        PROVE  Frozen(s)
    BY <2>0, <2>1 DEF RegisterStamp, rvars, accountVars, registryVars, Frozen
  <2>2. ASSUME NEW from \in Account, NEW target \in Account, Vote(from, target)
        PROVE  Frozen(s)
    <3>1. records'[s] = records[s]
      BY <2>2 DEF Vote, registryVars
    <3>2. CASE s = from
      <4>1. balance'[s] = balance[s] - VoteBurn
        BY <2>0, <2>2, <3>2 DEF Vote, Minus
      <4>2. <<target, stampOf[s]>> \notin votes /\ <<target, stampOf[s]>> \in votes'
        BY <2>2, <3>2 DEF Vote, VoteAllowed
      <4> QED BY <3>1, <4>1, <4>2 DEF Frozen
    <3>3. CASE s # from
      <4>1. balance'[s] = balance[s]
        BY <2>0, <2>2, <3>3 DEF Vote, Minus
      <4> QED BY <2>0, <3>1, <4>1 DEF Frozen
    <3> QED BY <3>2, <3>3
  <2>3. ASSUME NEW from \in Account, NEW target \in Account, Unvote(from, target)
        PROVE  Frozen(s)
    <3>1. records'[s] = records[s]
      BY <2>3 DEF Unvote, registryVars
    <3>2. CASE s = from
      <4>1. balance'[s] = balance[s] - VoteBurn
        BY <2>0, <2>3, <3>2 DEF Unvote, Minus
      <4>2. <<target, stampOf[s]>> \in votes /\ <<target, stampOf[s]>> \notin votes'
        BY <2>3, <3>2 DEF Unvote, UnvoteAllowed
      <4> QED BY <3>1, <4>1, <4>2 DEF Frozen
    <3>3. CASE s # from
      <4>1. balance'[s] = balance[s]
        BY <2>0, <2>3, <3>3 DEF Unvote, Minus
      <4> QED BY <2>0, <3>1, <4>1 DEF Frozen
    <3> QED BY <3>2, <3>3
  <2>4. ASSUME NEW from \in Account, NEW to \in Account, NEW amount \in Amounts,
               Transfer(from, to, amount)
        PROVE  Frozen(s)
    <3>1. records'[s] = records[s]
      BY <2>4 DEF Transfer, registryVars
    <3>2. s # from
      BY <2>4 DEF Transfer, MayAct
    <3>3. ~(balance'[s] < balance[s])
      BY <2>0, <2>4, <3>2, GovParameters DEF Transfer, Plus, Minus
    <3> QED BY <3>1, <3>3 DEF Frozen
  <2>5. CASE GatedRegistryTx
    BY <1>1, <2>5, GateKeeps
  <2>6. CASE SealBlock /\ UNCHANGED <<stampVars, voteVars>>
    BY <2>0, <2>6 DEF SealBlock, Frozen
  <2> QED BY <1>1, <2>1, <2>2, <2>3, <2>4, <2>5, <2>6 DEF GovNext
<1>2. GovInv /\ [GovNext]_gvars => [\A a \in suspended : Frozen(a)]_gvars
  BY <1>1
<1> QED BY <1>2, GovInvariant, PTL DEF GovSpec, SuspensionFreezes

-----------------------------------------------------------------------------
(* The stamp tree *)

\* The stamp tree is the node tree over the registered owners in some order.
StampsHeld == \E log : TreeHolds(stampTree, log, Owner)

\* Every registration appends one owner to the tree, and nothing else touches it.
LEMMA StampTreeStep ==
    ASSUME StampsHeld, [GovNext]_gvars
    PROVE  StampsHeld'
<1>1. PICK log : TreeHolds(stampTree, log, Owner)
  BY DEF StampsHeld
<1>2. ASSUME NEW from \in Account, NEW beneficiary \in Account, NEW owner \in Owner,
             NEW validUntil, RegisterStamp(from, beneficiary, owner, validUntil)
      PROVE  StampsHeld'
  <2>1. stampTree' = AppendLeaf(stampTree, owner, owner) /\ stampTree.next < Capacity
    BY <1>2 DEF RegisterStamp, HasRoom
  <2>2. Len(log) < Capacity
    BY <1>1, <2>1 DEF TreeHolds
  <2>3. TreeHolds(AppendLeaf(stampTree, owner, owner), Append(log, owner), Owner)
    BY <1>1, <2>2, AppendLeafHolds
  <2>4. TreeHolds(stampTree', Append(log, owner), Owner)
    BY <2>1, <2>3
  <2> QED BY <2>4 DEF StampsHeld
<1>3. ASSUME stampTree' = stampTree PROVE StampsHeld'
  <2>1. TreeHolds(stampTree', log, Owner)
    BY <1>1, <1>3
  <2> QED BY <2>1 DEF StampsHeld
<1>4. ASSUME NEW from \in Account, NEW target \in Account, Vote(from, target) \/ Unvote(from, target)
      PROVE  stampTree' = stampTree
  BY <1>4 DEF Vote, Unvote, stampVars
<1>5. ASSUME NEW from \in Account, NEW to \in Account, NEW amount \in Amounts,
             Transfer(from, to, amount)
      PROVE  stampTree' = stampTree
  BY <1>5 DEF Transfer, stampVars
<1>6. CASE GatedRegistryTx
  BY <1>3, <1>6 DEF GatedRegistryTx, stampVars
<1>7. CASE SealBlock /\ UNCHANGED <<stampVars, voteVars>>
  BY <1>3, <1>7 DEF stampVars
<1>8. CASE UNCHANGED gvars
  BY <1>3, <1>8 DEF gvars, stampVars
<1> QED BY <1>2, <1>3, <1>4, <1>5, <1>6, <1>7, <1>8 DEF GovNext

\* appendAntarticalStamp keeps every node, stored or absent, the node of the
\* complete tree over the registered owners.
THEOREM StampTreeCorrect == GovSpec => []StampsHeld
<1>1. GovInit => StampsHeld
  BY EmptyTreeHolds DEF GovInit, StampsHeld
<1> QED BY <1>1, StampTreeStep, PTL DEF GovSpec

\* ProcessAntarticalStamp binds addresses and owners one to one, and the path that
\* AntarticalStampPath serves to a stamped owner leads to the current root.
THEOREM StampsCorrect == GovSpec => []StampsBindOwners
<1>1. ASSUME GovInv, StampsHeld PROVE StampsBindOwners
  <2>1. OwnersBound
    BY <1>1 DEF GovInv
  <2>2. ASSUME NEW a \in Account, IsStamped(a)
        PROVE  RootOf(stampTree.indexOf[stampOf[a]] - 1, stampOf[a],
                      Path(stampTree, stampOf[a])) = stampTree.root
    <3>1. PICK log : TreeHolds(stampTree, log, Owner)
      BY <1>1 DEF StampsHeld
    <3>2. stampOf[a] \in ToSet(log)
      BY <2>1, <2>2, <3>1 DEF OwnersBound, TreeHolds, IndexFinds
    <3> QED BY <3>1, <3>2, PathsLeadToRoot
  <2> QED BY <2>1, <2>2 DEF StampsBindOwners
<1> QED BY <1>1, GovInvariant, StampTreeCorrect, PTL
=============================================================================
