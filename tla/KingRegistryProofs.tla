------------------------- MODULE KingRegistryProofs -------------------------
(***************************************************************************)
(* Proofs about the rotating kings.  KingInv is the inductive invariant: of *)
(* every node, the registry by itself, the two database records by          *)
(* themselves, the registry beside the records while the process runs, the  *)
(* registry beside the engine, and the heights at which registrations       *)
(* become active.                                                           *)
(***************************************************************************)
EXTENDS KingRegistry, Induction, SequenceTheorems

Locks == [Address -> Lock \cup {NoLock}]
Registries == [kings : Seq(Address), locks : Locks]
Stores == [kings : Seq(Address), locks : [order : Seq(Address), locks : Locks]]
Engines == [kings : Seq(Address), activation : [Address -> Nat]]
Requests == [address : Address, via : {"rpc", "peer"}]
Messages == [to : Node, address : Address]

\* A registry by itself: every king is listed once, and who has a lock is listed.
\* (Kings of a legacy marker have none.)
RegistrySound(R) ==
    /\ R \in Registries
    /\ IsInjective(R.kings)
    /\ Locked(R.locks) \subseteq ToSet(R.kings)

\* While the process runs, the record of the locks is the registry's; the record of
\* the addresses may list others, but has those with a lock in the same order.
StoreSound(R, D) ==
    /\ D.locks = LocksRecord(R)
    /\ Kept(D.kings, Locked(R.locks)) = Kept(R.kings, Locked(R.locks))

\* Nothing becomes active later than at the boundary that follows the block h.
DueBy(R, h) == \A a \in Locked(R.locks) : R.locks[a].activation <= NextActivation(h)
MarkerDue(marker, h) == marker # NoMarker => marker.activation <= NextActivation(h)

\* The stored locks that the next pruning leaves.
Live(locks, h) == Locked(locks) \ DueAt(locks, h)

\* The records by themselves, between two writes too: the order of the locks is that
\* of the locks, and the addresses have those that are not due in the same order.
DiskSound(D, h) ==
    /\ D \in Stores
    /\ IsInjective(D.kings) /\ IsInjective(D.locks.order)
    /\ ToSet(D.locks.order) = Locked(D.locks.locks)
    /\ Kept(D.kings, Live(D.locks.locks, h)) = Kept(D.locks.order, Live(D.locks.locks, h))
    /\ DueBy(D.locks, h)

\* The engine knows every king of the registry, and not later than its lock says.
Covers(E, R) ==
    /\ E \in Engines
    /\ IsInjective(E.kings)
    /\ \A a \in ToSet(R.kings) :
        /\ a \in ToSet(E.kings)
        /\ R.locks[a] # NoLock => E.activation[a] <= R.locks[a].activation

NodeSound(n) ==
    /\ RegistrySound(registry[n])
    /\ up[n] => StoreSound(registry[n], disk[n])
    /\ DiskSound(disk[n], height[n])
    /\ Covers(engine[n], registry[n])
    /\ DueBy(registry[n], height[n])
    /\ MarkerDue(extra[n], height[n])

NodesTyped ==
    /\ registry \in [Node -> Registries]
    /\ disk \in [Node -> Stores]
    /\ engine \in [Node -> Engines]
    /\ extra \in [Node -> Marker \cup {NoMarker}]
    /\ height \in [Node -> Nat]
    /\ up \in [Node -> BOOLEAN]

NodesSound == NodesTyped /\ \A n \in Node : NodeSound(n)

NetSound ==
    /\ \A n \in Node : height[n] <= Len(headers)
    /\ pending \in [Node -> SUBSET Requests]
    /\ headers \in Seq(Marker \cup {NoMarker})
    /\ Len(headers) <= MaxHeight
    /\ \A k \in 1..Len(headers) : MarkerDue(headers[k], k)
    /\ balance \in [Address -> 0..2]
    /\ net \subseteq Messages
    /\ events \in Nat

KingInv == NetSound /\ NodesSound

(***************************************************************************)
(* Sequences                                                               *)
(***************************************************************************)
\* Induction over sequences, at their end.
LEMMA InductionOnSequences ==
  ASSUME NEW U, NEW T, <<>> \in T,
         \A s \in Seq(U), a \in U : s \in T => Append(s, a) \in T
  PROVE  Seq(U) \subseteq T
<1> DEFINE K == {n \in Nat : \A s \in Seq(U) : Len(s) = n => s \in T}
<1>1. 0 \in K
  <2>1. \A s \in Seq(U) : Len(s) = 0 => s = <<>>
    BY EmptySeq
  <2> QED BY <2>1
<1>2. ASSUME NEW n \in Nat, n \in K PROVE n + 1 \in K
  <2>1. SUFFICES ASSUME NEW s \in Seq(U), Len(s) = n + 1 PROVE s \in T
    BY <1>2
  <2>2. s # <<>>
    BY <2>1, EmptySeq
  <2>3. PICK r \in Seq(U), a \in U : s = Append(r, a)
    BY <2>2, SequenceEmptyOrAppend
  <2>4. Len(r) = n
    BY <2>1, <2>3, AppendProperties
  <2> QED BY <1>2, <2>3, <2>4
<1>3. Nat \subseteq K
  <2> HIDE DEF K
  <2> QED BY <1>1, <1>2, InductionOnNaturals
<1>4. ASSUME NEW s \in Seq(U) PROVE s \in T
  <2>1. Len(s) \in Nat /\ Len(s) \in K
    BY <1>3, LenProperties
  <2> QED BY <2>1
<1> QED BY <1>4

\* What Append does to members and to repetitions.
LEMMA AppendMembers ==
  ASSUME NEW U, NEW s \in Seq(U), NEW a \in U
  PROVE  /\ Append(s, a) \in Seq(U)
         /\ ToSet(Append(s, a)) = ToSet(s) \cup {a}
         /\ IsInjective(s) /\ a \notin ToSet(s) => IsInjective(Append(s, a))
         /\ IsInjective(Append(s, a)) => IsInjective(s) /\ a \notin ToSet(s)
<1> DEFINE r == Append(s, a)
<1>1. /\ r \in Seq(U) /\ Len(r) = Len(s) + 1 /\ Len(s) \in Nat
      /\ DOMAIN r = 1..(Len(s) + 1) /\ DOMAIN s = 1..Len(s)
      /\ \A i \in 1..Len(s) : r[i] = s[i]
      /\ r[Len(s) + 1] = a
  BY AppendProperties, LenProperties
<1> HIDE DEF r
<1>2. ToSet(r) = ToSet(s) \cup {a}
  <2>1. ASSUME NEW x \in ToSet(r) PROVE x \in ToSet(s) \cup {a}
    <3>1. PICK i \in 1..(Len(s) + 1) : x = r[i]
      BY <1>1 DEF ToSet
    <3>2. CASE i = Len(s) + 1
      BY <3>1, <3>2, <1>1
    <3>3. CASE i \in 1..Len(s)
      BY <3>1, <3>3, <1>1 DEF ToSet
    <3> QED BY <3>2, <3>3, <1>1
  <2>2. ASSUME NEW x \in ToSet(s) PROVE x \in ToSet(r)
    <3>1. PICK i \in 1..Len(s) : x = s[i]
      BY <1>1 DEF ToSet
    <3>2. i \in DOMAIN r /\ x = r[i]
      BY <1>1, <3>1
    <3> QED BY <3>2 DEF ToSet
  <2>3. a \in ToSet(r)
    <3>1. Len(s) + 1 \in DOMAIN r
      BY <1>1
    <3> QED BY <3>1, <1>1 DEF ToSet
  <2> QED BY <2>1, <2>2, <2>3
<1>3. ASSUME IsInjective(s), a \notin ToSet(s) PROVE IsInjective(r)
  <2>1. \A i \in 1..Len(s) : s[i] # a
    BY <1>1, <1>3 DEF ToSet
  <2>2. \A i, j \in 1..Len(s) : s[i] = s[j] => i = j
    BY <1>1, <1>3 DEF IsInjective
  <2>3. SUFFICES ASSUME NEW i \in 1..(Len(s) + 1), NEW j \in 1..(Len(s) + 1), r[i] = r[j] PROVE i = j
    BY <1>1 DEF IsInjective
  <2> QED BY <1>1, <2>1, <2>2, <2>3
<1>4. ASSUME IsInjective(r) PROVE IsInjective(s) /\ a \notin ToSet(s)
  <2>1. \A i, j \in 1..(Len(s) + 1) : r[i] = r[j] => i = j
    BY <1>1, <1>4 DEF IsInjective
  <2>2. \A i, j \in 1..Len(s) : s[i] = s[j] => i = j
    BY <1>1, <2>1
  <2>3. \A i \in 1..Len(s) : s[i] # a
    BY <1>1, <2>1
  <2> QED BY <1>1, <2>2, <2>3 DEF IsInjective, ToSet
<1> QED BY <1>1, <1>2, <1>3, <1>4 DEF r

\* The function behind Kept: what is kept of every prefix.
KeepsPrefixes(f, U, s, S) ==
    /\ f \in [0..Len(s) -> Seq(U)]
    /\ f[0] = <<>>
    /\ \A i \in 1..Len(s) :
        f[i] = IF s[i] \in S THEN Append(f[i - 1], s[i]) ELSE f[i - 1]
    /\ Kept(s, S) = f[Len(s)]

LEMMA KeptUnfolds ==
  ASSUME NEW U, NEW s \in Seq(U), NEW S
  PROVE  \E f : KeepsPrefixes(f, U, s, S)
<1> DEFINE N == Len(s)
           Body(f) == [i \in 0..N |->
              IF i = 0 THEN <<>> ELSE IF s[i] \in S THEN Append(f[i - 1], s[i]) ELSE f[i - 1]]
           step == [i \in 1..N |-> [x \in Seq(U) |-> IF s[i] \in S THEN Append(x, s[i]) ELSE x]]
<1>1. N \in Nat /\ \A i \in 1..N : s[i] \in U
  BY LenProperties, ElementOfSeq
<1>2. step \in [1..N -> [Seq(U) -> Seq(U)]]
  BY <1>1, AppendProperties
<1>3. <<>> \in Seq(U)
  BY EmptySeq
<1>4. PICK f \in [0..N -> Seq(U)] : f[0] = <<>> /\ \A k \in 1..N : f[k] = step[k][f[k - 1]]
  <2> DEFINE T == Seq(U)
             e == <<>>
  <2>1. N \in Nat /\ e \in T /\ step \in [1..N -> [T -> T]]
    BY <1>1, <1>2, <1>3
  <2> HIDE DEF N, step, T, e, Body
  <2>2. \E f : Iterates(f, N, T, e, step)
    <3>1. N \in Nat
      BY <2>1
    <3>2. e \in T
      BY <2>1
    <3>3. step \in [1..N -> [T -> T]]
      BY <2>1
    <3> QED BY ONLY <3>1, <3>2, <3>3, RecursionOnPrefix, Zenon
  <2> QED BY <2>2 DEF T, e, Iterates
<1>5. \A k \in 1..N : f[k] = IF s[k] \in S THEN Append(f[k - 1], s[k]) ELSE f[k - 1]
  <2>1. TAKE k \in 1..N
  <2>2. k - 1 \in 0..N
    BY <1>1
  <2> QED BY <1>4, <2>2
<1>6. f = Body(f)
  <2>1. \A k \in 0..N : f[k] = Body(f)[k]
    <3>1. Body(f)[0] = <<>>
      BY <1>1
    <3>2. ASSUME NEW k \in 1..N PROVE f[k] = Body(f)[k]
      <4>1. k \in 0..N /\ k # 0
        BY <1>1
      <4> QED BY <4>1, <1>5
    <3>3. \A k \in 0..N : k = 0 \/ k \in 1..N
      BY <1>1
    <3> HIDE DEF Body, N
    <3> QED BY <1>4, <3>1, <3>2, <3>3
  <2> QED BY <2>1
<1> DEFINE g == CHOOSE g : g = Body(g)
<1>7. g = Body(g)
  BY <1>6
<1>8. Kept(s, S) = g[N]
  BY DEF Kept
<1> HIDE DEF g
<1>9. /\ g[0] = <<>>
      /\ \A k \in 1..N : g[k] = IF s[k] \in S THEN Append(g[k - 1], s[k]) ELSE g[k - 1]
      /\ DOMAIN g = 0..N
  <2>1. DOMAIN g = 0..N
    BY <1>7
  <2>2. \A k \in 0..N : g[k] = Body(g)[k]
    BY <1>7
  <2>3. g[0] = <<>>
    BY <1>1, <2>2
  <2>4. ASSUME NEW k \in 1..N
        PROVE  g[k] = IF s[k] \in S THEN Append(g[k - 1], s[k]) ELSE g[k - 1]
    <3>1. k \in 0..N /\ k # 0
      BY <1>1
    <3> QED BY <2>2, <3>1
  <2> QED BY <2>1, <2>3, <2>4
<1>10. \A k \in 0..N : g[k] \in Seq(U)
  <2> DEFINE K == {k \in Nat : k <= N => g[k] \in Seq(U)}
  <2>1. 0 \in K
    BY <1>9, <1>3
  <2>2. ASSUME NEW k \in Nat, k \in K PROVE k + 1 \in K
    <3>1. SUFFICES ASSUME k + 1 <= N PROVE g[k + 1] \in Seq(U)
      OBVIOUS
    <3>2. k + 1 \in 1..N /\ (k + 1) - 1 = k /\ g[k] \in Seq(U)
      BY <3>1, <2>2, <1>1
    <3>3. g[k + 1] = IF s[k + 1] \in S THEN Append(g[k], s[k + 1]) ELSE g[k]
      BY <3>2, <1>9
    <3>4. s[k + 1] \in U
      BY <3>2, <1>1
    <3> HIDE DEF K, N
    <3> QED BY ONLY <3>2, <3>3, <3>4, AppendProperties
  <2>3. Nat \subseteq K
    <3> HIDE DEF K
    <3> QED BY <2>1, <2>2, InductionOnNaturals
  <2> QED BY <2>3, <1>1
<1>11. g \in [0..N -> Seq(U)]
  <2>1. g = [k \in 0..N |-> g[k]]
    BY <1>7
  <2> QED BY <1>10, <2>1
<1> QED BY <1>8, <1>9, <1>11 DEF KeepsPrefixes

LEMMA KeptType ==
  ASSUME NEW U, NEW s \in Seq(U), NEW S
  PROVE  Kept(s, S) \in Seq(U)
<1>1. PICK f : f \in [0..Len(s) -> Seq(U)] /\ Kept(s, S) = f[Len(s)]
  BY KeptUnfolds DEF KeepsPrefixes
<1>2. Len(s) \in 0..Len(s)
  BY LenProperties
<1> QED BY <1>1, <1>2

LEMMA KeptOfNothing == \A S : Kept(<<>>, S) = <<>>
<1>1. TAKE S
<1>2. <<>> \in Seq({}) /\ Len(<<>>) = 0
  BY EmptySeq
<1>3. PICK f : KeepsPrefixes(f, {}, <<>>, S)
  BY <1>2, KeptUnfolds
<1> QED BY <1>2, <1>3 DEF KeepsPrefixes

\* Kept, one member at a time.
LEMMA KeptOfAppend ==
  ASSUME NEW U, NEW s \in Seq(U), NEW a \in U, NEW S
  PROVE  Kept(Append(s, a), S) = IF a \in S THEN Append(Kept(s, S), a) ELSE Kept(s, S)
<1> DEFINE r == Append(s, a)
           N == Len(s)
<1>1. /\ r \in Seq(U) /\ Len(r) = N + 1 /\ N \in Nat
      /\ \A i \in 1..N : r[i] = s[i]
      /\ r[N + 1] = a
  BY AppendProperties, LenProperties
<1> HIDE DEF r
<1>2. PICK f : KeepsPrefixes(f, U, s, S)
  BY KeptUnfolds
<1>3. PICK g : KeepsPrefixes(g, U, r, S)
  BY <1>1, KeptUnfolds
<1> HIDE DEF N
<1> DEFINE K == {k \in Nat : k <= N => g[k] = f[k]}
<1>4. 0 \in K
  BY <1>2, <1>3 DEF KeepsPrefixes
<1>5. ASSUME NEW k \in Nat, k \in K PROVE k + 1 \in K
  <2>1. SUFFICES ASSUME k + 1 <= N PROVE g[k + 1] = f[k + 1]
    OBVIOUS
  <2>2. k <= N /\ k + 1 \in 1..N /\ k + 1 \in 1..Len(r) /\ (k + 1) - 1 = k
    BY <1>1, <2>1
  <2>6. g[k] = f[k]
    BY <1>5, <2>2
  <2>3. f[k + 1] = IF s[k + 1] \in S THEN Append(f[k], s[k + 1]) ELSE f[k]
    BY <2>2, <1>2 DEF KeepsPrefixes, N
  <2>4. g[k + 1] = IF r[k + 1] \in S THEN Append(g[k], r[k + 1]) ELSE g[k]
    BY <2>2, <1>3 DEF KeepsPrefixes
  <2>5. r[k + 1] = s[k + 1]
    BY <2>2, <1>1
  <2> QED BY ONLY <2>6, <2>3, <2>4, <2>5
<1>6. g[N] = f[N]
  <2>1. Nat \subseteq K
    <3> HIDE DEF K
    <3> QED BY <1>4, <1>5, InductionOnNaturals
  <2> QED BY <2>1, <1>1
<1>7. N + 1 \in 1..Len(r) /\ (N + 1) - 1 = N
  BY <1>1
<1>8. g[N + 1] = IF a \in S THEN Append(g[N], a) ELSE g[N]
  BY <1>1, <1>3, <1>7 DEF KeepsPrefixes
<1>9. Kept(r, S) = g[N + 1] /\ Kept(s, S) = f[N]
  BY <1>1, <1>2, <1>3 DEF KeepsPrefixes, N
<1> QED BY ONLY <1>6, <1>8, <1>9 DEF r

\* The members that are kept are those of S; none is kept twice.
LEMMA KeptMembers ==
  ASSUME NEW U, NEW S, NEW s \in Seq(U)
  PROVE  /\ ToSet(Kept(s, S)) = ToSet(s) \cap S
         /\ IsInjective(s) => IsInjective(Kept(s, S))
<1> DEFINE T == {t \in Seq(U) : /\ ToSet(Kept(t, S)) = ToSet(t) \cap S
                                /\ IsInjective(t) => IsInjective(Kept(t, S))}
<1>1. <<>> \in T
  <2>1. <<>> \in Seq(U) /\ ToSet(<<>>) = {}
    BY DEF ToSet
  <2> QED BY <2>1, KeptOfNothing
<1>2. ASSUME NEW t \in Seq(U), NEW a \in U, t \in T PROVE Append(t, a) \in T
  <2> DEFINE r == Append(t, a)
             k == Kept(t, S)
  <2>1. /\ r \in Seq(U) /\ ToSet(r) = ToSet(t) \cup {a}
        /\ IsInjective(r) => IsInjective(t) /\ a \notin ToSet(t)
    BY AppendMembers
  <2>2. k \in Seq(U) /\ ToSet(k) = ToSet(t) \cap S /\ (IsInjective(t) => IsInjective(k))
    BY <1>2, KeptType
  <2>3. Kept(r, S) = IF a \in S THEN Append(k, a) ELSE k
    BY KeptOfAppend
  <2> HIDE DEF r, k
  <2>4. /\ ToSet(Append(k, a)) = ToSet(k) \cup {a}
        /\ IsInjective(k) /\ a \notin ToSet(k) => IsInjective(Append(k, a))
    BY <2>2, AppendMembers
  <2>5. ToSet(Kept(r, S)) = ToSet(r) \cap S
    BY <2>1, <2>2, <2>3, <2>4
  <2>6. IsInjective(r) => IsInjective(Kept(r, S))
    BY <2>1, <2>2, <2>3, <2>4
  <2> QED BY <2>1, <2>5, <2>6 DEF r
<1> HIDE DEF T
<1>3. Seq(U) \subseteq T
  BY <1>1, <1>2, InductionOnSequences
<1> QED BY <1>3 DEF T

\* Keeping every member changes nothing.
LEMMA KeptWhole ==
  ASSUME NEW U, NEW S, NEW s \in Seq(U), ToSet(s) \subseteq S
  PROVE  Kept(s, S) = s
<1> DEFINE T == {t \in Seq(U) : ToSet(t) \subseteq S => Kept(t, S) = t}
<1>1. <<>> \in T
  BY KeptOfNothing
<1>2. ASSUME NEW t \in Seq(U), NEW a \in U, t \in T PROVE Append(t, a) \in T
  <2>1. Append(t, a) \in Seq(U) /\ ToSet(Append(t, a)) = ToSet(t) \cup {a}
    BY AppendMembers
  <2>2. Kept(Append(t, a), S) = IF a \in S THEN Append(Kept(t, S), a) ELSE Kept(t, S)
    BY KeptOfAppend
  <2> QED BY <1>2, <2>1, <2>2
<1> HIDE DEF T
<1>3. Seq(U) \subseteq T
  BY <1>1, <1>2, InductionOnSequences
<1> QED BY <1>3 DEF T

\* Keeping twice is keeping the intersection.
LEMMA KeptTwice ==
  ASSUME NEW U, NEW S, NEW V, NEW s \in Seq(U)
  PROVE  Kept(Kept(s, S), V) = Kept(s, S \cap V)
<1> DEFINE T == {t \in Seq(U) : Kept(Kept(t, S), V) = Kept(t, S \cap V)}
<1>1. <<>> \in T
  BY KeptOfNothing
<1>2. ASSUME NEW t \in Seq(U), NEW a \in U, t \in T PROVE Append(t, a) \in T
  <2> DEFINE k == Kept(t, S)
  <2>1. Append(t, a) \in Seq(U) /\ k \in Seq(U)
    BY AppendMembers, KeptType
  <2>2. Kept(Append(t, a), S) = IF a \in S THEN Append(k, a) ELSE k
    BY KeptOfAppend
  <2>3. Kept(Append(t, a), S \cap V) = IF a \in S \cap V THEN Append(Kept(t, S \cap V), a) ELSE Kept(t, S \cap V)
    BY KeptOfAppend
  <2>4. Kept(k, V) = Kept(t, S \cap V)
    BY <1>2
  <2> HIDE DEF k
  <2>5. Kept(Append(k, a), V) = IF a \in V THEN Append(Kept(k, V), a) ELSE Kept(k, V)
    BY <2>1, KeptOfAppend
  <2>6. Kept(Kept(Append(t, a), S), V) = Kept(Append(t, a), S \cap V)
    <3>1. CASE a \in S
      <4>1. Kept(Append(t, a), S) = Append(k, a)
        BY <2>2, <3>1
      <4>2. CASE a \in V
        <5>1. Kept(Append(k, a), V) = Append(Kept(k, V), a)
          BY <2>5, <4>2
        <5>2. Kept(Append(t, a), S \cap V) = Append(Kept(t, S \cap V), a)
          BY <2>3, <3>1, <4>2
        <5> QED BY ONLY <4>1, <5>1, <5>2, <2>4, Zenon
      <4>3. CASE a \notin V
        <5>1. Kept(Append(k, a), V) = Kept(k, V)
          BY <2>5, <4>3
        <5>2. Kept(Append(t, a), S \cap V) = Kept(t, S \cap V)
          BY <2>3, <4>3
        <5> QED BY ONLY <4>1, <5>1, <5>2, <2>4, Zenon
      <4> QED BY <4>2, <4>3
    <3>2. CASE a \notin S
      BY <2>2, <2>3, <2>4, <3>2
    <3> QED BY <3>1, <3>2
  <2> QED BY <2>1, <2>6
<1> HIDE DEF T
<1>3. Seq(U) \subseteq T
  BY <1>1, <1>2, InductionOnSequences
<1> QED BY <1>3 DEF T

\* Only the members count.
LEMMA KeptSame ==
  ASSUME NEW U, NEW S, NEW V, NEW s \in Seq(U), ToSet(s) \cap S = ToSet(s) \cap V
  PROVE  Kept(s, S) = Kept(s, V)
<1>1. Kept(s, ToSet(s)) = s
  BY KeptWhole
<1>2. Kept(Kept(s, ToSet(s)), S) = Kept(s, ToSet(s) \cap S)
  BY KeptTwice
<1>3. Kept(Kept(s, ToSet(s)), V) = Kept(s, ToSet(s) \cap V)
  BY KeptTwice
<1> QED BY <1>1, <1>2, <1>3

\* Keeping no member leaves nothing.
LEMMA KeptNone ==
  ASSUME NEW U, NEW S, NEW s \in Seq(U), ToSet(s) \cap S = {}
  PROVE  Kept(s, S) = <<>>
<1>1. Kept(s, S) \in Seq(U) /\ ToSet(Kept(s, S)) = {}
  BY KeptType, KeptMembers
<1> DEFINE k == Kept(s, S)
<1> HIDE DEF k
<1>2. k \in Seq(U) /\ ToSet(k) = {}
  BY <1>1 DEF k
<1>3. Len(k) = 0
  <2>1. Len(k) \in Nat /\ DOMAIN k = 1..Len(k)
    BY <1>2, LenProperties
  <2>2. Len(k) # 0 => 1 \in DOMAIN k
    BY <2>1
  <2> QED BY <1>2, <2>1, <2>2 DEF ToSet
<1> QED BY <1>2, <1>3, EmptySeq DEF k

\* The length of a list without repetitions is the number of its members.
LEMMA LengthOfInjective ==
  ASSUME NEW U, NEW s \in Seq(U), IsInjective(s)
  PROVE  Len(s) = Cardinality(ToSet(s))
<1> DEFINE T == {t \in Seq(U) :
                   IsInjective(t) => /\ IsFiniteSet(ToSet(t))
                                     /\ Len(t) = Cardinality(ToSet(t))}
<1>1. <<>> \in T
  <2>1. <<>> \in Seq(U) /\ ToSet(<<>>) = {} /\ Len(<<>>) = 0
    BY DEF ToSet
  <2> QED BY <2>1, FS_EmptySet
<1>2. ASSUME NEW t \in Seq(U), NEW a \in U, t \in T PROVE Append(t, a) \in T
  <2>1. /\ Append(t, a) \in Seq(U) /\ ToSet(Append(t, a)) = ToSet(t) \cup {a}
        /\ IsInjective(Append(t, a)) => IsInjective(t) /\ a \notin ToSet(t)
    BY AppendMembers
  <2>2. Len(Append(t, a)) = Len(t) + 1 /\ Len(t) \in Nat
    BY AppendProperties, LenProperties
  <2>3. ASSUME IsInjective(Append(t, a))
        PROVE  /\ IsFiniteSet(ToSet(t) \cup {a})
               /\ Cardinality(ToSet(t) \cup {a}) = Len(t) + 1
    <3>1. IsFiniteSet(ToSet(t)) /\ Len(t) = Cardinality(ToSet(t)) /\ a \notin ToSet(t)
      BY <1>2, <2>1, <2>3
    <3> QED BY <3>1, FS_AddElement
  <2> QED BY <2>1, <2>2, <2>3
<1> HIDE DEF T
<1>3. Seq(U) \subseteq T
  BY <1>1, <1>2, InductionOnSequences
<1> QED BY <1>3 DEF T

\* Append after a concatenation.
LEMMA AppendOfConcat ==
  ASSUME NEW U, NEW s \in Seq(U), NEW t \in Seq(U), NEW a \in U
  PROVE  s \o Append(t, a) = Append(s \o t, a)
<1>1. <<a>> \in Seq(U)
  OBVIOUS
<1>2. s \o t \in Seq(U)
  BY ConcatProperties
<1>3. Append(t, a) = t \o <<a>> /\ Append(s \o t, a) = (s \o t) \o <<a>>
  BY <1>2, AppendIsConcat
<1>4. (s \o t) \o <<a>> = s \o (t \o <<a>>)
  BY <1>1, ConcatAssociative
<1> QED BY <1>3, <1>4

\* What is kept of two lists, one after the other.
LEMMA KeptOfConcat ==
  ASSUME NEW U, NEW S, NEW s \in Seq(U), NEW t \in Seq(U)
  PROVE  Kept(s \o t, S) = Kept(s, S) \o Kept(t, S)
<1> DEFINE T == {r \in Seq(U) : Kept(s \o r, S) = Kept(s, S) \o Kept(r, S)}
           k == Kept(s, S)
<1>0. k \in Seq(U)
  BY KeptType
<1>1. <<>> \in T
  <2>1. s \o <<>> = s /\ k \o <<>> = k
    BY <1>0, ConcatEmptySeq
  <2>2. Kept(s \o <<>>, S) = Kept(s, S) \o Kept(<<>>, S)
    BY <2>1, KeptOfNothing
  <2> QED BY <2>2
<1>2. ASSUME NEW r \in Seq(U), NEW a \in U, r \in T PROVE Append(r, a) \in T
  <2> DEFINE x == s \o r
             y == Kept(r, S)
  <2>1. Kept(x, S) = k \o y /\ y \in Seq(U) /\ x \in Seq(U) /\ Append(r, a) \in Seq(U)
    BY <1>2, KeptType, ConcatProperties, AppendProperties
  <2>2. s \o Append(r, a) = Append(x, a)
    BY AppendOfConcat
  <2>3. k \o Append(y, a) = Append(k \o y, a)
    BY <1>0, <2>1, AppendOfConcat
  <2>4. Kept(Append(r, a), S) = IF a \in S THEN Append(y, a) ELSE y
    BY KeptOfAppend
  <2> HIDE DEF x, y, k
  <2>5. Kept(Append(x, a), S) = IF a \in S THEN Append(Kept(x, S), a) ELSE Kept(x, S)
    <3>1. x \in Seq(U)
      BY <2>1
    <3>2. a \in U
      OBVIOUS
    <3> QED BY ONLY <3>1, <3>2, KeptOfAppend
  <2>6. Kept(s \o Append(r, a), S) = k \o Kept(Append(r, a), S)
    <3>1. CASE a \in S
      <4>1. Kept(Append(r, a), S) = Append(y, a) /\ Kept(Append(x, a), S) = Append(k \o y, a)
        BY <2>1, <2>4, <2>5, <3>1
      <4> QED BY ONLY <2>2, <2>3, <4>1
    <3>2. CASE a \notin S
      <4>1. Kept(Append(r, a), S) = y /\ Kept(Append(x, a), S) = k \o y
        BY <2>1, <2>4, <2>5, <3>2
      <4> QED BY ONLY <2>2, <4>1
    <3> QED BY <3>1, <3>2
  <2> QED BY <2>1, <2>6 DEF k
<1>3. Seq(U) \subseteq T
  <2> HIDE DEF T
  <2> QED BY <1>1, <1>2, InductionOnSequences
<1> QED BY <1>3

\* Two lists without a common member, one after the other.
LEMMA ConcatMembers ==
  ASSUME NEW U, NEW s \in Seq(U), NEW t \in Seq(U)
  PROVE  /\ s \o t \in Seq(U)
         /\ ToSet(s \o t) = ToSet(s) \cup ToSet(t)
         /\ IsInjective(s) /\ IsInjective(t) /\ ToSet(s) \cap ToSet(t) = {} => IsInjective(s \o t)
<1> DEFINE T == {r \in Seq(U) :
                   /\ ToSet(s \o r) = ToSet(s) \cup ToSet(r)
                   /\ IsInjective(s) /\ IsInjective(r) /\ ToSet(s) \cap ToSet(r) = {}
                        => IsInjective(s \o r)}
<1>1. <<>> \in T
  <2>1. s \o <<>> = s /\ ToSet(<<>>) = {} /\ <<>> \in Seq(U)
    BY ConcatEmptySeq DEF ToSet
  <2> QED BY <2>1
<1>2. ASSUME NEW r \in Seq(U), NEW a \in U, r \in T PROVE Append(r, a) \in T
  <2> DEFINE x == s \o r
             y == Append(r, a)
  <2>1. x \in Seq(U) /\ y \in Seq(U) /\ s \o y = Append(x, a)
    BY ConcatProperties, AppendProperties, AppendOfConcat
  <2>2. /\ ToSet(x) = ToSet(s) \cup ToSet(r)
        /\ IsInjective(s) /\ IsInjective(r) /\ ToSet(s) \cap ToSet(r) = {} => IsInjective(x)
    BY <1>2
  <2>3. ToSet(y) = ToSet(r) \cup {a} /\ (IsInjective(y) => IsInjective(r) /\ a \notin ToSet(r))
    BY AppendMembers
  <2> HIDE DEF x, y
  <2>4. /\ ToSet(Append(x, a)) = ToSet(x) \cup {a}
        /\ IsInjective(x) /\ a \notin ToSet(x) => IsInjective(Append(x, a))
    BY <2>1, AppendMembers
  <2>5. ToSet(s \o y) = ToSet(s) \cup ToSet(y)
    BY <2>1, <2>2, <2>3, <2>4
  <2>6. ASSUME IsInjective(s), IsInjective(y), ToSet(s) \cap ToSet(y) = {}
        PROVE  IsInjective(s \o y)
    <3>1. IsInjective(r) /\ a \notin ToSet(r) /\ a \notin ToSet(s) /\ ToSet(s) \cap ToSet(r) = {}
      BY <2>3, <2>6
    <3>2. IsInjective(x) /\ a \notin ToSet(x)
      BY <2>2, <2>6, <3>1
    <3> QED BY <2>1, <2>4, <3>2
  <2> QED BY <2>1, <2>5, <2>6 DEF y
<1>3. Seq(U) \subseteq T
  <2> HIDE DEF T
  <2> QED BY <1>1, <1>2, InductionOnSequences
<1> QED BY <1>3, ConcatProperties

(***************************************************************************)
(* Registries, their stores and their engines                              *)
(***************************************************************************)
\* Boundaries are in the order of the blocks, and the next one is after the block.
LEMMA Boundaries ==
  ASSUME NEW h \in Nat, NEW g \in Nat, h <= g
  PROVE  /\ NextActivation(h) \in Nat /\ h < NextActivation(h)
         /\ NextActivation(h) <= NextActivation(g)
         /\ h \div Interval \in Nat /\ g \div Interval \in Nat
         /\ h \div Interval <= g \div Interval
         /\ \A k \in 0..(h \div Interval) : k * Interval \in Nat /\ k * Interval <= h
<1>1. Interval \in Nat \ {0}
  BY KingAssumption
<1>2. /\ h \div Interval \in Nat /\ (h \div Interval) * Interval <= h
      /\ h < ((h \div Interval) + 1) * Interval
  BY <1>1
<1>3. g \div Interval \in Nat /\ g < ((g \div Interval) + 1) * Interval
  BY <1>1
<1> DEFINE p == h \div Interval
           q == g \div Interval
<1>4. /\ p \in Nat /\ q \in Nat /\ p * Interval <= h
      /\ h < (p + 1) * Interval /\ g < (q + 1) * Interval
  BY <1>2, <1>3
<1> HIDE DEF p, q
<1>5. p <= q
  <2>1. SUFFICES ASSUME q + 1 <= p PROVE FALSE
    BY <1>4
  <2>2. (q + 1) * Interval <= p * Interval
    BY <1>1, <1>4, <2>1
  <2>3. (q + 1) * Interval \in Nat /\ p * Interval \in Nat
    BY <1>1, <1>4
  <2> QED BY <1>4, <2>2, <2>3
<1>6. (p + 1) * Interval <= (q + 1) * Interval
  BY <1>1, <1>4, <1>5
<1>7. (p + 1) * Interval \in Nat
  BY <1>1, <1>4
<1>8. ASSUME NEW k \in 0..p PROVE k * Interval \in Nat /\ k * Interval <= h
  <2>1. k \in Nat /\ k <= p
    BY <1>4
  <2>2. k * Interval <= p * Interval
    BY <1>1, <1>4, <2>1
  <2>3. k * Interval \in Nat /\ p * Interval \in Nat
    BY <1>1, <1>4, <2>1
  <2> QED BY <1>4, <2>2, <2>3
<1> QED BY <1>4, <1>5, <1>6, <1>7, <1>8 DEF NextActivation, p, q

\* Members of a typed list.
LEMMA MembersTyped ==
  ASSUME NEW U, NEW s \in Seq(U)
  PROVE  /\ ToSet(s) \subseteq U
         /\ \A a : Contains(s, a) <=> a \in ToSet(s)
         /\ DOMAIN s = 1..Len(s) /\ Len(s) \in Nat
<1>1. Len(s) \in Nat /\ DOMAIN s = 1..Len(s) /\ \A i \in 1..Len(s) : s[i] \in U
  BY LenProperties, ElementOfSeq
<1> QED BY <1>1 DEF ToSet, Contains

\* removeUnderfunded... and releaseUnlocked... keep a registry sound.
LEMMA WithoutSound ==
  ASSUME NEW R, RegistrySound(R), NEW S
  PROVE  /\ RegistrySound(Without(R, S))
         /\ ToSet(Without(R, S).kings) = ToSet(R.kings) \ S
         /\ Locked(Without(R, S).locks) = Locked(R.locks) \ S
         /\ \A a \in Address \ S : Without(R, S).locks[a] = R.locks[a]
         /\ Without(R, S).kings = Kept(R.kings, Address \ S)
<1> DEFINE W == Without(R, S)
           lk == [a \in Address |-> IF a \in S THEN NoLock ELSE R.locks[a]]
<1>1. /\ R.kings \in Seq(Address) /\ R.locks \in Locks /\ IsInjective(R.kings)
      /\ Locked(R.locks) \subseteq ToSet(R.kings)
  BY DEF RegistrySound, Registries
<1>2. /\ W.kings = Kept(R.kings, Address \ S) /\ W.locks = lk
      /\ W = [kings |-> W.kings, locks |-> W.locks]
  BY DEF Without
<1>3. W.kings \in Seq(Address) /\ IsInjective(W.kings)
  BY <1>1, <1>2, KeptType, KeptMembers
<1>4. ToSet(W.kings) = ToSet(R.kings) \ S
  <2>1. ToSet(W.kings) = ToSet(R.kings) \cap (Address \ S)
    BY <1>1, <1>2, KeptMembers
  <2> QED BY <2>1, <1>1, MembersTyped
<1>5. lk \in Locks
  BY <1>1 DEF Locks
<1>6. Locked(lk) = Locked(R.locks) \ S
  BY DEF Locked
<1>7. W \in Registries
  BY <1>2, <1>3, <1>5 DEF Registries
<1>8. \A a \in Address \ S : W.locks[a] = R.locks[a]
  BY <1>2
<1> QED BY <1>1, <1>2, <1>3, <1>4, <1>6, <1>7, <1>8 DEF RegistrySound

\* Dropping nobody changes nothing; dropping somebody with a lock does.
LEMMA WithoutNobody ==
  ASSUME NEW R, RegistrySound(R), NEW S
  PROVE  /\ S = {} => Without(R, S) = R
         /\ S \subseteq Locked(R.locks) /\ Without(R, S) = R => S = {}
<1>1. R.kings \in Seq(Address) /\ ToSet(R.kings) \subseteq Address /\ R.locks \in Locks
      /\ R = [kings |-> R.kings, locks |-> R.locks]
  BY MembersTyped DEF RegistrySound, Registries
<1>2. ASSUME S = {} PROVE Without(R, S) = R
  <2>1. Kept(R.kings, Address \ S) = R.kings
    BY <1>1, <1>2, KeptWhole
  <2>2. [a \in Address |-> IF a \in S THEN NoLock ELSE R.locks[a]] = R.locks
    BY <1>1, <1>2 DEF Locks
  <2> QED BY <1>1, <2>1, <2>2 DEF Without
<1>3. ASSUME S \subseteq Locked(R.locks), Without(R, S) = R PROVE S = {}
  <2>1. Locked(R.locks) = Locked(R.locks) \ S
    BY <1>3, WithoutSound
  <2> QED BY <1>3, <2>1
<1> QED BY <1>2, <1>3

\* Both records written: the store is sound.
LEMMA PersistedSound ==
  ASSUME NEW R, RegistrySound(R)
  PROVE  StoreSound(R, Persisted(R)) /\ Persisted(R) \in Stores /\ IsInjective(Persisted(R).kings)
<1>1. R.kings \in Seq(Address) /\ R.locks \in Locks /\ IsInjective(R.kings)
  BY DEF RegistrySound, Registries
<1>2. Kept(R.kings, Locked(R.locks)) \in Seq(Address)
  BY <1>1, KeptType
<1>3. LocksRecord(R) \in [order : Seq(Address), locks : Locks]
  BY <1>1, <1>2 DEF LocksRecord
<1> QED BY <1>1, <1>3 DEF StoreSound, Persisted, Stores

\* What the record of the locks says of a registry beside which it is sound.
LEMMA RecordMeaning ==
  ASSUME NEW R, RegistrySound(R), NEW D, StoreSound(R, D)
  PROVE  /\ D.locks.locks = R.locks
         /\ D.locks.order = Kept(R.kings, Locked(R.locks))
         /\ D.locks.order \in Seq(Address) /\ IsInjective(D.locks.order)
         /\ ToSet(D.locks.order) = Locked(R.locks)
<1>1. /\ R.kings \in Seq(Address) /\ IsInjective(R.kings)
      /\ Locked(R.locks) \subseteq ToSet(R.kings)
  BY DEF RegistrySound, Registries
<1>2. D.locks.locks = R.locks /\ D.locks.order = Kept(R.kings, Locked(R.locks))
  BY DEF StoreSound, LocksRecord
<1>3. ToSet(Kept(R.kings, Locked(R.locks))) = ToSet(R.kings) \cap Locked(R.locks)
  BY <1>1, KeptMembers
<1> QED BY <1>1, <1>2, <1>3, KeptType, KeptMembers

\* Records beside which a registry is sound are sound by themselves.
LEMMA StoreDisk ==
  ASSUME NEW R, RegistrySound(R), NEW D \in Stores, IsInjective(D.kings), StoreSound(R, D),
         NEW h, DueBy(R, h)
  PROVE  DiskSound(D, h)
<1> DEFINE L == Locked(R.locks)
           V == Live(R.locks, h)
           o == D.locks.order
<1>1. /\ D.locks.locks = R.locks /\ o = Kept(R.kings, L) /\ o \in Seq(Address)
      /\ IsInjective(o) /\ ToSet(o) = L
  BY RecordMeaning
<1>2. D.kings \in Seq(Address) /\ R.kings \in Seq(Address)
  BY DEF Stores, RegistrySound, Registries
<1>3. Kept(D.kings, L) = Kept(R.kings, L)
  BY DEF StoreSound
<1>4. L \cap V = V
  BY DEF Live
<1> HIDE DEF L, V
<1>5. Kept(Kept(D.kings, L), V) = Kept(D.kings, V)
  BY <1>2, <1>4, KeptTwice
<1>6. Kept(D.kings, V) = Kept(o, V)
  BY <1>1, <1>3, <1>5
<1>7. DueBy(D.locks, h)
  BY <1>1 DEF DueBy
<1> QED BY <1>1, <1>6, <1>7 DEF DiskSound, L, V

\* Only the locks written, after kings were dropped.
LEMMA ShrunkStore ==
  ASSUME NEW R, RegistrySound(R), NEW D \in Stores, StoreSound(R, D), NEW S
  PROVE  LET F == [D EXCEPT !.locks = LocksRecord(Without(R, S))]
         IN  StoreSound(Without(R, S), F) /\ F \in Stores /\ F.kings = D.kings
<1> DEFINE W == Without(R, S)
           F == [D EXCEPT !.locks = LocksRecord(W)]
           L == Locked(R.locks)
           M == Locked(W.locks)
<1>1. D.kings \in Seq(Address) /\ R.kings \in Seq(Address) /\ Kept(D.kings, L) = Kept(R.kings, L)
  BY DEF StoreSound, Stores, RegistrySound, Registries
<1>2. RegistrySound(W) /\ W.kings = Kept(R.kings, Address \ S) /\ M = L \ S
  BY WithoutSound
<1>3. L \cap M = M /\ (Address \ S) \cap M = M
  BY <1>2 DEF Locked
<1> HIDE DEF L, M
<1>4. Kept(D.kings, M) = Kept(R.kings, M)
  <2>1. Kept(Kept(D.kings, L), M) = Kept(D.kings, M) /\ Kept(Kept(R.kings, L), M) = Kept(R.kings, M)
    BY <1>1, <1>3, KeptTwice
  <2> QED BY <1>1, <2>1
<1>5. Kept(W.kings, M) = Kept(R.kings, M)
  <2>1. Kept(Kept(R.kings, Address \ S), M) = Kept(R.kings, M)
    BY <1>1, <1>3, KeptTwice
  <2> QED BY <1>2, <2>1
<1> HIDE DEF W
<1>6. LocksRecord(W) \in [order : Seq(Address), locks : Locks]
  BY <1>2, PersistedSound DEF Persisted, Stores
<1>7. F \in Stores /\ F.kings = D.kings /\ F.locks = LocksRecord(W)
  BY <1>6 DEF Stores
<1> HIDE DEF F
<1>8. StoreSound(W, F)
  BY <1>4, <1>5, <1>7 DEF StoreSound, M
<1> QED BY <1>7, <1>8 DEF F, W

\* removeUnderfundedRotatingKingsLocked
LEMMA FundedSound ==
  ASSUME NEW R, RegistrySound(R), NEW D \in Stores, StoreSound(R, D)
  PROVE  /\ StoreSound(Without(R, Underfunded(R)), FundedStored(R, D))
         /\ FundedStored(R, D) \in Stores /\ FundedStored(R, D).kings = D.kings
<1> DEFINE S == Underfunded(R)
<1> HIDE DEF S
<1>1. CASE S = {}
  <2>1. Without(R, S) = R
    BY <1>1, WithoutNobody
  <2> QED BY <1>1, <2>1 DEF FundedStored, S
<1>2. CASE S # {}
  <2> DEFINE F == [D EXCEPT !.locks = LocksRecord(Without(R, S))]
  <2>1. FundedStored(R, D) = F
    BY <1>2 DEF FundedStored, S
  <2>2. StoreSound(Without(R, S), F) /\ F \in Stores /\ F.kings = D.kings
    BY ShrunkStore
  <2> HIDE DEF F
  <2> QED BY <2>1, <2>2 DEF S
<1> QED BY <1>1, <1>2

\* The two records give back the kings that have a lock.
LEMMA RegisteredSame ==
  ASSUME NEW R, RegistrySound(R), NEW D \in Stores, StoreSound(R, D)
  PROVE  Registered(D) = Kept(R.kings, Locked(R.locks)) /\ D.locks.locks = R.locks
<1> DEFINE L == Locked(R.locks)
           o == D.locks.order
<1>1. /\ D.locks.locks = R.locks /\ o = Kept(R.kings, L) /\ o \in Seq(Address) /\ ToSet(o) = L
      /\ D.kings \in Seq(Address) /\ Kept(D.kings, L) = Kept(R.kings, L)
  BY RecordMeaning DEF StoreSound, Stores
<1>2. ToSet(o) = ToSet(D.kings) \cap L
  BY <1>1, KeptMembers
<1>3. Kept(o, Address \ ToSet(D.kings)) = <<>>
  <2>1. ToSet(o) \cap (Address \ ToSet(D.kings)) = {}
    BY <1>2
  <2> QED BY <1>1, <2>1, KeptNone
<1> HIDE DEF L, o
<1>4. Registered(D) = o \o <<>>
  BY <1>1, <1>3 DEF Registered, o
<1>5. o \o <<>> = o
  BY <1>1, ConcatEmptySeq
<1> QED BY <1>1, <1>4, <1>5 DEF L

\* What sound records give back, whether or not a registry is there: everybody with
\* a lock, once, and those that are not due in the order of the locks.
LEMMA RegisteredSound ==
  ASSUME NEW D, NEW h, DiskSound(D, h)
  PROVE  /\ Registered(D) \in Seq(Address) /\ IsInjective(Registered(D))
         /\ ToSet(Registered(D)) = Locked(D.locks.locks)
         /\ Kept(Registered(D), Live(D.locks.locks, h)) = Kept(D.locks.order, Live(D.locks.locks, h))
<1> DEFINE L == Locked(D.locks.locks)
           V == Live(D.locks.locks, h)
           o == D.locks.order
           x == Kept(D.kings, L)
           y == Kept(o, Address \ ToSet(D.kings))
<1>1. /\ D.kings \in Seq(Address) /\ o \in Seq(Address) /\ IsInjective(D.kings) /\ IsInjective(o)
      /\ ToSet(o) = L /\ Kept(D.kings, V) = Kept(o, V)
  BY DEF DiskSound, Stores
<1>2. L \subseteq Address /\ V \subseteq L /\ L \cap V = V
  BY DEF Locked, Live
<1>3. Registered(D) = x \o y
  BY <1>1 DEF Registered
<1> HIDE DEF L, V, o
<1>4. x \in Seq(Address) /\ IsInjective(x) /\ ToSet(x) = ToSet(D.kings) \cap L
  BY <1>1, KeptType, KeptMembers
<1>5. /\ y \in Seq(Address) /\ IsInjective(y)
      /\ ToSet(y) = L \cap (Address \ ToSet(D.kings))
  BY <1>1, KeptType, KeptMembers
<1>6. Kept(x, V) = Kept(o, V)
  <2>1. Kept(x, V) = Kept(D.kings, V)
    BY <1>1, <1>2, KeptTwice
  <2> QED BY <1>1, <2>1
<1>7. V \subseteq ToSet(D.kings)
  <2>1. ToSet(Kept(o, V)) = ToSet(o) \cap V /\ ToSet(Kept(D.kings, V)) = ToSet(D.kings) \cap V
    BY <1>1, KeptMembers
  <2> QED BY <1>1, <1>2, <2>1
<1> HIDE DEF x, y
<1>8. Kept(y, V) = <<>>
  <2>1. ToSet(y) \cap V = {}
    BY <1>5, <1>7
  <2> QED BY <1>5, <2>1, KeptNone
<1>9. /\ x \o y \in Seq(Address) /\ ToSet(x \o y) = ToSet(x) \cup ToSet(y)
      /\ IsInjective(x \o y)
  <2>1. ToSet(x) \cap ToSet(y) = {}
    BY <1>4, <1>5
  <2> QED BY <1>4, <1>5, <2>1, ConcatMembers
<1>10. ToSet(x \o y) = L
  BY <1>2, <1>4, <1>5, <1>9
<1>11. Kept(x \o y, V) = Kept(o, V)
  <2>0. Kept(x \o y, V) = Kept(x, V) \o Kept(y, V)
    BY <1>4, <1>5, KeptOfConcat
  <2>1. Kept(x \o y, V) = Kept(x, V) \o <<>>
    BY ONLY <1>8, <2>0, Zenon
  <2>2. Kept(o, V) \in Seq(Address)
    BY <1>1, KeptType
  <2>3. Kept(o, V) \o <<>> = Kept(o, V)
    BY <2>2, ConcatEmptySeq
  <2> QED BY <1>6, <2>1, <2>3
<1> QED BY <1>3, <1>9, <1>10, <1>11 DEF L, V, o

\* A later block only makes more locks due.
LEMMA DiskLater ==
  ASSUME NEW D, NEW h \in Nat, NEW g \in Nat, h <= g, DiskSound(D, h)
  PROVE  DiskSound(D, g)
<1> DEFINE locks == D.locks.locks
           V == Live(locks, h)
           W == Live(locks, g)
           o == D.locks.order
<1>1. /\ D.kings \in Seq(Address) /\ o \in Seq(Address) /\ locks \in Locks
      /\ Kept(D.kings, V) = Kept(o, V) /\ DueBy(D.locks, h)
  BY DEF DiskSound, Stores
<1>2. V \cap W = W
  <2>1. ASSUME NEW a \in DueAt(locks, h) PROVE a \in DueAt(locks, g)
    <3>1. a \in Locked(locks) /\ locks[a] \in Lock /\ locks[a].unlock # 0 /\ h >= locks[a].unlock
      BY <1>1 DEF DueAt, Locked, Locks
    <3>2. locks[a].unlock \in Nat
      BY <3>1 DEF Lock
    <3>3. g >= locks[a].unlock
      BY <3>1, <3>2
    <3> QED BY <3>1, <3>3 DEF DueAt
  <2> HIDE DEF locks
  <2> QED BY <2>1 DEF Live
<1> HIDE DEF V, W, o
<1>3. Kept(D.kings, W) = Kept(o, W)
  <2>1. Kept(Kept(D.kings, V), W) = Kept(D.kings, W) /\ Kept(Kept(o, V), W) = Kept(o, W)
    BY <1>1, <1>2, KeptTwice
  <2> QED BY <1>1, <2>1
<1>4. DueBy(D.locks, g)
  <2>1. ASSUME NEW a \in Locked(locks) PROVE locks[a].activation <= NextActivation(g)
    <3>1. locks[a] \in Lock
      BY <1>1 DEF Locked, Locks
    <3>2. locks[a].activation \in Nat /\ locks[a].activation <= NextActivation(h)
      BY <1>1, <3>1 DEF Lock, DueBy
    <3>3. /\ NextActivation(h) <= NextActivation(g)
          /\ NextActivation(h) \in Nat /\ NextActivation(g) \in Nat
      BY Boundaries
    <3> QED BY ONLY <3>2, <3>3
  <2> QED BY <2>1 DEF DueBy
<1> QED BY <1>3, <1>4 DEF DiskSound, W, o

\* The addresses written and the locks not yet.
LEMMA TornSound ==
  ASSUME NEW D, NEW h, DiskSound(D, h), NEW R, R.kings \in Seq(Address), IsInjective(R.kings),
         Kept(R.kings, Live(D.locks.locks, h)) = Kept(D.locks.order, Live(D.locks.locks, h))
  PROVE  DiskSound(Torn(D, R), h) /\ Torn(D, R).locks = D.locks
<1> DEFINE F == Torn(D, R)
<1>1. D \in Stores
  BY DEF DiskSound
<1>2. F \in Stores /\ F.kings = R.kings /\ F.locks = D.locks
  BY <1>1 DEF Torn, Stores
<1> HIDE DEF F
<1>3. DiskSound(F, h)
  BY <1>2 DEF DiskSound
<1> QED BY <1>2, <1>3 DEF F

\* What AddRotatingKingAt does to an engine: the address is there, not later than
\* asked for, and nobody is moved back.
LEMMA AddSound ==
  ASSUME NEW E \in Engines, IsInjective(E.kings), NEW a \in Address, NEW act \in Nat
  PROVE  LET F == AddToEngine(E, a, act)
         IN  /\ F \in Engines /\ IsInjective(F.kings)
             /\ ToSet(F.kings) = ToSet(E.kings) \cup {a}
             /\ F.activation[a] <= act
             /\ \A b \in ToSet(E.kings) : F.activation[b] <= E.activation[b]
<1> DEFINE F == AddToEngine(E, a, act)
<1>1. E.kings \in Seq(Address) /\ E.activation \in [Address -> Nat]
      /\ E = [kings |-> E.kings, activation |-> E.activation]
  BY DEF Engines
<1>2. (Contains(E.kings, a) <=> a \in ToSet(E.kings)) /\ ToSet(E.kings) \subseteq Address
  BY <1>1, MembersTyped
<1>3. CASE a \in ToSet(E.kings)
  <2> DEFINE act2 == IF act < E.activation[a] THEN act ELSE E.activation[a]
  <2>1. act2 \in Nat /\ act2 <= act /\ act2 <= E.activation[a]
    BY <1>1
  <2>2. F = [E EXCEPT !.activation[a] = act2]
    BY <1>2, <1>3 DEF AddToEngine
  <2> HIDE DEF F, act2
  <2>3. F \in Engines /\ F.kings = E.kings /\ F.activation = [E.activation EXCEPT ![a] = act2]
    BY <1>1, <2>1, <2>2 DEF Engines
  <2>4. F.activation[a] = act2 /\ \A b \in Address \ {a} : F.activation[b] = E.activation[b]
    BY <1>1, <2>3
  <2>5. \A b \in ToSet(E.kings) : F.activation[b] <= E.activation[b]
    BY <1>1, <1>2, <2>1, <2>4
  <2> QED BY <1>3, <2>1, <2>3, <2>4, <2>5 DEF F
<1>4. CASE a \notin ToSet(E.kings)
  <2> DEFINE K == Append(E.kings, a)
  <2>1. K \in Seq(Address) /\ ToSet(K) = ToSet(E.kings) \cup {a} /\ IsInjective(K)
    BY <1>1, <1>4, AppendMembers
  <2>2. F = [kings |-> K, activation |-> [E.activation EXCEPT ![a] = act]]
    BY <1>2, <1>4 DEF AddToEngine
  <2> HIDE DEF F, K
  <2>3. F \in Engines /\ F.kings = K /\ F.activation = [E.activation EXCEPT ![a] = act]
    BY <1>1, <2>1, <2>2 DEF Engines
  <2>4. F.activation[a] = act /\ \A b \in Address \ {a} : F.activation[b] = E.activation[b]
    BY <1>1, <2>3
  <2>5. \A b \in ToSet(E.kings) : F.activation[b] <= E.activation[b]
    BY <1>1, <1>2, <1>4, <2>4
  <2> QED BY <2>1, <2>3, <2>4, <2>5 DEF F
<1> QED BY <1>3, <1>4

\* Adding what is there already, no earlier than it is there, changes nothing.
LEMMA AddSame ==
  ASSUME NEW E \in Engines, NEW a \in ToSet(E.kings), NEW act \in Nat, E.activation[a] <= act
  PROVE  AddToEngine(E, a, act) = E
<1>1. E.kings \in Seq(Address) /\ E.activation \in [Address -> Nat]
      /\ E = [kings |-> E.kings, activation |-> E.activation]
  BY DEF Engines
<1>2. Contains(E.kings, a) /\ a \in Address
  BY <1>1, MembersTyped
<1>3. (IF act < E.activation[a] THEN act ELSE E.activation[a]) = E.activation[a]
  BY <1>1, <1>2
<1>4. AddToEngine(E, a, act) = [E EXCEPT !.activation[a] = E.activation[a]]
  BY <1>2, <1>3 DEF AddToEngine
<1>5. [E EXCEPT !.activation[a] = E.activation[a]] = E
  BY <1>1, <1>2
<1> QED BY <1>4, <1>5

\* The reload at the start of an RPC finds the engine as it was.
LEMMA LoadingSame ==
  ASSUME NEW R, RegistrySound(R), NEW E, Covers(E, R)
  PROVE  Loading(R, E) = E
<1> DEFINE kings == Kept(R.kings, Locked(R.locks))
           N == Len(kings)
           Body(f) == [i \in 0..N |->
              IF i = 0 THEN E ELSE AddToEngine(f[i - 1], kings[i], R.locks[kings[i]].activation)]
<1>1. R.kings \in Seq(Address) /\ R.locks \in Locks /\ Locked(R.locks) \subseteq ToSet(R.kings)
  BY DEF RegistrySound, Registries
<1>2. /\ kings \in Seq(Address) /\ ToSet(kings) = Locked(R.locks)
      /\ DOMAIN kings = 1..N /\ N \in Nat
  <2>1. kings \in Seq(Address)
    BY <1>1, KeptType
  <2>2. ToSet(kings) = ToSet(R.kings) \cap Locked(R.locks)
    BY <1>1, KeptMembers
  <2> HIDE DEF kings
  <2>3. DOMAIN kings = 1..Len(kings) /\ Len(kings) \in Nat
    BY <2>1, MembersTyped
  <2> QED BY <1>1, <2>1, <2>2, <2>3
<1>3. ASSUME NEW i \in 1..N
      PROVE  AddToEngine(E, kings[i], R.locks[kings[i]].activation) = E
  <2> HIDE DEF kings
  <2>1. kings[i] \in Locked(R.locks) /\ kings[i] \in ToSet(R.kings)
    BY <1>1, <1>2 DEF ToSet
  <2>2. R.locks[kings[i]] \in Lock /\ R.locks[kings[i]] # NoLock
    BY <1>1, <2>1 DEF Locks, Locked
  <2>3. R.locks[kings[i]].activation \in Nat
    BY <2>2 DEF Lock
  <2>4. /\ E \in Engines /\ kings[i] \in ToSet(E.kings)
        /\ E.activation[kings[i]] <= R.locks[kings[i]].activation
    BY <2>1, <2>2 DEF Covers
  <2> QED BY <2>3, <2>4, AddSame
<1> DEFINE c == [i \in 0..N |-> E]
<1>4. c = Body(c)
  <2>1. ASSUME NEW i \in 0..N PROVE Body(c)[i] = E
    <3>1. CASE i = 0
      BY <3>1
    <3>2. CASE i # 0
      <4>1. i \in 1..N /\ i - 1 \in 0..N
        BY <1>2, <3>2
      <4>2. c[i - 1] = E
        BY <4>1
      <4> HIDE DEF c, kings, N
      <4> QED BY <1>3, <3>2, <4>1, <4>2
    <3> QED BY <3>1, <3>2
  <2> QED BY <2>1
<1> DEFINE g == CHOOSE g : g = Body(g)
<1>5. g = Body(g)
  BY <1>4
<1>6. Loading(R, E) = g[N]
  BY DEF Loading
<1> HIDE DEF g, c
<1> DEFINE K == {k \in Nat : k <= N => g[k] = E}
<1>7. 0 \in K
  BY <1>2, <1>5
<1>8. ASSUME NEW k \in Nat, k \in K PROVE k + 1 \in K
  <2>1. SUFFICES ASSUME k + 1 <= N PROVE g[k + 1] = E
    OBVIOUS
  <2>2. k + 1 \in 1..N /\ k + 1 \in 0..N /\ k + 1 # 0 /\ (k + 1) - 1 = k /\ k <= N
    BY <1>2, <2>1
  <2>3. g[k] = E
    BY <1>8, <2>2
  <2>4. g[k + 1] = Body(g)[k + 1]
    BY <1>5
  <2>5. Body(g)[k + 1] = AddToEngine(g[k], kings[k + 1], R.locks[kings[k + 1]].activation)
    BY <2>2
  <2> HIDE DEF Body, kings, N
  <2> QED BY <1>3, <2>2, <2>3, <2>4, <2>5
<1>9. Nat \subseteq K
  <2> HIDE DEF K
  <2> QED BY <1>7, <1>8, InductionOnNaturals
<1> QED BY <1>2, <1>6, <1>9

\* A registry that the reload leaves: the one in memory, or its kings with a lock.
LEMMA LoadedSound ==
  ASSUME NEW n \in Node, RegistrySound(registry[n]), disk[n] \in Stores,
         StoreSound(registry[n], disk[n]), Covers(engine[n], registry[n]),
         NEW h, DueBy(registry[n], h)
  PROVE  /\ RegistrySound(Loaded(n)) /\ StoreSound(Loaded(n), disk[n])
         /\ Covers(engine[n], Loaded(n)) /\ DueBy(Loaded(n), h)
         /\ LoadedEngine(n) = engine[n]
<1> DEFINE R == registry[n]
           D == disk[n]
           E == engine[n]
           L == Locked(R.locks)
           k == Kept(R.kings, L)
           N == [kings |-> k, locks |-> R.locks]
<1>1. /\ R.kings \in Seq(Address) /\ R.locks \in Locks /\ IsInjective(R.kings)
      /\ L \subseteq ToSet(R.kings)
  BY DEF RegistrySound, Registries
<1>2. Registered(D) = k /\ D.locks.locks = R.locks
  BY RegisteredSame
<1>3. Loaded(n) = R \/ Loaded(n) = N
  BY <1>2 DEF Loaded
<1>4. k \in Seq(Address) /\ IsInjective(k) /\ ToSet(k) = L
  <2>1. ToSet(k) = ToSet(R.kings) \cap L
    BY <1>1, KeptMembers
  <2> QED BY <1>1, <2>1, KeptType, KeptMembers
<1>5. Kept(k, L) = k
  BY <1>4, KeptWhole
<1>6. RegistrySound(R) /\ StoreSound(R, D) /\ Covers(E, R) /\ DueBy(R, h)
  OBVIOUS
<1> HIDE DEF R, D, E
<1>7. N.kings = k /\ N.locks = R.locks
  OBVIOUS
<1>8. RegistrySound(N)
  <2> HIDE DEF k
  <2> QED BY <1>1, <1>4 DEF RegistrySound, Registries
<1> HIDE DEF N
<1>9. StoreSound(N, D)
  <2>1. LocksRecord(N) = LocksRecord(R)
    BY <1>5, <1>7 DEF LocksRecord
  <2>2. Kept(D.kings, L) = Kept(N.kings, L)
    BY <1>5, <1>6, <1>7 DEF StoreSound
  <2> HIDE DEF k
  <2> QED BY <1>6, <1>7, <2>1, <2>2 DEF StoreSound
<1>10. Covers(E, N) /\ DueBy(N, h)
  <2> HIDE DEF k
  <2> QED BY <1>1, <1>4, <1>6, <1>7 DEF Covers, DueBy
<1>11. /\ RegistrySound(Loaded(n)) /\ StoreSound(Loaded(n), D)
       /\ Covers(E, Loaded(n)) /\ DueBy(Loaded(n), h)
  BY <1>3, <1>6, <1>8, <1>9, <1>10
<1>12. LoadedEngine(n) = E
  BY <1>11, LoadingSame DEF LoadedEngine, E
<1> QED BY <1>11, <1>12 DEF D, E

\* Dropping kings leaves the engine a cover and the activations due.
LEMMA WithoutCovered ==
  ASSUME NEW R, RegistrySound(R), NEW E, Covers(E, R), NEW S, NEW h, DueBy(R, h)
  PROVE  Covers(E, Without(R, S)) /\ DueBy(Without(R, S), h)
<1> DEFINE W == Without(R, S)
<1>1. /\ ToSet(W.kings) = ToSet(R.kings) \ S /\ Locked(W.locks) = Locked(R.locks) \ S
      /\ \A a \in Address \ S : W.locks[a] = R.locks[a]
  BY WithoutSound
<1>2. ToSet(R.kings) \subseteq Address /\ Locked(R.locks) \subseteq Address
  BY MembersTyped DEF RegistrySound, Registries, Locked
<1> HIDE DEF W
<1>3. Covers(E, W)
  BY <1>1, <1>2 DEF Covers
<1>4. DueBy(W, h)
  BY <1>1, <1>2 DEF DueBy
<1> QED BY <1>3, <1>4 DEF W

\* The registry N lists a, too, and has no lock that R lacks but one of a's, active at act.
Grown(N, R, a, act) ==
    /\ N \in Registries /\ IsInjective(N.kings)
    /\ ToSet(N.kings) = ToSet(R.kings) \cup {a}
    /\ \A b \in Address :
        \/ N.locks[b] = R.locks[b]
        \/ b = a /\ R.locks[b] = NoLock /\ N.locks[b] \in Lock /\ N.locks[b].activation = act

\* A king added to registry and engine alike.
LEMMA GrownSound ==
  ASSUME NEW R, RegistrySound(R), NEW E, Covers(E, R), NEW h, DueBy(R, h),
         NEW a \in Address, NEW act \in Nat, act <= NextActivation(h),
         NEW N, Grown(N, R, a, act)
  PROVE  /\ RegistrySound(N)
         /\ Covers(AddToEngine(E, a, act), N)
         /\ DueBy(N, h)
<1> DEFINE F == AddToEngine(E, a, act)
<1>1. R.locks \in Locks /\ Locked(R.locks) \subseteq ToSet(R.kings) /\ R.kings \in Seq(Address)
  BY DEF RegistrySound, Registries
<1>2. /\ N.locks \in Locks /\ N.kings \in Seq(Address)
      /\ ToSet(N.kings) = ToSet(R.kings) \cup {a}
  BY DEF Grown, Registries
<1>3. ASSUME NEW b \in Address, N.locks[b] # NoLock
      PROVE  \/ N.locks[b] = R.locks[b] /\ b \in Locked(R.locks)
             \/ b = a /\ N.locks[b].activation = act
  BY <1>3 DEF Grown, Locked
<1>4. RegistrySound(N)
  <2>1. Locked(N.locks) \subseteq ToSet(N.kings)
    <3>1. ASSUME NEW b \in Locked(N.locks) PROVE b \in ToSet(N.kings)
      <4>1. b \in Address /\ N.locks[b] # NoLock
        BY DEF Locked
      <4> QED BY <1>1, <1>2, <1>3, <4>1
    <3> QED BY <3>1
  <2> QED BY <2>1 DEF RegistrySound, Grown
<1>5. /\ F \in Engines /\ IsInjective(F.kings)
      /\ ToSet(F.kings) = ToSet(E.kings) \cup {a}
      /\ F.activation[a] <= act
      /\ \A b \in ToSet(E.kings) : F.activation[b] <= E.activation[b]
  BY AddSound DEF Covers
<1>6. DueBy(N, h)
  <2>1. ASSUME NEW b \in Locked(N.locks) PROVE N.locks[b].activation <= NextActivation(h)
    <3>1. b \in Address /\ N.locks[b] # NoLock
      BY DEF Locked
    <3> QED BY <1>3, <3>1 DEF DueBy
  <2> QED BY <2>1 DEF DueBy
<1> HIDE DEF F
<1>7. ASSUME NEW b \in ToSet(N.kings)
      PROVE  /\ b \in ToSet(F.kings)
             /\ N.locks[b] # NoLock => F.activation[b] <= N.locks[b].activation
  <2>1. b \in Address
    BY <1>2, MembersTyped
  <2>2. b \in ToSet(F.kings)
    BY <1>2, <1>5 DEF Covers
  <2>3. ASSUME N.locks[b] # NoLock PROVE F.activation[b] <= N.locks[b].activation
    <3>1. CASE N.locks[b] = R.locks[b] /\ b \in Locked(R.locks)
      <4>1. R.locks[b] \in Lock /\ R.locks[b] # NoLock /\ b \in ToSet(R.kings)
        BY <1>1, <3>1 DEF Locked, Locks
      <4>2. b \in ToSet(E.kings) /\ E.activation[b] <= R.locks[b].activation
        BY <4>1 DEF Covers
      <4>3. R.locks[b].activation \in Nat
        BY <4>1 DEF Lock
      <4>4. E.activation[b] \in Nat /\ F.activation[b] \in Nat
        BY <1>5, <2>1 DEF Covers, Engines
      <4>5. F.activation[b] <= E.activation[b]
        BY <1>5, <4>2
      <4>6. F.activation[b] <= R.locks[b].activation
        BY ONLY <4>2, <4>3, <4>4, <4>5
      <4> QED BY <3>1, <4>6
    <3>2. CASE b = a /\ N.locks[b].activation = act
      BY <1>5, <3>2
    <3> QED BY <1>3, <2>1, <2>3, <3>1, <3>2
  <2> QED BY <2>2, <2>3
<1>8. Covers(F, N)
  BY <1>5, <1>7 DEF Covers
<1> QED BY <1>4, <1>6, <1>8 DEF F

(***************************************************************************)
(* The recovery from headers                                               *)
(***************************************************************************)
Scans == [kings : Seq(Address), locks : Locks, engine : Engines]
RegistryOf(S) == [kings |-> S.kings, locks |-> S.locks]

ScanSound(S, h) ==
    /\ S \in Scans
    /\ RegistrySound(RegistryOf(S))
    /\ Covers(S.engine, RegistryOf(S))
    /\ DueBy(RegistryOf(S), h)

\* What a recovery leaves of what was there: the kings in their order, and the locks.
Extended(S, R) ==
    /\ Kept(S.kings, ToSet(R.kings)) = R.kings
    /\ \A a \in Locked(R.locks) : S.locks[a] = R.locks[a]

LEMMA StateSound ==
  ASSUME NEW R, RegistrySound(R), NEW E, Covers(E, R), NEW h, DueBy(R, h)
  PROVE  /\ ScanSound(State(R, E), h) /\ RegistryOf(State(R, E)) = R
         /\ Extended(State(R, E), R)
<1>1. /\ R.kings \in Seq(Address) /\ R.locks \in Locks /\ E \in Engines
      /\ R = [kings |-> R.kings, locks |-> R.locks]
  BY DEF RegistrySound, Registries, Covers
<1>2. /\ RegistryOf(State(R, E)) = R /\ State(R, E).engine = E /\ State(R, E) \in Scans
      /\ State(R, E).kings = R.kings /\ State(R, E).locks = R.locks
  BY <1>1 DEF RegistryOf, State, Scans
<1>3. Kept(R.kings, ToSet(R.kings)) = R.kings
  BY <1>1, KeptWhole
<1> QED BY <1>2, <1>3 DEF ScanSound, Extended

LEMMA ExtendedTwice ==
  ASSUME NEW S, NEW T, NEW R, S.kings \in Seq(Address), T.kings \in Seq(Address),
         Extended(T, S), Extended(S, R)
  PROVE  Extended(T, R)
<1> DEFINE V == ToSet(S.kings)
           W == ToSet(R.kings)
<1>1. Kept(T.kings, V) = S.kings /\ Kept(S.kings, W) = R.kings
  BY DEF Extended
<1>2. W = V \cap W
  BY <1>1, KeptMembers
<1> HIDE DEF V, W
<1>3. Kept(Kept(T.kings, V), W) = Kept(T.kings, W)
  BY <1>2, KeptTwice
<1>4. Kept(T.kings, W) = R.kings
  BY <1>1, <1>3
<1>5. ASSUME NEW a \in Locked(R.locks) PROVE T.locks[a] = R.locks[a]
  <2>1. S.locks[a] = R.locks[a] /\ a \in Address /\ R.locks[a] # NoLock
    BY DEF Extended, Locked
  <2>2. a \in Locked(S.locks)
    BY <2>1 DEF Locked
  <2> QED BY <2>1, <2>2 DEF Extended
<1> QED BY <1>4, <1>5 DEF Extended, W

\* recoverRotatingKingFromHeaderLocked keeps registry and engine sound, with a full
\* marker and with a legacy one.
LEMMA RecoverSound ==
  ASSUME NEW S, NEW h \in Nat, ScanSound(S, h),
         NEW marker \in Marker \cup {NoMarker}, MarkerDue(marker, h)
  PROVE  ScanSound(Recover(S, marker, h), h) /\ Extended(Recover(S, marker, h), S)
<1> DEFINE R == RegistryOf(S)
           a == marker.address
           act == marker.activation
<1>1. /\ S \in Scans /\ S.kings = R.kings /\ S.locks = R.locks
      /\ RegistrySound(R) /\ Covers(S.engine, R) /\ DueBy(R, h)
  BY DEF ScanSound, RegistryOf
<1>2. /\ R.kings \in Seq(Address) /\ R.locks \in Locks /\ IsInjective(R.kings)
      /\ Locked(R.locks) \subseteq ToSet(R.kings)
  BY <1>1 DEF RegistrySound, Registries
<1>3. CASE Passed(marker, h)
  <2>1. Recover(S, marker, h) = S
    BY <1>3 DEF Recover
  <2>2. Extended(S, S)
    <3>1. Kept(S.kings, ToSet(S.kings)) = S.kings
      BY <1>1, <1>2, KeptWhole
    <3> QED BY <3>1 DEF Extended
  <2> QED BY <2>1, <2>2
<1>4. CASE ~Passed(marker, h)
  <2>1. marker \in Marker
    BY <1>4 DEF Passed
  <2>2. /\ a \in Address /\ act \in Nat /\ act <= NextActivation(h)
        /\ marker.added \in Nat \ {0} /\ marker.unlock \in Nat
    BY <2>1 DEF Marker, MarkerDue, NoMarker
  <2> DEFINE K == ListedKings(R.kings, marker)
             M == MarkedLocks(R.locks, marker)
             N == [kings |-> K, locks |-> M]
             F == AddToEngine(S.engine, a, act)
  <2>3. Recover(S, marker, h) = State(N, F)
    BY <1>1, <1>4 DEF Recover, State
  <2>4. /\ K \in Seq(Address) /\ IsInjective(K) /\ ToSet(K) = ToSet(R.kings) \cup {a}
        /\ Kept(K, ToSet(R.kings)) = R.kings
    <3>1. Contains(R.kings, a) <=> a \in ToSet(R.kings)
      BY <1>2, MembersTyped
    <3>2. Kept(R.kings, ToSet(R.kings)) = R.kings
      BY <1>2, KeptWhole
    <3>3. CASE a \in ToSet(R.kings)
      <4>1. K = R.kings
        BY <3>1, <3>3 DEF ListedKings
      <4> HIDE DEF K
      <4> QED BY <1>2, <3>2, <3>3, <4>1
    <3>4. CASE a \notin ToSet(R.kings)
      <4>1. K = Append(R.kings, a)
        BY <3>1, <3>4 DEF ListedKings
      <4>2. Kept(Append(R.kings, a), ToSet(R.kings)) = Kept(R.kings, ToSet(R.kings))
        BY <1>2, <2>2, <3>4, KeptOfAppend
      <4> HIDE DEF K, R, a
      <4> QED BY <1>2, <2>2, <3>2, <3>4, <4>1, <4>2, AppendMembers
    <3> QED BY <3>3, <3>4
  <2>5. /\ M \in Locks
        /\ \A b \in Address :
             \/ M[b] = R.locks[b]
             \/ b = a /\ R.locks[b] = NoLock /\ M[b] \in Lock /\ M[b].activation = act
    <3> DEFINE lock == [added |-> marker.added, activation |-> act,
                        unlock |-> marker.unlock, timed |-> FALSE]
    <3>1. lock \in Lock /\ lock.activation = act
      BY <2>2 DEF Lock
    <3>2. M = R.locks \/ (R.locks[a] = NoLock /\ M = [R.locks EXCEPT ![a] = lock])
      BY DEF MarkedLocks
    <3> HIDE DEF lock, M, R, a, act
    <3> QED BY <1>2, <2>2, <3>1, <3>2 DEF Locks
  <2>6. Grown(N, R, a, act)
    <3> HIDE DEF K, M, R, a, act
    <3> QED BY <2>4, <2>5 DEF Grown, Registries
  <2>7. RegistrySound(N) /\ Covers(F, N) /\ DueBy(N, h)
    <3> HIDE DEF N, R, a, act
    <3> QED BY <1>1, <2>2, <2>6, GrownSound
  <2>8. ScanSound(State(N, F), h)
    <3> HIDE DEF N, F
    <3> QED BY <2>7, StateSound
  <2>9. Extended(State(N, F), S)
    <3>1. State(N, F).kings = K /\ State(N, F).locks = M
      BY DEF State
    <3>2. ASSUME NEW b \in Locked(R.locks) PROVE M[b] = R.locks[b]
      <4>1. b \in Address /\ R.locks[b] # NoLock
        BY DEF Locked
      <4> HIDE DEF M, R, a, act
      <4> QED BY <2>5, <4>1
    <3> HIDE DEF K, M, N, F, R
    <3> QED BY <1>1, <2>4, <3>1, <3>2 DEF Extended
  <2> QED BY <2>3, <2>8, <2>9
<1> QED BY <1>3, <1>4

\* The scan of a whole chain keeps them sound.
LEMMA ScannedSound ==
  ASSUME NEW S, NEW h \in Nat, ScanSound(S, h),
         NEW markers \in Seq(Marker \cup {NoMarker}),
         \A k \in 1..Len(markers) : MarkerDue(markers[k], h)
  PROVE  ScanSound(Scanned(S, markers, h), h) /\ Extended(Scanned(S, markers, h), S)
<1> DEFINE N == Len(markers)
           Body(f) == [k \in 0..N |-> IF k = 0 THEN S ELSE Recover(f[k - 1], markers[k], h)]
           T == {x \in Scans : ScanSound(x, h) /\ Extended(x, S)}
           step == [k \in 1..N |-> [x \in T |-> Recover(x, markers[k], h)]]
<1>1. N \in Nat /\ \A k \in 1..N : markers[k] \in Marker \cup {NoMarker}
  BY LenProperties, ElementOfSeq
<1>2. S \in T /\ \A x : x \in T <=> ScanSound(x, h) /\ Extended(x, S)
  <2>1. S.kings \in Seq(Address)
    BY DEF ScanSound, Scans
  <2>2. Extended(S, S)
    BY <2>1, KeptWhole DEF Extended
  <2> QED BY <2>2 DEF ScanSound
<1> HIDE DEF T
<1>3. ASSUME NEW k \in 1..N, NEW x \in T PROVE Recover(x, markers[k], h) \in T
  <2>1. MarkerDue(markers[k], h) /\ markers[k] \in Marker \cup {NoMarker}
    BY <1>1
  <2> DEFINE y == Recover(x, markers[k], h)
  <2>2. ScanSound(x, h) /\ Extended(x, S)
    BY <1>2
  <2>3. ScanSound(y, h) /\ Extended(y, x)
    BY <2>1, <2>2, RecoverSound
  <2>4. x.kings \in Seq(Address) /\ y.kings \in Seq(Address)
    BY <2>2, <2>3 DEF ScanSound, Scans
  <2> HIDE DEF y
  <2>5. Extended(y, S)
    BY <2>2, <2>3, <2>4, ExtendedTwice
  <2>6. y \in T
    BY <1>2, <2>3, <2>5
  <2> QED BY <2>6 DEF y
<1>4. step \in [1..N -> [T -> T]]
  BY <1>3
<1>5. PICK f : Iterates(f, N, T, S, step)
  <2> HIDE DEF N, step
  <2> QED BY <1>1, <1>2, <1>4, RecursionOnPrefix
<1>6. f = Body(f)
  <2>1. f \in [0..N -> T] /\ f[0] = S /\ \A k \in 1..N : f[k] = step[k][f[k - 1]]
    BY <1>5 DEF Iterates
  <2>2. ASSUME NEW k \in 0..N PROVE f[k] = Body(f)[k]
    <3>1. CASE k = 0
      BY <2>1, <3>1
    <3>2. CASE k # 0
      <4>1. k \in 1..N /\ k - 1 \in 0..N
        BY <1>1, <3>2
      <4>2. f[k - 1] \in T
        BY <2>1, <4>1
      <4>3. f[k] = Recover(f[k - 1], markers[k], h)
        BY <2>1, <4>1, <4>2
      <4> QED BY <3>2, <4>3
    <3> QED BY <3>1, <3>2
  <2> QED BY <2>1, <2>2
<1> DEFINE g == CHOOSE g : g = Body(g)
<1>7. g = Body(g)
  BY <1>6
<1>8. Scanned(S, markers, h) = g[N]
  BY DEF Scanned
<1> HIDE DEF g, step
<1> DEFINE K == {k \in Nat : k <= N => g[k] \in T}
<1>9. 0 \in K
  BY <1>1, <1>2, <1>7
<1>10. ASSUME NEW k \in Nat, k \in K PROVE k + 1 \in K
  <2>1. SUFFICES ASSUME k + 1 <= N PROVE g[k + 1] \in T
    OBVIOUS
  <2>2. k + 1 \in 1..N /\ k + 1 \in 0..N /\ k + 1 # 0 /\ (k + 1) - 1 = k /\ k <= N
    BY <1>1, <2>1
  <2>3. g[k] \in T
    BY <1>10, <2>2
  <2>4. g[k + 1] = Body(g)[k + 1]
    BY <1>7
  <2>5. Body(g)[k + 1] = Recover(g[k], markers[k + 1], h)
    BY <2>2
  <2> HIDE DEF Body, N
  <2> QED BY <1>3, <2>2, <2>3, <2>4, <2>5
<1>11. Nat \subseteq K
  <2> HIDE DEF K
  <2> QED BY <1>9, <1>10, InductionOnNaturals
<1> QED BY <1>1, <1>2, <1>8, <1>11

\* The addresses of a pruned registry written and the locks not yet: what was there
\* and is not due is there in its order.
LEMMA ExtendedTorn ==
  ASSUME NEW D, NEW h, DiskSound(D, h), NEW R, RegistrySound(R), D.locks.locks = R.locks,
         Kept(R.kings, Live(R.locks, h)) = Kept(D.locks.order, Live(R.locks, h)),
         NEW S, RegistrySound(S), Extended(S, R)
  PROVE  LET live == Without(S, ExpiredAt(S, h))
         IN  DiskSound(Torn(D, live), h) /\ Torn(D, live).locks = D.locks
<1> DEFINE V == Live(R.locks, h)
           X == ExpiredAt(S, h)
           live == Without(S, X)
           W == ToSet(R.kings)
<1>1. /\ live.kings = Kept(S.kings, Address \ X) /\ S.kings \in Seq(Address)
      /\ live.kings \in Seq(Address) /\ IsInjective(live.kings)
  BY WithoutSound DEF RegistrySound, Registries
<1>2. V \subseteq W /\ V \subseteq Address /\ V \subseteq Locked(R.locks)
  BY DEF Live, Locked, RegistrySound
<1>3. V \cap X = {}
  <2>1. ASSUME NEW a \in V, a \in X PROVE FALSE
    <3>1. S.locks[a] = R.locks[a] /\ a \in Locked(R.locks)
      BY <1>2 DEF Extended
    <3>2. a \in DueAt(R.locks, h)
      BY <2>1, <3>1 DEF ExpiredAt, DueAt
    <3> QED BY <3>2 DEF Live
  <2> QED BY <2>1
<1>4. (Address \ X) \cap V = V /\ W \cap V = V
  BY <1>2, <1>3
<1>5. Kept(S.kings, W) = R.kings
  BY DEF Extended
<1> HIDE DEF V, X, W, live
<1>6. Kept(Kept(S.kings, Address \ X), V) = Kept(S.kings, V)
  BY <1>1, <1>4, KeptTwice
<1>7. Kept(Kept(S.kings, W), V) = Kept(S.kings, V)
  BY <1>1, <1>4, KeptTwice
<1>8. Kept(live.kings, V) = Kept(R.kings, V)
  BY <1>1, <1>5, <1>6, <1>7
<1>9. Kept(live.kings, Live(D.locks.locks, h)) = Kept(D.locks.order, Live(D.locks.locks, h))
  BY <1>8 DEF V
<1>10. DiskSound(Torn(D, live), h) /\ Torn(D, live).locks = D.locks
  BY <1>1, <1>9, TornSound
<1> QED BY <1>10 DEF live, X

\* A running node's records have its live kings in its order.
LEMMA StoreLive ==
  ASSUME NEW R, RegistrySound(R), NEW D, StoreSound(R, D), NEW h
  PROVE  /\ D.locks.locks = R.locks
         /\ Kept(R.kings, Live(R.locks, h)) = Kept(D.locks.order, Live(R.locks, h))
<1> DEFINE L == Locked(R.locks)
           V == Live(R.locks, h)
<1>1. D.locks.locks = R.locks /\ D.locks.order = Kept(R.kings, L) /\ R.kings \in Seq(Address)
  BY RecordMeaning DEF RegistrySound, Registries
<1>2. L \cap V = V
  BY DEF Live
<1> HIDE DEF L, V
<1>3. Kept(Kept(R.kings, L), V) = Kept(R.kings, V)
  BY <1>1, <1>2, KeptTwice
<1> QED BY <1>1, <1>3 DEF V

LEMMA ExtendedSelf ==
  ASSUME NEW R, RegistrySound(R)
  PROVE  Extended(R, R)
<1>1. R.kings \in Seq(Address)
  BY DEF RegistrySound, Registries
<1> QED BY <1>1, KeptWhole DEF Extended

LEMMA PrunedTorn ==
  ASSUME NEW D, NEW h, DiskSound(D, h), NEW R, RegistrySound(R), StoreSound(R, D)
  PROVE  DiskSound(Torn(D, Without(R, ExpiredAt(R, h))), h)
BY StoreLive, ExtendedSelf, ExtendedTorn

(***************************************************************************)
(* The steps                                                               *)
(***************************************************************************)
\* What a step must show of the one node whose state it replaces.
LEMMA NodeStep ==
  ASSUME NodesSound, NEW n \in Node, NEW R, NEW D, NEW E, NEW x, NEW h \in Nat, NEW u \in BOOLEAN,
         registry' = [registry EXCEPT ![n] = R],
         disk' = [disk EXCEPT ![n] = D],
         engine' = [engine EXCEPT ![n] = E],
         extra' = [extra EXCEPT ![n] = x],
         height' = [height EXCEPT ![n] = h],
         up' = [up EXCEPT ![n] = u],
         RegistrySound(R), u => StoreSound(R, D), DiskSound(D, h), Covers(E, R), DueBy(R, h),
         x \in Marker \cup {NoMarker}, MarkerDue(x, h)
  PROVE  NodesSound'
<1>1. R \in Registries /\ D \in Stores /\ E \in Engines
  BY DEF RegistrySound, DiskSound, Covers
<1>2. NodesTyped
  BY DEF NodesSound
<1>3. NodesTyped'
  BY <1>1, <1>2 DEF NodesTyped
<1>4. ASSUME NEW m \in Node PROVE NodeSound(m)'
  <2>1. CASE m = n
    <3>1. /\ registry'[m] = R /\ disk'[m] = D /\ engine'[m] = E /\ extra'[m] = x
          /\ height'[m] = h /\ up'[m] = u
      BY <1>2, <2>1 DEF NodesTyped
    <3> QED BY <3>1 DEF NodeSound
  <2>2. CASE m # n
    <3>1. /\ registry'[m] = registry[m] /\ disk'[m] = disk[m] /\ engine'[m] = engine[m]
          /\ extra'[m] = extra[m] /\ height'[m] = height[m] /\ up'[m] = up[m]
      BY <1>2, <2>2 DEF NodesTyped
    <3>2. NodeSound(m)
      BY DEF NodesSound
    <3> QED BY <3>1, <3>2 DEF NodeSound
  <2> QED BY <2>1, <2>2
<1> QED BY <1>3, <1>4 DEF NodesSound

\* What stays of a variable that a step leaves alone.
LEMMA Unchanged ==
  ASSUME NodesTyped, NEW n \in Node
  PROVE  /\ extra = [extra EXCEPT ![n] = extra[n]]
         /\ height = [height EXCEPT ![n] = height[n]]
         /\ engine = [engine EXCEPT ![n] = engine[n]]
         /\ disk = [disk EXCEPT ![n] = disk[n]]
         /\ registry = [registry EXCEPT ![n] = registry[n]]
         /\ up = [up EXCEPT ![n] = up[n]]
         /\ height[n] \in Nat /\ extra[n] \in Marker \cup {NoMarker} /\ up[n] \in BOOLEAN
BY DEF NodesTyped

\* The writes of a step end it, or the process.
LEMMA WritesEnd ==
  ASSUME NEW n \in Node, NEW between, NEW D, Writes(n, between, D), events \in Nat
  PROVE  /\ events' \in Nat
         /\ \E B, u : /\ disk' = [disk EXCEPT ![n] = B] /\ up' = [up EXCEPT ![n] = u]
                      /\ u \in BOOLEAN
                      /\ \/ u = TRUE /\ B = D
                         \/ u = FALSE /\ B \in between
<1>1. CASE disk' = [disk EXCEPT ![n] = D] /\ up' = [up EXCEPT ![n] = TRUE] /\ UNCHANGED events
  BY <1>1
<1>2. CASE Event /\ (\E B \in between : disk' = [disk EXCEPT ![n] = B]) /\ up' = [up EXCEPT ![n] = FALSE]
  <2>1. PICK B \in between : disk' = [disk EXCEPT ![n] = B]
    BY <1>2
  <2>2. events' \in Nat
    BY <1>2 DEF Event
  <2> QED BY <1>2, <2>1, <2>2
<1> QED BY <1>1, <1>2 DEF Writes

\* A running node before a step, as its RPCs see it.
LEMMA RunningNode ==
  ASSUME NodesSound, NEW n \in Node, up[n]
  PROVE  /\ NodesTyped /\ disk[n] \in Stores /\ IsInjective(disk[n].kings)
         /\ DiskSound(disk[n], height[n])
         /\ RegistrySound(registry[n]) /\ StoreSound(registry[n], disk[n])
         /\ Covers(engine[n], registry[n]) /\ DueBy(registry[n], height[n])
         /\ RegistrySound(Loaded(n)) /\ StoreSound(Loaded(n), disk[n])
         /\ Covers(engine[n], Loaded(n)) /\ DueBy(Loaded(n), height[n])
         /\ LoadedEngine(n) = engine[n]
         /\ MarkerDue(extra[n], height[n])
         /\ height[n] \in Nat /\ extra[n] \in Marker \cup {NoMarker}
<1>1. NodesTyped /\ NodeSound(n)
  BY DEF NodesSound
<1>2. /\ disk[n] \in Stores /\ IsInjective(disk[n].kings) /\ DiskSound(disk[n], height[n])
      /\ RegistrySound(registry[n]) /\ StoreSound(registry[n], disk[n])
      /\ Covers(engine[n], registry[n]) /\ DueBy(registry[n], height[n])
      /\ MarkerDue(extra[n], height[n])
  BY <1>1 DEF NodeSound, DiskSound
<1> QED BY <1>1, <1>2, LoadedSound, Unchanged

\* A read by RPC: pruning, with its two writes, then the check of the stakes.
LEMMA ReadStep ==
  ASSUME KingInv, NEW n \in Node, Read(n)
  PROVE  KingInv'
<1> DEFINE R == Loaded(n)
           D == disk[n]
           E == engine[n]
           h == height[n]
           live == Without(R, ExpiredAt(R, h))
           kept == Without(live, Underfunded(live))
           F == IF live = R THEN D ELSE Persisted(live)
           G == FundedStored(live, F)
           between == IF live = R THEN {} ELSE {Torn(D, live), F}
<1>1. NodesSound /\ up[n] /\ NetSound
  BY DEF KingInv, Read
<1>2. /\ NodesTyped /\ D \in Stores /\ IsInjective(D.kings) /\ DiskSound(D, h)
      /\ RegistrySound(R) /\ StoreSound(R, D) /\ Covers(E, R) /\ DueBy(R, h)
      /\ LoadedEngine(n) = E /\ MarkerDue(extra[n], h)
      /\ h \in Nat /\ extra[n] \in Marker \cup {NoMarker}
  BY <1>1, RunningNode
<1>3. /\ registry' = [registry EXCEPT ![n] = kept]
      /\ Writes(n, between, G)
      /\ engine' = [engine EXCEPT ![n] = E]
      /\ UNCHANGED <<extra, height, pending, headers, balance, net>>
  BY <1>2 DEF Read
<1> HIDE DEF R, D, E, h
<1>4. RegistrySound(live) /\ Covers(E, live) /\ DueBy(live, h)
  BY <1>2, WithoutSound, WithoutCovered
<1>5. StoreSound(live, F) /\ F \in Stores /\ IsInjective(F.kings)
  BY <1>2, <1>4, PersistedSound
<1>6. DiskSound(Torn(D, live), h)
  BY <1>2, PrunedTorn
<1> HIDE DEF live, F
<1>7. /\ RegistrySound(kept) /\ Covers(E, kept) /\ DueBy(kept, h)
      /\ StoreSound(kept, G) /\ G \in Stores /\ IsInjective(G.kings)
  BY <1>4, <1>5, WithoutSound, WithoutCovered, FundedSound
<1> HIDE DEF kept, G
<1>8. DiskSound(G, h) /\ DiskSound(F, h)
  BY <1>4, <1>5, <1>7, StoreDisk
<1>9. /\ extra' = [extra EXCEPT ![n] = extra[n]]
      /\ height' = [height EXCEPT ![n] = h]
  BY <1>2, <1>3, Unchanged DEF h
<1>10. Writes(n, between, G) /\ events \in Nat
  BY <1>1, <1>3 DEF NetSound
<1> HIDE DEF between
<1>11. events' \in Nat
  BY <1>10, WritesEnd
<1>12. PICK B, u : /\ disk' = [disk EXCEPT ![n] = B] /\ up' = [up EXCEPT ![n] = u]
                   /\ u \in BOOLEAN
                   /\ \/ u = TRUE /\ B = G
                      \/ u = FALSE /\ B \in between
  BY <1>10, WritesEnd
<1>13. DiskSound(B, h) /\ (u => StoreSound(kept, B))
  BY <1>6, <1>7, <1>8, <1>12 DEF between
<1>14. NodesSound'
  BY <1>1, <1>2, <1>3, <1>7, <1>9, <1>12, <1>13, NodeStep
<1>15. NetSound'
  BY <1>1, <1>3, <1>11 DEF NetSound, MarkerDue
<1> QED BY <1>14, <1>15 DEF KingInv

\* The kings without their stake are dropped from memory and from the stored locks:
\* what every check of a registration begins with.
LEMMA DropStep ==
  ASSUME NodesSound, NEW n \in Node, up[n], NEW R,
         RegistrySound(R), StoreSound(R, disk[n]), Covers(engine[n], R), DueBy(R, height[n]),
         registry' = [registry EXCEPT ![n] = Without(R, Underfunded(R))],
         disk' = [disk EXCEPT ![n] = FundedStored(R, disk[n])],
         engine' = [engine EXCEPT ![n] = engine[n]],
         UNCHANGED <<extra, height, up>>
  PROVE  NodesSound'
<1> DEFINE kept == Without(R, Underfunded(R))
           F == FundedStored(R, disk[n])
<1>1. /\ NodesTyped /\ disk[n] \in Stores /\ IsInjective(disk[n].kings)
      /\ MarkerDue(extra[n], height[n])
      /\ height[n] \in Nat /\ extra[n] \in Marker \cup {NoMarker}
  BY RunningNode
<1>2. /\ RegistrySound(kept) /\ StoreSound(kept, F) /\ F \in Stores /\ IsInjective(F.kings)
      /\ Covers(engine[n], kept) /\ DueBy(kept, height[n])
  <2>1. RegistrySound(kept) /\ Covers(engine[n], kept) /\ DueBy(kept, height[n])
    BY WithoutSound, WithoutCovered
  <2>2. StoreSound(kept, F) /\ F \in Stores /\ F.kings = disk[n].kings
    BY <1>1, FundedSound
  <2> QED BY <1>1, <2>1, <2>2
<1>3. registry' = [registry EXCEPT ![n] = kept] /\ disk' = [disk EXCEPT ![n] = F]
  OBVIOUS
<1> HIDE DEF kept, F
<1>4. DiskSound(F, height[n])
  BY <1>2, StoreDisk
<1>5. /\ extra' = [extra EXCEPT ![n] = extra[n]]
      /\ height' = [height EXCEPT ![n] = height[n]]
      /\ up' = [up EXCEPT ![n] = up[n]] /\ up[n] \in BOOLEAN
  BY <1>1, Unchanged
<1> QED BY <1>1, <1>2, <1>3, <1>4, <1>5, NodeStep

LEMMA AddCheckStep ==
  ASSUME KingInv, NEW n \in Node, NEW a \in Address, AddCheck(n, a)
  PROVE  KingInv'
<1>1. NodesSound /\ up[n]
  BY DEF KingInv, AddCheck
<1>2. /\ RegistrySound(Loaded(n)) /\ StoreSound(Loaded(n), disk[n])
      /\ Covers(engine[n], Loaded(n)) /\ DueBy(Loaded(n), height[n])
      /\ LoadedEngine(n) = engine[n] /\ NodesTyped
  BY <1>1, RunningNode
<1>3. /\ registry' = [registry EXCEPT ![n] = Without(Loaded(n), Underfunded(Loaded(n)))]
      /\ disk' = [disk EXCEPT ![n] = FundedStored(Loaded(n), disk[n])]
      /\ engine' = [engine EXCEPT ![n] = engine[n]]
      /\ UNCHANGED <<extra, height, up, headers, balance, net, events>>
  BY <1>2 DEF AddCheck, NodesTyped
<1>4. NodesSound'
  BY <1>1, <1>2, <1>3, DropStep
<1>5. pending' \in [Node -> SUBSET Requests]
  <2>1. pending \in [Node -> SUBSET Requests] /\ Request(a, "rpc") \in Requests
    BY DEF KingInv, NetSound, Request, Requests
  <2>2. pending' = pending \/ pending' = [pending EXCEPT ![n] = pending[n] \cup {Request(a, "rpc")}]
    BY <2>1 DEF AddCheck
  <2> HIDE DEF Requests
  <2> QED BY <2>1, <2>2
<1>6. NetSound'
  BY <1>3, <1>5 DEF KingInv, NetSound, MarkerDue
<1> QED BY <1>4, <1>6 DEF KingInv

LEMMA NoteCheckStep ==
  ASSUME KingInv, NEW n \in Node, NEW a \in Address, NoteCheck(n, a)
  PROVE  KingInv'
<1>1. NodesSound /\ up[n]
  BY DEF KingInv, NoteCheck
<1>2. /\ RegistrySound(registry[n]) /\ StoreSound(registry[n], disk[n])
      /\ Covers(engine[n], registry[n]) /\ DueBy(registry[n], height[n]) /\ NodesTyped
  BY <1>1, RunningNode
<1>3. /\ registry' = [registry EXCEPT ![n] = Without(registry[n], Underfunded(registry[n]))]
      /\ disk' = [disk EXCEPT ![n] = FundedStored(registry[n], disk[n])]
      /\ net' \subseteq net
      /\ UNCHANGED <<engine, extra, height, up, headers, balance, events>>
  BY <1>2 DEF NoteCheck, NodesTyped
<1>4. NodesSound'
  <2>1. engine' = [engine EXCEPT ![n] = engine[n]]
    BY <1>2, <1>3, Unchanged
  <2> QED BY <1>1, <1>2, <1>3, <2>1, DropStep
<1>5. pending' \in [Node -> SUBSET Requests]
  <2>1. pending \in [Node -> SUBSET Requests] /\ Request(a, "peer") \in Requests
    BY DEF KingInv, NetSound, Request, Requests
  <2>2. pending' = pending \/ pending' = [pending EXCEPT ![n] = pending[n] \cup {Request(a, "peer")}]
    BY <2>1 DEF NoteCheck
  <2> HIDE DEF Requests
  <2> QED BY <2>1, <2>2
<1>6. NetSound'
  BY <1>3, <1>5 DEF KingInv, NetSound, MarkerDue
<1> QED BY <1>4, <1>6 DEF KingInv

\* A new lock is due at the next boundary, and so is its marker.
LEMMA NewLockDue ==
  ASSUME NEW h \in Nat, NEW a \in Address
  PROVE  /\ NewLock(h) \in Lock /\ NewLock(h).activation = NextActivation(h)
         /\ Encoded(a, NewLock(h)) \in Marker
         /\ MarkerDue(Encoded(a, NewLock(h)), h)
<1> DEFINE act == NextActivation(h)
           m == Encoded(a, NewLock(h))
<1>1. act \in Nat
  BY Boundaries
<1>2. LockBlocks \in Nat /\ MaxMarker \in Nat \ {0}
  BY KingAssumption
<1> HIDE DEF act
<1>3. NewLock(h) \in Lock /\ NewLock(h) = [added |-> h + 1, activation |-> act,
                                           unlock |-> h + LockBlocks, timed |-> TRUE]
  BY <1>1, <1>2 DEF NewLock, Lock, act
<1>4. Cap(h + 1) \in Nat \ {0} /\ Cap(act) \in Nat /\ Cap(act) <= act /\ Cap(h + LockBlocks) \in Nat
  BY <1>1, <1>2 DEF Cap
<1>5. m = [address |-> a, added |-> Cap(h + 1), activation |-> Cap(act),
           unlock |-> Cap(h + LockBlocks), full |-> TRUE]
  BY <1>3 DEF Encoded
<1> HIDE DEF m
<1>6. m \in Marker /\ m.activation <= act
  BY <1>4, <1>5 DEF Marker
<1> QED BY <1>3, <1>6 DEF MarkerDue, act, m

LEMMA RecordPendingStep ==
  ASSUME KingInv, NEW n \in Node, NEW a \in Address, NEW via \in {"rpc", "peer"},
         RecordPending(n, a, via)
  PROVE  KingInv'
<1> DEFINE R == IF via = "rpc" THEN Loaded(n) ELSE registry[n]
           D == disk[n]
           E == engine[n]
           h == height[n]
<1>1. NodesSound /\ NetSound /\ up[n]
  BY DEF KingInv, RecordPending
<1>2. /\ NodesTyped /\ D \in Stores /\ DiskSound(D, h)
      /\ RegistrySound(R) /\ StoreSound(R, D) /\ Covers(E, R) /\ DueBy(R, h)
      /\ MarkerDue(extra[n], h) /\ LoadedEngine(n) = E
      /\ h \in Nat /\ extra[n] \in Marker \cup {NoMarker}
  BY <1>1, RunningNode
<1>3. /\ pending' = [pending EXCEPT ![n] = @ \ {Request(a, via)}]
      /\ UNCHANGED <<height, headers, balance>>
      /\ \/ IsRegistered(R, a) /\ registry' = [registry EXCEPT ![n] = R]
            /\ engine' = [engine EXCEPT ![n] = E] /\ UNCHANGED <<disk, up, extra, net, events>>
         \/ ~IsRegistered(R, a) /\ Record(n, a, R, E)
  BY <1>2 DEF RecordPending
<1>4. pending' \in [Node -> SUBSET Requests]
  <2> HIDE DEF Requests
  <2> QED BY <1>1, <1>3 DEF NetSound
<1>5. height' = [height EXCEPT ![n] = h]
  BY <1>2, <1>3, Unchanged
<1>6. CASE IsRegistered(R, a)
  <2>1. /\ registry' = [registry EXCEPT ![n] = R] /\ engine' = [engine EXCEPT ![n] = E]
        /\ UNCHANGED <<disk, up, extra, net, events>>
    BY <1>3, <1>6
  <2>2. /\ disk' = [disk EXCEPT ![n] = D] /\ extra' = [extra EXCEPT ![n] = extra[n]]
        /\ up' = [up EXCEPT ![n] = up[n]] /\ up[n] \in BOOLEAN
    BY <1>2, <2>1, Unchanged
  <2>3. NodesSound'
    <3> HIDE DEF R, D, E, h
    <3> QED BY <1>1, <1>2, <1>5, <2>1, <2>2, NodeStep
  <2>4. NetSound'
    BY <1>1, <1>3, <1>4, <2>1 DEF NetSound, MarkerDue
  <2> QED BY <2>3, <2>4 DEF KingInv
<1>7. CASE ~IsRegistered(R, a)
  <2> DEFINE lock == NewLock(h)
             act == NextActivation(h)
             N == [kings |-> Append(R.kings, a), locks |-> [R.locks EXCEPT ![a] = lock]]
             F == AddToEngine(E, a, act)
             x == Encoded(a, lock)
             between == {Torn(D, N)}
             G == Persisted(N)
  <2>1. lock \in Lock /\ lock.activation = act /\ x \in Marker /\ MarkerDue(x, h)
        /\ act \in Nat /\ act <= act
    BY <1>2, NewLockDue, Boundaries
  <2>2. /\ registry' = [registry EXCEPT ![n] = N]
        /\ Writes(n, between, G)
        /\ extra' = [extra EXCEPT ![n] = x]
        /\ engine' = [engine EXCEPT ![n] = F]
        /\ net' \subseteq net \cup {[to |-> m, address |-> a] : m \in Node \ {n}}
    BY <1>3, <1>7, <2>1 DEF Record
  <2> HIDE DEF R, D, E, h
  <2>3. /\ R.kings \in Seq(Address) /\ R.locks \in Locks /\ IsInjective(R.kings)
        /\ a \notin ToSet(R.kings) /\ R.locks[a] = NoLock
    <3>1. R.kings \in Seq(Address) /\ R.locks \in Locks /\ IsInjective(R.kings)
      BY <1>2 DEF RegistrySound, Registries
    <3> QED BY <1>7, <3>1, MembersTyped DEF IsRegistered
  <2>4. /\ N.kings = Append(R.kings, a) /\ N.kings \in Seq(Address) /\ IsInjective(N.kings)
        /\ ToSet(N.kings) = ToSet(R.kings) \cup {a}
    BY <2>3, AppendMembers
  <2>5. Grown(N, R, a, act)
    <3> DEFINE L == [R.locks EXCEPT ![a] = lock]
    <3>1. L \in Locks /\ L[a] = lock /\ \A b \in Address \ {a} : L[b] = R.locks[b]
      <4> HIDE DEF lock
      <4> QED BY <2>1, <2>3 DEF Locks
    <3>2. N.locks = L /\ N = [kings |-> N.kings, locks |-> N.locks]
      OBVIOUS
    <3> HIDE DEF L, N, lock, act
    <3> QED BY <2>1, <2>3, <2>4, <3>1, <3>2 DEF Grown, Registries
  <2>6. Kept(N.kings, Live(D.locks.locks, h)) = Kept(D.locks.order, Live(D.locks.locks, h))
    <3> DEFINE V == Live(R.locks, h)
    <3>1. D.locks.locks = R.locks /\ Kept(R.kings, V) = Kept(D.locks.order, V)
      BY <1>2, StoreLive
    <3>2. a \notin V
      BY <2>3 DEF Live, Locked
    <3> HIDE DEF V
    <3>3. Kept(Append(R.kings, a), V) = Kept(R.kings, V)
      BY <2>3, <3>2, KeptOfAppend
    <3> HIDE DEF N
    <3> QED BY <2>4, <3>1, <3>3 DEF V
  <2> HIDE DEF N, F, x, act
  <2>7. RegistrySound(N) /\ Covers(F, N) /\ DueBy(N, h)
    <3> QED BY <1>2, <2>1, <2>5, GrownSound DEF F, act
  <2>8. DiskSound(Torn(D, N), h)
    BY <1>2, <2>4, <2>6, TornSound
  <2>9. StoreSound(N, G) /\ G \in Stores /\ IsInjective(G.kings)
    BY <2>7, PersistedSound
  <2> HIDE DEF G
  <2>10. DiskSound(G, h)
    BY <2>7, <2>9, StoreDisk
  <2>11. Writes(n, between, G) /\ events \in Nat
    BY <1>1, <2>2 DEF NetSound
  <2> HIDE DEF between
  <2>12. events' \in Nat
    BY <2>11, WritesEnd
  <2>13. PICK B, u : /\ disk' = [disk EXCEPT ![n] = B] /\ up' = [up EXCEPT ![n] = u]
                     /\ u \in BOOLEAN
                     /\ \/ u = TRUE /\ B = G
                        \/ u = FALSE /\ B \in between
    BY <2>11, WritesEnd
  <2>14. DiskSound(B, h) /\ (u => StoreSound(N, B))
    BY <2>8, <2>9, <2>10, <2>13 DEF between
  <2>15. NodesSound'
    BY <1>1, <1>2, <1>5, <2>1, <2>2, <2>7, <2>13, <2>14, NodeStep
  <2>16. net' \subseteq Messages
    BY <1>1, <2>2 DEF NetSound, Messages
  <2>17. NetSound'
    BY <1>1, <1>3, <1>4, <2>12, <2>16 DEF NetSound, MarkerDue
  <2> QED BY <2>15, <2>17 DEF KingInv
<1> QED BY <1>6, <1>7

LEMMA ConnectStep ==
  ASSUME KingInv, NEW n \in Node, NEW m \in Node, Connect(n, m)
  PROVE  KingInv'
<1>1. NodeSound(n) /\ NetSound /\ NodesSound
  BY DEF KingInv, NodesSound
<1>2. registry[n].kings \in Seq(Address)
  BY <1>1 DEF NodeSound, RegistrySound, Registries
<1>3. ToSet(registry[n].kings) \subseteq Address
  BY <1>2, MembersTyped
<1>4. net' \subseteq Messages
  BY <1>1, <1>3 DEF Connect, NetSound, Messages
<1>5. events' \in Nat /\ UNCHANGED <<registry, disk, engine, extra, height, up, pending, headers, balance>>
  BY <1>1 DEF Connect, Event, NetSound
<1>6. NetSound'
  BY <1>1, <1>4, <1>5 DEF NetSound, MarkerDue
<1>7. NodesSound'
  BY <1>1, <1>5 DEF NodesSound, NodesTyped, NodeSound
<1> QED BY <1>6, <1>7 DEF KingInv

LEMMA TransferStep ==
  ASSUME KingInv, NEW a \in Address, NEW v \in 0..2, Transfer(a, v)
  PROVE  KingInv'
<1>1. NetSound /\ NodesSound
  BY DEF KingInv
<1>2. balance' \in [Address -> 0..2]
  BY <1>1 DEF Transfer, NetSound
<1>3. events' \in Nat /\ UNCHANGED <<registry, disk, engine, extra, height, up, pending, headers, net>>
  BY <1>1 DEF Transfer, Event, NetSound
<1>4. NetSound'
  BY <1>1, <1>2, <1>3 DEF NetSound, MarkerDue
<1>5. NodesSound'
  BY <1>1, <1>3 DEF NodesSound, NodesTyped, NodeSound
<1> QED BY <1>4, <1>5 DEF KingInv

LEMMA CrashStep ==
  ASSUME KingInv, NEW n \in Node, Crash(n)
  PROVE  KingInv'
<1>1. NetSound /\ NodesSound /\ NodesTyped
  BY DEF KingInv, NodesSound
<1>2. /\ events' \in Nat /\ up' = [up EXCEPT ![n] = FALSE]
      /\ UNCHANGED <<registry, disk, engine, extra, height, pending, headers, balance, net>>
  BY <1>1 DEF Crash, Event, NetSound
<1>3. NetSound'
  BY <1>1, <1>2 DEF NetSound, MarkerDue
<1>4. up' \in [Node -> BOOLEAN] /\ \A m \in Node : up'[m] => up[m]
  BY <1>1, <1>2 DEF NodesTyped
<1>5. NodesSound'
  BY <1>1, <1>2, <1>4 DEF NodesSound, NodesTyped, NodeSound
<1> QED BY <1>3, <1>5 DEF KingInv

\* What follows a recovery keeps the node sound.  The records before it need only be
\* sound by themselves, as a new process finds them.
LEMMA RecoveredStep ==
  ASSUME NodesSound, NEW n \in Node, events \in Nat,
         NEW S, NEW h \in Nat, ScanSound(S, h),
         NEW was, RegistrySound(was), Extended(S, was),
         NEW D, DiskSound(D, h), D.locks.locks = was.locks,
         Kept(was.kings, Live(was.locks, h)) = Kept(D.locks.order, Live(was.locks, h)),
         ExpiredAt(was, h) = {} => StoreSound(was, D),
         Recovered(n, S, h, was, D),
         NEW x \in Marker \cup {NoMarker}, MarkerDue(x, h),
         extra' = [extra EXCEPT ![n] = x],
         height' = [height EXCEPT ![n] = h]
  PROVE  NodesSound' /\ events' \in Nat
<1> DEFINE R == RegistryOf(S)
           X == ExpiredAt(R, h)
           live == Without(R, X)
<1>1. /\ registry' = [registry EXCEPT ![n] = live]
      /\ engine' = [engine EXCEPT ![n] = S.engine]
      /\ \/ R = was /\ live = R /\ Writes(n, {D}, D)
         \/ Writes(n, {D, Torn(D, live)}, Persisted(live))
  BY DEF Recovered, RegistryOf
<1>2. RegistrySound(R) /\ Covers(S.engine, R) /\ DueBy(R, h)
  BY DEF ScanSound
<1>3. Extended(R, was)
  BY DEF Extended, RegistryOf
<1> HIDE DEF R
<1>4. RegistrySound(live) /\ Covers(S.engine, live) /\ DueBy(live, h)
  BY <1>2, WithoutSound, WithoutCovered
<1>5. DiskSound(Torn(D, live), h)
  BY <1>2, <1>3, ExtendedTorn
<1>6. R = was /\ live = R => StoreSound(live, D)
  <2>1. ASSUME R = was, live = R PROVE StoreSound(live, D)
    <3>1. X \subseteq Locked(R.locks)
      BY DEF ExpiredAt, DueAt
    <3>2. X = {}
      BY <1>2, <2>1, <3>1, WithoutNobody
    <3> HIDE DEF live
    <3> QED BY <2>1, <3>2
  <2> QED BY <2>1
<1> HIDE DEF live
<1>7. StoreSound(live, Persisted(live)) /\ DiskSound(Persisted(live), h)
  BY <1>4, PersistedSound, StoreDisk
<1>8. \E B, u : /\ disk' = [disk EXCEPT ![n] = B] /\ up' = [up EXCEPT ![n] = u]
                /\ u \in BOOLEAN /\ DiskSound(B, h) /\ (u => StoreSound(live, B))
  <2>1. CASE R = was /\ live = R /\ Writes(n, {D}, D)
    <3>1. PICK B, u : /\ disk' = [disk EXCEPT ![n] = B] /\ up' = [up EXCEPT ![n] = u]
                      /\ u \in BOOLEAN /\ ((u = TRUE /\ B = D) \/ (u = FALSE /\ B \in {D}))
      BY <2>1, WritesEnd
    <3>2. DiskSound(B, h) /\ (u => StoreSound(live, B))
      BY <1>6, <2>1, <3>1
    <3> QED BY <3>1, <3>2
  <2>2. CASE Writes(n, {D, Torn(D, live)}, Persisted(live))
    <3> DEFINE between == {D, Torn(D, live)}
               G == Persisted(live)
    <3>0. Writes(n, between, G)
      BY <2>2
    <3> HIDE DEF between, G
    <3>1. PICK B, u : /\ disk' = [disk EXCEPT ![n] = B] /\ up' = [up EXCEPT ![n] = u]
                      /\ u \in BOOLEAN
                      /\ \/ u = TRUE /\ B = G
                         \/ u = FALSE /\ B \in between
      BY <3>0, WritesEnd
    <3>2. DiskSound(B, h) /\ (u => StoreSound(live, B))
      BY <1>5, <1>7, <3>1 DEF between, G
    <3> QED BY <3>1, <3>2
  <2> QED BY <1>1, <2>1, <2>2
<1>9. PICK B, u : /\ disk' = [disk EXCEPT ![n] = B] /\ up' = [up EXCEPT ![n] = u]
                  /\ u \in BOOLEAN /\ DiskSound(B, h) /\ (u => StoreSound(live, B))
  BY <1>8
<1>10. events' \in Nat
  BY <1>1, WritesEnd
<1> QED BY <1>1, <1>4, <1>9, <1>10, NodeStep

\* A head event at a block whose marker is due.
LEMMA HeadEventStep ==
  ASSUME NodesSound, NEW n \in Node, up[n], events \in Nat,
         NEW marker \in Marker \cup {NoMarker}, NEW h \in Nat,
         height[n] <= h, MarkerDue(marker, h), HeadEvent(n, marker, h), UNCHANGED extra
  PROVE  NodesSound' /\ events' \in Nat
<1> DEFINE R == registry[n]
           D == disk[n]
           S == Recover(State(R, engine[n]), marker, h)
<1>1. /\ NodesTyped /\ DiskSound(D, height[n])
      /\ RegistrySound(R) /\ StoreSound(R, D) /\ Covers(engine[n], R)
      /\ DueBy(R, height[n]) /\ MarkerDue(extra[n], height[n])
      /\ height[n] \in Nat /\ extra[n] \in Marker \cup {NoMarker}
  BY RunningNode
<1>2. /\ NextActivation(height[n]) <= NextActivation(h)
      /\ NextActivation(height[n]) \in Nat /\ NextActivation(h) \in Nat
  BY <1>1, Boundaries
<1>3. DueBy(R, h)
  <2>1. ASSUME NEW a \in Locked(R.locks) PROVE R.locks[a].activation <= NextActivation(h)
    <3>1. R.locks[a] \in Lock
      BY <1>1 DEF Locked, RegistrySound, Registries, Locks
    <3>2. R.locks[a].activation \in Nat /\ R.locks[a].activation <= NextActivation(height[n])
      BY <1>1, <3>1 DEF Lock, DueBy
    <3> QED BY ONLY <1>2, <3>2
  <2> QED BY <2>1 DEF DueBy
<1>4. MarkerDue(extra[n], h)
  <2>1. extra[n] # NoMarker => extra[n].activation \in Nat
    BY <1>1 DEF Marker
  <2> QED BY <1>1, <1>2, <2>1 DEF MarkerDue
<1>5. DiskSound(D, h)
  BY <1>1, DiskLater
<1>6. ScanSound(S, h) /\ Extended(S, R)
  <2> DEFINE T == State(R, engine[n])
  <2>1. ScanSound(T, h) /\ Extended(T, R)
    BY <1>1, <1>3, StateSound
  <2> HIDE DEF R, T
  <2>2. ScanSound(S, h) /\ Extended(S, T)
    <3>1. ScanSound(Recover(T, marker, h), h) /\ Extended(Recover(T, marker, h), T)
      BY <2>1, RecoverSound
    <3> QED BY <3>1 DEF T
  <2>3. S.kings \in Seq(Address) /\ T.kings \in Seq(Address)
    BY <2>1, <2>2 DEF ScanSound, Scans
  <2> HIDE DEF S
  <2> QED BY <2>1, <2>2, <2>3, ExtendedTwice
<1>7. Recovered(n, S, h, R, D) /\ height' = [height EXCEPT ![n] = h]
  BY DEF HeadEvent
<1>8. extra' = [extra EXCEPT ![n] = extra[n]]
  BY <1>1, Unchanged
<1> HIDE DEF S, R, D
<1>9. D.locks.locks = R.locks
      /\ Kept(R.kings, Live(R.locks, h)) = Kept(D.locks.order, Live(R.locks, h))
  BY <1>1, StoreLive
<1> QED BY <1>1, <1>4, <1>5, <1>6, <1>7, <1>8, <1>9, RecoveredStep

LEMMA ImportStep ==
  ASSUME KingInv, NEW n \in Node, NEW h \in 1..MaxHeight, Import(n, h)
  PROVE  KingInv'
<1>1. NetSound /\ NodesSound /\ NodesTyped
  BY DEF KingInv, NodesSound
<1>2. /\ height[n] \in Nat /\ Len(headers) \in Nat /\ headers \in Seq(Marker \cup {NoMarker})
      /\ \A k \in 1..Len(headers) : headers[k] \in Marker \cup {NoMarker} /\ MarkerDue(headers[k], k)
  BY <1>1, LenProperties, ElementOfSeq DEF NetSound, NodesTyped
<1>3. /\ h \in Nat /\ height[n] <= h /\ h \in 1..Len(headers)
      /\ HeadEvent(n, headers[h], h)
      /\ up[n] /\ UNCHANGED <<extra, pending, headers, balance, net>>
  BY <1>2 DEF Import
<1>4. headers[h] \in Marker \cup {NoMarker} /\ MarkerDue(headers[h], h)
  BY <1>2, <1>3
<1>5. NodesSound' /\ events' \in Nat
  <2> DEFINE marker == headers[h]
  <2>1. marker \in Marker \cup {NoMarker} /\ MarkerDue(marker, h) /\ HeadEvent(n, marker, h)
        /\ events \in Nat
    BY <1>1, <1>3, <1>4 DEF NetSound
  <2> HIDE DEF marker
  <2> QED BY <1>1, <1>3, <2>1, HeadEventStep
<1>6. \A m \in Node : height'[m] <= Len(headers')
  BY <1>1, <1>2, <1>3 DEF HeadEvent, NetSound, NodesTyped
<1>7. NetSound'
  BY <1>1, <1>3, <1>5, <1>6 DEF NetSound, MarkerDue
<1> QED BY <1>5, <1>7 DEF KingInv

LEMMA MineStep ==
  ASSUME KingInv, NEW n \in Node, Mine(n)
  PROVE  KingInv'
<1>1. NetSound /\ NodesSound /\ NodesTyped /\ NodeSound(n)
  BY DEF KingInv, NodesSound
<1> DEFINE marker == extra[n]
           h == height[n] + 1
<1>2. /\ height[n] \in Nat /\ Len(headers) \in Nat /\ headers \in Seq(Marker \cup {NoMarker})
      /\ marker \in Marker \cup {NoMarker} /\ MarkerDue(marker, height[n])
  BY <1>1, LenProperties DEF NetSound, NodesTyped, NodeSound
<1>3. /\ height[n] = Len(headers) /\ height[n] < MaxHeight
      /\ headers' = Append(headers, marker) /\ HeadEvent(n, marker, h)
      /\ up[n] /\ UNCHANGED <<extra, pending, balance, net>>
  BY DEF Mine
<1>4. h \in Nat /\ height[n] <= h /\ NextActivation(height[n]) <= NextActivation(h)
      /\ NextActivation(height[n]) \in Nat /\ NextActivation(h) \in Nat
  <2>1. h \in Nat /\ height[n] <= h
    BY <1>2
  <2>2. height[n] \in Nat
    BY <1>2
  <2> HIDE DEF h
  <2>3. /\ NextActivation(height[n]) <= NextActivation(h)
        /\ NextActivation(height[n]) \in Nat
    BY ONLY <2>1, <2>2, Boundaries
  <2>4. NextActivation(h) \in Nat
    <3>1. h <= h
      BY ONLY <2>1
    <3> QED BY ONLY <2>1, <3>1, Boundaries
  <2> QED BY <2>1, <2>3, <2>4
<1>5. MarkerDue(marker, h)
  <2>1. marker # NoMarker => marker.activation \in Nat
    BY <1>2 DEF Marker
  <2> QED BY <1>2, <1>4, <2>1 DEF MarkerDue
<1>6. /\ headers' \in Seq(Marker \cup {NoMarker}) /\ Len(headers') = Len(headers) + 1
      /\ \A k \in 1..Len(headers) : headers'[k] = headers[k]
      /\ headers'[Len(headers) + 1] = marker
  <2> DEFINE U == Marker \cup {NoMarker}
  <2>1. headers \in Seq(U) /\ marker \in U /\ headers' = Append(headers, marker)
    BY <1>2, <1>3
  <2> HIDE DEF U, marker
  <2>2. headers' \in Seq(U) /\ Len(headers') = Len(headers) + 1
        /\ (\A k \in 1..Len(headers) : headers'[k] = headers[k])
        /\ headers'[Len(headers) + 1] = marker
    BY <2>1, AppendProperties
  <2> QED BY <2>2 DEF U
<1>7. NodesSound' /\ events' \in Nat
  <2>1. events \in Nat
    BY <1>1 DEF NetSound
  <2> HIDE DEF marker, h
  <2> QED BY <1>1, <1>2, <1>3, <1>4, <1>5, <2>1, HeadEventStep
<1>8. \A m \in Node : height'[m] <= Len(headers')
  <2>1. height' = [height EXCEPT ![n] = h]
    BY <1>3 DEF HeadEvent
  <2> QED BY <1>1, <1>2, <1>3, <1>6, <2>1 DEF NetSound, NodesTyped
<1>9. \A k \in 1..Len(headers') : MarkerDue(headers'[k], k)
  <2>1. TAKE k \in 1..Len(headers')
  <2>2. CASE k \in 1..Len(headers)
    BY <1>1, <1>6, <2>2 DEF NetSound
  <2>3. CASE k = Len(headers) + 1
    BY <1>3, <1>5, <1>6, <2>3
  <2> QED BY <1>2, <1>6, <2>2, <2>3
<1>10. Len(headers') <= MaxHeight
  BY <1>2, <1>3, <1>6, KingAssumption
<1> HIDE DEF marker, h
<1>11. NetSound'
  BY <1>1, <1>3, <1>6, <1>7, <1>8, <1>9, <1>10 DEF NetSound, MarkerDue
<1> QED BY <1>7, <1>11 DEF KingInv

\* A new process, whatever state the records were left in.
LEMMA StartStep ==
  ASSUME KingInv, NEW n \in Node, Start(n)
  PROVE  KingInv'
<1> DEFINE D == disk[n]
           h == height[n]
           kings == Registered(D)
           R == [kings |-> kings, locks |-> D.locks.locks]
           E == [kings |-> kings, activation |-> [a \in Address |-> 0]]
           markers == SubSeq(headers, 1, h)
           S == Scanned(State(R, E), markers, h)
           F == [D EXCEPT !.kings = kings]
           V == Live(D.locks.locks, h)
<1>1. NetSound /\ NodesSound /\ NodesTyped /\ NodeSound(n) /\ events \in Nat
  BY DEF KingInv, NodesSound, NetSound
<1>2. DiskSound(D, h)
  BY <1>1 DEF NodeSound
<1>3. /\ h \in Nat /\ Len(headers) \in Nat /\ headers \in Seq(Marker \cup {NoMarker})
      /\ h <= Len(headers)
      /\ \A k \in 1..Len(headers) : headers[k] \in Marker \cup {NoMarker} /\ MarkerDue(headers[k], k)
  BY <1>1, LenProperties, ElementOfSeq DEF NetSound, NodesTyped
<1>4. /\ Recovered(n, S, h, R, F)
      /\ extra' = [extra EXCEPT ![n] = NoMarker]
      /\ pending' = [pending EXCEPT ![n] = {}]
      /\ UNCHANGED <<height, headers, balance, net>>
  BY DEF Start
<1>5. height' = [height EXCEPT ![n] = h]
  BY <1>1, <1>4, Unchanged
<1> HIDE DEF D, h
<1>6. /\ kings \in Seq(Address) /\ IsInjective(kings) /\ ToSet(kings) = Locked(D.locks.locks)
      /\ Kept(kings, V) = Kept(D.locks.order, V)
  BY <1>2, RegisteredSound
<1>7. /\ D \in Stores /\ D.locks.locks \in Locks /\ DueBy(D.locks, h)
      /\ D.locks.order \in Seq(Address) /\ ToSet(D.locks.order) = Locked(D.locks.locks)
      /\ D.locks = [order |-> D.locks.order, locks |-> D.locks.locks]
  BY <1>2 DEF DiskSound, Stores
<1> HIDE DEF kings
<1>8. RegistrySound(R) /\ DueBy(R, h) /\ R.kings = kings /\ R.locks = D.locks.locks
  BY <1>6, <1>7 DEF RegistrySound, Registries, DueBy
<1>9. Covers(E, R)
  <2>1. E \in Engines /\ E.kings = kings
    BY <1>6 DEF Engines
  <2>2. ASSUME NEW a \in ToSet(kings) PROVE E.activation[a] <= R.locks[a].activation
    <3>1. D.locks.locks[a] \in Lock /\ a \in Address
      BY <1>6, <1>7 DEF Locked, Locks
    <3>2. R.locks[a].activation \in Nat /\ E.activation[a] = 0
      BY <3>1 DEF Lock
    <3> QED BY <3>2
  <2> HIDE DEF E, R
  <2> QED BY <1>6, <1>8, <2>1, <2>2 DEF Covers
<1>10. /\ markers \in Seq(Marker \cup {NoMarker})
       /\ \A k \in 1..Len(markers) : MarkerDue(markers[k], h)
  <2> DEFINE U == Marker \cup {NoMarker}
  <2>1. headers \in Seq(U) /\ 1 \in 1..(Len(headers) + 1) /\ h \in 0..Len(headers)
    BY <1>3
  <2> HIDE DEF U
  <2>2. /\ markers \in Seq(U) /\ Len(markers) = h
        /\ \A k \in 1..h : markers[k] = headers[k]
    BY <1>3, <2>1, SubSeqProperties
  <2> HIDE DEF markers
  <2>3. ASSUME NEW k \in 1..h PROVE MarkerDue(markers[k], h)
    <3>1. k \in Nat /\ k \in 1..Len(headers) /\ k <= h /\ markers[k] = headers[k]
      BY <1>3, <2>2
    <3>2. headers[k] \in Marker \cup {NoMarker} /\ MarkerDue(headers[k], k)
      BY <1>3, <3>1
    <3>3. headers[k] # NoMarker => headers[k].activation \in Nat
      BY <3>2 DEF Marker
    <3>4. /\ NextActivation(k) <= NextActivation(h)
          /\ NextActivation(k) \in Nat /\ NextActivation(h) \in Nat
      BY <1>3, <3>1, Boundaries
    <3> QED BY <3>1, <3>2, <3>3, <3>4 DEF MarkerDue
  <2> QED BY <2>2, <2>3 DEF U
<1>11. ScanSound(S, h) /\ Extended(S, R)
  <2> DEFINE T == State(R, E)
  <2> HIDE DEF R, E, markers
  <2>1. ScanSound(T, h) /\ Extended(T, R)
    BY <1>8, <1>9, StateSound
  <2> HIDE DEF T
  <2>2. ScanSound(S, h) /\ Extended(S, T)
    <3>1. ScanSound(Scanned(T, markers, h), h) /\ Extended(Scanned(T, markers, h), T)
      BY <1>3, <1>10, <2>1, ScannedSound
    <3> QED BY <3>1 DEF T
  <2>3. S.kings \in Seq(Address) /\ T.kings \in Seq(Address)
    BY <2>1, <2>2 DEF ScanSound, Scans
  <2> HIDE DEF S
  <2> QED BY <2>1, <2>2, <2>3, ExtendedTwice
<1>12. F \in Stores /\ F.kings = kings /\ F.locks = D.locks
  BY <1>6, <1>7 DEF Stores
<1> HIDE DEF F, R, S
<1>13. DiskSound(F, h) /\ F.locks.locks = R.locks
       /\ Kept(R.kings, Live(R.locks, h)) = Kept(F.locks.order, Live(R.locks, h))
  BY <1>2, <1>6, <1>8, <1>12 DEF DiskSound
<1>14. ASSUME ExpiredAt(R, h) = {} PROVE StoreSound(R, F)
  <2>1. V = Locked(R.locks)
    BY <1>8, <1>14 DEF ExpiredAt, Live
  <2>2. Kept(D.locks.order, V) = D.locks.order
    BY <1>7, <1>8, <2>1, KeptWhole
  <2> HIDE DEF V
  <2>3. F.locks = LocksRecord(R)
    BY <1>6, <1>7, <1>8, <1>12, <2>1, <2>2 DEF LocksRecord
  <2> QED BY <1>8, <1>12, <2>3 DEF StoreSound
<1>15. NodesSound' /\ events' \in Nat
  <2> DEFINE x == NoMarker
  <2>1. x \in Marker \cup {NoMarker} /\ MarkerDue(x, h) /\ extra' = [extra EXCEPT ![n] = x]
    BY <1>4 DEF MarkerDue
  <2> HIDE DEF x
  <2> QED BY <1>1, <1>3, <1>4, <1>5, <1>8, <1>11, <1>13, <1>14, <2>1, RecoveredStep
<1>16. pending' \in [Node -> SUBSET Requests]
  <2> HIDE DEF Requests
  <2> QED BY <1>1, <1>4 DEF NetSound
<1>17. NetSound'
  BY <1>1, <1>4, <1>15, <1>16 DEF NetSound, MarkerDue
<1> QED BY <1>15, <1>17 DEF KingInv

LEMMA InitSound == Init => KingInv
<1>1. SUFFICES ASSUME Init PROVE KingInv
  OBVIOUS
<1> DEFINE L == [a \in Address |-> NoLock]
           R == [kings |-> <<>>, locks |-> L]
           E == [kings |-> <<>>, activation |-> [a \in Address |-> 0]]
<1>2. /\ <<>> \in Seq(Address) /\ ToSet(<<>>) = {} /\ IsInjective(<<>>)
  BY DEF ToSet, IsInjective
<1>3. L \in Locks /\ Locked(L) = {}
  BY DEF Locks, Locked
<1>4. RegistrySound(R)
  BY <1>2, <1>3 DEF RegistrySound, Registries
<1>5. Covers(E, R)
  BY <1>2 DEF Covers, Engines
<1>6. \A h : DueBy(R, h) /\ MarkerDue(NoMarker, h)
  BY <1>3 DEF DueBy, MarkerDue
<1>7. StoreSound(R, Persisted(R)) /\ \A h : DiskSound(Persisted(R), h)
  <2> HIDE DEF R
  <2> QED BY <1>4, <1>6, PersistedSound, StoreDisk
<1>8. /\ registry = [n \in Node |-> R] /\ engine = [n \in Node |-> E]
      /\ disk = [n \in Node |-> Persisted(registry[n])]
      /\ extra = [n \in Node |-> NoMarker] /\ height = [n \in Node |-> 0]
      /\ up = [n \in Node |-> TRUE]
      /\ pending = [n \in Node |-> {}] /\ net = {} /\ events = 0
      /\ headers \in {<<>>} \cup {<<LegacyMarker(a)>> : a \in Address}
      /\ balance = [a \in Address |-> 2]
  BY <1>1 DEF Init
<1>9. R \in Registries /\ E \in Engines /\ Persisted(R) \in Stores
  BY <1>4, <1>5, <1>7 DEF RegistrySound, Covers, DiskSound
<1> HIDE DEF R, E
<1>10. NodesSound
  BY <1>4, <1>5, <1>6, <1>7, <1>8, <1>9 DEF NodesSound, NodesTyped, NodeSound
<1>11. /\ headers \in Seq(Marker \cup {NoMarker}) /\ Len(headers) \in {0, 1}
       /\ \A k \in 1..Len(headers) : MarkerDue(headers[k], k)
  <2>1. CASE headers = <<>>
    BY <2>1
  <2>2. ASSUME NEW a \in Address, headers = <<LegacyMarker(a)>>
        PROVE  /\ headers \in Seq(Marker \cup {NoMarker}) /\ Len(headers) \in {0, 1}
               /\ \A k \in 1..Len(headers) : MarkerDue(headers[k], k)
    <3> DEFINE m == LegacyMarker(a)
    <3>1. m \in Marker /\ m.activation = 0
      BY DEF LegacyMarker, Marker
    <3>2. MarkerDue(m, 1)
      <4>1. NextActivation(1) \in Nat
        BY Boundaries
      <4> QED BY <3>1, <4>1 DEF MarkerDue
    <3> HIDE DEF m
    <3>3. headers = <<m>>
      BY <2>2 DEF m
    <3>4. headers \in Seq(Marker \cup {NoMarker}) /\ Len(headers) = 1 /\ headers[1] = m
      BY <3>1, <3>3
    <3> QED BY <3>2, <3>4
  <2> QED BY <1>8, <2>1, <2>2
<1>12. NetSound
  BY <1>8, <1>11, KingAssumption DEF NetSound
<1> QED BY <1>10, <1>12 DEF KingInv

LEMMA NextSound == KingInv /\ [Next]_vars => KingInv'
<1>1. SUFFICES ASSUME KingInv, [Next]_vars PROVE KingInv'
  OBVIOUS
<1>2. ASSUME NEW n \in Miner, Mine(n) PROVE KingInv'
  BY <1>1, <1>2, MineStep, KingAssumption
<1>3. ASSUME NEW n \in Node, NEW h \in 1..MaxHeight, Import(n, h) PROVE KingInv'
  BY <1>1, <1>3, ImportStep
<1>4. ASSUME NEW n \in Operator, NEW a \in Address, AddCheck(n, a) PROVE KingInv'
  BY <1>1, <1>4, AddCheckStep, KingAssumption
<1>5. ASSUME NEW n \in Node, NEW a \in Address, NoteCheck(n, a) PROVE KingInv'
  BY <1>1, <1>5, NoteCheckStep
<1>6. ASSUME NEW n \in Node, NEW a \in Address, NEW via \in {"rpc", "peer"}, RecordPending(n, a, via)
      PROVE  KingInv'
  BY <1>1, <1>6, RecordPendingStep
<1>7. ASSUME NEW n \in Node, Start(n) PROVE KingInv'
  BY <1>1, <1>7, StartStep
<1>12. ASSUME NEW n \in Node, Crash(n) PROVE KingInv'
  BY <1>1, <1>12, CrashStep
<1>8. ASSUME NEW n \in Node, Read(n) PROVE KingInv'
  BY <1>1, <1>8, ReadStep
<1>9. ASSUME NEW n \in Node, NEW m \in Node, Connect(n, m) PROVE KingInv'
  BY <1>1, <1>9, ConnectStep
<1>10. ASSUME NEW a \in Address, NEW v \in 0..2, Transfer(a, v) PROVE KingInv'
  BY <1>1, <1>10, TransferStep
<1>11. CASE UNCHANGED vars
  BY <1>1, <1>11 DEF vars, KingInv, NodesSound, NodesTyped, NodeSound, NetSound, MarkerDue
<1> QED BY <1>1, <1>2, <1>3, <1>4, <1>5, <1>6, <1>7, <1>8, <1>9, <1>10, <1>11, <1>12 DEF Next

\* The inductive invariant holds in every reachable state, for every number of
\* nodes and addresses, every rotation interval, lock period and marker width.
THEOREM KingInvariant == Spec => []KingInv
BY InitSound, NextSound, PTL DEF Spec

\* Lists hold addresses, each once; locks, markers and messages keep their shapes
\* (kingAddresses, rkLocks and rotatingKings of every node).
THEOREM KingTypeCorrect == Spec => []KingTypeOK
<1>1. KingInv => KingTypeOK
  <2>1. SUFFICES ASSUME KingInv PROVE KingTypeOK
    OBVIOUS
  <2>2. NetSound /\ NodesTyped /\ \A n \in Node : NodeSound(n)
    BY <2>1 DEF KingInv, NodesSound
  <2>3. ASSUME NEW n \in Node
        PROVE  /\ ToSet(registry[n].kings) \cup ToSet(engine[n].kings) \subseteq Address
               /\ Len(registry[n].kings) = Cardinality(ToSet(registry[n].kings))
               /\ Len(engine[n].kings) = Cardinality(ToSet(engine[n].kings))
    <3>1. /\ registry[n].kings \in Seq(Address) /\ IsInjective(registry[n].kings)
          /\ engine[n].kings \in Seq(Address) /\ IsInjective(engine[n].kings)
      BY <2>2 DEF NodeSound, RegistrySound, Registries, Covers, Engines
    <3> QED BY <3>1, MembersTyped, LengthOfInjective
  <2>4. ASSUME NEW n \in Node, NEW a \in Address PROVE registry[n].locks[a] \in Lock \cup {NoLock}
    BY <2>2 DEF NodeSound, RegistrySound, Registries, Locks
  <2>5. ASSUME NEW n \in Node
        PROVE  /\ extra[n] \in Marker \cup {NoMarker} /\ height[n] \in 0..Len(headers)
               /\ up[n] \in BOOLEAN
    <3>1. Len(headers) \in Nat /\ height[n] \in Nat /\ height[n] <= Len(headers)
      BY <2>2, LenProperties DEF NetSound, NodesTyped
    <3> QED BY <2>2, <3>1 DEF NodesTyped
  <2>6. Len(headers) <= MaxHeight /\ \A msg \in net : msg.to \in Node /\ msg.address \in Address
    BY <2>2 DEF NetSound, Messages
  <2> QED BY <2>3, <2>4, <2>5, <2>6 DEF KingTypeOK
<1> QED BY <1>1, KingInvariant, PTL

\* While a process runs, its two database records give back its kings that have a
\* lock, in their order, and the locks (recordRotatingKingLocked,
\* removeUnderfundedRotatingKingsLocked, registeredRotatingKingAddresses).
THEOREM ReloadCorrect == Spec => []ReloadKeepsLocked
<1>1. KingInv => ReloadKeepsLocked
  <2>1. SUFFICES ASSUME KingInv, NEW n \in Node, up[n]
                 PROVE  /\ Registered(disk[n]) = Kept(registry[n].kings, Locked(registry[n].locks))
                        /\ disk[n].locks.locks = registry[n].locks
    BY DEF ReloadKeepsLocked
  <2>2. RegistrySound(registry[n]) /\ StoreSound(registry[n], disk[n]) /\ disk[n] \in Stores
    BY <2>1, RunningNode DEF KingInv
  <2> QED BY <2>2, RegisteredSame
<1> QED BY <1>1, KingInvariant, PTL

\* Every king of a registry is in the schedule of the node's engine, and not later
\* (AddRotatingKingAt on every path by which a king is learned).
THEOREM EngineCorrect == Spec => []EngineCoversRegistry
<1>1. KingInv => EngineCoversRegistry
  <2>1. SUFFICES ASSUME KingInv, NEW n \in Node, NEW a \in Address, Contains(registry[n].kings, a)
        PROVE  /\ Contains(engine[n].kings, a)
               /\ registry[n].locks[a] # NoLock =>
                    engine[n].activation[a] <= registry[n].locks[a].activation
    BY DEF EngineCoversRegistry
  <2>2. /\ registry[n].kings \in Seq(Address) /\ engine[n].kings \in Seq(Address)
        /\ Covers(engine[n], registry[n])
    BY <2>1 DEF KingInv, NodesSound, NodeSound, RegistrySound, Registries, Covers, Engines
  <2>3. a \in ToSet(registry[n].kings)
    BY <2>1, <2>2, MembersTyped
  <2>4. /\ a \in ToSet(engine[n].kings)
        /\ registry[n].locks[a] # NoLock =>
             engine[n].activation[a] <= registry[n].locks[a].activation
    BY <2>2, <2>3 DEF Covers
  <2> QED BY <2>2, <2>4, MembersTyped
<1> QED BY <1>1, KingInvariant, PTL

(***************************************************************************)
(* A process that ends                                                     *)
(***************************************************************************)
\* Where a process that is not running has left the records: as they were, with the
\* locks as they were, or, in a read, after both writes of its pruning.
LEMMA EndedRecords ==
  ASSUME KingInv, [Next]_vars, NEW n \in Node, ~up'[n]
  PROVE  \/ disk'[n].locks = disk[n].locks
         \/ /\ up[n] /\ height'[n] = height[n]
            /\ disk'[n] = Persisted(Without(Loaded(n), ExpiredAt(Loaded(n), height[n])))
<1> DEFINE Same == disk'[n].locks = disk[n].locks
           Pruned == /\ up[n] /\ height'[n] = height[n]
                     /\ disk'[n] = Persisted(Without(Loaded(n), ExpiredAt(Loaded(n), height[n])))
<1>1. /\ disk \in [Node -> Stores] /\ up \in [Node -> BOOLEAN] /\ height \in [Node -> Nat]
  BY DEF KingInv, NodesSound, NodesTyped
<1>2. ASSUME NEW m \in Node, NEW between, NEW D, Writes(m, between, D)
      PROVE  Same \/ (m = n /\ disk'[n] \in between)
  <2>1. CASE m = n
    <3>1. ~(up' = [up EXCEPT ![m] = TRUE])
      BY <1>1, <2>1
    <3>2. PICK B \in between : disk' = [disk EXCEPT ![m] = B]
      BY <1>2, <3>1 DEF Writes
    <3>3. disk'[n] = B
      BY <1>1, <2>1, <3>2
    <3> QED BY <2>1, <3>3
  <2>2. CASE m # n
    <3>1. \E B : disk' = [disk EXCEPT ![m] = B]
      BY <1>2 DEF Writes
    <3>2. disk'[n] = disk[n]
      BY <1>1, <2>2, <3>1
    <3> QED BY <3>2
  <2> QED BY <2>1, <2>2
<1>3. ASSUME NEW D, NEW R PROVE Torn(D, R).locks = D.locks \/ D \notin Stores
  BY DEF Torn, Stores
<1>4. ASSUME NEW m \in Node, NEW S, NEW h, NEW was, NEW D, D \in Stores, D.locks = disk[m].locks,
             Recovered(m, S, h, was, D)
      PROVE  Same
  <2> DEFINE R == [kings |-> S.kings, locks |-> S.locks]
             live == Without(R, ExpiredAt(R, h))
  <2>1. Writes(m, {D}, D) \/ Writes(m, {D, Torn(D, live)}, Persisted(live))
    BY <1>4 DEF Recovered
  <2>2. Torn(D, live).locks = D.locks
    BY <1>3, <1>4
  <2> HIDE DEF live, Same
  <2>3. Same \/ (m = n /\ disk'[n] \in {D, Torn(D, live)})
    BY <1>2, <2>1
  <2> QED BY <1>4, <2>2, <2>3 DEF Same
<1>5. ASSUME NEW m \in Node, NEW marker, NEW h, HeadEvent(m, marker, h) PROVE Same
  <2>1. disk[m] \in Stores
    BY <1>1
  <2>2. PICK S : Recovered(m, S, h, registry[m], disk[m])
    BY <1>5 DEF HeadEvent
  <2> HIDE DEF Same
  <2> QED BY <1>4, <2>1, <2>2
<1>6. ASSUME NEW m \in Node, Start(m) PROVE Same
  <2> DEFINE F == [disk[m] EXCEPT !.kings = Registered(disk[m])]
  <2>1. PICK S, h, was : Recovered(m, S, h, was, F)
    BY <1>6 DEF Start
  <2>2. F \in Stores /\ F.locks = disk[m].locks
    <3>1. DiskSound(disk[m], height[m])
      BY DEF KingInv, NodesSound, NodeSound
    <3>2. Registered(disk[m]) \in Seq(Address)
      BY <3>1, RegisteredSound
    <3>3. disk[m] \in Stores
      BY <1>1
    <3> QED BY <3>2, <3>3 DEF Stores
  <2> HIDE DEF F, Same
  <2> QED BY <1>4, <2>1, <2>2
<1>7. ASSUME NEW m \in Node, NEW a \in Address, NEW via \in {"rpc", "peer"}, RecordPending(m, a, via)
      PROVE  Same
  <2>1. UNCHANGED disk \/ \E N, G : Writes(m, {Torn(disk[m], N)}, G)
    BY <1>7 DEF RecordPending, Record
  <2>2. CASE UNCHANGED disk
    BY <2>2
  <2>3. ASSUME NEW N, NEW G, Writes(m, {Torn(disk[m], N)}, G) PROVE Same
    <3>1. Torn(disk[m], N).locks = disk[m].locks
      BY <1>1, <1>3
    <3> HIDE DEF Same
    <3>2. Same \/ (m = n /\ disk'[n] \in {Torn(disk[m], N)})
      BY <1>2, <2>3
    <3> QED BY <3>1, <3>2 DEF Same
  <2> HIDE DEF Same
  <2> QED BY <2>1, <2>2, <2>3
<1>8. ASSUME NEW m \in Node, Read(m) PROVE Same \/ Pruned
  <2> DEFINE live == Without(Loaded(m), ExpiredAt(Loaded(m), height[m]))
             D == IF live = Loaded(m) THEN disk[m] ELSE Persisted(live)
             between == IF live = Loaded(m) THEN {} ELSE {Torn(disk[m], live), D}
  <2>1. Writes(m, between, FundedStored(live, D)) /\ up[m] /\ UNCHANGED height
    BY <1>8 DEF Read
  <2>2. Torn(disk[m], live).locks = disk[m].locks
    BY <1>1, <1>3
  <2> HIDE DEF Same, live, between
  <2>3. Same \/ (m = n /\ disk'[n] \in between)
    BY <1>2, <2>1
  <2>4. m = n /\ disk'[n] \in between => disk'[n] = Torn(disk[m], live) \/ disk'[n] = Persisted(live)
    BY DEF between
  <2>5. m = n /\ disk'[n] = Torn(disk[m], live) => Same
    BY <2>2 DEF Same
  <2>6. m = n /\ disk'[n] = Persisted(live) => Pruned
    BY <2>1 DEF live
  <2> HIDE DEF Pruned
  <2> QED BY <2>3, <2>4, <2>5, <2>6
<1>9. ASSUME NEW m \in Node, NEW R, NEW D,
             disk' = [disk EXCEPT ![m] = D], up[m], UNCHANGED up
      PROVE  Same
  <2>1. m # n
    BY <1>9
  <2> QED BY <1>1, <1>9, <2>1
<1>10. ASSUME NEW m \in Node, NEW a \in Address, AddCheck(m, a) \/ NoteCheck(m, a) PROVE Same
  <2>1. /\ up[m] /\ UNCHANGED up
        /\ \E D : disk' = [disk EXCEPT ![m] = D]
    BY <1>10 DEF AddCheck, NoteCheck
  <2> HIDE DEF Same
  <2> QED BY <1>9, <2>1
<1>11. ASSUME UNCHANGED disk PROVE Same
  BY <1>11
<1>12. ASSUME Next PROVE Same \/ Pruned
  <2>1. ASSUME NEW m \in Node, NEW m2 \in Node, Connect(m, m2) PROVE Same
    BY <1>11, <2>1 DEF Connect
  <2>2. ASSUME NEW m \in Node, Crash(m) PROVE Same
    BY <1>11, <2>2 DEF Crash
  <2>3. ASSUME NEW a \in Address, NEW v \in 0..2, Transfer(a, v) PROVE Same
    BY <1>11, <2>3 DEF Transfer
  <2>4. Miner \subseteq Node /\ Operator \subseteq Node
    BY KingAssumption
  <2>5. ASSUME NEW m \in Node, Mine(m) PROVE Same
    <3> HIDE DEF Same
    <3> QED BY <1>5, <2>5 DEF Mine
  <2>6. ASSUME NEW m \in Node, NEW h \in 1..MaxHeight, Import(m, h) PROVE Same
    <3> HIDE DEF Same
    <3> QED BY <1>5, <2>6 DEF Import
  <2> HIDE DEF Same, Pruned
  <2> QED BY <1>6, <1>7, <1>8, <1>10, <1>12, <2>1, <2>2, <2>3, <2>4, <2>5, <2>6 DEF Next
<1> QED BY <1>11, <1>12 DEF vars

\* Heads only move forward.
LEMMA HeadsMoveOn ==
  ASSUME KingInv, [Next]_vars, NEW n \in Node
  PROVE  height[n] \in Nat /\ height'[n] \in Nat /\ height[n] <= height'[n]
<1>1. height \in [Node -> Nat]
  BY DEF KingInv, NodesSound, NodesTyped
<1> DEFINE Goal == height[n] \in Nat /\ height'[n] \in Nat /\ height[n] <= height'[n]
<1>2. ASSUME UNCHANGED height PROVE Goal
  BY <1>1, <1>2
<1>3. ASSUME NEW m \in Node, NEW h \in Nat, height[m] <= h, height' = [height EXCEPT ![m] = h]
      PROVE  Goal
  BY <1>1, <1>3
<1>4. ASSUME NEW m \in Node, Mine(m) PROVE Goal
  <2>1. height[m] + 1 \in Nat /\ height[m] <= height[m] + 1
    BY <1>1
  <2>2. height' = [height EXCEPT ![m] = height[m] + 1]
    BY <1>4 DEF Mine, HeadEvent
  <2> HIDE DEF Goal
  <2> QED BY <1>3, <2>1, <2>2
<1>5. ASSUME NEW m \in Node, NEW h \in 1..MaxHeight, Import(m, h) PROVE Goal
  <2>1. h \in Nat /\ height[m] <= h
    <3>1. Len(headers) \in Nat /\ height[m] \in Nat /\ h \in (height[m] + 1)..Len(headers)
      BY <1>1, <1>5, LenProperties DEF Import, KingInv, NetSound
    <3> QED BY <3>1
  <2>2. height' = [height EXCEPT ![m] = h]
    BY <1>5 DEF Import, HeadEvent
  <2> HIDE DEF Goal
  <2> QED BY <1>3, <2>1, <2>2
<1> HIDE DEF Goal
<1>6. ASSUME Next PROVE Goal
  <2>1. ASSUME NEW m \in Node, NEW a \in Address,
               AddCheck(m, a) \/ NoteCheck(m, a) \/ \E via \in {"rpc", "peer"} : RecordPending(m, a, via)
        PROVE  Goal
    BY <1>2, <2>1 DEF AddCheck, NoteCheck, RecordPending
  <2>2. ASSUME NEW m \in Node, Crash(m) \/ Start(m) \/ Read(m) \/ \E m2 \in Node : Connect(m, m2)
        PROVE  Goal
    BY <1>2, <2>2 DEF Crash, Start, Read, Connect
  <2>3. ASSUME NEW a \in Address, NEW v \in 0..2, Transfer(a, v) PROVE Goal
    BY <1>2, <2>3 DEF Transfer
  <2>4. Miner \subseteq Node /\ Operator \subseteq Node
    BY KingAssumption
  <2> QED BY <1>4, <1>5, <1>6, <2>1, <2>2, <2>3, <2>4 DEF Next
<1>7. ASSUME UNCHANGED vars PROVE Goal
  BY <1>2, <1>7 DEF vars
<1> QED BY <1>6, <1>7 DEF Goal

\* Wherever a process ends, between the two writes of a registration, a recovery, a
\* pruning or a start too (addRotatingKingAddressLocked before
\* persistRotatingKingLocksLocked), the registrations that were stored and are not
\* due come back with their locks and in their order, and no other does.
THEOREM CrashCorrect == Spec => CrashKeepsRegistrations
<1>1. KingInv /\ [Next]_vars => CrashKeepsStored
  <2>1. SUFFICES ASSUME KingInv, [Next]_vars, NEW n \in Node, ~up'[n]
                 PROVE  LET was == disk[n].locks.locks
                            is == disk'[n].locks.locks
                            live == Locked(was) \ DueAt(was, height'[n])
                        IN  /\ \A a \in live : is[a] = was[a]
                            /\ Locked(is) \subseteq Locked(was)
                            /\ Kept(Registered(disk'[n]), live) = Kept(Registered(disk[n]), live)
    BY DEF CrashKeepsStored
  <2> DEFINE D == disk[n]
             F == disk'[n]
             h == height'[n]
             V == Live(D.locks.locks, h)
  <2>2. DiskSound(F, h)
    <3>1. KingInv'
      BY <2>1, NextSound
    <3> QED BY <3>1 DEF KingInv, NodesSound, NodeSound
  <2>3. DiskSound(D, h)
    <3>1. height[n] \in Nat /\ h \in Nat /\ height[n] <= h
      BY <2>1, HeadsMoveOn
    <3>2. DiskSound(D, height[n])
      BY <2>1 DEF KingInv, NodesSound, NodeSound
    <3> HIDE DEF D, h
    <3> QED BY <3>1, <3>2, DiskLater
  <2>4. Kept(Registered(D), V) = Kept(D.locks.order, V)
    <3> HIDE DEF D, h
    <3> QED BY <2>3, RegisteredSound
  <2>5. SUFFICES /\ \A a \in V : F.locks.locks[a] = D.locks.locks[a]
                 /\ Locked(F.locks.locks) \subseteq Locked(D.locks.locks)
                 /\ Kept(Registered(F), V) = Kept(D.locks.order, V)
    BY <2>4 DEF Live
  <2>6. CASE F.locks = D.locks
    <3> HIDE DEF D, F, h
    <3>1. Kept(Registered(F), V) = Kept(D.locks.order, V)
      BY <2>2, <2>6, RegisteredSound
    <3> QED BY <2>6, <3>1
  <2>7. CASE /\ up[n] /\ h = height[n]
             /\ F = Persisted(Without(Loaded(n), ExpiredAt(Loaded(n), height[n])))
    <3> DEFINE R == Loaded(n)
               X == ExpiredAt(R, h)
               W == Without(R, X)
    <3>1. RegistrySound(R) /\ StoreSound(R, D)
      BY <2>1, <2>7, RunningNode DEF KingInv
    <3>2. F.locks = LocksRecord(W) /\ F = Persisted(W)
      BY <2>7 DEF Persisted
    <3> HIDE DEF R, D, F, h
    <3>3. D.locks.locks = R.locks /\ Kept(R.kings, Live(R.locks, h)) = Kept(D.locks.order, Live(R.locks, h))
      BY <3>1, StoreLive
    <3>4. /\ RegistrySound(W) /\ W.kings = Kept(R.kings, Address \ X)
          /\ Locked(W.locks) = Locked(R.locks) \ X
          /\ \A a \in Address \ X : W.locks[a] = R.locks[a]
      BY <3>1, WithoutSound
    <3>5. V = Locked(R.locks) \ X /\ V \subseteq Address
      BY <3>3 DEF Live, ExpiredAt, Locked
    <3>6. F.locks.locks = W.locks
      BY <3>2 DEF LocksRecord
    <3>7. Registered(F) = Kept(W.kings, V)
      <4>1. StoreSound(W, F) /\ F \in Stores
        BY <3>2, <3>4, PersistedSound
      <4> QED BY <3>4, <3>5, <4>1, RegisteredSame
    <3> HIDE DEF V, W, X
    <3>8. Kept(Registered(F), V) = Kept(D.locks.order, V)
      <4>1. R.kings \in Seq(Address) /\ W.kings \in Seq(Address)
        BY <3>1, <3>4 DEF RegistrySound, Registries
      <4>2. V \cap V = V /\ (Address \ X) \cap V = V
        BY <3>5
      <4>3. Kept(Kept(W.kings, V), V) = Kept(W.kings, V)
        BY <4>1, <4>2, KeptTwice
      <4>4. Kept(Kept(R.kings, Address \ X), V) = Kept(R.kings, V)
        BY <4>1, <4>2, KeptTwice
      <4>5. Kept(R.kings, V) = Kept(D.locks.order, V)
        BY <3>3 DEF V
      <4> QED BY <3>4, <3>7, <4>3, <4>4, <4>5
    <3>9. \A a \in V : F.locks.locks[a] = D.locks.locks[a]
      BY <3>3, <3>4, <3>5, <3>6
    <3>10. Locked(F.locks.locks) \subseteq Locked(D.locks.locks)
      BY <3>3, <3>4, <3>6
    <3> QED BY <3>8, <3>9, <3>10
  <2> QED BY <2>1, <2>6, <2>7, EndedRecords
<1> QED BY <1>1, KingInvariant, PTL DEF Spec, CrashKeepsRegistrations

(***************************************************************************)
(* The kings of past blocks                                                *)
(***************************************************************************)
\* Adding a king from a later height on leaves the active kings of block j.
LEMMA SameActives ==
  ASSUME NEW E \in Engines, NEW a \in Address, NEW act \in Nat, NEW j \in Nat, j < act
  PROVE  LET F == AddToEngine(E, a, act)
         IN  ActiveAt(F.kings, F.activation, j) = ActiveAt(E.kings, E.activation, j)
<1> DEFINE F == AddToEngine(E, a, act)
           V == {b \in Address : E.activation[b] <= j}
           W == {b \in Address : F.activation[b] <= j}
<1>1. E.kings \in Seq(Address) /\ E.activation \in [Address -> Nat]
  BY DEF Engines
<1>2. (Contains(E.kings, a) <=> a \in ToSet(E.kings)) /\ ToSet(E.kings) \subseteq Address
  BY <1>1, MembersTyped
<1>3. CASE a \in ToSet(E.kings)
  <2> DEFINE low == IF act < E.activation[a] THEN act ELSE E.activation[a]
  <2>1. low <= j <=> E.activation[a] <= j
    BY <1>1
  <2>2. F = [E EXCEPT !.activation[a] = low]
    BY <1>2, <1>3 DEF AddToEngine
  <2> HIDE DEF F, low
  <2>3. F.kings = E.kings /\ F.activation = [E.activation EXCEPT ![a] = low]
    BY <2>2 DEF Engines
  <2>4. \A b \in Address : F.activation[b] <= j <=> E.activation[b] <= j
    BY <1>1, <2>1, <2>3
  <2>5. W = V
    BY <2>4
  <2>6. Kept(F.kings, W) = Kept(E.kings, V)
    BY <2>3, <2>5
  <2> QED BY <2>6 DEF ActiveAt, F
<1>4. CASE a \notin ToSet(E.kings)
  <2>1. F = [kings |-> Append(E.kings, a), activation |-> [E.activation EXCEPT ![a] = act]]
    BY <1>2, <1>4 DEF AddToEngine
  <2> HIDE DEF F
  <2>2. F.kings = Append(E.kings, a) /\ F.activation = [E.activation EXCEPT ![a] = act]
    BY <2>1
  <2>3. a \notin W /\ \A b \in Address \ {a} : b \in W <=> b \in V
    BY <1>1, <2>2
  <2>4. ToSet(E.kings) \cap W = ToSet(E.kings) \cap V
    BY <1>2, <1>4, <2>3
  <2> HIDE DEF V, W
  <2>5. Kept(F.kings, W) = Kept(E.kings, W)
    BY <1>1, <2>2, <2>3, KeptOfAppend
  <2>6. Kept(E.kings, W) = Kept(E.kings, V)
    BY <1>1, <2>4, KeptSame
  <2> QED BY <2>5, <2>6 DEF ActiveAt, V, W, F
<1> QED BY <1>3, <1>4

\* So every king up to that height stays.
LEMMA SamePast ==
  ASSUME NEW E \in Engines, NEW a \in Address, NEW act \in Nat, NEW h \in Nat, h < act,
         NEW g \in 0..h
  PROVE  EngineKing(AddToEngine(E, a, act), g) = EngineKing(E, g)
<1> DEFINE F == AddToEngine(E, a, act)
           last == g \div Interval
           before == [k \in 0..last |-> ActiveAt(E.kings, E.activation, k * Interval)]
           after == [k \in 0..last |-> ActiveAt(F.kings, F.activation, k * Interval)]
<1>1. g \in Nat /\ g <= h
  OBVIOUS
<1>2. ASSUME NEW k \in 0..last
      PROVE  ActiveAt(F.kings, F.activation, k * Interval) = ActiveAt(E.kings, E.activation, k * Interval)
  <2>1. k * Interval \in Nat /\ k * Interval <= g
    BY <1>1, Boundaries
  <2>2. k * Interval < act
    BY <1>1, <2>1
  <2> QED BY <2>1, <2>2, SameActives
<1> HIDE DEF F, last
<1>3. after = before
  BY <1>2
<1> HIDE DEF before, after
<1>4. Replayed(after)[last] = Replayed(before)[last]
  BY <1>3
<1> QED BY <1>4 DEF EngineKing, KingAt, F, last, before, after

\* A step that is neither a head event nor a counted event, of a process that runs
\* before and after it or not at all, adds at most a king who begins at the next
\* boundary.
LEMMA EngineStep ==
  ASSUME KingInv, [Next]_vars, NEW n \in Node, height'[n] = height[n],
         up'[n] = up[n], events' = events
  PROVE  \/ engine'[n] = engine[n]
         \/ \E a \in Address :
              engine'[n] = AddToEngine(engine[n], a, NextActivation(height[n]))
<1> DEFINE Goal == \/ engine'[n] = engine[n]
                   \/ \E a \in Address :
                        engine'[n] = AddToEngine(engine[n], a, NextActivation(height[n]))
<1>1. /\ NodesTyped /\ engine \in [Node -> Engines] /\ height \in [Node -> Nat] /\ events \in Nat
      /\ up \in [Node -> BOOLEAN]
  BY DEF KingInv, NodesSound, NodesTyped, NetSound
<1>2. \A m \in Node : up[m] => LoadedEngine(m) = engine[m]
  BY RunningNode DEF KingInv
<1>3. ASSUME NEW m \in Node, NEW marker, NEW h \in Nat, h # height[m], HeadEvent(m, marker, h)
      PROVE  Goal
  <2>1. height' = [height EXCEPT ![m] = h]
    BY <1>3 DEF HeadEvent
  <2>2. m # n
    BY <1>1, <1>3, <2>1
  <2>3. engine'[n] = engine[n]
    BY <1>1, <1>3, <2>2 DEF HeadEvent, Recovered
  <2> QED BY <2>3
<1>4. ASSUME NEW m \in Node, Mine(m) PROVE Goal
  <2>1. height[m] + 1 \in Nat /\ height[m] + 1 # height[m] /\ HeadEvent(m, extra[m], height[m] + 1)
    BY <1>1, <1>4 DEF Mine
  <2> QED BY <1>3, <2>1
<1>5. ASSUME NEW m \in Node, NEW h \in 1..MaxHeight, Import(m, h) PROVE Goal
  <2>1. h \in Nat /\ h # height[m] /\ HeadEvent(m, headers[h], h)
    BY <1>1, <1>5 DEF Import
  <2> QED BY <1>3, <2>1
<1>6. ASSUME NEW m \in Node, NEW a \in Address, AddCheck(m, a) PROVE Goal
  BY <1>1, <1>2, <1>6 DEF AddCheck
<1>7. ASSUME NEW m \in Node, NEW a \in Address, NoteCheck(m, a) PROVE Goal
  BY <1>7 DEF NoteCheck
<1>8. ASSUME NEW m \in Node, NEW a \in Address, NEW via \in {"rpc", "peer"}, RecordPending(m, a, via)
      PROVE  Goal
  <2>1. \/ engine' = [engine EXCEPT ![m] = engine[m]]
        \/ \E R : Record(m, a, R, engine[m])
    BY <1>2, <1>8 DEF RecordPending
  <2>2. ASSUME NEW R, Record(m, a, R, engine[m])
        PROVE  engine' = [engine EXCEPT ![m] = AddToEngine(engine[m], a, NextActivation(height[m]))]
    <3>1. NewLock(height[m]).activation = NextActivation(height[m])
      BY DEF NewLock
    <3> QED BY <2>2, <3>1 DEF Record
  <2> QED BY <1>1, <2>1, <2>2
<1>9. ASSUME NEW m \in Node, Read(m) PROVE Goal
  BY <1>1, <1>2, <1>9 DEF Read
<1>10. ASSUME Event PROVE Goal
  BY <1>1, <1>10 DEF Event
<1>11. ASSUME NEW m \in Node, Start(m) PROVE Goal
  <2>1. PICK S, was, D : Recovered(m, S, height[m], was, D)
    BY <1>11 DEF Start
  <2>2. ~up[m]
    BY <1>11 DEF Start
  <2>3. CASE m # n
    BY <1>1, <2>1, <2>3 DEF Recovered
  <2>4. CASE m = n
    <3>1. \E between, B : Writes(m, between, B)
      BY <2>1 DEF Recovered
    <3>2. ~(up' = [up EXCEPT ![m] = TRUE])
      BY <1>1, <2>2, <2>4
    <3>3. Event
      BY <3>1, <3>2 DEF Writes
    <3> QED BY <1>10, <3>3
  <2> QED BY <2>3, <2>4
<1>12. ASSUME UNCHANGED vars PROVE Goal
  BY <1>12 DEF vars
<1>13. ASSUME Next PROVE Goal
  <2>1. ASSUME NEW m \in Node, NEW m2 \in Node, Connect(m, m2) PROVE Goal
    BY <1>10, <2>1 DEF Connect
  <2>2. ASSUME NEW m \in Node, Crash(m) PROVE Goal
    BY <1>10, <2>2 DEF Crash
  <2>3. ASSUME NEW a \in Address, NEW v \in 0..2, Transfer(a, v) PROVE Goal
    BY <1>10, <2>3 DEF Transfer
  <2>4. Miner \subseteq Node /\ Operator \subseteq Node
    BY KingAssumption
  <2> HIDE DEF Goal
  <2> QED BY <1>4, <1>5, <1>6, <1>7, <1>8, <1>9, <1>11, <1>13, <2>1, <2>2, <2>3, <2>4 DEF Next
<1> QED BY <1>12, <1>13 DEF Goal

\* No registration, gossiped update or read changes the king of a block the node
\* already has (AddRotatingKingAt with nextRotatingKingActivationHeight).
THEOREM PastKingsCorrect == Spec => PastKingsFixed
<1>1. KingInv /\ [Next]_vars => KeepsPastKings
  <2>1. SUFFICES ASSUME KingInv, [Next]_vars, NEW n \in Node,
                        height'[n] = height[n], up'[n] = up[n], events' = events,
                        NEW h \in 0..height[n]
                 PROVE  EngineKing(engine'[n], h) = EngineKing(engine[n], h)
    BY DEF KeepsPastKings
  <2>2. engine[n] \in Engines /\ height[n] \in Nat
    BY <2>1 DEF KingInv, NodesSound, NodesTyped
  <2>3. NextActivation(height[n]) \in Nat /\ height[n] < NextActivation(height[n])
    BY <2>2, Boundaries
  <2>4. \/ engine'[n] = engine[n]
        \/ \E a \in Address :
             engine'[n] = AddToEngine(engine[n], a, NextActivation(height[n]))
    BY <2>1, EngineStep
  <2>5. ASSUME NEW a \in Address
        PROVE  EngineKing(AddToEngine(engine[n], a, NextActivation(height[n])), h)
                 = EngineKing(engine[n], h)
    BY <2>2, <2>3, SamePast
  <2> QED BY <2>4, <2>5
<1> QED BY <1>1, KingInvariant, PTL DEF Spec, PastKingsFixed

(***************************************************************************)
(* The rotation                                                            *)
(***************************************************************************)
\* The place of a member, and the place after it.
LEMMA PlaceOf ==
  ASSUME NEW s \in Seq(Address), NEW a \in ToSet(s)
  PROVE  /\ Contains(s, a) /\ s # <<>> /\ Len(s) \in Nat \ {0}
         /\ IndexOf(s, a) \in 1..Len(s) /\ s[IndexOf(s, a)] = a
<1>1. DOMAIN s = 1..Len(s) /\ Len(s) \in Nat /\ Contains(s, a)
  BY MembersTyped
<1>2. \E i \in DOMAIN s : s[i] = a
  BY DEF ToSet
<1>3. IndexOf(s, a) \in DOMAIN s /\ s[IndexOf(s, a)] = a
  BY <1>2 DEF IndexOf
<1>4. Len(s) # 0
  BY <1>1, <1>3
<1>5. s # <<>>
  BY <1>4
<1> QED BY <1>1, <1>3, <1>4, <1>5

LEMMA NextPlace ==
  ASSUME NEW L \in Nat \ {0}, NEW i \in 1..L
  PROVE  (i % L) + 1 = IF i = L THEN 1 ELSE i + 1
<1>1. CASE i = L
  <2>1. L % L = 0
    OBVIOUS
  <2> QED BY <1>1, <2>1
<1>2. CASE i # L
  <2>1. i % L = i
    BY <1>2
  <2> QED BY <1>2, <2>1
<1> QED BY <1>1, <1>2

\* One rotation names an active king, or leaves the current one.
LEMMA RotatedType ==
  ASSUME NEW s \in Seq(Address), NEW current \in Address \cup {None}
  PROVE  /\ Rotated(s, current) \in Address \cup {None}
         /\ s # <<>> => Rotated(s, current) \in ToSet(s)
<1>1. DOMAIN s = 1..Len(s) /\ Len(s) \in Nat /\ ToSet(s) \subseteq Address
      /\ (Contains(s, current) <=> current \in ToSet(s))
  BY MembersTyped
<1>2. CASE s = <<>>
  BY <1>2 DEF Rotated
<1>3. CASE s # <<>>
  <2>1. Len(s) # 0
    BY <1>3, EmptySeq
  <2>2. ASSUME NEW i \in 1..Len(s) PROVE s[i] \in ToSet(s)
    BY <1>1 DEF ToSet
  <2>3. CASE ~Contains(s, current)
    <3>1. Rotated(s, current) = s[1]
      BY <1>3, <2>3 DEF Rotated
    <3>2. s[1] \in ToSet(s)
      BY <1>1, <2>1, <2>2
    <3> QED BY <1>1, <3>1, <3>2
  <2>4. CASE Contains(s, current)
    <3> DEFINE i == IndexOf(s, current)
    <3>1. i \in 1..Len(s) /\ Len(s) \in Nat \ {0}
      BY <1>1, <2>4, PlaceOf
    <3>2. Rotated(s, current) = s[(i % Len(s)) + 1]
      BY <1>3, <2>4 DEF Rotated
    <3> HIDE DEF i
    <3>3. (i % Len(s)) + 1 \in 1..Len(s)
      <4>1. (i % Len(s)) + 1 = IF i = Len(s) THEN 1 ELSE i + 1
        BY <3>1, NextPlace
      <4>2. (IF i = Len(s) THEN 1 ELSE i + 1) \in 1..Len(s)
        BY <3>1
      <4> QED BY <4>1, <4>2
    <3> QED BY <1>1, <2>2, <3>2, <3>3
  <2> QED BY <2>3, <2>4
<1> QED BY <1>2, <1>3

\* In a list without repetitions the rotation moves one place.
LEMMA RotatedPlace ==
  ASSUME NEW s \in Seq(Address), IsInjective(s), NEW i \in 1..Len(s)
  PROVE  Rotated(s, s[i]) = s[IF i = Len(s) THEN 1 ELSE i + 1]
<1>1. DOMAIN s = 1..Len(s) /\ Len(s) \in Nat
  BY MembersTyped
<1>2. s[i] \in ToSet(s)
  BY <1>1 DEF ToSet
<1> DEFINE p == IndexOf(s, s[i])
<1>3. Contains(s, s[i]) /\ s # <<>> /\ Len(s) \in Nat \ {0} /\ p \in 1..Len(s) /\ s[p] = s[i]
  BY <1>2, PlaceOf
<1>4. p = i
  <2> HIDE DEF p
  <2> QED BY <1>1, <1>3 DEF IsInjective
<1>5. Rotated(s, s[i]) = s[(i % Len(s)) + 1]
  BY <1>3, <1>4 DEF Rotated
<1>6. (i % Len(s)) + 1 = IF i = Len(s) THEN 1 ELSE i + 1
  BY <1>3, NextPlace
<1> QED BY <1>5, <1>6

\* The replay is what its recursion says.
Replays(g, N, active) ==
    /\ g[0] = Rotated(active[0], None)
    /\ \A k \in 1..N : g[k] = Rotated(active[k], g[k - 1])
    /\ \A k \in 0..N : g[k] \in Address \cup {None}

LEMMA ReplayUnfolds ==
  ASSUME NEW N \in Nat, NEW active \in [0..N -> Seq(Address)]
  PROVE  Replays(Replayed(active), N, active)
<1> DEFINE T == Address \cup {None}
           Body(f) == [k \in 0..N |-> Rotated(active[k], IF k = 0 THEN None ELSE f[k - 1])]
           start == Rotated(active[0], None)
           step == [k \in 1..N |-> [x \in T |-> Rotated(active[k], x)]]
<1>1. \A k \in 0..N, x \in T : Rotated(active[k], x) \in T
  BY RotatedType
<1>2. start \in T /\ step \in [1..N -> [T -> T]]
  BY <1>1
<1>3. PICK f : Iterates(f, N, T, start, step)
  <2> HIDE DEF T, start, step
  <2> QED BY <1>2, RecursionOnPrefix
<1>4. f = Body(f)
  <2>1. f \in [0..N -> T] /\ f[0] = start /\ \A k \in 1..N : f[k] = step[k][f[k - 1]]
    BY <1>3 DEF Iterates
  <2>2. ASSUME NEW k \in 0..N PROVE f[k] = Body(f)[k]
    <3>1. CASE k = 0
      BY <2>1, <3>1
    <3>2. CASE k # 0
      <4>1. k \in 1..N /\ k - 1 \in 0..N
        BY <3>2
      <4>2. f[k - 1] \in T
        BY <2>1, <4>1
      <4>3. f[k] = Rotated(active[k], f[k - 1])
        BY <2>1, <4>1, <4>2
      <4> QED BY <3>2, <4>3
    <3> QED BY <3>1, <3>2
  <2> QED BY <2>1, <2>2
<1> DEFINE g == CHOOSE g : g = Body(g)
<1>5. g = Body(g)
  BY <1>4
<1>6. Replayed(active) = g
  <2>1. DOMAIN active = 0..N
    OBVIOUS
  <2> QED BY <2>1 DEF Replayed
<1> HIDE DEF g, step
<1>7. g[0] = start /\ \A k \in 1..N : g[k] = Rotated(active[k], g[k - 1])
  <2>1. \A k \in 0..N : g[k] = Body(g)[k]
    BY <1>5
  <2>2. g[0] = start
    BY <2>1
  <2>3. ASSUME NEW k \in 1..N PROVE g[k] = Rotated(active[k], g[k - 1])
    <3>1. k \in 0..N /\ k # 0
      OBVIOUS
    <3> QED BY <2>1, <3>1
  <2> QED BY <2>2, <2>3
<1> DEFINE K == {k \in Nat : k <= N => g[k] \in T}
<1>8. 0 \in K
  BY <1>2, <1>7
<1>9. ASSUME NEW k \in Nat, k \in K PROVE k + 1 \in K
  <2>1. SUFFICES ASSUME k + 1 <= N PROVE g[k + 1] \in T
    OBVIOUS
  <2>2. k + 1 \in 1..N /\ k + 1 \in 0..N /\ (k + 1) - 1 = k /\ k <= N
    BY <2>1
  <2>3. g[k] \in T /\ g[k + 1] = Rotated(active[k + 1], g[k])
    BY <1>7, <1>9, <2>2
  <2> HIDE DEF T
  <2> QED BY <1>1, <2>2, <2>3
<1>10. Nat \subseteq K
  <2> HIDE DEF K
  <2> QED BY <1>8, <1>9, InductionOnNaturals
<1>11. \A k \in 0..N : g[k] \in T
  BY <1>10
<1> QED BY <1>6, <1>7, <1>11 DEF Replays

\* Replays of two lengths agree as far as both go.
LEMMA ReplaysAgree ==
  ASSUME NEW N \in Nat, NEW M \in 0..N, NEW f, NEW g, NEW A, NEW B,
         Replays(f, N, A), Replays(g, M, B), \A k \in 0..M : A[k] = B[k]
  PROVE  g[M] = f[M]
<1> DEFINE K == {k \in Nat : k <= M => g[k] = f[k]}
<1>1. 0 \in K
  <2>1. A[0] = B[0] /\ f[0] = Rotated(A[0], None) /\ g[0] = Rotated(B[0], None)
    BY DEF Replays
  <2> QED BY <2>1
<1>2. ASSUME NEW k \in Nat, k \in K PROVE k + 1 \in K
  <2>1. SUFFICES ASSUME k + 1 <= M PROVE g[k + 1] = f[k + 1]
    OBVIOUS
  <2>2. k + 1 \in 1..M /\ k + 1 \in 1..N /\ k + 1 \in 0..M /\ (k + 1) - 1 = k /\ k <= M
    BY <2>1
  <2>3. g[k] = f[k] /\ A[k + 1] = B[k + 1]
    BY <1>2, <2>2
  <2>4. g[k + 1] = Rotated(B[k + 1], g[k])
    BY <2>2 DEF Replays
  <2>5. f[k + 1] = Rotated(A[k + 1], f[k])
    BY <2>2 DEF Replays
  <2> QED BY <2>3, <2>4, <2>5
<1>3. Nat \subseteq K
  <2> HIDE DEF K
  <2> QED BY <1>1, <1>2, InductionOnNaturals
<1> QED BY <1>3

\* A list that is whole from boundary m on is gone through within its length: the
\* king reached from any place p, j rotations later.
Ahead(L, p, j) == IF p + j <= L THEN p + j ELSE p + j - L

WholeFrom(A, s, m) == \A k \in m..(m + Len(s)) : A[k] = s
Reaches(f, s, m, q) == \E j \in 0..(Len(s) - 1) : f[m + j] = s[q]

LEMMA RotationWalks ==
  ASSUME NEW s \in Seq(Address), IsInjective(s), NEW m \in Nat \ {0}, NEW f, NEW A,
         Replays(f, m + Len(s), A), WholeFrom(A, s, m), NEW q \in 1..Len(s)
  PROVE  Reaches(f, s, m, q)
<1> DEFINE L == Len(s)
           N == m + Len(s)
<1>0. Replays(f, N, A) /\ \A k \in m..N : A[k] = s
  BY DEF WholeFrom
<1>1. DOMAIN s = 1..L /\ L \in Nat \ {0}
  BY MembersTyped
<1>2. f[m] \in ToSet(s)
  <2>1. m \in 1..N /\ m \in m..N /\ m - 1 \in 0..N
    BY <1>1
  <2>2. f[m - 1] \in Address \cup {None} /\ f[m] = Rotated(A[m], f[m - 1])
    BY <1>0, <2>1 DEF Replays
  <2>3. f[m] = Rotated(s, f[m - 1])
    BY <1>0, <2>1, <2>2
  <2>4. s # <<>>
    BY <1>1
  <2> QED BY <2>2, <2>3, <2>4, RotatedType
<1>3. PICK p \in 1..L : f[m] = s[p]
  BY <1>1, <1>2 DEF ToSet
<1> HIDE DEF L
<1> DEFINE K == {j \in Nat : j < L => f[m + j] = s[Ahead(L, p, j)]}
<1>4. 0 \in K
  <2>1. Ahead(L, p, 0) = p /\ m + 0 = m
    BY <1>1 DEF Ahead
  <2> QED BY <1>3, <2>1
<1>5. ASSUME NEW j \in Nat, j \in K PROVE j + 1 \in K
  <2>1. SUFFICES ASSUME j + 1 < L PROVE f[m + (j + 1)] = s[Ahead(L, p, j + 1)]
    OBVIOUS
  <2> DEFINE i == Ahead(L, p, j)
             k == m + (j + 1)
  <2>2. k \in 1..N /\ k \in m..N /\ k - 1 = m + j
    BY <1>1, <2>1 DEF L
  <2>3. f[m + j] = s[i]
    <3>1. j < L
      BY <1>1, <2>1
    <3> QED BY <1>5, <3>1
  <2>4. f[k] = Rotated(s, s[i])
    <3>1. f[k] = Rotated(A[k], f[k - 1]) /\ A[k] = s
      BY <1>0, <2>2 DEF Replays
    <3> QED BY <2>2, <2>3, <3>1
  <2>5. i \in 1..L /\ Ahead(L, p, j + 1) = IF i = L THEN 1 ELSE i + 1
    BY <1>1, <2>1 DEF Ahead
  <2> HIDE DEF i, k
  <2>6. Rotated(s, s[i]) = s[IF i = L THEN 1 ELSE i + 1]
    BY <2>5, RotatedPlace DEF L
  <2>7. f[k] = s[Ahead(L, p, j + 1)]
    BY <2>4, <2>5, <2>6
  <2> QED BY <2>7 DEF k
<1>6. Nat \subseteq K
  <2> HIDE DEF K
  <2> QED BY <1>4, <1>5, InductionOnNaturals
<1> DEFINE d == IF p <= q THEN q - p ELSE q - p + L
<1>7. d \in 0..(L - 1) /\ d \in Nat /\ d < L /\ Ahead(L, p, d) = q
  BY <1>1 DEF Ahead, L
<1> HIDE DEF d
<1>8. f[m + d] = s[q]
  BY <1>6, <1>7
<1> QED BY <1>7, <1>8 DEF L, Reaches

\* The boundary after k intervals is the k-th.
LEMMA BoundaryNumber ==
  ASSUME NEW k \in Nat
  PROVE  k * Interval \in Nat /\ (k * Interval) \div Interval = k
<1>1. Interval \in Nat \ {0}
  BY KingAssumption
<1> DEFINE x == k * Interval
           q == x \div Interval
<1>2. x \in Nat
  BY <1>1
<1> HIDE DEF x
<1>3. q \in Nat /\ q * Interval <= x /\ x < (q + 1) * Interval
  BY <1>1, <1>2
<1> HIDE DEF q
<1>4. q <= k
  <2>1. SUFFICES ASSUME k + 1 <= q PROVE FALSE
    BY <1>3
  <2>2. (k + 1) * Interval <= q * Interval
    BY <1>1, <1>3, <2>1
  <2>3. (k + 1) * Interval = x + Interval
    BY <1>1 DEF x
  <2>4. q * Interval \in Nat
    BY <1>1, <1>3
  <2> QED BY <1>1, <1>2, <1>3, <2>2, <2>3, <2>4
<1>5. k <= q
  <2>1. SUFFICES ASSUME q + 1 <= k PROVE FALSE
    BY <1>3
  <2>2. (q + 1) * Interval <= k * Interval
    BY <1>1, <1>3, <2>1
  <2>3. (q + 1) * Interval \in Nat
    BY <1>1, <1>3
  <2> QED BY <1>2, <1>3, <2>2, <2>3 DEF x
<1> QED BY <1>2, <1>3, <1>4, <1>5 DEF x, q

\* The active kings at every boundary, as the replay reads them.
Actives(R, N) == [k \in 0..N |-> ActiveAt(R.kings, Activations(R.locks), k * Interval)]

LEMMA ActivesType ==
  ASSUME NEW R, RegistrySound(R), NEW N \in Nat
  PROVE  Actives(R, N) \in [0..N -> Seq(Address)]
<1>1. R.kings \in Seq(Address)
  BY DEF RegistrySound, Registries
<1>2. \A k \in 0..N : ActiveAt(R.kings, Activations(R.locks), k * Interval) \in Seq(Address)
  BY <1>1, KeptType DEF ActiveAt
<1> QED BY <1>2 DEF Actives

\* Once every activation is due, all kings are active.
LEMMA AllActive ==
  ASSUME NEW R, RegistrySound(R), NEW h \in Nat, DueBy(R, h), NEW j \in Nat, NextActivation(h) <= j
  PROVE  ActiveAt(R.kings, Activations(R.locks), j) = R.kings
<1>1. R.kings \in Seq(Address) /\ R.locks \in Locks /\ ToSet(R.kings) \subseteq Address
  BY MembersTyped DEF RegistrySound, Registries
<1> DEFINE V == {a \in Address : Activations(R.locks)[a] <= j}
<1>2. ASSUME NEW a \in ToSet(R.kings) PROVE a \in V
  <2>1. CASE R.locks[a] = NoLock
    <3>1. Activations(R.locks)[a] = 0
      BY <1>1, <2>1 DEF Activations
    <3> QED BY <1>1, <3>1
  <2>2. CASE R.locks[a] # NoLock
    <3>1. a \in Locked(R.locks) /\ R.locks[a] \in Lock
      BY <1>1, <2>2 DEF Locked, Locks
    <3>2. R.locks[a].activation \in Nat /\ R.locks[a].activation <= NextActivation(h)
      BY <3>1 DEF Lock, DueBy
    <3>3. Activations(R.locks)[a] = R.locks[a].activation
      BY <1>1, <2>2 DEF Activations
    <3>4. NextActivation(h) \in Nat
      BY Boundaries
    <3>5. R.locks[a].activation <= j
      BY ONLY <3>2, <3>4, NextActivation(h) <= j, j \in Nat
    <3> QED BY <1>1, <3>3, <3>5
  <2> QED BY <2>1, <2>2
<1> HIDE DEF V
<1>3. Kept(R.kings, V) = R.kings
  BY <1>1, <1>2, KeptWhole
<1> QED BY <1>3 DEF ActiveAt, V

\* Every registered address is king within one full rotation after the next
\* boundary, well inside the margin of nextRotationHeight.
THEOREM RotationCorrect == Spec => []RotationReachesAll
<1>1. KingInv => RotationReachesAll
  <2>1. SUFFICES ASSUME KingInv, NEW n \in Node, NEW a \in ToSet(registry[n].kings)
                 PROVE  \E step \in 0..((2 * Len(registry[n].kings) + 2) - 1) :
                          NodeKing(n, NextActivation(height[n]) + step * Interval) = a
    BY DEF RotationReachesAll
  <2> DEFINE R == registry[n]
             s == R.kings
             L == Len(s)
             h == height[n]
             m == (h \div Interval) + 1
             N == m + L
             f == Replayed(Actives(R, N))
  <2>2. RegistrySound(R) /\ DueBy(R, h) /\ h \in Nat
    BY <2>1 DEF KingInv, NodesSound, NodesTyped, NodeSound
  <2>3. s \in Seq(Address) /\ IsInjective(s)
    BY <2>2 DEF RegistrySound, Registries
  <2>4. DOMAIN s = 1..L /\ L \in Nat
    BY <2>3, MembersTyped
  <2>5. PICK q \in 1..L : a = s[q]
    BY <2>4 DEF ToSet
  <2>6. m \in Nat \ {0} /\ N \in Nat /\ NextActivation(h) = m * Interval
    <3>1. h \div Interval \in Nat
      BY <2>2, Boundaries
    <3>2. NextActivation(h) = m * Interval
      BY DEF NextActivation
    <3>3. m \in Nat \ {0}
      BY <3>1
    <3> HIDE DEF m, L
    <3>4. N \in Nat
      BY <2>4, <3>3
    <3> QED BY <3>2, <3>3, <3>4
  <2> HIDE DEF R, h, m
  <2>7. Actives(R, N) \in [0..N -> Seq(Address)] /\ Replays(f, N, Actives(R, N))
    BY <2>2, <2>6, ActivesType, ReplayUnfolds
  <2>8. \A k \in m..N : Actives(R, N)[k] = s
    <3>1. TAKE k \in m..N
    <3>2. k \in Nat /\ k \in 0..N /\ m <= k
      BY <2>6
    <3>3. m * Interval <= k * Interval /\ k * Interval \in Nat
      BY <2>6, <3>2, KingAssumption
    <3>4. ActiveAt(s, Activations(R.locks), k * Interval) = s
      BY <2>2, <2>6, <3>3, AllActive
    <3> QED BY <3>2, <3>4 DEF Actives
  <2>9. PICK j \in 0..(L - 1) : f[m + j] = s[q]
    <3> DEFINE A == Actives(R, N)
    <3> HIDE DEF A, f, s
    <3>1. Replays(f, N, A) /\ \A k \in m..N : A[k] = s
      BY <2>7, <2>8 DEF A
    <3>2. Replays(f, m + Len(s), A) /\ WholeFrom(A, s, m) /\ q \in 1..Len(s)
      BY <2>5, <3>1 DEF WholeFrom
    <3>3. Reaches(f, s, m, q)
      BY <2>3, <2>6, <3>2, RotationWalks
    <3> QED BY <3>3 DEF Reaches
  <2> DEFINE M == m + j
             H == NextActivation(h) + j * Interval
  <2>10. M \in 0..N /\ M \in Nat /\ j \in Nat
    BY <2>4, <2>6
  <2>11. H = M * Interval
    BY <2>6, <2>10, KingAssumption
  <2>12. H \div Interval = M
    BY <2>10, <2>11, BoundaryNumber
  <2>13. NodeKing(n, H) = Replayed(Actives(R, M))[M]
    <3> HIDE DEF H, M
    <3> QED BY <2>12 DEF NodeKing, KingAt, Actives, R
  <2>14. Replayed(Actives(R, M))[M] = f[M]
    <3> HIDE DEF N, M
    <3>1. Replays(Replayed(Actives(R, M)), M, Actives(R, M))
      BY <2>2, <2>10, ActivesType, ReplayUnfolds
    <3>2. \A k \in 0..M : Actives(R, N)[k] = Actives(R, M)[k]
      BY <2>6, <2>10 DEF Actives
    <3> DEFINE A == Actives(R, N)
               B == Actives(R, M)
               g == Replayed(B)
    <3>3. Replays(f, N, A) /\ Replays(g, M, B) /\ \A k \in 0..M : A[k] = B[k]
      BY <2>7, <3>1, <3>2
    <3>4. N \in Nat /\ M \in 0..N
      BY <2>6, <2>10
    <3> HIDE DEF A, B, f, g
    <3>5. g[M] = f[M]
      BY <3>3, <3>4, ReplaysAgree
    <3> QED BY <3>5 DEF g, B, f, A
  <2>15. NodeKing(n, H) = a
    BY <2>5, <2>9, <2>13, <2>14
  <2>16. j \in 0..((2 * L + 2) - 1)
    BY <2>4, <2>9
  <2> QED BY <2>15, <2>16 DEF R, h
<1> QED BY <1>1, KingInvariant, PTL
=============================================================================
