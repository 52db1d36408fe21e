----------------------------- MODULE Induction -----------------------------
(***************************************************************************)
(* Induction stated with sets instead of predicates: a set of numbers, or of *)
(* finite sets, that is closed under the step holds everything.  The other   *)
(* proof modules cite these facts with the set of the instances for which    *)
(* their claim holds.                                                        *)
(***************************************************************************)
EXTENDS Integers, FiniteSets, FiniteSetTheorems, WellFoundedInduction, TLAPS

NatOrder == OpToRel(<, Nat)

LEMMA NatOrderMeaning == \A i, j \in Nat : <<i, j>> \in NatOrder <=> i < j
<1>1. NatOrder = {p \in Nat \X Nat : p[1] < p[2]}
  BY DEF OpToRel, NatOrder
<1> QED BY <1>1

\* A nonempty set of natural numbers has a least element.
LEMMA LeastOfNaturals ==
  ASSUME NEW C, C \subseteq Nat, C # {}
  PROVE  \E x \in C : \A y \in C : x <= y
<1>1. IsWellFoundedOn(NatOrder, Nat)
  BY NatLessThanWellFounded DEF NatOrder
<1>2. \E x \in C : \A y \in C : ~ (<<y, x>> \in NatOrder)
  BY ONLY <1>1, C \subseteq Nat, C # {}, WFMin, Zenon
<1>3. PICK x \in C : \A y \in C : ~ (<<y, x>> \in NatOrder)
  BY <1>2
<1>4. ASSUME NEW y \in C PROVE x <= y
  <2>1. x \in Nat /\ y \in Nat
    OBVIOUS
  <2>2. ~ (y < x)
    BY <1>3, <2>1, NatOrderMeaning
  <2> QED BY <2>1, <2>2
<1> QED BY <1>4

\* A nonempty set of natural numbers with a bound has a largest element.
LEMMA LargestOfNaturals ==
  ASSUME NEW N \in Nat, NEW C, C \subseteq 0..N, C # {}
  PROVE  \E x \in C : \A y \in C : y <= x
<1> DEFINE M == {n \in Nat : \A y \in C : y <= n}
<1>1. N \in M
  OBVIOUS
<1>2. PICK m \in M : \A n \in M : m <= n
  BY <1>1, LeastOfNaturals
<1>3. m \in C
  <2>1. SUFFICES ASSUME m \notin C PROVE FALSE
    OBVIOUS
  <2>2. \A y \in C : y < m
    BY <1>2, <2>1
  <2>3. m - 1 \in M
    <3>1. PICK y \in C : TRUE
      OBVIOUS
    <3>2. y \in Nat /\ y < m
      BY <2>2, <3>1
    <3>3. m - 1 \in Nat
      BY <3>2
    <3>4. \A z \in C : z <= m - 1
      BY <2>2
    <3> QED BY <3>3, <3>4
  <2> QED BY <1>2, <2>3
<1> QED BY <1>2, <1>3

\* Induction over the natural numbers.
LEMMA InductionOnNaturals ==
  ASSUME NEW T, 0 \in T, \A n \in Nat : n \in T => n + 1 \in T
  PROVE  Nat \subseteq T
<1>1. SUFFICES ASSUME Nat \ T # {} PROVE FALSE
  OBVIOUS
<1>2. PICK x \in Nat \ T : \A y \in Nat \ T : x <= y
  BY <1>1, LeastOfNaturals
<1>3. x # 0 /\ x - 1 \in Nat /\ x - 1 \in T
  BY <1>2
<1> QED BY <1>2, <1>3

\* Induction over the subsets of a finite set, one element at a time.
LEMMA InductionOnSubsets ==
  ASSUME NEW S, IsFiniteSet(S), NEW T, {} \in T,
         \A U \in SUBSET S : (\A x \in U : U \ {x} \in T) => U \in T
  PROVE  SUBSET S \subseteq T
<1> DEFINE K == {n \in Nat : \A U \in SUBSET S : Cardinality(U) = n => U \in T}
<1>1. \A U \in SUBSET S : IsFiniteSet(U) /\ Cardinality(U) \in Nat
  BY FS_Subset, FS_CardinalityType
<1>2. 0 \in K
  BY <1>1, FS_EmptySet
<1>3. ASSUME NEW n \in Nat, n \in K PROVE n + 1 \in K
  <2>1. SUFFICES ASSUME NEW U \in SUBSET S, Cardinality(U) = n + 1 PROVE U \in T
    BY <1>3
  <2>2. ASSUME NEW x \in U PROVE U \ {x} \in T
    <3>1. Cardinality(U \ {x}) = n
      BY <1>1, <2>1, FS_RemoveElement
    <3> QED BY <1>3, <3>1
  <2> QED BY <2>2
<1>4. Nat \subseteq K
  <2> HIDE DEF K
  <2> QED BY <1>2, <1>3, InductionOnNaturals
<1> QED BY <1>1, <1>4

\* f is defined by recursion over 0..N: step[k] takes the value at k - 1 to the
\* value at k.
Iterates(f, N, T, start, step) ==
    /\ f \in [0..N -> T]
    /\ f[0] = start
    /\ \A k \in 1..N : f[k] = step[k][f[k - 1]]

\* Such a function exists.
LEMMA RecursionOnPrefix ==
  ASSUME NEW N \in Nat, NEW T, NEW start \in T, NEW step \in [1..N -> [T -> T]]
  PROVE  \E f : Iterates(f, N, T, start, step)
<1> DEFINE Solves(f, n) ==
      /\ f \in [0..n -> T] /\ f[0] = start
      /\ \A k \in 1..n : f[k] = step[k][f[k - 1]]
    K == {n \in Nat : n <= N => \E f \in [0..n -> T] : Solves(f, n)}
<1>1. 0 \in K
  <2>1. Solves([k \in 0..0 |-> start], 0)
    OBVIOUS
  <2> QED BY <2>1
<1>2. ASSUME NEW n \in Nat, n \in K PROVE n + 1 \in K
  <2>1. SUFFICES ASSUME n + 1 <= N PROVE \E f \in [0..(n + 1) -> T] : Solves(f, n + 1)
    OBVIOUS
  <2>2. PICK f \in [0..n -> T] : Solves(f, n)
    BY <1>2, <2>1
  <2> DEFINE g == [k \in 0..(n + 1) |-> IF k = n + 1 THEN step[n + 1][f[n]] ELSE f[k]]
  <2>3. step[n + 1] \in [T -> T] /\ f[n] \in T
    BY <2>1
  <2>4. g \in [0..(n + 1) -> T] /\ g[0] = start
    BY <2>2, <2>3
  <2>5. ASSUME NEW k \in 1..(n + 1) PROVE g[k] = step[k][g[k - 1]]
    <3>1. CASE k = n + 1
      BY <3>1
    <3>2. CASE k # n + 1
      <4>1. k \in 1..n /\ k - 1 \in 0..n /\ k - 1 # n + 1
        BY <3>2
      <4>2. g[k] = f[k] /\ g[k - 1] = f[k - 1]
        BY <4>1, <3>2
      <4> QED BY <2>2, <4>1, <4>2
    <3> QED BY <3>1, <3>2
  <2> HIDE DEF g
  <2> QED BY <2>4, <2>5
<1>3. Nat \subseteq K
  <2> HIDE DEF K
  <2> QED BY <1>1, <1>2, InductionOnNaturals
<1>4. N \in K
  BY <1>3
<1>5. PICK f \in [0..N -> T] : Solves(f, N)
  BY <1>4
<1> QED BY <1>5 DEF Iterates
=============================================================================
