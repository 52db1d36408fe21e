------------------------- MODULE AccumulatorsProofs -------------------------
(***************************************************************************)
(* Proofs about Accumulators, for trees of every depth: the node tree and    *)
(* the frontier, which both touch one path per append, always hold the nodes *)
(* of the complete tree over everything appended so far.                     *)
(***************************************************************************)
EXTENDS Accumulators, Induction, SequenceTheorems

(***************************************************************************)
(* Widths and cursors                                                      *)
(***************************************************************************)
\* The depth is a positive number, and the levels run from 0 to it.
LEMMA DepthNat == Depth \in Nat /\ Depth >= 1 /\ 0 \in 0..Depth /\ Depth \in 0..Depth
  BY DepthAssumption

\* The widths are powers of two: 1 << n.
LEMMA PowerFacts ==
  /\ Power[0] = 1
  /\ \A n \in 0..Depth : Power[n] \in Nat \ {0}
  /\ \A n \in 1..Depth : Power[n] = 2 * Power[n - 1]
<1> DEFINE T == Nat \ {0}
           step == [k \in 1..Depth |-> [x \in T |-> 2 * x]]
           Body(h) == [n \in 0..Depth |-> IF n = 0 THEN 1 ELSE 2 * h[n - 1]]
<1>1. Depth \in Nat /\ 1 \in T
  BY DepthNat
<1>2. step \in [1..Depth -> [T -> T]]
  OBVIOUS
<1>3. \A k \in 1..Depth, x \in T : step[k][x] = 2 * x
  OBVIOUS
<1> HIDE DEF step
<1>4. PICK f : Iterates(f, Depth, T, 1, step)
  BY <1>1, <1>2, RecursionOnPrefix
<1>5. f \in [0..Depth -> T] /\ f[0] = 1 /\ \A k \in 1..Depth : f[k] = step[k][f[k - 1]]
  BY <1>4 DEF Iterates
<1>6. \A k \in 1..Depth : f[k - 1] \in T
  BY <1>1, <1>5
<1>7. \A k \in 1..Depth : f[k] = 2 * f[k - 1]
  BY <1>3, <1>5, <1>6
<1>8. f = Body(f)
  <2>1. \A k \in 0..Depth : f[k] = Body(f)[k]
    BY <1>1, <1>5, <1>7
  <2> QED BY <1>5, <2>1
<1>9. Power = CHOOSE h : h = Body(h)
  BY DEF Power
<1>10. Power = Body(Power)
  BY <1>8, <1>9
<1>11. Power[0] = 1 /\ \A n \in 1..Depth : Power[n] = 2 * Power[n - 1]
  BY <1>1, <1>10
<1> DEFINE K == {k \in Nat : k <= Depth => Power[k] \in T}
<1>12. 0 \in K
  BY <1>11
<1>13. ASSUME NEW k \in Nat, k \in K PROVE k + 1 \in K
  <2>1. SUFFICES ASSUME k + 1 <= Depth PROVE Power[k + 1] \in T
    OBVIOUS
  <2>2. k + 1 \in 1..Depth /\ (k + 1) - 1 = k /\ Power[k] \in T
    BY <1>1, <1>13, <2>1
  <2>3. Power[k + 1] = 2 * Power[k]
    BY <1>11, <2>2
  <2> QED BY <2>2, <2>3
<1>14. Nat \subseteq K
  <2> HIDE DEF K
  <2> QED BY <1>12, <1>13, InductionOnNaturals
<1> QED BY <1>1, <1>11, <1>14

\* The cursor starts at the leaf and is halved from level to level.
LEMMA CursorFacts ==
  ASSUME NEW i \in Nat
  PROVE  /\ Cursor(i, 0) = i
         /\ \A l \in 0..Depth : Cursor(i, l) \in Nat
         /\ \A l \in 1..Depth : Cursor(i, l) = Cursor(i, l - 1) \div 2
<1> DEFINE step == [k \in 1..Depth |-> [x \in Nat |-> x \div 2]]
           Body(h) == [l \in 0..Depth |-> IF l = 0 THEN i ELSE h[l - 1] \div 2]
           g == CHOOSE h : h = Body(h)
<1>1. Depth \in Nat
  BY DepthNat
<1>2. step \in [1..Depth -> [Nat -> Nat]]
  OBVIOUS
<1>3. \A k \in 1..Depth, x \in Nat : step[k][x] = x \div 2
  OBVIOUS
<1> HIDE DEF step
<1>4. PICK f : Iterates(f, Depth, Nat, i, step)
  BY <1>1, <1>2, RecursionOnPrefix
<1>5. f \in [0..Depth -> Nat] /\ f[0] = i /\ \A k \in 1..Depth : f[k] = step[k][f[k - 1]]
  BY <1>4 DEF Iterates
<1>6. \A k \in 1..Depth : f[k - 1] \in Nat
  BY <1>1, <1>5
<1>7. \A k \in 1..Depth : f[k] = f[k - 1] \div 2
  BY <1>3, <1>5, <1>6
<1>8. f = Body(f)
  <2>1. \A k \in 0..Depth : f[k] = Body(f)[k]
    BY <1>1, <1>5, <1>7
  <2> QED BY <1>5, <2>1
<1>9. g = Body(g)
  BY <1>8
<1>10. \A l : Cursor(i, l) = g[l]
  BY DEF Cursor
<1> HIDE DEF g
<1>11. g[0] = i /\ \A l \in 1..Depth : g[l] = g[l - 1] \div 2
  BY <1>1, <1>9
<1> DEFINE K == {k \in Nat : k <= Depth => g[k] \in Nat}
<1>12. 0 \in K
  BY <1>11
<1>13. ASSUME NEW k \in Nat, k \in K PROVE k + 1 \in K
  <2>1. SUFFICES ASSUME k + 1 <= Depth PROVE g[k + 1] \in Nat
    OBVIOUS
  <2>2. k + 1 \in 1..Depth /\ (k + 1) - 1 = k /\ g[k] \in Nat
    BY <1>1, <1>13, <2>1
  <2>3. g[k + 1] = g[k] \div 2
    BY <1>11, <2>2
  <2> QED BY <2>2, <2>3
<1>14. Nat \subseteq K
  <2> HIDE DEF K
  <2> QED BY <1>12, <1>13, InductionOnNaturals
<1>15. \A l \in 0..Depth : g[l] \in Nat
  BY <1>1, <1>14
<1> QED BY <1>10, <1>11, <1>15

\* A position is one of the two children of its half; the sibling is the other.
LEMMA HalfFacts ==
  ASSUME NEW c \in Nat
  PROVE  /\ c \div 2 \in Nat
         /\ \/ c % 2 = 0 /\ c = 2 * (c \div 2) /\ Sibling(c) = 2 * (c \div 2) + 1
            \/ c % 2 = 1 /\ c = 2 * (c \div 2) + 1 /\ Sibling(c) = 2 * (c \div 2)
<1>1. c \div 2 \in Nat /\ (c % 2 = 0 \/ c % 2 = 1) /\ c = 2 * (c \div 2) + (c % 2)
  OBVIOUS
<1>2. CASE c % 2 = 0
  BY <1>1, <1>2 DEF Sibling
<1>3. CASE c % 2 = 1
  BY <1>1, <1>3 DEF Sibling
<1> QED BY <1>1, <1>2, <1>3

\* Induction over the levels.
LEMMA LevelInduction ==
  ASSUME NEW T, 0 \in T, \A l \in 1..Depth : l - 1 \in T => l \in T
  PROVE  \A l \in 0..Depth : l \in T
<1> DEFINE K == {k \in Nat : k <= Depth => k \in T}
<1>1. Depth \in Nat
  BY DepthNat
<1>2. 0 \in K
  OBVIOUS
<1>3. ASSUME NEW k \in Nat, k \in K PROVE k + 1 \in K
  <2>1. SUFFICES ASSUME k + 1 <= Depth PROVE k + 1 \in T
    OBVIOUS
  <2>2. k + 1 \in 1..Depth /\ (k + 1) - 1 = k /\ k \in T
    BY <1>1, <1>3, <2>1
  <2> QED BY <2>2
<1>4. Nat \subseteq K
  <2> HIDE DEF K
  <2> QED BY <1>2, <1>3, InductionOnNaturals
<1> QED BY <1>1, <1>4

\* Nodes of a level.
Width(level) == Power[Depth - level]

\* A level has half the nodes of the one below it; the top has one.
LEMMA WidthFacts ==
  /\ Width(0) = Capacity /\ Width(Depth) = 1
  /\ \A l \in 0..Depth : Width(l) \in Nat \ {0}
  /\ \A l \in 1..Depth : Width(l - 1) = 2 * Width(l)
<1>1. Depth \in Nat /\ Depth - 0 = Depth /\ Depth - Depth = 0
  BY DepthNat
<1>2. Width(0) = Capacity /\ Width(Depth) = 1
  BY <1>1, PowerFacts DEF Width, Capacity
<1>3. ASSUME NEW l \in 0..Depth PROVE Width(l) \in Nat \ {0}
  <2>1. Depth - l \in 0..Depth
    BY <1>1
  <2> QED BY <2>1, PowerFacts DEF Width
<1>4. ASSUME NEW l \in 1..Depth PROVE Width(l - 1) = 2 * Width(l)
  <2>1. Depth - (l - 1) \in 1..Depth /\ (Depth - (l - 1)) - 1 = Depth - l
    BY <1>1
  <2>2. Power[Depth - (l - 1)] = 2 * Power[(Depth - (l - 1)) - 1]
    BY <2>1, PowerFacts
  <2> QED BY <2>1, <2>2 DEF Width
<1> QED BY <1>2, <1>3, <1>4

\* The children of a node are nodes of the level below.
LEMMA ChildRange ==
  ASSUME NEW l \in 1..Depth, NEW c \in Nat, c < Width(l)
  PROVE  /\ l - 1 \in 0..Depth
         /\ 2 * c \in Nat /\ 2 * c < Width(l - 1)
         /\ 2 * c + 1 \in Nat /\ 2 * c + 1 < Width(l - 1)
<1>1. Width(l) \in Nat /\ Width(l - 1) = 2 * Width(l) /\ l - 1 \in 0..Depth /\ l \in 0..Depth
  <2>1. l \in 0..Depth /\ l - 1 \in 0..Depth
    BY DepthNat
  <2> QED BY <2>1, WidthFacts
<1>2. \A w \in Nat : c < w => 2 * c < 2 * w /\ 2 * c + 1 < 2 * w
  OBVIOUS
<1> QED BY <1>1, <1>2

\* The cursor of a leaf stays within the level, and its sibling too.
LEMMA CursorRange ==
  ASSUME NEW i \in Nat, i < Capacity
  PROVE  /\ \A l \in 0..Depth : Cursor(i, l) \in Nat /\ Cursor(i, l) < Width(l)
         /\ \A l \in 0..(Depth - 1) : Sibling(Cursor(i, l)) \in Nat /\ Sibling(Cursor(i, l)) < Width(l)
<1> DEFINE T == {l \in 0..Depth : Cursor(i, l) < Width(l)}
<1>1. 0 \in T
  BY DepthNat, CursorFacts, WidthFacts
<1>2. ASSUME NEW l \in 1..Depth, l - 1 \in T PROVE l \in T
  <2>1. l \in 0..Depth /\ l - 1 \in 0..Depth
    BY DepthNat
  <2>2. /\ Cursor(i, l - 1) \in Nat /\ Cursor(i, l - 1) < Width(l - 1)
        /\ Cursor(i, l) = Cursor(i, l - 1) \div 2
        /\ Width(l) \in Nat /\ Width(l - 1) = 2 * Width(l)
    BY <1>2, <2>1, CursorFacts, WidthFacts
  <2>3. \A c, w \in Nat : c < 2 * w => c \div 2 < w
    OBVIOUS
  <2> QED BY <2>1, <2>2, <2>3
<1>3. \A l \in 0..Depth : l \in T
  <2> HIDE DEF T
  <2> QED BY <1>1, <1>2, LevelInduction
<1>4. ASSUME NEW l \in 0..(Depth - 1)
      PROVE  Sibling(Cursor(i, l)) \in Nat /\ Sibling(Cursor(i, l)) < Width(l)
  <2>1. l + 1 \in 1..Depth /\ l + 1 \in 0..Depth /\ (l + 1) - 1 = l
    BY DepthNat
  <2>2. Cursor(i, l + 1) = Cursor(i, l) \div 2 /\ Cursor(i, l + 1) < Width(l + 1) /\ Cursor(i, l) \in Nat
        /\ Cursor(i, l + 1) \in Nat
    BY <1>3, <2>1, CursorFacts, DepthNat
  <2> DEFINE h == Cursor(i, l + 1)
  <2>3. 2 * h \in Nat /\ 2 * h < Width(l) /\ 2 * h + 1 \in Nat /\ 2 * h + 1 < Width(l)
    BY <2>1, <2>2, ChildRange
  <2>4. Sibling(Cursor(i, l)) = 2 * h \/ Sibling(Cursor(i, l)) = 2 * h + 1
    BY <2>2, HalfFacts
  <2> QED BY <2>3, <2>4
<1> QED BY <1>3, <1>4, CursorFacts

\* The next leaf has the same cursor on a level or the next one.
LEMMA CursorNext ==
  ASSUME NEW i \in Nat
  PROVE  \A l \in 0..Depth : Cursor(i + 1, l) = Cursor(i, l) \/ Cursor(i + 1, l) = Cursor(i, l) + 1
<1> DEFINE T == {l \in 0..Depth :
                   Cursor(i + 1, l) = Cursor(i, l) \/ Cursor(i + 1, l) = Cursor(i, l) + 1}
<1>0. i + 1 \in Nat
  OBVIOUS
<1>1. 0 \in T
  BY <1>0, DepthNat, CursorFacts
<1>2. ASSUME NEW l \in 1..Depth, l - 1 \in T PROVE l \in T
  <2>1. l \in 0..Depth /\ l - 1 \in 0..Depth
    BY DepthNat
  <2>2. /\ Cursor(i, l - 1) \in Nat /\ Cursor(i, l) = Cursor(i, l - 1) \div 2
        /\ Cursor(i + 1, l) = Cursor(i + 1, l - 1) \div 2
    BY <1>0, <2>1, CursorFacts
  <2>3. \A c \in Nat : (c + 1) \div 2 = c \div 2 \/ (c + 1) \div 2 = c \div 2 + 1
    OBVIOUS
  <2>4. Cursor(i + 1, l - 1) = Cursor(i, l - 1) \/ Cursor(i + 1, l - 1) = Cursor(i, l - 1) + 1
    BY <1>2
  <2> QED BY <2>1, <2>2, <2>3, <2>4
<1>3. \A l \in 0..Depth : l \in T
  <2> HIDE DEF T
  <2> QED BY <1>1, <1>2, LevelInduction
<1> QED BY <1>3

(***************************************************************************)
(* The recursive functions of MerkleTree exist and do what they say         *)
(***************************************************************************)
\* The empty digest of a level is the pair of two of the level below.
LEMMA ZeroesFacts ==
  /\ Zeroes[0] = Zero
  /\ \A l \in 1..Depth : Zeroes[l] = HashPair(Zeroes[l - 1], Zeroes[l - 1])
<1> DEFINE Solves(f, n) == /\ f[0] = Zero
                           /\ \A k \in 1..n : f[k] = HashPair(f[k - 1], f[k - 1])
           Body(h) == [l \in 0..Depth |-> IF l = 0 THEN Zero ELSE HashPair(h[l - 1], h[l - 1])]
           T == {n \in 0..Depth : \E f : f = [k \in 0..n |-> f[k]] /\ Solves(f, n)}
<1>1. 0 \in T
  <2>1. LET f == [k \in 0..0 |-> Zero] IN f = [k \in 0..0 |-> f[k]] /\ Solves(f, 0)
    OBVIOUS
  <2> QED BY <2>1, DepthNat
<1>2. ASSUME NEW n \in 1..Depth, n - 1 \in T PROVE n \in T
  <2>1. PICK f : f = [k \in 0..(n - 1) |-> f[k]] /\ Solves(f, n - 1)
    BY <1>2
  <2> DEFINE g == [k \in 0..n |-> IF k = n THEN HashPair(f[n - 1], f[n - 1]) ELSE f[k]]
  <2>2. g = [k \in 0..n |-> g[k]] /\ g[0] = Zero
    BY <2>1
  <2>3. ASSUME NEW k \in 1..n PROVE g[k] = HashPair(g[k - 1], g[k - 1])
    <3>1. k - 1 \in 0..n /\ k - 1 # n /\ k \in 0..n
      OBVIOUS
    <3>2. g[k - 1] = f[k - 1]
      BY <3>1
    <3>3. CASE k = n
      BY <3>1, <3>2, <3>3
    <3>4. CASE k # n
      <4>1. k \in 1..(n - 1)
        BY <3>4
      <4> QED BY <2>1, <3>1, <3>2, <3>4, <4>1
    <3> QED BY <3>3, <3>4
  <2> HIDE DEF g
  <2>4. Solves(g, n)
    BY <2>2, <2>3
  <2>5. n \in 0..Depth
    BY DepthNat
  <2> HIDE DEF Solves
  <2> QED BY <2>2, <2>4, <2>5
<1>3. Depth \in T
  <2> HIDE DEF T
  <2> QED BY <1>1, <1>2, LevelInduction, DepthNat
<1>4. PICK f : f = [k \in 0..Depth |-> f[k]] /\ Solves(f, Depth)
  BY <1>3
<1>5. f = Body(f)
  <2>1. \A k \in 0..Depth : f[k] = Body(f)[k]
    BY <1>4, DepthNat
  <2> HIDE DEF Solves
  <2> QED BY <1>4, <2>1
<1>6. Zeroes = CHOOSE h : h = Body(h)
  BY DEF Zeroes
<1>7. Zeroes = Body(Zeroes)
  BY <1>5, <1>6
<1> QED BY <1>7, DepthNat

\* The ascent starts at the leaf and takes the parent on every level.
LEMMA AscentFacts ==
  ASSUME NEW i \in Nat, NEW leaf, NEW siblings
  PROVE  /\ Ascent(i, leaf, siblings)[0] = leaf
         /\ \A l \in 1..Depth : Ascent(i, leaf, siblings)[l] =
                Parent(Cursor(i, l - 1), Ascent(i, leaf, siblings)[l - 1], siblings[l - 1])
<1> DEFINE Up(k, x) == Parent(Cursor(i, k - 1), x, siblings[k - 1])
           Solves(f, n) == f[0] = leaf /\ \A k \in 1..n : f[k] = Up(k, f[k - 1])
           Body(h) == [l \in 0..Depth |-> IF l = 0 THEN leaf ELSE Up(l, h[l - 1])]
           T == {n \in 0..Depth : \E f : f = [k \in 0..n |-> f[k]] /\ Solves(f, n)}
<1> HIDE DEF Up
<1>1. 0 \in T
  <2>1. LET f == [k \in 0..0 |-> leaf] IN f = [k \in 0..0 |-> f[k]] /\ Solves(f, 0)
    OBVIOUS
  <2> QED BY <2>1, DepthNat
<1>2. ASSUME NEW n \in 1..Depth, n - 1 \in T PROVE n \in T
  <2>1. PICK f : f = [k \in 0..(n - 1) |-> f[k]] /\ Solves(f, n - 1)
    BY <1>2
  <2> DEFINE g == [k \in 0..n |-> IF k = n THEN Up(n, f[n - 1]) ELSE f[k]]
  <2>2. g = [k \in 0..n |-> g[k]] /\ g[0] = leaf
    BY <2>1
  <2>3. ASSUME NEW k \in 1..n PROVE g[k] = Up(k, g[k - 1])
    <3>1. k - 1 \in 0..n /\ k - 1 # n /\ k \in 0..n
      OBVIOUS
    <3>2. g[k - 1] = f[k - 1]
      BY <3>1
    <3>3. CASE k = n
      BY <3>1, <3>2, <3>3
    <3>4. CASE k # n
      <4>1. k \in 1..(n - 1)
        BY <3>4
      <4> QED BY <2>1, <3>1, <3>2, <3>4, <4>1
    <3> QED BY <3>3, <3>4
  <2> HIDE DEF g
  <2>4. Solves(g, n)
    BY <2>2, <2>3
  <2>5. n \in 0..Depth
    BY DepthNat
  <2> HIDE DEF Solves
  <2> QED BY <2>2, <2>4, <2>5
<1>3. Depth \in T
  <2> HIDE DEF T
  <2> QED BY <1>1, <1>2, LevelInduction, DepthNat
<1>4. PICK f : f = [k \in 0..Depth |-> f[k]] /\ Solves(f, Depth)
  BY <1>3
<1>5. f = Body(f)
  <2>1. ASSUME NEW k \in 0..Depth PROVE f[k] = Body(f)[k]
    <3>1. CASE k = 0
      BY <1>4, <3>1
    <3>2. CASE k # 0
      <4>1. k \in 1..Depth
        BY <3>2
      <4>2. f[k] = Up(k, f[k - 1])
        BY <1>4, <4>1
      <4> QED BY <3>2, <4>2
    <3> QED BY <3>1, <3>2
  <2> HIDE DEF Solves
  <2> QED BY <1>4, <2>1
<1>6. Ascent(i, leaf, siblings) = CHOOSE h : h = Body(h)
  BY DEF Ascent, Up
<1>7. Ascent(i, leaf, siblings) = Body(Ascent(i, leaf, siblings))
  BY <1>5, <1>6
<1> DEFINE a == Ascent(i, leaf, siblings)
<1> HIDE DEF a
<1>8. a = Body(a)
  BY <1>7 DEF a
<1>9. a[0] = leaf /\ \A l \in 1..Depth : a[l] = Up(l, a[l - 1])
  BY <1>8, DepthNat
<1> QED BY <1>9 DEF a, Up

\* Leaf c of the complete tree.
LeafAt(leaves, c) == IF c < Len(leaves) THEN leaves[c + 1] ELSE Zero

\* The rows of the complete tree: the leaves, then the pairs of the row below.
LEMMA LevelsFacts ==
  ASSUME NEW leaves
  PROVE  /\ \A c \in Nat : c < Width(0) => Levels(leaves)[0][c] = LeafAt(leaves, c)
         /\ \A l \in 1..Depth : \A c \in Nat : c < Width(l) =>
                Levels(leaves)[l][c] =
                  HashPair(Levels(leaves)[l - 1][2 * c], Levels(leaves)[l - 1][2 * c + 1])
<1> DEFINE Base == [c \in 0..(Width(0) - 1) |-> LeafAt(leaves, c)]
           Row(k, x) == [c \in 0..(Width(k) - 1) |-> HashPair(x[2 * c], x[2 * c + 1])]
           Solves(f, n) == f[0] = Base /\ \A k \in 1..n : f[k] = Row(k, f[k - 1])
           Body(h) == [l \in 0..Depth |-> IF l = 0 THEN Base ELSE Row(l, h[l - 1])]
           T == {n \in 0..Depth : \E f : f = [k \in 0..n |-> f[k]] /\ Solves(f, n)}
<1> HIDE DEF Row, Base
<1>1. 0 \in T
  <2>1. LET f == [k \in 0..0 |-> Base] IN f = [k \in 0..0 |-> f[k]] /\ Solves(f, 0)
    OBVIOUS
  <2> QED BY <2>1, DepthNat
<1>2. ASSUME NEW n \in 1..Depth, n - 1 \in T PROVE n \in T
  <2>1. PICK f : f = [k \in 0..(n - 1) |-> f[k]] /\ Solves(f, n - 1)
    BY <1>2
  <2> DEFINE g == [k \in 0..n |-> IF k = n THEN Row(n, f[n - 1]) ELSE f[k]]
  <2>2. g = [k \in 0..n |-> g[k]] /\ g[0] = Base
    BY <2>1
  <2>3. ASSUME NEW k \in 1..n PROVE g[k] = Row(k, g[k - 1])
    <3>1. k - 1 \in 0..n /\ k - 1 # n /\ k \in 0..n
      OBVIOUS
    <3>2. g[k - 1] = f[k - 1]
      BY <3>1
    <3>3. CASE k = n
      BY <3>1, <3>2, <3>3
    <3>4. CASE k # n
      <4>1. k \in 1..(n - 1)
        BY <3>4
      <4> QED BY <2>1, <3>1, <3>2, <3>4, <4>1
    <3> QED BY <3>3, <3>4
  <2> HIDE DEF g
  <2>4. Solves(g, n)
    BY <2>2, <2>3
  <2>5. n \in 0..Depth
    BY DepthNat
  <2> HIDE DEF Solves
  <2> QED BY <2>2, <2>4, <2>5
<1>3. Depth \in T
  <2> HIDE DEF T
  <2> QED BY <1>1, <1>2, LevelInduction, DepthNat
<1>4. PICK f : f = [k \in 0..Depth |-> f[k]] /\ Solves(f, Depth)
  BY <1>3
<1>5. f = Body(f)
  <2>1. ASSUME NEW k \in 0..Depth PROVE f[k] = Body(f)[k]
    <3>1. CASE k = 0
      BY <1>4, <3>1
    <3>2. CASE k # 0
      <4>1. k \in 1..Depth
        BY <3>2
      <4>2. f[k] = Row(k, f[k - 1])
        BY <1>4, <4>1
      <4> QED BY <3>2, <4>2
    <3> QED BY <3>1, <3>2
  <2> HIDE DEF Solves
  <2> QED BY <1>4, <2>1
<1> DEFINE Code(h) == [level \in 0..Depth |->
              [c \in 0..(Power[Depth - level] - 1) |->
                 IF level > 0 THEN HashPair(h[level - 1][2 * c], h[level - 1][2 * c + 1])
                 ELSE IF c < Len(leaves) THEN leaves[c + 1] ELSE Zero]]
<1>6. ASSUME NEW h PROVE Code(h) = Body(h)
  <2>1. ASSUME NEW l \in 0..Depth PROVE Code(h)[l] = Body(h)[l]
    <3>1. CASE l = 0
      BY <3>1 DEF Base, Width, LeafAt
    <3>2. CASE l # 0
      <4>1. l > 0
        BY <3>2
      <4>2. Code(h)[l] = [c \in 0..(Width(l) - 1) |-> HashPair(h[l - 1][2 * c], h[l - 1][2 * c + 1])]
        BY <4>1 DEF Width
      <4> QED BY <3>2, <4>2 DEF Row
    <3> QED BY <3>1, <3>2
  <2> QED BY <2>1
<1>7. Levels(leaves) = CHOOSE h : h = Code(h)
  BY DEF Levels
<1> DEFINE a == Levels(leaves)
<1>8. f = Code(f)
  BY <1>5, <1>6
<1> HIDE DEF Code, Body
<1>9. a = Code(a)
  BY <1>7, <1>8
<1> HIDE DEF a
<1>10. a = Body(a)
  BY <1>6, <1>9
<1>11. a[0] = Base /\ \A l \in 1..Depth : a[l] = Row(l, a[l - 1])
  BY <1>10, DepthNat DEF Body
<1>12. ASSUME NEW c \in Nat, c < Width(0) PROVE a[0][c] = LeafAt(leaves, c)
  <2>1. Width(0) \in Nat
    BY WidthFacts, DepthNat
  <2>2. c \in 0..(Width(0) - 1)
    BY <1>12, <2>1
  <2> QED BY <1>11, <2>2 DEF Base
<1>13. ASSUME NEW l \in 1..Depth, NEW c \in Nat, c < Width(l)
       PROVE  a[l][c] = HashPair(a[l - 1][2 * c], a[l - 1][2 * c + 1])
  <2>1. Width(l) \in Nat
    BY WidthFacts, DepthNat
  <2>2. c \in 0..(Width(l) - 1)
    BY <1>13, <2>1
  <2> QED BY <1>11, <2>2 DEF Row
<1> QED BY <1>12, <1>13 DEF a

(***************************************************************************)
(* The complete tree                                                       *)
(***************************************************************************)
\* A subtree without leaves has the empty digest of its level.
LEMMA EmptyLevels ==
  ASSUME NEW l \in 0..Depth, NEW c \in Nat, c < Width(l)
  PROVE  Levels(<< >>)[l][c] = Zeroes[l]
<1> DEFINE A == Levels(<< >>)
           T == {k \in 0..Depth : \A d \in Nat : d < Width(k) => A[k][d] = Zeroes[k]}
<1>1. 0 \in T
  <2>1. \A d \in Nat : LeafAt(<< >>, d) = Zero
    BY DEF LeafAt
  <2> QED BY <2>1, LevelsFacts, ZeroesFacts, DepthNat
<1>2. ASSUME NEW k \in 1..Depth, k - 1 \in T PROVE k \in T
  <2>1. SUFFICES ASSUME NEW d \in Nat, d < Width(k) PROVE A[k][d] = Zeroes[k]
    BY DepthNat
  <2>2. A[k][d] = HashPair(A[k - 1][2 * d], A[k - 1][2 * d + 1])
    BY <2>1, LevelsFacts
  <2>3. A[k - 1][2 * d] = Zeroes[k - 1] /\ A[k - 1][2 * d + 1] = Zeroes[k - 1]
    BY <1>2, <2>1, ChildRange
  <2> QED BY <2>2, <2>3, ZeroesFacts
<1>3. \A k \in 0..Depth : k \in T
  <2> HIDE DEF T
  <2> QED BY <1>1, <1>2, LevelInduction
<1> QED BY <1>3

\* So has every subtree to the right of the one the next leaf goes to.
LEMMA EmptyBeyond ==
  ASSUME NEW leaves, Len(leaves) \in Nat, NEW l \in 0..Depth, NEW c \in Nat, c < Width(l),
         Cursor(Len(leaves), l) < c
  PROVE  Levels(leaves)[l][c] = Zeroes[l]
<1> DEFINE A == Levels(leaves)
           n == Len(leaves)
           T == {k \in 0..Depth : \A d \in Nat : d < Width(k) /\ Cursor(n, k) < d => A[k][d] = Zeroes[k]}
<1> HIDE DEF A
<1>0. n \in Nat
  OBVIOUS
<1>1. 0 \in T
  <2>1. Cursor(n, 0) = n
    BY <1>0, CursorFacts
  <2>2. ASSUME NEW d \in Nat, d < Width(0), n < d PROVE A[0][d] = Zeroes[0]
    <3>1. LeafAt(leaves, d) = Zero
      BY <2>2 DEF LeafAt
    <3> QED BY <2>2, <3>1, LevelsFacts, ZeroesFacts DEF A
  <2> QED BY <2>1, <2>2, DepthNat
<1>2. ASSUME NEW k \in 1..Depth, k - 1 \in T PROVE k \in T
  <2>1. SUFFICES ASSUME NEW d \in Nat, d < Width(k), Cursor(n, k) < d PROVE A[k][d] = Zeroes[k]
    BY DepthNat
  <2>2. A[k][d] = HashPair(A[k - 1][2 * d], A[k - 1][2 * d + 1])
    BY <2>1, LevelsFacts DEF A
  <2>3. k - 1 \in 0..Depth /\ 2 * d \in Nat /\ 2 * d < Width(k - 1)
        /\ 2 * d + 1 \in Nat /\ 2 * d + 1 < Width(k - 1)
    BY <2>1, ChildRange
  <2>4. Cursor(n, k - 1) \in Nat /\ Cursor(n, k) = Cursor(n, k - 1) \div 2
    BY <1>0, <2>3, CursorFacts
  <2>5. \A x \in Nat : x \div 2 < d => x < 2 * d /\ x < 2 * d + 1
    OBVIOUS
  <2>6. Cursor(n, k - 1) < 2 * d /\ Cursor(n, k - 1) < 2 * d + 1
    BY <2>1, <2>4, <2>5
  <2>7. A[k - 1][2 * d] = Zeroes[k - 1] /\ A[k - 1][2 * d + 1] = Zeroes[k - 1]
    BY <1>2, <2>3, <2>6
  <2> QED BY <2>2, <2>7, ZeroesFacts
<1>3. \A k \in 0..Depth : k \in T
  <2> HIDE DEF T
  <2> QED BY <1>1, <1>2, LevelInduction
<1> QED BY <1>3 DEF A

\* The siblings on the way up from position i are those of the complete tree.
TruePath(leaves, i, siblings) ==
    \A l \in 0..(Depth - 1) : siblings[l] = Levels(leaves)[l][Sibling(Cursor(i, l))]

\* With the true siblings the ascent follows the nodes of the tree.
LEMMA LevelsPath ==
  ASSUME NEW leaves, NEW i \in Nat, i < Capacity, NEW siblings, TruePath(leaves, i, siblings),
         NEW l \in 0..Depth
  PROVE  Ascent(i, LeafAt(leaves, i), siblings)[l] = Levels(leaves)[l][Cursor(i, l)]
<1> DEFINE A == Levels(leaves)
           up == Ascent(i, LeafAt(leaves, i), siblings)
           T == {k \in 0..Depth : up[k] = A[k][Cursor(i, k)]}
<1>1. up[0] = LeafAt(leaves, i) /\ \A k \in 1..Depth : up[k] = Parent(Cursor(i, k - 1), up[k - 1], siblings[k - 1])
  BY AscentFacts
<1> HIDE DEF A, up
<1>2. 0 \in T
  <2>1. Cursor(i, 0) = i /\ i < Width(0)
    BY CursorFacts, WidthFacts
  <2> QED BY <1>1, <2>1, LevelsFacts, DepthNat DEF A
<1>3. ASSUME NEW k \in 1..Depth, k - 1 \in T PROVE k \in T
  <2>1. k \in 0..Depth /\ k - 1 \in 0..Depth /\ k - 1 \in 0..(Depth - 1)
    BY DepthNat
  <2> DEFINE c == Cursor(i, k - 1)
             h == c \div 2
  <2>2. Cursor(i, k) = h /\ c \in Nat /\ h \in Nat /\ h < Width(k)
    BY <2>1, CursorFacts, CursorRange
  <2>3. A[k][h] = HashPair(A[k - 1][2 * h], A[k - 1][2 * h + 1])
    BY <2>2, LevelsFacts DEF A
  <2>4. up[k - 1] = A[k - 1][c] /\ siblings[k - 1] = A[k - 1][Sibling(c)]
    BY <1>3, <2>1 DEF TruePath, A
  <2>5. up[k] = Parent(c, A[k - 1][c], A[k - 1][Sibling(c)])
    BY <1>1, <2>4
  <2>6. \/ c % 2 = 0 /\ c = 2 * h /\ Sibling(c) = 2 * h + 1
        \/ c % 2 = 1 /\ c = 2 * h + 1 /\ Sibling(c) = 2 * h
    BY <2>2, HalfFacts
  <2> HIDE DEF c, h
  <2>7. up[k] = A[k][h]
    BY <2>3, <2>5, <2>6 DEF Parent
  <2> QED BY <2>1, <2>2, <2>7 DEF h
<1>4. \A k \in 0..Depth : k \in T
  <2> HIDE DEF T
  <2> QED BY <1>2, <1>3, LevelInduction
<1> QED BY <1>4 DEF A, up

\* more is leaves with one more leaf at its end.
OneMore(leaves, more, leaf) ==
    /\ Len(leaves) \in Nat /\ Len(more) = Len(leaves) + 1
    /\ more[Len(leaves) + 1] = leaf
    /\ \A k \in 1..Len(leaves) : more[k] = leaves[k]

\* An append changes the nodes on its path, to the digests of the ascent, and no
\* other node of any level.
LEMMA LevelsAppend ==
  ASSUME NEW leaves, NEW more, NEW leaf, OneMore(leaves, more, leaf), Len(leaves) < Capacity,
         NEW siblings, TruePath(leaves, Len(leaves), siblings),
         NEW l \in 0..Depth, NEW c \in Nat, c < Width(l)
  PROVE  Levels(more)[l][c] = IF c = Cursor(Len(leaves), l)
                              THEN Ascent(Len(leaves), leaf, siblings)[l]
                              ELSE Levels(leaves)[l][c]
<1> DEFINE A == Levels(leaves)
           B == Levels(more)
           n == Len(leaves)
           up == Ascent(n, leaf, siblings)
           New(k, d) == IF d = Cursor(n, k) THEN up[k] ELSE A[k][d]
           T == {k \in 0..Depth : \A d \in Nat : d < Width(k) => B[k][d] = New(k, d)}
<1>0. n \in Nat /\ n < Capacity
  BY DEF OneMore
<1>1. up[0] = leaf /\ \A k \in 1..Depth : up[k] = Parent(Cursor(n, k - 1), up[k - 1], siblings[k - 1])
  BY <1>0, AscentFacts
<1> HIDE DEF A, B, up
<1>2. 0 \in T
  <2>1. SUFFICES ASSUME NEW d \in Nat, d < Width(0) PROVE B[0][d] = New(0, d)
    BY DepthNat
  <2>2. B[0][d] = LeafAt(more, d) /\ A[0][d] = LeafAt(leaves, d)
    BY <2>1, LevelsFacts DEF A, B
  <2>3. Cursor(n, 0) = n
    BY <1>0, CursorFacts
  <2>4. CASE d = n
    <3>1. LeafAt(more, d) = leaf
      BY <2>4 DEF LeafAt, OneMore
    <3> QED BY <1>1, <2>2, <2>3, <2>4, <3>1
  <2>5. CASE d < n
    <3>1. d + 1 \in 1..n /\ d < n + 1
      BY <1>0, <2>5
    <3>2. LeafAt(more, d) = LeafAt(leaves, d)
      BY <2>5, <3>1 DEF LeafAt, OneMore
    <3> QED BY <1>0, <2>2, <2>3, <2>5, <3>2
  <2>6. CASE d > n
    <3>1. ~(d < n) /\ ~(d < n + 1)
      BY <1>0, <2>6
    <3>2. LeafAt(more, d) = LeafAt(leaves, d)
      BY <3>1 DEF LeafAt, OneMore
    <3> QED BY <1>0, <2>2, <2>3, <2>6, <3>2
  <2> QED BY <1>0, <2>4, <2>5, <2>6
<1>3. ASSUME NEW k \in 1..Depth, k - 1 \in T PROVE k \in T
  <2>1. SUFFICES ASSUME NEW d \in Nat, d < Width(k) PROVE B[k][d] = New(k, d)
    BY DepthNat
  <2>2. k \in 0..Depth /\ k - 1 \in 0..Depth /\ k - 1 \in 0..(Depth - 1)
    BY DepthNat
  <2>3. /\ 2 * d \in Nat /\ 2 * d < Width(k - 1)
        /\ 2 * d + 1 \in Nat /\ 2 * d + 1 < Width(k - 1)
    BY <2>1, ChildRange
  <2>4. B[k][d] = HashPair(New(k - 1, 2 * d), New(k - 1, 2 * d + 1))
    <3>1. B[k][d] = HashPair(B[k - 1][2 * d], B[k - 1][2 * d + 1])
      BY <2>1, LevelsFacts DEF B
    <3>2. B[k - 1][2 * d] = New(k - 1, 2 * d) /\ B[k - 1][2 * d + 1] = New(k - 1, 2 * d + 1)
      BY <1>3, <2>3
    <3> QED BY <3>1, <3>2
  <2>5. A[k][d] = HashPair(A[k - 1][2 * d], A[k - 1][2 * d + 1])
    BY <2>1, LevelsFacts DEF A
  <2> DEFINE x == Cursor(n, k - 1)
             h == x \div 2
  <2>6. Cursor(n, k) = h /\ x \in Nat /\ h \in Nat
    BY <1>0, <2>2, CursorFacts
  <2>7. \/ x % 2 = 0 /\ x = 2 * h /\ Sibling(x) = 2 * h + 1
        \/ x % 2 = 1 /\ x = 2 * h + 1 /\ Sibling(x) = 2 * h
    BY <2>6, HalfFacts
  <2>8. up[k] = Parent(x, up[k - 1], A[k - 1][Sibling(x)])
    BY <1>1, <2>2 DEF TruePath, A
  <2> HIDE DEF h
  <2>9. ASSUME d = h PROVE B[k][d] = New(k, d)
    <3>1. CASE x % 2 = 0 /\ x = 2 * h /\ Sibling(x) = 2 * h + 1
      <4>1. New(k - 1, 2 * d) = up[k - 1]
        BY <2>9, <3>1
      <4>2. New(k - 1, 2 * d + 1) = A[k - 1][Sibling(x)]
        BY <2>6, <2>9, <3>1
      <4>3. up[k] = HashPair(up[k - 1], A[k - 1][Sibling(x)])
        BY <2>8, <3>1 DEF Parent
      <4> QED BY <2>4, <2>6, <2>9, <4>1, <4>2, <4>3
    <3>2. CASE x % 2 = 1 /\ x = 2 * h + 1 /\ Sibling(x) = 2 * h
      <4>1. New(k - 1, 2 * d + 1) = up[k - 1]
        BY <2>9, <3>2
      <4>2. New(k - 1, 2 * d) = A[k - 1][Sibling(x)]
        BY <2>6, <2>9, <3>2
      <4>3. up[k] = HashPair(A[k - 1][Sibling(x)], up[k - 1])
        BY <2>8, <3>2 DEF Parent
      <4> QED BY <2>4, <2>6, <2>9, <4>1, <4>2, <4>3
    <3> QED BY <2>7, <3>1, <3>2
  <2>10. ASSUME d # h PROVE B[k][d] = New(k, d)
    <3>1. 2 * d # x /\ 2 * d + 1 # x
      BY <2>6, <2>7, <2>10
    <3>2. New(k - 1, 2 * d) = A[k - 1][2 * d] /\ New(k - 1, 2 * d + 1) = A[k - 1][2 * d + 1]
      BY <3>1
    <3>3. New(k, d) = A[k][d]
      BY <2>6, <2>10
    <3> QED BY <2>4, <2>5, <3>2, <3>3
  <2> QED BY <2>9, <2>10
<1>4. \A k \in 0..Depth : k \in T
  <2> HIDE DEF T
  <2> QED BY <1>2, <1>3, LevelInduction
<1> QED BY <1>4 DEF A, B, up

\* A digest determines its two children.
LEMMA HashInjective ==
  ASSUME NEW a, NEW b, NEW x, NEW y, HashPair(a, b) = HashPair(x, y)
  PROVE  a = x /\ b = y
<1>1. <<a, b>> = <<x, y>>
  BY DEF HashPair
<1>2. <<a, b>>[1] = a /\ <<a, b>>[2] = b /\ <<x, y>>[1] = x /\ <<x, y>>[2] = y
  OBVIOUS
<1> QED BY <1>1, <1>2

\* Equal roots have equal leaves under them.
LEMMA RootsInjective ==
  ASSUME NEW one, NEW other, BatchRoot(one) = BatchRoot(other), NEW c \in Nat, c < Capacity
  PROVE  LeafAt(one, c) = LeafAt(other, c)
<1> DEFINE A == Levels(one)
           B == Levels(other)
           T == {k \in 0..Depth : \A d \in Nat : d < Width(Depth - k) => A[Depth - k][d] = B[Depth - k][d]}
<1>0. Depth - 0 = Depth /\ Depth - Depth = 0 /\ Depth \in Nat
  BY DepthNat
<1> HIDE DEF A, B
<1>1. 0 \in T
  <2>1. \A d \in Nat : d < Width(Depth) => d = 0
    BY WidthFacts
  <2> QED BY <1>0, <2>1, DepthNat DEF BatchRoot, A, B
<1>2. ASSUME NEW k \in 1..Depth, k - 1 \in T PROVE k \in T
  <2>1. SUFFICES ASSUME NEW d \in Nat, d < Width(Depth - k) PROVE A[Depth - k][d] = B[Depth - k][d]
    BY <1>0
  <2> DEFINE l == Depth - (k - 1)
             h == d \div 2
  <2>2. l \in 1..Depth /\ l - 1 = Depth - k /\ l - 1 \in 0..Depth
    BY <1>0
  <2>3. Width(l) \in Nat /\ Width(l - 1) = 2 * Width(l)
    BY <2>2, WidthFacts, <1>0
  <2>4. \A w \in Nat : d < 2 * w => d \div 2 < w
    OBVIOUS
  <2>5. h \in Nat /\ h < Width(l)
    BY <2>1, <2>2, <2>3, <2>4
  <2>6. A[l][h] = B[l][h]
    BY <1>2, <2>5
  <2>7. /\ A[l][h] = HashPair(A[l - 1][2 * h], A[l - 1][2 * h + 1])
        /\ B[l][h] = HashPair(B[l - 1][2 * h], B[l - 1][2 * h + 1])
    BY <2>2, <2>5, LevelsFacts DEF A, B
  <2>8. A[l - 1][2 * h] = B[l - 1][2 * h] /\ A[l - 1][2 * h + 1] = B[l - 1][2 * h + 1]
    <3> HIDE DEF h, l
    <3>1. HashPair(A[l - 1][2 * h], A[l - 1][2 * h + 1]) = HashPair(B[l - 1][2 * h], B[l - 1][2 * h + 1])
      BY <2>6, <2>7
    <3> QED BY ONLY <3>1, HashInjective
  <2>9. d = 2 * h \/ d = 2 * h + 1
    BY HalfFacts
  <2> QED BY <2>2, <2>8, <2>9
<1>3. \A k \in 0..Depth : k \in T
  <2> HIDE DEF T
  <2> QED BY <1>1, <1>2, LevelInduction
<1>4. Depth \in T
  BY <1>3, DepthNat
<1>5. A[0][c] = B[0][c]
  BY <1>0, <1>4, WidthFacts
<1> QED BY <1>5, LevelsFacts, WidthFacts DEF A, B

(***************************************************************************)
(* Sequences                                                               *)
(***************************************************************************)
\* The members of a sequence are its values.
LEMMA SeqMembers ==
  ASSUME NEW S, NEW q \in Seq(S)
  PROVE  /\ DOMAIN q = 1..Len(q) /\ Len(q) \in Nat
         /\ \A i \in 1..Len(q) : q[i] \in S /\ q[i] \in ToSet(q)
         /\ \A x \in ToSet(q) : \E i \in 1..Len(q) : q[i] = x
         /\ ToSet(q) \subseteq S
<1>1. DOMAIN q = 1..Len(q) /\ Len(q) \in Nat /\ \A i \in 1..Len(q) : q[i] \in S
  OBVIOUS
<1>2. ToSet(q) = {q[i] : i \in 1..Len(q)}
  BY <1>1 DEF ToSet
<1> QED BY <1>1, <1>2

\* A function on 1..n is a sequence of length n.
LEMMA FunctionIsSeq ==
  ASSUME NEW S, NEW n \in Nat, NEW q \in [1..n -> S]
  PROVE  q \in Seq(S) /\ Len(q) = n
<1>1. q \in Seq(S)
  BY SeqDef
<1>2. DOMAIN q = 1..n /\ DOMAIN q = 1..Len(q) /\ Len(q) \in Nat
  BY <1>1
<1>3. \A a, b \in Nat : 1..a = 1..b => a = b
  <2>1. SUFFICES ASSUME NEW a \in Nat, NEW b \in Nat, 1..a = 1..b, a < b PROVE FALSE
    OBVIOUS
  <2>2. b \in 1..b /\ b \notin 1..a
    BY <2>1
  <2> QED BY <2>1, <2>2
<1> QED BY <1>1, <1>2, <1>3

\* Append adds one member at the end.
LEMMA AppendMembers ==
  ASSUME NEW S, NEW q \in Seq(S), NEW e \in S
  PROVE  /\ Append(q, e) \in Seq(S) /\ Len(Append(q, e)) = Len(q) + 1
         /\ OneMore(q, Append(q, e), e)
         /\ ToSet(Append(q, e)) = ToSet(q) \cup {e}
<1> DEFINE N == Len(q)
           a == Append(q, e)
<1>1. /\ a \in Seq(S) /\ Len(a) = N + 1 /\ N \in Nat
      /\ a[N + 1] = e /\ \A i \in 1..N : a[i] = q[i]
  OBVIOUS
<1> HIDE DEF a
<1>2. OneMore(q, a, e)
  BY <1>1 DEF OneMore
<1>3. ASSUME NEW x \in ToSet(a) PROVE x \in ToSet(q) \cup {e}
  <2>1. PICK i \in 1..(N + 1) : a[i] = x
    BY <1>1, SeqMembers
  <2>2. i = N + 1 \/ i \in 1..N
    BY <1>1
  <2> QED BY <1>1, <2>1, <2>2, SeqMembers
<1>4. ASSUME NEW x \in ToSet(q) PROVE x \in ToSet(a)
  <2>1. PICK i \in 1..N : q[i] = x
    BY SeqMembers
  <2>2. i \in 1..(N + 1) /\ a[i] = x
    BY <1>1, <2>1
  <2> QED BY <1>1, <2>2, SeqMembers
<1>5. e \in ToSet(a)
  <2>1. N + 1 \in 1..Len(a)
    BY <1>1
  <2> QED BY <1>1, <2>1, SeqMembers
<1>6. ToSet(a) = ToSet(q) \cup {e}
  BY <1>3, <1>4, <1>5
<1> QED BY <1>1, <1>2, <1>6 DEF a

\* A prefix keeps the values in their places.
LEMMA PrefixFacts ==
  ASSUME NEW S, NEW q \in Seq(S), NEW n \in 0..Len(q)
  PROVE  /\ SubSeq(q, 1, n) \in Seq(S) /\ Len(SubSeq(q, 1, n)) = n
         /\ \A i \in 1..n : SubSeq(q, 1, n)[i] = q[i]
<1>1. Len(q) \in Nat /\ n \in Int /\ 1 \in Int /\ \A i \in 1..n : q[i] \in S
  OBVIOUS
<1>2. /\ SubSeq(q, 1, n) \in Seq(S)
      /\ Len(SubSeq(q, 1, n)) = IF 1 <= n THEN n - 1 + 1 ELSE 0
      /\ \A i \in 1..(n - 1 + 1) : SubSeq(q, 1, n)[i] = q[1 + i - 1]
  BY <1>1, SubSeqProperties
<1>3. (IF 1 <= n THEN n - 1 + 1 ELSE 0) = n
  BY <1>1
<1>4. ASSUME NEW i \in 1..n PROVE SubSeq(q, 1, n)[i] = q[i]
  <2>1. i \in 1..(n - 1 + 1) /\ 1 + i - 1 = i
    BY <1>1
  <2> QED BY <1>2, <2>1
<1> QED BY <1>2, <1>3, <1>4

\* The prefixes of a longer sequence are those of the shorter one and itself.
LEMMA PrefixAppend ==
  ASSUME NEW S, NEW q \in Seq(S), NEW e \in S
  PROVE  /\ SubSeq(Append(q, e), 1, Len(q) + 1) = Append(q, e)
         /\ \A n \in 1..Len(q) : SubSeq(Append(q, e), 1, n) = SubSeq(q, 1, n)
<1> DEFINE a == Append(q, e)
           N == Len(q)
<1>1. a \in Seq(S) /\ Len(a) = N + 1 /\ N \in Nat /\ \A i \in 1..N : a[i] = q[i]
  OBVIOUS
<1> HIDE DEF a
<1>2. SubSeq(a, 1, N + 1) = a
  <2>1. N + 1 \in 0..Len(a)
    BY <1>1
  <2>2. SubSeq(a, 1, N + 1) \in Seq(S) /\ Len(SubSeq(a, 1, N + 1)) = N + 1
        /\ \A i \in 1..(N + 1) : SubSeq(a, 1, N + 1)[i] = a[i]
    BY <1>1, <2>1, PrefixFacts
  <2> QED BY <1>1, <2>2, SeqEqual
<1>3. ASSUME NEW n \in 1..N PROVE SubSeq(a, 1, n) = SubSeq(q, 1, n)
  <2>1. n \in 0..Len(a) /\ n \in 0..N
    BY <1>1
  <2>2. /\ SubSeq(a, 1, n) \in Seq(S) /\ Len(SubSeq(a, 1, n)) = n
        /\ \A i \in 1..n : SubSeq(a, 1, n)[i] = a[i]
    BY <1>1, <2>1, PrefixFacts
  <2>3. /\ SubSeq(q, 1, n) \in Seq(S) /\ Len(SubSeq(q, 1, n)) = n
        /\ \A i \in 1..n : SubSeq(q, 1, n)[i] = q[i]
    BY <2>1, PrefixFacts
  <2>4. \A i \in 1..n : SubSeq(a, 1, n)[i] = SubSeq(q, 1, n)[i]
    BY <1>1, <2>2, <2>3
  <2> QED BY <2>2, <2>3, <2>4, SeqEqual
<1> QED BY <1>2, <1>3 DEF a

(***************************************************************************)
(* The node tree                                                           *)
(***************************************************************************)
\* Every stored or absent node is the node of the complete tree over the log,
\* the index finds every leaf, and the roots are those of the log's prefixes.
NodesSound(t, log) ==
    \A l \in 0..Depth, c \in Nat : c < Width(l) => Node(t, l, c) = Levels(log)[l][c]

IndexFinds(t, log) ==
    /\ DOMAIN t.indexOf = ToSet(log)
    /\ \A c \in ToSet(log) : t.indexOf[c] \in 1..Len(log) /\ log[t.indexOf[c]] = c

RootsSound(t, log) ==
    /\ t.roots = {BatchRoot(SubSeq(log, 1, n)) : n \in 1..Len(log)}
    /\ IsFiniteSet(t.roots) /\ Cardinality(t.roots) = Len(log)

\* What notes and stamps both need: the tree holds a log of members of S.
TreeHolds(t, log, S) ==
    /\ log \in Seq(S) /\ Len(log) <= Capacity
    /\ t.next = Len(log)
    /\ Len(log) > 0 => t.root = BatchRoot(log)
    /\ NodesSound(t, log) /\ IndexFinds(t, log)

TreeSound(t, log) == TreeHolds(t, log, Commitment) /\ RootsSound(t, log)

\* The empty tree holds the empty log.
LEMMA EmptyTreeHolds ==
  ASSUME NEW S
  PROVE  TreeHolds(EmptyTree, << >>, S)
<1>1. << >> \in Seq(S) /\ Len(<< >>) = 0 /\ ToSet(<< >>) = {} /\ DOMAIN << >> = {}
  BY DEF ToSet
<1>2. Capacity \in Nat
  BY WidthFacts, DepthNat
<1>3. NodesSound(EmptyTree, << >>)
  <2>1. \A l, c : Node(EmptyTree, l, c) = Zeroes[l]
    BY <1>1 DEF Node, EmptyTree
  <2> QED BY <2>1, EmptyLevels DEF NodesSound
<1>4. IndexFinds(EmptyTree, << >>)
  BY <1>1 DEF IndexFinds, EmptyTree
<1> QED BY <1>1, <1>2, <1>3, <1>4 DEF TreeHolds, EmptyTree

\* The empty note tree is sound.
LEMMA EmptyTreeSound == TreeSound(EmptyTree, << >>)
<1>1. Len(<< >>) = 0
  OBVIOUS
<1>2. RootsSound(EmptyTree, << >>)
  BY <1>1, FS_EmptySet DEF RootsSound, EmptyTree
<1> QED BY <1>2, EmptyTreeHolds DEF TreeSound

\* The siblings the tree serves are those of the complete tree.
LEMMA SiblingsTrue ==
  ASSUME NEW t, NEW log, NodesSound(t, log), NEW i \in Nat, i < Capacity
  PROVE  TruePath(log, i, Siblings(t, i))
<1>1. SUFFICES ASSUME NEW l \in 0..(Depth - 1)
               PROVE  Siblings(t, i)[l] = Levels(log)[l][Sibling(Cursor(i, l))]
  BY DEF TruePath
<1>2. l \in 0..Depth /\ Sibling(Cursor(i, l)) \in Nat /\ Sibling(Cursor(i, l)) < Width(l)
  BY CursorRange, DepthNat
<1> QED BY <1>2 DEF Siblings, NodesSound

\* An append rewrites the nodes of its path and no other.
LEMMA AppendedNodes ==
  ASSUME NEW t, NEW path, NEW u, u.nodes = Stored(t, path), NEW l \in 0..Depth, NEW c
  PROVE  Node(u, l, c) = IF c = Cursor(t.next, l) THEN path[l] ELSE Node(t, l, c)
<1> DEFINE fresh == {<<level, Cursor(t.next, level)>> : level \in 0..Depth}
           new == [k \in DOMAIN t.nodes \cup fresh |-> IF k \in fresh THEN path[k[1]] ELSE t.nodes[k]]
<1>1. u.nodes = new
  BY DEF Stored
<1>2. <<l, c>> \in fresh <=> c = Cursor(t.next, l)
  <2>1. ASSUME <<l, c>> \in fresh PROVE c = Cursor(t.next, l)
    <3>1. PICK level \in 0..Depth : <<l, c>> = <<level, Cursor(t.next, level)>>
      BY <2>1
    <3>2. l = level /\ c = Cursor(t.next, level)
      BY <3>1
    <3> QED BY <3>2
  <2> QED BY <2>1
<1>3. <<l, c>>[1] = l
  OBVIOUS
<1> HIDE DEF fresh
<1>4. CASE c = Cursor(t.next, l)
  <2>1. <<l, c>> \in fresh /\ <<l, c>> \in DOMAIN new
    BY <1>2, <1>4
  <2>2. new[<<l, c>>] = path[l]
    BY <1>3, <2>1
  <2> QED BY <1>1, <1>4, <2>1, <2>2 DEF Node
<1>5. CASE c # Cursor(t.next, l)
  <2>1. <<l, c>> \notin fresh
    BY <1>2, <1>5
  <2>2. <<l, c>> \in DOMAIN new <=> <<l, c>> \in DOMAIN t.nodes
    BY <2>1
  <2>3. <<l, c>> \in DOMAIN t.nodes => new[<<l, c>>] = t.nodes[<<l, c>>]
    BY <2>1
  <2> QED BY <1>1, <1>5, <2>2, <2>3 DEF Node
<1> QED BY <1>4, <1>5

\* One more leaf.
LEMMA AppendLeafHolds ==
  ASSUME NEW S, NEW t, NEW log, TreeHolds(t, log, S), Len(log) < Capacity, NEW leaf \in S
  PROVE  TreeHolds(AppendLeaf(t, leaf, leaf), Append(log, leaf), S)
<1> DEFINE u == AppendLeaf(t, leaf, leaf)
           more == Append(log, leaf)
           n == Len(log)
           path == Climb(t, leaf)
<1>1. /\ u.nodes = Stored(t, path) /\ u.next = t.next + 1 /\ u.root = path[Depth]
      /\ u.indexOf = [k \in DOMAIN t.indexOf \cup {leaf} |->
                        IF k = leaf THEN t.next + 1 ELSE t.indexOf[k]]
  BY DEF AppendLeaf
<1>2. log \in Seq(S) /\ t.next = n /\ n \in Nat /\ n < Capacity
  BY DEF TreeHolds
<1>3. more \in Seq(S) /\ Len(more) = n + 1 /\ OneMore(log, more, leaf)
      /\ ToSet(more) = ToSet(log) \cup {leaf}
  BY <1>2, AppendMembers
<1>4. TruePath(log, n, Siblings(t, n)) /\ path = Ascent(n, leaf, Siblings(t, n))
  BY <1>2, SiblingsTrue DEF TreeHolds, Climb
<1> HIDE DEF u, more, path
<1>5. ASSUME NEW l \in 0..Depth, NEW c \in Nat, c < Width(l)
      PROVE  Levels(more)[l][c] = IF c = Cursor(n, l) THEN path[l] ELSE Levels(log)[l][c]
  BY <1>2, <1>3, <1>4, <1>5, LevelsAppend
<1>6. NodesSound(u, more)
  <2>1. SUFFICES ASSUME NEW l \in 0..Depth, NEW c \in Nat, c < Width(l)
                 PROVE  Node(u, l, c) = Levels(more)[l][c]
    BY DEF NodesSound
  <2>2. Node(u, l, c) = IF c = Cursor(n, l) THEN path[l] ELSE Node(t, l, c)
    BY <1>1, <1>2, AppendedNodes
  <2>3. Node(t, l, c) = Levels(log)[l][c]
    BY <2>1 DEF TreeHolds, NodesSound
  <2> QED BY <1>5, <2>1, <2>2, <2>3
<1>7. u.root = BatchRoot(more)
  <2>1. Cursor(n, Depth) = 0 /\ 0 < Width(Depth) /\ Depth \in 0..Depth
    <3>1. Cursor(n, Depth) \in Nat /\ Cursor(n, Depth) < Width(Depth) /\ Width(Depth) = 1
      BY <1>2, CursorRange, DepthNat, WidthFacts
    <3> QED BY <3>1, DepthNat
  <2>2. Levels(more)[Depth][0] = path[Depth]
    BY <1>5, <2>1
  <2> QED BY <1>1, <2>2 DEF BatchRoot
<1>8. IndexFinds(u, more)
  <2>1. DOMAIN t.indexOf = ToSet(log)
        /\ \A c \in ToSet(log) : t.indexOf[c] \in 1..n /\ log[t.indexOf[c]] = c
    BY DEF TreeHolds, IndexFinds
  <2>2. DOMAIN u.indexOf = ToSet(more)
    BY <1>1, <1>3, <2>1
  <2>3. ASSUME NEW c \in ToSet(more)
        PROVE  u.indexOf[c] \in 1..(n + 1) /\ more[u.indexOf[c]] = c
    <3>1. CASE c = leaf
      <4>1. u.indexOf[c] = n + 1
        BY <1>1, <1>2, <3>1
      <4> QED BY <1>2, <1>3, <3>1, <4>1 DEF OneMore
    <3>2. CASE c # leaf
      <4>1. c \in ToSet(log) /\ u.indexOf[c] = t.indexOf[c]
        BY <1>1, <1>3, <2>1, <3>2
      <4>2. t.indexOf[c] \in 1..n /\ log[t.indexOf[c]] = c
        BY <2>1, <4>1
      <4>3. more[t.indexOf[c]] = c /\ t.indexOf[c] \in 1..(n + 1)
        BY <1>2, <1>3, <4>2 DEF OneMore
      <4> QED BY <4>1, <4>3
    <3> QED BY <3>1, <3>2
  <2> QED BY <1>3, <2>2, <2>3 DEF IndexFinds
<1>9. n + 1 <= Capacity
  <2>1. Capacity \in Nat
    BY WidthFacts, DepthNat
  <2> QED BY <1>2, <2>1
<1>10. TreeHolds(u, more, S)
  BY <1>1, <1>2, <1>3, <1>6, <1>7, <1>8, <1>9 DEF TreeHolds
<1> QED BY <1>10 DEF u, more

\* The root after it is a new one, since no commitment is the empty leaf.
LEMMA AppendLeafSound ==
  ASSUME NEW t, NEW log, TreeSound(t, log), Len(log) < Capacity, NEW leaf \in Commitment
  PROVE  TreeSound(AppendLeaf(t, leaf, leaf), Append(log, leaf))
<1> DEFINE u == AppendLeaf(t, leaf, leaf)
           more == Append(log, leaf)
           n == Len(log)
<1>1. u.roots = t.roots \cup {u.root}
  BY DEF AppendLeaf, RootsKept
<1>2. log \in Seq(Commitment) /\ n \in Nat /\ n < Capacity
  BY DEF TreeSound, TreeHolds
<1>3. more \in Seq(Commitment) /\ Len(more) = n + 1 /\ OneMore(log, more, leaf)
  BY <1>2, AppendMembers
<1>4. TreeHolds(u, more, Commitment)
  BY AppendLeafHolds DEF TreeSound
<1> HIDE DEF u, more
<1>5. u.root = BatchRoot(more)
  <2>1. Len(more) > 0
    BY <1>2, <1>3
  <2> QED BY <1>4, <2>1 DEF TreeHolds
<1>6. RootsSound(u, more)
  <2>1. /\ t.roots = {BatchRoot(SubSeq(log, 1, m)) : m \in 1..n}
        /\ IsFiniteSet(t.roots) /\ Cardinality(t.roots) = n
    BY DEF TreeSound, RootsSound
  <2>2. SubSeq(more, 1, n + 1) = more /\ \A m \in 1..n : SubSeq(more, 1, m) = SubSeq(log, 1, m)
    BY <1>2, PrefixAppend DEF more
  <2>3. u.roots = t.roots \cup {BatchRoot(more)}
    BY <1>1, <1>5
  <2>4. ASSUME NEW r \in u.roots PROVE \E m \in 1..(n + 1) : r = BatchRoot(SubSeq(more, 1, m))
    <3>1. CASE r = BatchRoot(more)
      <4>1. n + 1 \in 1..(n + 1)
        BY <1>2
      <4> QED BY <2>2, <3>1, <4>1
    <3>2. CASE r \in t.roots
      <4>1. PICK m \in 1..n : r = BatchRoot(SubSeq(log, 1, m))
        BY <2>1, <3>2
      <4>2. m \in 1..(n + 1)
        BY <1>2
      <4> QED BY <2>2, <4>1, <4>2
    <3> QED BY <2>3, <3>1, <3>2
  <2>5. ASSUME NEW m \in 1..(n + 1) PROVE BatchRoot(SubSeq(more, 1, m)) \in u.roots
    <3>1. CASE m = n + 1
      BY <2>2, <2>3, <3>1
    <3>2. CASE m # n + 1
      <4>1. m \in 1..n
        BY <1>2, <3>2
      <4> QED BY <2>1, <2>2, <2>3, <4>1
    <3> QED BY <3>1, <3>2
  <2>6. u.roots = {BatchRoot(SubSeq(more, 1, m)) : m \in 1..(n + 1)}
    BY <2>4, <2>5
  <2>7. BatchRoot(more) \notin t.roots
    <3>1. SUFFICES ASSUME NEW m \in 1..n, BatchRoot(more) = BatchRoot(SubSeq(log, 1, m)) PROVE FALSE
      BY <2>1
    <3>2. m \in 0..n /\ ~(n < m) /\ n < n + 1
      BY <1>2
    <3>3. Len(SubSeq(log, 1, m)) = m
      BY <1>2, <3>2, PrefixFacts
    <3>4. LeafAt(more, n) = LeafAt(SubSeq(log, 1, m), n)
      BY <1>2, <3>1, RootsInjective
    <3>5. LeafAt(more, n) = leaf
      BY <1>3, <3>2 DEF LeafAt, OneMore
    <3>6. LeafAt(SubSeq(log, 1, m), n) = Zero
      BY <3>2, <3>3 DEF LeafAt
    <3> QED BY <3>4, <3>5, <3>6, LeafAssumption
  <2>8. IsFiniteSet(u.roots) /\ Cardinality(u.roots) = n + 1
    BY <2>1, <2>3, <2>7, FS_AddElement
  <2> QED BY <1>3, <2>6, <2>8 DEF RootsSound
<1> QED BY <1>4, <1>6 DEF TreeSound, u, more

\* The path a sound tree serves for a member of its log leads to its root.
LEMMA PathsLeadToRoot ==
  ASSUME NEW S, NEW t, NEW log, TreeHolds(t, log, S), NEW c \in ToSet(log)
  PROVE  /\ c \in DOMAIN t.indexOf
         /\ RootOf(t.indexOf[c] - 1, c, Path(t, c)) = t.root
<1> DEFINE i == t.indexOf[c] - 1
<1>1. log \in Seq(S) /\ Len(log) <= Capacity
  BY DEF TreeHolds
<1>2. c \in DOMAIN t.indexOf /\ t.indexOf[c] \in 1..Len(log) /\ log[t.indexOf[c]] = c
  BY DEF TreeHolds, IndexFinds
<1>3. Capacity \in Nat /\ Len(log) \in Nat
  BY <1>1, WidthFacts, DepthNat
<1>4. i \in Nat /\ i < Capacity /\ i < Len(log) /\ i + 1 = t.indexOf[c] /\ Len(log) > 0
  BY <1>1, <1>2, <1>3
<1>5. LeafAt(log, i) = c
  BY <1>2, <1>4 DEF LeafAt
<1>6. TruePath(log, i, Siblings(t, i)) /\ Path(t, c) = Siblings(t, i)
  BY <1>4, SiblingsTrue DEF TreeHolds, Path
<1>7. Cursor(i, Depth) = 0 /\ Depth \in 0..Depth
  <2>1. Cursor(i, Depth) \in Nat /\ Cursor(i, Depth) < Width(Depth) /\ Width(Depth) = 1
    BY <1>4, CursorRange, DepthNat, WidthFacts
  <2> QED BY <2>1, DepthNat
<1> HIDE DEF i
<1>8. Ascent(i, LeafAt(log, i), Siblings(t, i))[Depth] = Levels(log)[Depth][Cursor(i, Depth)]
  BY <1>4, <1>6, <1>7, LevelsPath
<1>9. RootOf(i, c, Path(t, c)) = BatchRoot(log)
  BY <1>5, <1>6, <1>7, <1>8 DEF RootOf, BatchRoot
<1>10. t.root = BatchRoot(log)
  BY <1>4 DEF TreeHolds
<1> QED BY <1>2, <1>9, <1>10 DEF i

(***************************************************************************)
(* The append loops                                                        *)
(***************************************************************************)
\* Induction over the positions of a sequence.
LEMMA StepInduction ==
  ASSUME NEW N \in Nat, NEW T, 0 \in T, \A n \in 1..N : n - 1 \in T => n \in T
  PROVE  \A n \in 0..N : n \in T
<1> DEFINE K == {n \in Nat : n <= N => n \in T}
<1>1. 0 \in K
  OBVIOUS
<1>2. ASSUME NEW n \in Nat, n \in K PROVE n + 1 \in K
  <2>1. SUFFICES ASSUME n + 1 <= N PROVE n + 1 \in T
    OBVIOUS
  <2>2. n + 1 \in 1..N /\ (n + 1) - 1 = n /\ n \in T
    BY <1>2, <2>1
  <2> QED BY <2>2
<1>3. Nat \subseteq K
  <2> HIDE DEF K
  <2> QED BY <1>1, <1>2, InductionOnNaturals
<1> QED BY <1>3

\* One more member of the second sequence is one more member of the whole.
LEMMA PrefixConcat ==
  ASSUME NEW S, NEW p \in Seq(S), NEW q \in Seq(S)
  PROVE  /\ p \o SubSeq(q, 1, 0) = p
         /\ p \o SubSeq(q, 1, Len(q)) = p \o q
         /\ \A n \in 1..Len(q) :
              /\ p \o SubSeq(q, 1, n) = Append(p \o SubSeq(q, 1, n - 1), q[n])
              /\ Len(p \o SubSeq(q, 1, n - 1)) = Len(p) + (n - 1)
              /\ q[n] \in S
<1>1. Len(q) \in Nat /\ Len(p) \in Nat /\ 0 \in 0..Len(q) /\ Len(q) \in 0..Len(q)
  OBVIOUS
<1>2. SubSeq(q, 1, Len(q)) = q
  <2>1. /\ SubSeq(q, 1, Len(q)) \in Seq(S) /\ Len(SubSeq(q, 1, Len(q))) = Len(q)
        /\ \A i \in 1..Len(q) : SubSeq(q, 1, Len(q))[i] = q[i]
    BY <1>1, PrefixFacts
  <2> QED BY <2>1, SeqEqual
<1>3. p \o SubSeq(q, 1, 0) = p
  <2>1. SubSeq(q, 1, 0) \in Seq(S) /\ Len(SubSeq(q, 1, 0)) = 0
    BY <1>1, PrefixFacts
  <2>2. \A r \in Seq(S) : Len(r) = 0 => p \o r = p
    <3>1. SUFFICES ASSUME NEW r \in Seq(S), Len(r) = 0 PROVE p \o r = p
      OBVIOUS
    <3>2. p \o r \in Seq(S) /\ Len(p \o r) = Len(p) /\ \A i \in 1..Len(p) : (p \o r)[i] = p[i]
      BY <3>1
    <3> QED BY <3>2, SeqEqual
  <2> QED BY <2>1, <2>2
<1>4. ASSUME NEW n \in 1..Len(q)
      PROVE  /\ p \o SubSeq(q, 1, n) = Append(p \o SubSeq(q, 1, n - 1), q[n])
             /\ Len(p \o SubSeq(q, 1, n - 1)) = Len(p) + (n - 1)
             /\ q[n] \in S
  <2>1. n \in 0..Len(q) /\ n - 1 \in 0..Len(q) /\ q[n] \in S /\ n \in Nat
    BY <1>1
  <2> DEFINE a == SubSeq(q, 1, n)
             b == SubSeq(q, 1, n - 1)
  <2>2. a \in Seq(S) /\ Len(a) = n /\ \A i \in 1..n : a[i] = q[i]
    BY <2>1, PrefixFacts
  <2>3. b \in Seq(S) /\ Len(b) = n - 1 /\ \A i \in 1..(n - 1) : b[i] = q[i]
    BY <2>1, PrefixFacts
  <2> HIDE DEF a, b
  <2>4. /\ p \o a \in Seq(S) /\ Len(p \o a) = Len(p) + n
        /\ \A i \in 1..(Len(p) + n) : (p \o a)[i] = IF i <= Len(p) THEN p[i] ELSE a[i - Len(p)]
    BY <2>2
  <2>5. /\ p \o b \in Seq(S) /\ Len(p \o b) = Len(p) + (n - 1)
        /\ \A i \in 1..(Len(p) + (n - 1)) : (p \o b)[i] = IF i <= Len(p) THEN p[i] ELSE b[i - Len(p)]
    BY <2>3
  <2> DEFINE d == Append(p \o b, q[n])
  <2>6. /\ d \in Seq(S) /\ Len(d) = Len(p) + n /\ d[Len(p) + n] = q[n]
        /\ \A i \in 1..(Len(p) + (n - 1)) : d[i] = (p \o b)[i]
    <3>1. /\ d \in Seq(S) /\ Len(d) = Len(p \o b) + 1 /\ d[Len(p \o b) + 1] = q[n]
          /\ \A i \in 1..Len(p \o b) : d[i] = (p \o b)[i]
      BY <2>1, <2>5
    <3>2. Len(p) + (n - 1) + 1 = Len(p) + n
      BY <1>1, <2>1
    <3> HIDE DEF d
    <3> QED BY <2>5, <3>1, <3>2
  <2> HIDE DEF d
  <2>7. ASSUME NEW i \in 1..(Len(p) + n) PROVE (p \o a)[i] = d[i]
    <3>1. CASE i = Len(p) + n
      <4>1. ~(i <= Len(p)) /\ i - Len(p) = n /\ n \in 1..n
        BY <1>1, <2>1, <3>1
      <4> QED BY <2>2, <2>4, <2>6, <3>1, <4>1
    <3>2. CASE i # Len(p) + n
      <4>1. i \in 1..(Len(p) + (n - 1))
        BY <1>1, <2>1, <3>2
      <4>2. d[i] = IF i <= Len(p) THEN p[i] ELSE b[i - Len(p)]
        BY <2>5, <2>6, <4>1
      <4>3. ~(i <= Len(p)) => i - Len(p) \in 1..(n - 1) /\ i - Len(p) \in 1..n
        BY <1>1, <2>1, <4>1
      <4> QED BY <2>2, <2>3, <2>4, <4>2, <4>3
    <3> QED BY <3>1, <3>2
  <2>8. p \o a = d
    BY <2>4, <2>6, <2>7, SeqEqual
  <2> QED BY <2>1, <2>5, <2>8 DEF a, b, d
<1> QED BY <1>2, <1>3, <1>4

\* The loop of the note transactions, value by value.
LEMMA AppendNotesFacts ==
  ASSUME NEW t, NEW outs, Len(outs) \in Nat
  PROVE  \E f : /\ f[0] = t
                /\ \A k \in 1..Len(outs) : f[k] = AppendLeaf(f[k - 1], outs[k], outs[k])
                /\ AppendNotes(t, outs) = f[Len(outs)]
<1> DEFINE N == Len(outs)
           Up(k, x) == AppendLeaf(x, outs[k], outs[k])
           Solves(f, n) == f[0] = t /\ \A k \in 1..n : f[k] = Up(k, f[k - 1])
           Body(h) == [n \in 0..N |-> IF n = 0 THEN t ELSE Up(n, h[n - 1])]
           T == {n \in 0..N : \E f : f = [k \in 0..n |-> f[k]] /\ Solves(f, n)}
<1>0. N \in Nat
  OBVIOUS
<1> HIDE DEF Up, N
<1>1. 0 \in T
  <2>1. LET f == [k \in 0..0 |-> t] IN f = [k \in 0..0 |-> f[k]] /\ Solves(f, 0)
    OBVIOUS
  <2>2. 0 \in 0..N
    BY <1>0
  <2> QED BY <2>1, <2>2
<1>2. ASSUME NEW n \in 1..N, n - 1 \in T PROVE n \in T
  <2>1. PICK f : f = [k \in 0..(n - 1) |-> f[k]] /\ Solves(f, n - 1)
    BY <1>2
  <2> DEFINE g == [k \in 0..n |-> IF k = n THEN Up(n, f[n - 1]) ELSE f[k]]
  <2>2. g = [k \in 0..n |-> g[k]] /\ g[0] = t
    BY <1>0, <2>1
  <2>3. ASSUME NEW k \in 1..n PROVE g[k] = Up(k, g[k - 1])
    <3>1. k - 1 \in 0..n /\ k - 1 # n /\ k \in 0..n
      BY <1>0
    <3>2. g[k - 1] = f[k - 1]
      BY <3>1
    <3>3. CASE k = n
      BY <3>1, <3>2, <3>3
    <3>4. CASE k # n
      <4>1. k \in 1..(n - 1)
        BY <1>0, <3>4
      <4> QED BY <2>1, <3>1, <3>2, <3>4, <4>1
    <3> QED BY <3>3, <3>4
  <2> HIDE DEF g
  <2>4. Solves(g, n)
    BY <2>2, <2>3
  <2>5. n \in 0..N
    BY <1>0
  <2> HIDE DEF Solves
  <2> QED BY <2>2, <2>4, <2>5
<1>3. N \in T
  <2> HIDE DEF T
  <2> QED BY <1>0, <1>1, <1>2, StepInduction
<1>4. PICK f : f = [k \in 0..N |-> f[k]] /\ Solves(f, N)
  BY <1>3
<1>5. f = Body(f)
  <2>1. ASSUME NEW k \in 0..N PROVE f[k] = Body(f)[k]
    <3>1. CASE k = 0
      BY <1>4, <3>1
    <3>2. CASE k # 0
      <4>1. k \in 1..N
        BY <1>0, <3>2
      <4>2. f[k] = Up(k, f[k - 1])
        BY <1>4, <4>1
      <4> QED BY <3>2, <4>2
    <3> QED BY <3>1, <3>2
  <2> HIDE DEF Solves
  <2> QED BY <1>4, <2>1
<1> DEFINE g == CHOOSE h : h = Body(h)
<1>6. AppendNotes(t, outs) = g[N]
  BY DEF AppendNotes, Up, N
<1>7. g = Body(g)
  BY <1>5
<1> HIDE DEF g
<1>8. g[0] = t /\ \A k \in 1..N : g[k] = Up(k, g[k - 1])
  BY <1>0, <1>7
<1> QED BY <1>6, <1>8 DEF Up, N

\* A note transaction appends all its outputs in order.
LEMMA AppendNotesSound ==
  ASSUME NEW t, NEW log, TreeSound(t, log), NEW outs \in Seq(Commitment),
         Len(log) + Len(outs) <= Capacity
  PROVE  TreeSound(AppendNotes(t, outs), log \o outs)
<1> DEFINE N == Len(outs)
           So(n) == log \o SubSeq(outs, 1, n)
<1>1. N \in Nat /\ log \in Seq(Commitment) /\ Len(log) \in Nat /\ Capacity \in Nat
  BY WidthFacts, DepthNat DEF TreeSound, TreeHolds
<1>2. PICK f : /\ f[0] = t /\ \A k \in 1..N : f[k] = AppendLeaf(f[k - 1], outs[k], outs[k])
               /\ AppendNotes(t, outs) = f[N]
  BY <1>1, AppendNotesFacts
<1>3. /\ So(0) = log /\ So(N) = log \o outs
      /\ \A n \in 1..N : /\ So(n) = Append(So(n - 1), outs[n])
                         /\ Len(So(n - 1)) = Len(log) + (n - 1) /\ outs[n] \in Commitment
  BY <1>1, PrefixConcat
<1> HIDE DEF So
<1> DEFINE T == {n \in 0..N : TreeSound(f[n], So(n))}
<1>4. 0 \in T
  BY <1>1, <1>2, <1>3
<1>5. ASSUME NEW n \in 1..N, n - 1 \in T PROVE n \in T
  <2>1. Len(log) + (n - 1) < Capacity /\ n \in 0..N
    BY <1>1
  <2>2. Len(So(n - 1)) < Capacity
    BY <1>3, <2>1
  <2>3. TreeSound(f[n - 1], So(n - 1))
    BY <1>5
  <2>4. TreeSound(AppendLeaf(f[n - 1], outs[n], outs[n]), Append(So(n - 1), outs[n]))
    BY <1>3, <2>2, <2>3, AppendLeafSound
  <2> QED BY <1>2, <1>3, <2>1, <2>4
<1>6. \A n \in 0..N : n \in T
  <2> HIDE DEF T
  <2> QED BY <1>1, <1>4, <1>5, StepInduction
<1>7. N \in 0..N
  BY <1>1
<1> QED BY <1>2, <1>3, <1>6, <1>7

(***************************************************************************)
(* The frontier                                                            *)
(***************************************************************************)
\* There is one leaf for every output of the log.
LEMMA OutputLeavesFacts ==
  ASSUME NEW log \in Seq(1..Keys)
  PROVE  /\ Len(OutputLeaves(log)) = Len(log) /\ Len(log) \in Nat
         /\ \A i \in 1..Len(log) : OutputLeaves(log)[i] = OutputLeaf(i - 1, log[i])
<1> DEFINE n == Len(log)
           q == OutputLeaves(log)
           D == {OutputLeaf(i - 1, log[i]) : i \in 1..n}
<1>1. n \in Nat
  OBVIOUS
<1>2. q = [i \in 1..n |-> OutputLeaf(i - 1, log[i])]
  BY DEF OutputLeaves
<1> HIDE DEF q
<1>3. q \in [1..n -> D]
  BY <1>2
<1> HIDE DEF D
<1>6. Len(q) = n
  BY <1>1, <1>3, FunctionIsSeq
<1> QED BY <1>1, <1>2, <1>6 DEF q

\* The frontier holds the left half that every right position of the next leaf
\* needs, and the root and the keys are those of the log.
LeftHalves(f, log) ==
    \A l \in 0..(Depth - 1) : ~IsLeft(f.count, l) =>
        /\ l \in DOMAIN f.frontier
        /\ f.frontier[l] = Levels(OutputLeaves(log))[l][Cursor(f.count, l) - 1]

FrontierSound(f, log) ==
    /\ log \in Seq(1..Keys) /\ Len(log) <= Capacity /\ IsInjective(log)
    /\ f.count = Len(log) /\ f.keys = ToSet(log)
    /\ f.root = BatchRoot(OutputLeaves(log))
    /\ LeftHalves(f, log)

\* The empty frontier is sound: the first leaf is a left child on every level.
LEMMA EmptyFrontierSound == FrontierSound(EmptyFrontier, << >>)
<1>1. << >> \in Seq(1..Keys) /\ Len(<< >>) = 0 /\ ToSet(<< >>) = {} /\ IsInjective(<< >>)
  BY DEF ToSet, IsInjective
<1>2. Capacity \in Nat
  BY WidthFacts, DepthNat
<1>3. BatchRoot(OutputLeaves(<< >>)) = Zeroes[Depth]
  <2>1. OutputLeaves(<< >>) = << >>
    BY DEF OutputLeaves
  <2>2. Depth \in 0..Depth /\ 0 < Width(Depth)
    BY WidthFacts, DepthNat
  <2> QED BY <2>1, <2>2, EmptyLevels DEF BatchRoot
<1>4. \A l \in 0..(Depth - 1) : IsLeft(0, l)
  <2> DEFINE T == {l \in 0..Depth : Cursor(0, l) = 0}
  <2>1. 0 \in T
    BY CursorFacts, DepthNat
  <2>2. ASSUME NEW l \in 1..Depth, l - 1 \in T PROVE l \in T
    <3>1. l \in 0..Depth /\ 0 \div 2 = 0
      BY DepthNat
    <3>2. Cursor(0, l) = Cursor(0, l - 1) \div 2
      BY CursorFacts
    <3> QED BY <2>2, <3>1, <3>2
  <2>3. \A l \in 0..Depth : l \in T
    <3> HIDE DEF T
    <3> QED BY <2>1, <2>2, LevelInduction
  <2>4. SUFFICES ASSUME NEW l \in 0..(Depth - 1) PROVE Cursor(0, l) % 2 = 0
    BY DEF IsLeft
  <2>5. Cursor(0, l) = 0
    BY <2>3, DepthNat
  <2> QED BY <2>5
<1>5. LeftHalves(EmptyFrontier, << >>)
  BY <1>4 DEF LeftHalves, EmptyFrontier
<1> QED BY <1>1, <1>2, <1>3, <1>5 DEF FrontierSound, EmptyFrontier

\* The siblings an append works with: the empty subtree on the right, the stored
\* left half on the left.
Halves(f) == [level \in 0..(Depth - 1) |->
                IF IsLeft(f.count, level) THEN Zeroes[level] ELSE f.frontier[level]]

\* They are the siblings of the complete tree.
LEMMA HalvesTrue ==
  ASSUME NEW f, NEW log, FrontierSound(f, log), Len(log) < Capacity
  PROVE  TruePath(OutputLeaves(log), Len(log), Halves(f))
<1> DEFINE n == Len(log)
           leaves == OutputLeaves(log)
<1>1. n \in Nat /\ Len(leaves) = n /\ f.count = n /\ n < Capacity
  BY OutputLeavesFacts DEF FrontierSound
<1> HIDE DEF leaves
<1>2. SUFFICES ASSUME NEW l \in 0..(Depth - 1)
               PROVE  Halves(f)[l] = Levels(leaves)[l][Sibling(Cursor(n, l))]
  BY DEF TruePath, leaves
<1>3. l \in 0..Depth /\ Cursor(n, l) \in Nat /\ Sibling(Cursor(n, l)) \in Nat
      /\ Sibling(Cursor(n, l)) < Width(l)
  BY <1>1, CursorRange, DepthNat
<1>4. CASE IsLeft(n, l)
  <2>1. Sibling(Cursor(n, l)) = Cursor(n, l) + 1
    BY <1>4 DEF IsLeft, Sibling
  <2>2. Cursor(n, l) < Sibling(Cursor(n, l))
    BY <1>3, <2>1
  <2>3. Levels(leaves)[l][Sibling(Cursor(n, l))] = Zeroes[l]
    BY <1>1, <1>3, <2>2, EmptyBeyond
  <2> QED BY <1>1, <1>4, <2>3 DEF Halves
<1>5. CASE ~IsLeft(n, l)
  <2>1. Sibling(Cursor(n, l)) = Cursor(n, l) - 1
    BY <1>5 DEF IsLeft, Sibling
  <2>2. f.frontier[l] = Levels(leaves)[l][Cursor(n, l) - 1]
    BY <1>1, <1>5 DEF FrontierSound, LeftHalves, leaves
  <2> QED BY <1>1, <1>5, <2>1, <2>2 DEF Halves
<1> QED BY <1>4, <1>5

\* One more output.
LEMMA AppendOutputSound ==
  ASSUME NEW f, NEW log, FrontierSound(f, log), NEW key \in 1..Keys, OutputAccepted(f, key)
  PROVE  FrontierSound(AppendOutput(f, key), Append(log, key))
<1> DEFINE u == AppendOutput(f, key)
           more == Append(log, key)
           n == Len(log)
           path == Ascent(n, OutputLeaf(n, key), Halves(f))
           old == OutputLeaves(log)
           new == OutputLeaves(more)
           moved == {level \in 0..(Depth - 1) : IsLeft(n, level)}
<1>1. log \in Seq(1..Keys) /\ f.count = n /\ n \in Nat /\ n < Capacity /\ key \notin ToSet(log)
      /\ Capacity \in Nat /\ IsInjective(log)
  BY WidthFacts, DepthNat DEF FrontierSound, OutputAccepted
<1>2. /\ u.count = n + 1 /\ u.keys = f.keys \cup {key} /\ u.root = path[Depth]
      /\ u.frontier = [level \in DOMAIN f.frontier \cup moved |->
                         IF level \in moved THEN path[level] ELSE f.frontier[level]]
  BY <1>1 DEF AppendOutput, Ascend, Halves, FrontierMoves
<1>3. more \in Seq(1..Keys) /\ Len(more) = n + 1 /\ OneMore(log, more, key)
      /\ ToSet(more) = ToSet(log) \cup {key}
  <2>1. PICK S : S = 1..Keys
    OBVIOUS
  <2>2. log \in Seq(S) /\ key \in S
    BY <1>1, <2>1
  <2>3. more \in Seq(S) /\ Len(more) = n + 1 /\ OneMore(log, more, key)
        /\ ToSet(more) = ToSet(log) \cup {key}
    BY <2>2, AppendMembers
  <2> QED BY <2>1, <2>3
<1> HIDE DEF u, more, path, moved
<1>4. OneMore(old, new, OutputLeaf(n, key)) /\ Len(old) = n
  <2>1. /\ Len(old) = n /\ \A i \in 1..n : old[i] = OutputLeaf(i - 1, log[i])
    BY <1>1, OutputLeavesFacts
  <2>2. /\ Len(new) = n + 1 /\ \A i \in 1..(n + 1) : new[i] = OutputLeaf(i - 1, more[i])
    BY <1>3, OutputLeavesFacts
  <2>3. n + 1 \in 1..(n + 1) /\ (n + 1) - 1 = n /\ \A i \in 1..n : i \in 1..(n + 1)
    BY <1>1
  <2>4. more[n + 1] = key /\ \A i \in 1..n : more[i] = log[i]
    BY <1>3 DEF OneMore
  <2> HIDE DEF old, new
  <2>5. new[n + 1] = OutputLeaf(n, key)
    BY <2>2, <2>3, <2>4
  <2>6. \A i \in 1..n : new[i] = old[i]
    BY <2>1, <2>2, <2>3, <2>4
  <2> QED BY <1>1, <2>1, <2>2, <2>5, <2>6 DEF OneMore
<1>5. TruePath(old, n, Halves(f))
  BY <1>1, HalvesTrue
<1> HIDE DEF old, new
<1>6. ASSUME NEW l \in 0..Depth, NEW c \in Nat, c < Width(l)
      PROVE  Levels(new)[l][c] = IF c = Cursor(n, l) THEN path[l] ELSE Levels(old)[l][c]
  BY <1>1, <1>4, <1>5, <1>6, LevelsAppend DEF path
<1>7. u.root = BatchRoot(new)
  <2>1. Cursor(n, Depth) = 0 /\ 0 < Width(Depth) /\ Depth \in 0..Depth
    <3>1. Cursor(n, Depth) \in Nat /\ Cursor(n, Depth) < Width(Depth) /\ Width(Depth) = 1
      BY <1>1, CursorRange, DepthNat, WidthFacts
    <3> QED BY <3>1, DepthNat
  <2>2. Levels(new)[Depth][0] = path[Depth]
    BY <1>6, <2>1
  <2> QED BY <1>2, <2>2 DEF BatchRoot
<1>8. LeftHalves(u, more)
  <2>1. SUFFICES ASSUME NEW l \in 0..(Depth - 1), ~IsLeft(n + 1, l)
                 PROVE  /\ l \in DOMAIN u.frontier
                        /\ u.frontier[l] = Levels(new)[l][Cursor(n + 1, l) - 1]
    BY <1>2 DEF LeftHalves, new
  <2> DEFINE c == Cursor(n, l)
  <2>2. l \in 0..Depth /\ c \in Nat /\ c < Width(l) /\ Width(l) \in Nat
        /\ (Cursor(n + 1, l) = c \/ Cursor(n + 1, l) = c + 1)
    <3>1. l \in 0..Depth
      BY DepthNat
    <3>2. c \in Nat /\ c < Width(l) /\ Width(l) \in Nat
      BY <1>1, <3>1, CursorRange, WidthFacts
    <3>3. Cursor(n + 1, l) = c \/ Cursor(n + 1, l) = c + 1
      BY <1>1, <3>1, CursorNext
    <3> QED BY <3>1, <3>2, <3>3
  <2>3. (Cursor(n + 1, l) % 2) # 0
    BY <2>1 DEF IsLeft
  <2>4. CASE Cursor(n + 1, l) = c
    <3>1. ~IsLeft(n, l)
      BY <2>1, <2>4 DEF IsLeft
    <3>2. l \notin moved /\ l \in DOMAIN f.frontier /\ f.frontier[l] = Levels(old)[l][c - 1]
      BY <1>1, <3>1 DEF moved, FrontierSound, LeftHalves, old
    <3>3. l \in DOMAIN u.frontier /\ u.frontier[l] = f.frontier[l]
      BY <1>2, <3>2
    <3>4. c # 0
      BY <2>3, <2>4
    <3> HIDE DEF c
    <3>5. c - 1 \in Nat /\ c - 1 < Width(l) /\ c - 1 # c
      BY ONLY <2>2, <3>4
    <3>6. Levels(new)[l][c - 1] = Levels(old)[l][c - 1]
      BY <1>6, <2>2, <3>5 DEF c
    <3> QED BY <2>4, <3>2, <3>3, <3>6
  <2>5. CASE Cursor(n + 1, l) = c + 1
    <3>1. \A x \in Nat : ((x + 1) % 2) # 0 => (x % 2) = 0
      OBVIOUS
    <3>2. IsLeft(n, l)
      BY <2>2, <2>3, <2>5, <3>1 DEF IsLeft
    <3>3. l \in moved
      BY <3>2 DEF moved
    <3>4. l \in DOMAIN u.frontier /\ u.frontier[l] = path[l]
      BY <1>2, <3>3
    <3>5. Levels(new)[l][c] = path[l]
      BY <1>6, <2>2
    <3>6. Cursor(n + 1, l) - 1 = c
      BY <2>2, <2>5
    <3> QED BY <3>4, <3>5, <3>6
  <2> QED BY <2>2, <2>4, <2>5
<1>9. IsInjective(more)
  <2>1. SUFFICES ASSUME NEW a \in 1..(n + 1), NEW b \in 1..(n + 1), more[a] = more[b], a < b PROVE FALSE
    <3>1. DOMAIN more = 1..(n + 1)
      BY <1>3, SeqMembers
    <3>2. \A a, b \in 1..(n + 1) : a < b \/ b < a \/ a = b
      BY <1>1
    <3> QED BY <3>1, <3>2 DEF IsInjective
  <2>2. a \in 1..n /\ (b = n + 1 \/ b \in 1..n) /\ a # b
    BY <1>1, <2>1
  <2>3. more[a] = log[a] /\ log[a] \in ToSet(log)
    BY <1>1, <1>3, <2>2, SeqMembers DEF OneMore
  <2>4. CASE b = n + 1
    <3>1. more[b] = key
      BY <1>3, <2>4 DEF OneMore
    <3> QED BY <1>1, <2>1, <2>3, <3>1
  <2>5. CASE b \in 1..n
    <3>1. more[b] = log[b] /\ DOMAIN log = 1..n
      BY <1>1, <1>3, <2>5, SeqMembers DEF OneMore
    <3> QED BY <1>1, <2>1, <2>2, <2>3, <2>5, <3>1 DEF IsInjective
  <2> QED BY <2>2, <2>4, <2>5
<1>10. n + 1 <= Capacity /\ f.keys = ToSet(log)
  BY <1>1 DEF FrontierSound
<1>11. FrontierSound(u, more)
  BY <1>2, <1>3, <1>7, <1>8, <1>9, <1>10 DEF FrontierSound, new
<1> QED BY <1>11 DEF u, more

\* One round of the loop of a Shield6 transaction.
Round(before, key) ==
    IF before.ok /\ OutputAccepted(before.state, key)
    THEN [state |-> AppendOutput(before.state, key), ok |-> TRUE]
    ELSE [before EXCEPT !.ok = FALSE]

\* The loop of the Shield6 transactions, value by value.
LEMMA AppendedFacts ==
  ASSUME NEW start, NEW outs, Len(outs) \in Nat
  PROVE  \E f : /\ f[0] = [state |-> start, ok |-> TRUE]
                /\ \A k \in 1..Len(outs) : f[k] = Round(f[k - 1], outs[k])
                /\ Appended(start, outs) = f[Len(outs)]
<1> DEFINE N == Len(outs)
           t == [state |-> start, ok |-> TRUE]
           Up(k, x) == Round(x, outs[k])
           Solves(f, n) == f[0] = t /\ \A k \in 1..n : f[k] = Up(k, f[k - 1])
           Body(h) == [n \in 0..N |-> IF n = 0 THEN t ELSE Up(n, h[n - 1])]
           T == {n \in 0..N : \E f : f = [k \in 0..n |-> f[k]] /\ Solves(f, n)}
<1>0. N \in Nat
  OBVIOUS
<1> HIDE DEF Up, N, t
<1>1. 0 \in T
  <2>1. LET f == [k \in 0..0 |-> t] IN f = [k \in 0..0 |-> f[k]] /\ Solves(f, 0)
    OBVIOUS
  <2>2. 0 \in 0..N
    BY <1>0
  <2> QED BY <2>1, <2>2
<1>2. ASSUME NEW n \in 1..N, n - 1 \in T PROVE n \in T
  <2>1. PICK f : f = [k \in 0..(n - 1) |-> f[k]] /\ Solves(f, n - 1)
    BY <1>2
  <2> DEFINE g == [k \in 0..n |-> IF k = n THEN Up(n, f[n - 1]) ELSE f[k]]
  <2>2. g = [k \in 0..n |-> g[k]] /\ g[0] = t
    BY <1>0, <2>1
  <2>3. ASSUME NEW k \in 1..n PROVE g[k] = Up(k, g[k - 1])
    <3>1. k - 1 \in 0..n /\ k - 1 # n /\ k \in 0..n
      BY <1>0
    <3>2. g[k - 1] = f[k - 1]
      BY <3>1
    <3>3. CASE k = n
      BY <3>1, <3>2, <3>3
    <3>4. CASE k # n
      <4>1. k \in 1..(n - 1)
        BY <1>0, <3>4
      <4> QED BY <2>1, <3>1, <3>2, <3>4, <4>1
    <3> QED BY <3>3, <3>4
  <2> HIDE DEF g
  <2>4. Solves(g, n)
    BY <2>2, <2>3
  <2>5. n \in 0..N
    BY <1>0
  <2> HIDE DEF Solves
  <2> QED BY <2>2, <2>4, <2>5
<1>3. N \in T
  <2> HIDE DEF T
  <2> QED BY <1>0, <1>1, <1>2, StepInduction
<1>4. PICK f : f = [k \in 0..N |-> f[k]] /\ Solves(f, N)
  BY <1>3
<1>5. f = Body(f)
  <2>1. ASSUME NEW k \in 0..N PROVE f[k] = Body(f)[k]
    <3>1. CASE k = 0
      BY <1>4, <3>1
    <3>2. CASE k # 0
      <4>1. k \in 1..N
        BY <1>0, <3>2
      <4>2. f[k] = Up(k, f[k - 1])
        BY <1>4, <4>1
      <4> QED BY <3>2, <4>2
    <3> QED BY <3>1, <3>2
  <2> HIDE DEF Solves
  <2> QED BY <1>4, <2>1
<1> DEFINE g == CHOOSE h : h = Body(h)
<1>6. Appended(start, outs) = g[N]
  BY DEF Appended, Up, N, t, Round
<1>7. g = Body(g)
  BY <1>5
<1> HIDE DEF g
<1>8. g[0] = t /\ \A k \in 1..N : g[k] = Up(k, g[k - 1])
  BY <1>0, <1>7
<1> QED BY <1>6, <1>8 DEF Up, N, t

\* A Shield6 transaction whose every append succeeds adds all its outputs.
LEMMA AppendedSound ==
  ASSUME NEW start, NEW log, FrontierSound(start, log), NEW outs \in Seq(1..Keys),
         Appended(start, outs).ok
  PROVE  FrontierSound(Appended(start, outs).state, log \o outs)
<1> DEFINE N == Len(outs)
           So(n) == log \o SubSeq(outs, 1, n)
<1>1. N \in Nat /\ log \in Seq(1..Keys)
  BY DEF FrontierSound
<1>2. PICK f : /\ f[0] = [state |-> start, ok |-> TRUE]
               /\ \A k \in 1..N : f[k] = Round(f[k - 1], outs[k])
               /\ Appended(start, outs) = f[N]
  BY <1>1, AppendedFacts
<1>3. /\ So(0) = log /\ So(N) = log \o outs
      /\ \A n \in 1..N : So(n) = Append(So(n - 1), outs[n]) /\ outs[n] \in 1..Keys
  <2>1. PICK S : S = 1..Keys
    OBVIOUS
  <2>2. log \in Seq(S) /\ outs \in Seq(S)
    BY <1>1, <2>1
  <2>3. /\ So(0) = log /\ So(N) = log \o outs
        /\ \A n \in 1..N : So(n) = Append(So(n - 1), outs[n]) /\ outs[n] \in S
    BY ONLY <2>2, PrefixConcat, SMTT(30)
  <2> QED BY <2>1, <2>3
<1> HIDE DEF So
<1> DEFINE Fine(n) == /\ f[n] = [state |-> f[n].state, ok |-> f[n].ok]
                      /\ f[n].ok => FrontierSound(f[n].state, So(n))
           T == {n \in 0..N : Fine(n)}
<1>4. 0 \in T
  <2>1. f[0].state = start /\ f[0].ok
    BY <1>2
  <2>2. Fine(0)
    BY <1>2, <1>3, <2>1
  <2> QED BY <1>1, <2>2
<1>5. ASSUME NEW n \in 1..N, n - 1 \in T PROVE n \in T
  <2>1. PICK b : b = f[n - 1]
    OBVIOUS
  <2>2. /\ b = [state |-> b.state, ok |-> b.ok]
        /\ b.ok => FrontierSound(b.state, So(n - 1))
    BY <1>5, <2>1
  <2>3. f[n] = Round(b, outs[n])
    BY <1>2, <2>1
  <2>4. CASE b.ok /\ OutputAccepted(b.state, outs[n])
    <3>1. f[n] = [state |-> AppendOutput(b.state, outs[n]), ok |-> TRUE]
      BY <2>3, <2>4 DEF Round
    <3>2. FrontierSound(AppendOutput(b.state, outs[n]), Append(So(n - 1), outs[n]))
      BY <1>3, <2>2, <2>4, AppendOutputSound
    <3>3. FrontierSound(AppendOutput(b.state, outs[n]), So(n))
      BY <1>3, <3>2
    <3>4. f[n].state = AppendOutput(b.state, outs[n]) /\ f[n].ok
      BY ONLY <3>1
    <3>5. f[n] = [state |-> f[n].state, ok |-> f[n].ok]
      BY ONLY <3>1
    <3>6. Fine(n)
      BY <3>3, <3>4, <3>5
    <3> QED BY <1>1, <3>6
  <2>5. CASE ~(b.ok /\ OutputAccepted(b.state, outs[n]))
    <3>1. f[n] = [b EXCEPT !.ok = FALSE]
      BY <2>3, <2>5 DEF Round
    <3>2. f[n] = [state |-> b.state, ok |-> FALSE]
      BY <2>2, <3>1
    <3>3. Fine(n)
      BY <3>2
    <3> QED BY <1>1, <3>3
  <2> QED BY <2>4, <2>5
<1>6. \A n \in 0..N : n \in T
  <2> HIDE DEF T
  <2> QED BY <1>1, <1>4, <1>5, StepInduction
<1>7. Fine(N)
  BY <1>1, <1>6
<1> QED BY <1>2, <1>3, <1>7

(***************************************************************************)
(* The invariant and what follows from it                                  *)
(***************************************************************************)
AccInv == TreeSound(notes, noteLog) /\ FrontierSound(outputs, outputLog)

\* A note transaction within the room check keeps the note tree sound.
LEMMA NoteTxKeeps ==
  ASSUME TreeSound(notes, noteLog), NEW asset \in Asset, NEW outs \in DistinctOutputs(Commitment, Slots),
         NoteTx(asset, outs)
  PROVE  TreeSound(notes', noteLog')
<1>1. Slots \in Nat /\ Capacity \in Nat
  BY SlotsAssumption, WidthFacts, DepthNat
<1>2. outs \in [1..Slots -> Commitment]
  BY DEF DistinctOutputs
<1>3. outs \in Seq(Commitment) /\ Len(outs) = Slots
  BY <1>1, <1>2, FunctionIsSeq
<1>4. notes.next < Capacity - (Slots - 1) /\ notes.next = Len(noteLog) /\ Len(noteLog) \in Nat
  BY DEF NoteTx, NoteTxAccepted, TreeSound, TreeHolds
<1>5. Len(noteLog) + Len(outs) <= Capacity
  BY <1>1, <1>3, <1>4
<1>6. TreeSound(AppendNotes(notes, outs), noteLog \o outs)
  BY <1>3, <1>5, AppendNotesSound
<1> QED BY <1>6 DEF NoteTx

\* A Shield6 transaction keeps the frontier sound, reverted or not.
LEMMA OutputTxKeeps ==
  ASSUME FrontierSound(outputs, outputLog), NEW n \in 1..MaxOutputs, NEW outs \in [1..n -> 1..Keys],
         OutputTx(outs)
  PROVE  FrontierSound(outputs', outputLog')
<1>1. n \in Nat
  BY SlotsAssumption
<1>2. outs \in Seq(1..Keys)
  <2>1. PICK S : S = 1..Keys
    OBVIOUS
  <2>2. outs \in [1..n -> S]
    BY <2>1
  <2>3. outs \in Seq(S)
    BY <1>1, <2>2, FunctionIsSeq
  <2> QED BY <2>1, <2>3
<1>3. CASE Appended(outputs, outs).ok
  <2>1. FrontierSound(Appended(outputs, outs).state, outputLog \o outs)
    BY <1>2, <1>3, AppendedSound
  <2> QED BY <1>3, <2>1 DEF OutputTx, Reverted
<1>4. CASE ~Appended(outputs, outs).ok
  BY <1>4 DEF OutputTx, Reverted
<1> QED BY <1>3, <1>4

\* What the appends of processShieldedV3 (and V4, V5) and processShieldedV6 keep:
\* every node of the note tree, stored or absent, is the node of the complete tree
\* over the accepted commitments, and every left half of the Shield6 frontier that
\* the next output needs is a node of the complete tree over the accepted outputs.
THEOREM AccumulatorInvariant == AccSpec => []AccInv
<1>1. AccInit => AccInv
  BY EmptyTreeSound, EmptyFrontierSound DEF AccInit, AccInv
<1>2. ASSUME AccInv, [AccNext]_avars PROVE AccInv'
  <2>1. TreeSound(notes, noteLog) /\ FrontierSound(outputs, outputLog)
    BY <1>2 DEF AccInv
  <2>2. ASSUME NEW asset \in Asset, NEW outs \in DistinctOutputs(Commitment, Slots), NoteTx(asset, outs)
        PROVE  AccInv'
    <3>1. TreeSound(notes', noteLog')
      BY <2>1, <2>2, NoteTxKeeps
    <3>2. outputs' = outputs /\ outputLog' = outputLog
      BY <2>2 DEF NoteTx
    <3>3. FrontierSound(outputs', outputLog')
      BY <2>1, <3>2
    <3> QED BY <3>1, <3>3 DEF AccInv
  <2>3. ASSUME NEW n \in 1..MaxOutputs, NEW outs \in [1..n -> 1..Keys], OutputTx(outs)
        PROVE  AccInv'
    <3>1. FrontierSound(outputs', outputLog')
      BY <2>1, <2>3, OutputTxKeeps
    <3>2. notes' = notes /\ noteLog' = noteLog
      BY <2>3 DEF OutputTx
    <3>3. TreeSound(notes', noteLog')
      BY <2>1, <3>2
    <3> QED BY <3>1, <3>3 DEF AccInv
  <2>4. CASE UNCHANGED avars
    <3>1. notes' = notes /\ noteLog' = noteLog /\ outputs' = outputs /\ outputLog' = outputLog
      BY <2>4 DEF avars
    <3>2. TreeSound(notes', noteLog') /\ FrontierSound(outputs', outputLog')
      BY <2>1, <3>1
    <3> QED BY <3>2 DEF AccInv
  <2> QED BY <1>2, <2>2, <2>3, <2>4 DEF AccNext
<1> QED BY <1>1, <1>2, PTL DEF AccSpec

\* The root that processShieldedV3, V4 and V5 store is the root of the complete
\* tree over all accepted commitments, whatever the depth and the history.
THEOREM NotesCorrect == AccSpec => []NotesCommitted
<1>1. AccInv => NotesCommitted
  BY DEF AccInv, TreeSound, TreeHolds, NotesCommitted
<1> QED BY <1>1, AccumulatorInvariant, PTL

\* So is the root that processShieldedV6 stores, from one node per level, and no
\* one-time key is in the accumulator twice.
THEOREM OutputsCorrect == AccSpec => []OutputsCommitted
<1>1. AccInv => OutputsCommitted
  BY DEF AccInv, FrontierSound, OutputsCommitted
<1> QED BY <1>1, AccumulatorInvariant, PTL

\* The path ShieldedV3CommitmentPath serves for any accepted commitment leads to
\* the current root.
THEOREM PathsCorrect == AccSpec => []PathsAuthenticate
<1>1. ASSUME AccInv PROVE PathsAuthenticate
  BY <1>1, PathsLeadToRoot DEF AccInv, TreeSound, PathsAuthenticate
<1> QED BY <1>1, AccumulatorInvariant, PTL

\* The anchors a spend may name are the roots after each accepted commitment, all
\* different from each other: appendShieldedV3Leaf forgets and repeats none.
THEOREM AnchorsCorrect == AccSpec => []AnchorsAreHistory
<1>1. AccInv => AnchorsAreHistory
  BY DEF AccInv, TreeSound, TreeHolds, RootsSound, AnchorsAreHistory
<1> QED BY <1>1, AccumulatorInvariant, PTL

\* An output is refused for a full tree or a used one-time key and nothing else.
OnlyFullOrUsed ==
    \A key \in 1..Keys :
        OutputAccepted(outputs, key) <=> Len(outputLog) < Capacity /\ key \notin ToSet(outputLog)

\* The missing-frontier error of shieldedV6AppendOutput never occurs: wherever the
\* next output is a right child, the left half it needs has been stored.
THEOREM FrontierNeverMissing == AccSpec => []OnlyFullOrUsed
<1>1. AccInv => OnlyFullOrUsed
  BY DEF AccInv, FrontierSound, LeftHalves, OutputAccepted, OnlyFullOrUsed
<1> QED BY <1>1, AccumulatorInvariant, PTL
=============================================================================
