----------------------------- MODULE MerkleTree -----------------------------
(***************************************************************************)
(* The two incremental Merkle accumulators of the reserved pool account.     *)
(*                                                                         *)
(*  - the node tree of Shield3/4/5 notes (shielded_v3_state.go) and of the   *)
(*    stamp registry (antartical_stamp.go): every node on the path of an     *)
(*    append is stored, absent nodes stand for empty subtrees;               *)
(*  - the frontier of Shield6 outputs (shielded_v6_state.go): one stored     *)
(*    node per level, the left half that the next right sibling will need.   *)
(*                                                                         *)
(* Hashes are injective: a digest IS the pair of its children.  BatchRoot is *)
(* the reference both are checked against: the root of the complete tree     *)
(* over a sequence of leaves, built level by level.                          *)
(***************************************************************************)
EXTENDS Integers, Sequences, Functions

CONSTANTS
    Depth,          \* MerkleDepth = ShieldedV6OutputTreeDepth
    Zero            \* digest of an empty leaf, no leaf is equal to it

ASSUME DepthAssumption == Depth \in Nat \ {0}

\* Nodes of a tree of n levels on its lowest one: 1 << n.
Power[n \in 0..Depth] == IF n = 0 THEN 1 ELSE 2 * Power[n - 1]
Capacity == Power[Depth]
HashPair(left, right) == <<left, right>>

\* v3Zeroes, shieldedV6EmptyNodes: the empty subtree of every level.
Zeroes[level \in 0..Depth] ==
    IF level = 0 THEN Zero ELSE HashPair(Zeroes[level - 1], Zeroes[level - 1])

\* Position of leaf i on a level: cursor >>= 1 on the way to the next one.
Cursor(i, level) ==
    LET cursor[l \in 0..Depth] == IF l = 0 THEN i ELSE cursor[l - 1] \div 2
    IN  cursor[level]

\* The sibling of a position, and the parent of two siblings of which the one at
\* the given position is `current`.
Sibling(c) == IF c % 2 = 0 THEN c + 1 ELSE c - 1
Parent(c, current, sibling) ==
    IF c % 2 = 0 THEN HashPair(current, sibling) ELSE HashPair(sibling, current)

\* The digests of every level above `leaf` at position i, given the siblings: the
\* loop of both appends and of whoever checks a path.
Ascent(i, leaf, siblings) ==
    LET ascent[level \in 0..Depth] ==
            IF level = 0 THEN leaf
            ELSE Parent(Cursor(i, level - 1), ascent[level - 1], siblings[level - 1])
    IN  ascent

-----------------------------------------------------------------------------
(* The node tree *)

EmptyTree == [nodes |-> << >>, next |-> 0, indexOf |-> << >>,
              root |-> Zero, roots |-> {}]

\* v3Node, stampNode.
Node(t, level, c) ==
    IF <<level, c>> \in DOMAIN t.nodes THEN t.nodes[<<level, c>>] ELSE Zeroes[level]

Siblings(t, i) == [level \in 0..(Depth - 1) |-> Node(t, level, Sibling(Cursor(i, level)))]

\* Mutant: the sibling is always taken for empty.
ForgetsSibling(t, leaf) == Ascent(t.next, leaf, Zeroes)

\* The digest an append of `leaf` computes for each level of its path.
Climb(t, leaf) == Ascent(t.next, leaf, Siblings(t, t.next))

\* "stamp registry is full", "Shield3 tree full".
HasRoom(t) == t.next < Capacity

\* Mutant: a stored node is not rewritten when the subtree under it changes.
StoresOnce(t, path) ==
    LET fresh == {<<level, Cursor(t.next, level)>> : level \in 0..Depth}
    IN  [k \in DOMAIN t.nodes \cup fresh |->
            IF k \in DOMAIN t.nodes THEN t.nodes[k] ELSE path[k[1]]]

\* The path nodes an append stores over what is there.
Stored(t, path) ==
    LET fresh == {<<level, Cursor(t.next, level)>> : level \in 0..Depth}
    IN  [k \in DOMAIN t.nodes \cup fresh |->
            IF k \in fresh THEN path[k[1]] ELSE t.nodes[k]]

\* Mutant: only the current root is remembered.
RootsForgotten(t, root) == {root}

RootsKept(t, root) == t.roots \cup {root}

\* appendShieldedV3Leaf, appendAntarticalStamp: `key` is what the index slot is
\* keyed by (the commitment, the stamp owner) and `leaf` what enters the tree.
AppendLeaf(t, key, leaf) ==
    LET path == Climb(t, leaf)
    IN  [nodes   |-> Stored(t, path),
         next    |-> t.next + 1,
         indexOf |-> [k \in DOMAIN t.indexOf \cup {key} |->
                        IF k = key THEN t.next + 1 ELSE t.indexOf[k]],
         root    |-> path[Depth],
         roots   |-> RootsKept(t, path[Depth])]

\* ShieldedV3CommitmentPath, AntarticalStampPath: the siblings from the leaf up.
Path(t, key) == Siblings(t, t.indexOf[key] - 1)

\* What the wallet's witness is checked against: the root that a leaf at
\* position i with these siblings leads to.
RootOf(i, leaf, siblings) == Ascent(i, leaf, siblings)[Depth]

-----------------------------------------------------------------------------
(* The frontier *)

EmptyFrontier == [frontier |-> << >>, count |-> 0, keys |-> {}, root |-> Zeroes[Depth]]

IsLeft(i, level) == Cursor(i, level) % 2 = 0

\* The digest an append computes for each level, from the stored left halves.
Ascend(f, leaf) ==
    Ascent(f.count, leaf, [level \in 0..(Depth - 1) |->
                             IF IsLeft(f.count, level) THEN Zeroes[level] ELSE f.frontier[level]])

\* Mutant: a left half is stored only the first time its level is reached.
FrontierOnce(f, level) == IsLeft(f.count, level) /\ level \notin DOMAIN f.frontier

FrontierMoves(f, level) == IsLeft(f.count, level)

\* The checks of shieldedV6AppendOutput: room, a new one-time key, and a stored
\* left half wherever the append will be a right sibling.
OutputAccepted(f, key) ==
    /\ f.count < Capacity
    /\ key \notin f.keys
    /\ \A level \in 0..(Depth - 1) : ~IsLeft(f.count, level) => level \in DOMAIN f.frontier

\* shieldedV6AppendOutput; the leaf binds the position and the output.
OutputLeaf(i, key) == <<i, key>>
AppendOutput(f, key) ==
    LET path  == Ascend(f, OutputLeaf(f.count, key))
        moved == {level \in 0..(Depth - 1) : FrontierMoves(f, level)}
    IN  [frontier |-> [level \in DOMAIN f.frontier \cup moved |->
                        IF level \in moved THEN path[level] ELSE f.frontier[level]],
         count    |-> f.count + 1,
         keys     |-> f.keys \cup {key},
         root     |-> path[Depth]]

-----------------------------------------------------------------------------
(* The reference *)

\* All digests of every level of the complete tree over `leaves`.
Levels(leaves) ==
    LET levels[level \in 0..Depth] ==
            [i \in 0..(Power[Depth - level] - 1) |->
                IF level > 0 THEN HashPair(levels[level - 1][2 * i], levels[level - 1][2 * i + 1])
                ELSE IF i < Len(leaves) THEN leaves[i + 1] ELSE Zero]
    IN  levels

BatchRoot(leaves) == Levels(leaves)[Depth][0]
=============================================================================
