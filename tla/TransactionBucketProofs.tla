---------------------- MODULE TransactionBucketProofs ----------------------
(***************************************************************************)
(* Proofs about TransactionBucket.  A batch has two versions, in memory and  *)
(* in the store; the inductive invariant says how far they may be apart.     *)
(***************************************************************************)
EXTENDS TransactionBucket, Induction, SequenceTheorems

Passing == {"nonce", "reconcile", "submit"}
GaveUp == {"failed", "canceled"}

(***************************************************************************)
(* The inductive invariant                                                 *)
(***************************************************************************)
\* A version of a batch: an entry without its raw transaction was given up, and
\* a batch with such an entry is closed.
Sound(B) ==
    /\ B \in Batch
    /\ Len(B.entries) <= B.expected
    /\ B.base + B.expected <= MaxNonce
    /\ \A i \in DOMAIN B.entries :
        /\ B.entries[i].raw \/ B.entries[i].status \in GaveUp
        /\ B.entries[i].status \in GaveUp => B.state \in Terminal
    /\ B.state = "completed" => B.done

\* The two versions of one batch: the store never loses an entry, and what it
\* knows to be closed is closed.
Pair(M, D) ==
    \/ M = Unused /\ D = Unused
    \/ M = Pruned /\ D = Pruned
    \/ /\ Sound(M) /\ Sound(D)
       /\ DOMAIN M.entries = DOMAIN D.entries
       /\ D.state \in Terminal => M.state \in Terminal

Counted(B) == B.rawBytes = RawCount(B)

\* The state is the one the last pass gave to the entries.
Quiet(B) == B.state \in Terminal \/ Settled(B) = B

\* Memory is ahead of the store by the statuses of the entries of changed.
Synced(M, D, changed) ==
    /\ M = [D EXCEPT !.entries = M.entries]
    /\ \A i \in DOMAIN M.entries :
        /\ i \notin changed => M.entries[i] = D.entries[i]
        /\ M.entries[i].raw = D.entries[i].raw

\* The entries of b that the pass under way has changed and not yet written.
Pending(b) == IF lock.phase = "submit" /\ lock.id = b THEN lock.changed ELSE {}

PassLock == [phase : Passing, id : BatchId, nonce : Nat, changed : SUBSET Nat,
             todo : SUBSET BatchId, ticking : BOOLEAN]

LockSound ==
    /\ lock.phase \in {"idle", "next"} \cup Passing
    /\ lock.phase \in {"next"} \cup Passing => lock.todo \subseteq Live
    /\ lock.phase \in Passing =>
        /\ lock \in PassLock
        /\ lock.id \in Live \ lock.todo
    /\ lock.phase = "submit" => batches[lock.id].state \notin Terminal

PairsSound ==
    /\ batches = [b \in BatchId |-> batches[b]]
    /\ disk = [b \in BatchId |-> disk[b]]
    /\ \A b \in BatchId : Pair(batches[b], disk[b])

\* As long as no failed write was passed over.
Faithful(b) ==
    /\ Counted(disk[b])
    /\ Quiet(disk[b])
    /\ Synced(batches[b], disk[b], Pending(b))

StoreSound == ~lostWrite => \A b \in Live : Faithful(b)

WithinBudget == ~lostWrite => TotalRawBytes <= MaxRawBytes

AckedStored ==
    \A p \in acked :
        /\ p[1] \in BatchId
        /\ \/ disk[p[1]] = Pruned
           \/ /\ Exists(disk, p[1])
              /\ p[2] \in DOMAIN disk[p[1]].entries

CanceledClosed ==
    /\ canceled \subseteq BatchId
    /\ \A b \in canceled :
        /\ batches[b].state \in Terminal \cup {"pruned"}
        /\ disk[b].state \in Terminal \cup {"pruned"}

OnePerNonce(S) == \A t, u \in S : t.nonce = u.nonce => t = u

NodeSound ==
    /\ canon \in Seq(Tx)
    /\ \A i \in 1..Len(canon) : canon[i].nonce = i - 1
    /\ pool \subseteq Tx /\ tracked \subseteq Tx /\ entered \subseteq Tx
    /\ \A t \in pool : t.nonce >= Len(canon)
    /\ OnePerNonce(pool) /\ OnePerNonce(tracked)

BatchesSound ==
    /\ PairsSound /\ StoreSound /\ WithinBudget /\ AckedStored /\ CanceledClosed
    /\ OrdinaryBatchesExclusive
    /\ lostWrite \in BOOLEAN

BucketInv == LockSound /\ BatchesSound /\ NodeSound

(***************************************************************************)
(* Records and sequences                                                   *)
(***************************************************************************)
LEMMA BatchShape ==
  ASSUME NEW B \in Batch
  PROVE  /\ B.state \in Active \cup Terminal \cup {"completed"}
         /\ B.base \in 0..(MaxNonce - 1) /\ B.expected \in 1..MaxExpected
         /\ B.email \in BOOLEAN /\ B.rawBytes \in Int
         /\ B.ttl \in 0..ActiveTTL /\ B.done \in BOOLEAN
         /\ B.age \in 0..(Retention + 1) /\ B.entries \in Entries
  BY DEF Batch

LEMMA EntriesShape ==
  ASSUME NEW s \in Entries
  PROVE  /\ s \in Seq(Entry) /\ Len(s) \in 1..MaxExpected
         /\ DOMAIN s = 1..Len(s) /\ s \in [1..Len(s) -> Entry]
<1>1. PICK n \in 1..MaxExpected : s \in [1..n -> Entry]
  BY DEF Entries
<1>2. s \in Seq(Entry) /\ n \in Nat
  BY <1>1, BucketAssumption, SeqDef
<1>3. DOMAIN s = 1..n /\ DOMAIN s = 1..Len(s) /\ Len(s) \in Nat
  BY <1>1, <1>2, LenProperties
<1>4. Len(s) = n
  BY <1>2, <1>3
<1> QED BY <1>1, <1>2, <1>3, <1>4

LEMMA EntriesFrom ==
  ASSUME NEW n \in 1..MaxExpected, NEW s \in [1..n -> Entry]
  PROVE  s \in Entries /\ Len(s) = n /\ DOMAIN s = 1..n
<1>1. s \in Entries
  BY DEF Entries
<1>2. DOMAIN s = 1..n /\ DOMAIN s = 1..Len(s) /\ Len(s) \in 1..MaxExpected
  BY <1>1, EntriesShape
<1>3. Len(s) = n
  BY <1>2, BucketAssumption
<1> QED BY <1>1, <1>2, <1>3

(***************************************************************************)
(* Sums over the batches                                                   *)
(***************************************************************************)
Picked(S) == CHOOSE x \in S : TRUE

\* The recursive definition of the sum has a solution, so its equation holds.
LEMMA SumUnfolds ==
  ASSUME NEW size, NEW S \in SUBSET BatchId
  PROVE  SumOver(size)[S] =
            IF S = {} THEN 0 ELSE SumOver(size)[S \ {Picked(S)}] + size[Picked(S)]
<1> DEFINE Small(n) == {U \in SUBSET BatchId : Cardinality(U) <= n}
           Solves(f, D) == f = [U \in D |-> IF U = {} THEN 0
                                           ELSE f[U \ {Picked(U)}] + size[Picked(U)]]
           T == {n \in Nat : \E f : Solves(f, Small(n))}
<1>1. \A U \in SUBSET BatchId : IsFiniteSet(U) /\ Cardinality(U) \in Nat
  BY BucketAssumption, FS_Subset, FS_CardinalityType
<1>2. \A U \in SUBSET BatchId : U # {} =>
         Picked(U) \in U /\ Cardinality(U \ {Picked(U)}) = Cardinality(U) - 1
  BY <1>1, FS_RemoveElement DEF Picked
<1>3. 0 \in T
  <2>1. \A U \in Small(0) : U = {}
    BY <1>1, FS_EmptySet
  <2>2. Solves([U \in Small(0) |-> 0], Small(0))
    BY <2>1
  <2> QED BY <2>2
<1>4. ASSUME NEW n \in Nat, n \in T PROVE n + 1 \in T
  <2>1. PICK f : Solves(f, Small(n))
    BY <1>4
  <2> DEFINE g == [U \in Small(n + 1) |-> IF U = {} THEN 0
                                          ELSE f[U \ {Picked(U)}] + size[Picked(U)]]
  <2>2. ASSUME NEW U \in Small(n + 1), U # {} PROVE g[U \ {Picked(U)}] = f[U \ {Picked(U)}]
    <3>1. U \ {Picked(U)} \in Small(n)
      BY <1>1, <1>2, <2>2
    <3>2. \A V \in Small(n) : V \in Small(n + 1)
      BY <1>1
    <3>3. \A V \in Small(n) : g[V] = f[V]
      BY <2>1, <3>2
    <3> QED BY <3>1, <3>3
  <2>3. Solves(g, Small(n + 1))
    BY <2>2
  <2>4. \E h : Solves(h, Small(n + 1))
    <3> HIDE DEF g, Solves, Small
    <3> QED BY <2>3
  <2> HIDE DEF Solves, Small
  <2> QED BY <2>4
<1>5. Cardinality(BatchId) \in T
  <2>1. Nat \subseteq T
    <3> HIDE DEF T
    <3> QED BY <1>3, <1>4, InductionOnNaturals
  <2> QED BY <2>1, <1>1
<1>6. Small(Cardinality(BatchId)) = SUBSET BatchId
  BY <1>1, BucketAssumption, FS_Subset
<1>7. \E f : Solves(f, SUBSET BatchId)
  BY <1>5, <1>6
<1>8. SumOver(size) = CHOOSE f : Solves(f, SUBSET BatchId)
  BY DEF SumOver, Picked
<1>9. Solves(SumOver(size), SUBSET BatchId)
  BY <1>7, <1>8
<1> QED BY <1>9

\* Changing the size of one batch by at most k, and enlarging no other, changes
\* the sum by at most k.
LEMMA SumGrows ==
  ASSUME NEW v \in [BatchId -> Int], NEW w \in [BatchId -> Int],
         NEW b \in BatchId, NEW k \in Nat, w[b] <= v[b] + k,
         \A c \in BatchId \ {b} : w[c] <= v[c]
  PROVE  /\ SumOver(v)[BatchId] \in Int /\ SumOver(w)[BatchId] \in Int
         /\ SumOver(w)[BatchId] <= SumOver(v)[BatchId] + k
<1> DEFINE Grown(S) == IF b \in S THEN k ELSE 0
           T == {S \in SUBSET BatchId :
                   /\ SumOver(v)[S] \in Int /\ SumOver(w)[S] \in Int
                   /\ SumOver(w)[S] <= SumOver(v)[S] + Grown(S)}
<1>1. {} \in T
  <2>1. SumOver(v)[{}] = 0 /\ SumOver(w)[{}] = 0
    <3>1. {} \in SUBSET BatchId
      OBVIOUS
    <3> QED BY <3>1, SumUnfolds
  <2> QED BY <2>1
<1>2. ASSUME NEW U \in SUBSET BatchId, U # {}, U \ {Picked(U)} \in T PROVE U \in T
  <2>1. Picked(U) \in U
    BY <1>2 DEF Picked
  <2>2. /\ SumOver(v)[U] = SumOver(v)[U \ {Picked(U)}] + v[Picked(U)]
        /\ SumOver(w)[U] = SumOver(w)[U \ {Picked(U)}] + w[Picked(U)]
    BY <1>2, SumUnfolds
  <2>3. v[Picked(U)] \in Int /\ w[Picked(U)] \in Int
    BY <2>1
  <2>4. SumOver(v)[U] \in Int /\ SumOver(w)[U] \in Int
    BY <1>2, <2>2, <2>3
  <2>5. CASE Picked(U) = b
    <3>1. Grown(U \ {Picked(U)}) = 0 /\ Grown(U) = k
      BY <2>1, <2>5
    <3> QED BY <1>2, <2>2, <2>3, <2>4, <2>5, <3>1
  <2>6. CASE Picked(U) # b
    <3>1. Grown(U \ {Picked(U)}) = Grown(U) /\ w[Picked(U)] <= v[Picked(U)]
      BY <2>1, <2>6
    <3>2. Grown(U) \in Nat
      OBVIOUS
    <3> HIDE DEF Grown
    <3> QED BY <1>2, <2>2, <2>3, <2>4, <3>1, <3>2
  <2> QED BY <2>5, <2>6
<1>3. SUBSET BatchId \subseteq T
  <2>1. \A U \in SUBSET BatchId : (\A x \in U : U \ {x} \in T) => U \in T
    <3>1. SUFFICES ASSUME NEW U \in SUBSET BatchId, \A x \in U : U \ {x} \in T
                   PROVE  U \in T
      OBVIOUS
    <3>2. U # {} => Picked(U) \in U
      BY DEF Picked
    <3> HIDE DEF T
    <3> QED BY <1>1, <1>2, <3>1, <3>2
  <2> HIDE DEF T
  <2> QED BY <1>1, <2>1, BucketAssumption, InductionOnSubsets
<1>4. BatchId \in T
  BY <1>3
<1> QED BY <1>4

(***************************************************************************)
(* From one version of a batch to the next                                 *)
(***************************************************************************)
\* B2 follows B in memory, and only the entries of changed differ.
Version(B, B2, changed) ==
    /\ Sound(B2)
    /\ DOMAIN B2.entries = DOMAIN B.entries
    /\ B.state \in Terminal => B2.state \in Terminal
    /\ B2.state \in Active =>
        B2.done \/ (B.state \in Active /\ B2.email = B.email /\ B2.done = B.done)
    /\ \A i \in DOMAIN B.entries \ changed : B2.entries[i] = B.entries[i]
    /\ Counted(B) => Counted(B2) /\ B2.rawBytes <= B.rawBytes

LEMMA StatesDistinct ==
  /\ Active \cap Terminal = {}
  /\ "completed" \notin Active \cup Terminal
  /\ "unused" \notin Active \cup Terminal \cup {"completed"}
  /\ "pruned" \notin Active \cup Terminal \cup {"completed"}
  BY DEF Active, Terminal

LEMMA RawCountNat ==
  ASSUME NEW B \in Batch, NEW S \in SUBSET DOMAIN B.entries
  PROVE  /\ RawCount(B) \in Nat
         /\ IsFiniteSet(S) /\ Cardinality(S) \in Nat
<1>1. B.entries \in Entries
  BY BatchShape
<1>2. DOMAIN B.entries = 1..Len(B.entries) /\ Len(B.entries) \in Nat
  BY <1>1, EntriesShape
<1>3. IsFiniteSet(DOMAIN B.entries)
  BY <1>2, FS_Interval
<1>4. {i \in DOMAIN B.entries : B.entries[i].raw} \in SUBSET DOMAIN B.entries
  OBVIOUS
<1> QED BY <1>3, <1>4, FS_Subset, FS_CardinalityType DEF RawCount

LEMMA VersionTrans ==
  ASSUME NEW A, NEW B, NEW C, NEW c1, NEW c2,
         Sound(A), Version(A, B, c1), Version(B, C, c2)
  PROVE  Version(A, C, c1 \cup c2)
<1>1. A \in Batch /\ B \in Batch /\ C \in Batch
  BY DEF Version, Sound
<1>2. A.rawBytes \in Int /\ B.rawBytes \in Int /\ C.rawBytes \in Int
  BY <1>1, BatchShape
<1>3. Counted(A) => Counted(C) /\ C.rawBytes <= A.rawBytes
  BY <1>2 DEF Version
<1>4. C.state \in Active =>
        C.done \/ (A.state \in Active /\ C.email = A.email /\ C.done = A.done)
  BY DEF Version
<1>5. \A i \in DOMAIN A.entries \ (c1 \cup c2) : C.entries[i] = A.entries[i]
  BY DEF Version
<1> QED BY <1>3, <1>4, <1>5 DEF Version

LEMMA VersionDiffer ==
  ASSUME NEW A, NEW B, NEW c, Version(A, B, c)
  PROVE  Version(A, B, Differ(A, B))
  BY DEF Version, Differ

LEMMA ClosedVersion ==
  ASSUME NEW B, Sound(B), NEW state \in Terminal
  PROVE  Version(B, Closed(B, state), {}) /\ Closed(B, state).state = state
<1> DEFINE C == Closed(B, state)
<1>0. B \in Batch
  BY DEF Sound
<1>1. C \in Batch
  <2>1. 0 \in 0..(Retention + 1)
    BY BucketAssumption
  <2> QED BY <1>0, <2>1 DEF Closed, Batch
<1>2. /\ C.state = state /\ C.entries = B.entries /\ C.base = B.base
      /\ C.expected = B.expected /\ C.rawBytes = B.rawBytes /\ C.done = TRUE
  BY <1>0 DEF Closed, Batch
<1>3. Sound(C)
  BY <1>1, <1>2 DEF Sound
<1>4. C.state \notin Active
  BY <1>2, StatesDistinct
<1>5. B.rawBytes \in Int
  BY <1>0, BatchShape
<1> HIDE DEF C
<1>6. Version(B, C, {})
  BY <1>2, <1>3, <1>4, <1>5 DEF Version, Counted, RawCount
<1> QED BY <1>2, <1>6 DEF C

\* Giving up entries of a closed batch frees the bytes they held.
LEMMA DiscardVersion ==
  ASSUME NEW B, Sound(B), B.state \in Terminal, NEW S \in SUBSET DOMAIN B.entries,
         NEW status \in GaveUp
  PROVE  Version(B, Discard(B, S, status), S) /\ Discard(B, S, status).state = B.state
<1> DEFINE C == Discard(B, S, status)
           E == [i \in DOMAIN B.entries |->
                  IF i \in S THEN [B.entries[i] EXCEPT !.status = status, !.raw = FALSE]
                  ELSE B.entries[i]]
           G == {i \in S : B.entries[i].raw}
           Q == {i \in DOMAIN B.entries : B.entries[i].raw}
<1>0. B \in Batch
  BY DEF Sound
<1>1. B.entries \in Entries /\ B.rawBytes \in Int
  BY <1>0, BatchShape
<1>2. /\ DOMAIN B.entries = 1..Len(B.entries) /\ Len(B.entries) \in 1..MaxExpected
      /\ B.entries \in [1..Len(B.entries) -> Entry]
  BY <1>1, EntriesShape
<1>3. E \in [1..Len(B.entries) -> Entry]
  BY <1>2 DEF Entry, GaveUp
<1>4. E \in Entries /\ Len(E) = Len(B.entries) /\ DOMAIN E = DOMAIN B.entries
  <2> HIDE DEF E
  <2> QED BY <1>2, <1>3, EntriesFrom
<1>5. G \in SUBSET DOMAIN B.entries /\ Q \in SUBSET DOMAIN B.entries /\ G \subseteq Q
  OBVIOUS
<1>6. IsFiniteSet(Q) /\ IsFiniteSet(G) /\ Cardinality(G) \in Nat /\ Cardinality(Q) \in Nat
  <2> HIDE DEF G, Q
  <2> QED BY <1>0, <1>5, RawCountNat
<1>7. C = [B EXCEPT !.entries = E, !.rawBytes = @ - Cardinality(G)]
  BY DEF Discard
<1>8. /\ C \in Batch /\ C.state = B.state /\ C.base = B.base /\ C.expected = B.expected
      /\ C.done = B.done /\ C.email = B.email /\ C.entries = E
      /\ C.rawBytes = B.rawBytes - Cardinality(G)
  <2> DEFINE r == B.rawBytes - Cardinality(G)
  <2>1. r \in Int
    BY <1>1, <1>6
  <2>2. C = [B EXCEPT !.entries = E, !.rawBytes = r]
    BY <1>7
  <2> HIDE DEF C, E, r
  <2>3. /\ C \in Batch /\ C.state = B.state /\ C.base = B.base /\ C.expected = B.expected
        /\ C.done = B.done /\ C.email = B.email /\ C.entries = E /\ C.rawBytes = r
    BY <1>0, <1>4, <2>1, <2>2 DEF Batch
  <2> QED BY <2>3 DEF r
<1>9. \A i \in DOMAIN B.entries :
        /\ i \in S => E[i].status = status /\ E[i].raw = FALSE
        /\ i \notin S => E[i] = B.entries[i]
  BY <1>2 DEF Entry
<1>10. Sound(C)
  <2> HIDE DEF C, E
  <2> QED BY <1>4, <1>8, <1>9 DEF Sound
<1>11. Counted(B) => Counted(C) /\ C.rawBytes <= B.rawBytes
  <2>0. Cardinality(G) \in Nat /\ C.rawBytes = B.rawBytes - Cardinality(G)
    BY <1>6, <1>8
  <2>1. {i \in DOMAIN C.entries : C.entries[i].raw} = Q \ G
    <3> HIDE DEF C, E
    <3> QED BY <1>4, <1>8, <1>9
  <2>2. Cardinality(Q \ G) = Cardinality(Q) - Cardinality(Q \cap G)
    <3> HIDE DEF Q, G
    <3> QED BY <1>6, FS_Difference
  <2>3. Q \cap G = G
    BY <1>5
  <2>4. RawCount(C) = Cardinality(Q \ G) /\ RawCount(B) = Cardinality(Q)
    <3> HIDE DEF C
    <3> QED BY <2>1 DEF RawCount
  <2>5. RawCount(C) = RawCount(B) - Cardinality(G)
    <3> HIDE DEF C, Q, G
    <3> QED BY <2>2, <2>3, <2>4
  <2>6. RawCount(B) \in Nat
    <3> HIDE DEF C, Q, G
    <3> QED BY <1>6, <2>4
  <2> HIDE DEF C, Q, G
  <2> QED BY <1>1, <2>0, <2>5, <2>6 DEF Counted
<1>12. B.state \notin Active
  BY StatesDistinct
<1>13. Version(B, C, S)
  <2> HIDE DEF C, E
  <2> QED BY <1>4, <1>8, <1>9, <1>10, <1>11, <1>12 DEF Version
<1> QED BY <1>8, <1>13

LEMMA WithdrawnVersion ==
  ASSUME NEW B, Sound(B)
  PROVE  /\ Version(B, Withdrawn(B), WithStatus(B, {"queued"}))
         /\ Withdrawn(B).state = "canceled"
<1> DEFINE C == Closed(B, "canceled")
           S == WithStatus(B, {"queued"})
<1>1. Version(B, C, {}) /\ C.state = "canceled"
  BY ClosedVersion DEF Terminal
<1>2. Sound(C) /\ S \in SUBSET DOMAIN C.entries /\ C.state \in Terminal
  BY <1>1 DEF Version, WithStatus, Terminal
<1>3. Version(C, Withdrawn(B), S) /\ Withdrawn(B).state = "canceled"
  <2>1. Version(C, Discard(C, S, "canceled"), S) /\ Discard(C, S, "canceled").state = C.state
    <3> HIDE DEF C, S
    <3> QED BY <1>2, DiscardVersion DEF GaveUp
  <2> QED BY <1>1, <2>1 DEF Withdrawn
<1>4. Version(B, Withdrawn(B), {} \cup S)
  <2> HIDE DEF C, S
  <2> QED BY <1>1, <1>3, VersionTrans
<1> QED BY <1>3, <1>4

LEMMA ExpiryVersion ==
  ASSUME NEW B, Sound(B)
  PROVE  /\ Version(B, Expiry(B), WithStatus(B, {"queued"}))
         /\ Expiry(B).state = "expired"
<1> DEFINE C == Closed(B, "expired")
           S == WithStatus(B, {"queued"})
<1>1. Version(B, C, {}) /\ C.state = "expired"
  BY ClosedVersion DEF Terminal
<1>2. Sound(C) /\ S \in SUBSET DOMAIN C.entries /\ C.state \in Terminal
  BY <1>1 DEF Version, WithStatus, Terminal
<1>3. Version(C, Expiry(B), S) /\ Expiry(B).state = "expired"
  <2>1. Version(C, Discard(C, S, "canceled"), S) /\ Discard(C, S, "canceled").state = C.state
    <3> HIDE DEF C, S
    <3> QED BY <1>2, DiscardVersion DEF GaveUp
  <2> QED BY <1>1, <2>1 DEF Expiry
<1>4. Version(B, Expiry(B), {} \cup S)
  <2> HIDE DEF C, S
  <2> QED BY <1>1, <1>3, VersionTrans
<1> QED BY <1>3, <1>4

\* An attempt keeps the raw transaction and opens nothing.
LEMMA AttemptedVersion ==
  ASSUME NEW B, Sound(B), B.state \notin Terminal, NEW i \in Sendable(B),
         NEW status \in {"queued", "submitted"}
  PROVE  /\ Version(B, Attempted(B, i, status), {i})
         /\ Attempted(B, i, status).state = B.state
         /\ Attempted(B, i, status) = [B EXCEPT !.entries = Attempted(B, i, status).entries]
         /\ \A j \in DOMAIN B.entries :
              Attempted(B, i, status).entries[j].raw = B.entries[j].raw
<1> DEFINE C == Attempted(B, i, status)
           e == [B.entries[i] EXCEPT !.wait = RetryInterval, !.status = status]
           E == [B.entries EXCEPT ![i] = e]
<1>0. B \in Batch
  BY DEF Sound
<1>1. B.entries \in Entries /\ B.rawBytes \in Int
  BY <1>0, BatchShape
<1>2. /\ DOMAIN B.entries = 1..Len(B.entries) /\ Len(B.entries) \in 1..MaxExpected
      /\ B.entries \in [1..Len(B.entries) -> Entry]
  BY <1>1, EntriesShape
<1>3. i \in DOMAIN B.entries /\ B.entries[i].raw /\ B.entries[i] \in Entry
  BY <1>2 DEF Sendable, WithStatus
<1>4. e \in Entry /\ e.raw = B.entries[i].raw /\ e.status = status
  <2>1. RetryInterval \in 0..RetryInterval
    BY BucketAssumption
  <2> QED BY <1>3, <2>1 DEF Entry
<1>5. E \in [1..Len(B.entries) -> Entry]
  <2> HIDE DEF e
  <2> QED BY <1>2, <1>3, <1>4
<1>6. E \in Entries /\ Len(E) = Len(B.entries) /\ DOMAIN E = DOMAIN B.entries
  <2> HIDE DEF E
  <2> QED BY <1>2, <1>5, EntriesFrom
<1>7. C = [B EXCEPT !.entries = E]
  BY <1>0, <1>2, <1>3 DEF Attempted, Batch, Entry
<1>8. /\ C \in Batch /\ C.state = B.state /\ C.base = B.base /\ C.expected = B.expected
      /\ C.done = B.done /\ C.email = B.email /\ C.entries = E /\ C.rawBytes = B.rawBytes
  <2> HIDE DEF C, E
  <2> QED BY <1>0, <1>6, <1>7 DEF Batch
<1>9. \A j \in DOMAIN B.entries :
        /\ E[j].raw = B.entries[j].raw
        /\ E[j].status = IF j = i THEN status ELSE B.entries[j].status
        /\ j # i => E[j] = B.entries[j]
  <2> HIDE DEF e
  <2> QED BY <1>2, <1>3, <1>4
<1>10. status \notin GaveUp
  BY DEF GaveUp
<1>11. Sound(C)
  <2> HIDE DEF C, E
  <2> QED BY <1>3, <1>6, <1>8, <1>9, <1>10 DEF Sound
<1>12. RawCount(C) = RawCount(B)
  <2> HIDE DEF C, E
  <2>1. {j \in DOMAIN C.entries : C.entries[j].raw} = {j \in DOMAIN B.entries : B.entries[j].raw}
    BY <1>6, <1>8, <1>9
  <2> QED BY <2>1 DEF RawCount
<1>13. Version(B, C, {i})
  <2> HIDE DEF C, E
  <2>1. Counted(B) => Counted(C) /\ C.rawBytes <= B.rawBytes
    BY <1>1, <1>8, <1>12 DEF Counted
  <2> QED BY <1>6, <1>8, <1>9, <1>11, <2>1 DEF Version
<1> QED BY <1>7, <1>8, <1>9, <1>13

\* Only the state, and for a batch that has just completed its time, is settled.
LEMMA SettledVersion ==
  ASSUME NEW B, Sound(B), B.state \notin Terminal
  PROVE  /\ Version(B, Settled(B), {})
         /\ Quiet(Settled(B))
         /\ Settled(B).state \notin Terminal
<1> DEFINE C == Settled(B)
           full == Cardinality(WithStatus(B, {"confirmed"})) = B.expected
           open == IF Len(B.entries) = B.expected THEN "processing" ELSE "receiving"
<1>0. B \in Batch /\ 0 \in 0..(Retention + 1)
  BY BucketAssumption DEF Sound
<1>1. C = IF full THEN IF B.done THEN [B EXCEPT !.state = "completed"]
                       ELSE [B EXCEPT !.state = "completed", !.done = TRUE, !.age = 0]
          ELSE [B EXCEPT !.state = open]
  BY DEF Settled, Closed
<1>2. /\ C \in Batch /\ C.base = B.base /\ C.expected = B.expected
      /\ C.email = B.email /\ C.entries = B.entries /\ C.rawBytes = B.rawBytes
      /\ C.state = IF full THEN "completed" ELSE open
      /\ C.done = (B.done \/ full)
  <2> HIDE DEF C, full
  <2> QED BY <1>0, <1>1 DEF Batch, Active
<1>3. C.state \notin Terminal /\ (C.state \in Active <=> ~full)
  <2> HIDE DEF C, full
  <2> QED BY <1>2 DEF Terminal, Active
<1>4. Sound(C)
  <2> HIDE DEF C, full, open
  <2>1. C.state = "completed" => C.done
    <3>1. open # "completed"
      BY DEF open
    <3> QED BY <1>2, <3>1
  <2> QED BY <1>2, <2>1 DEF Sound
<1>5. Version(B, C, {})
  <2>1. B.state \in Active \/ B.done
    BY <1>0 DEF Sound, Batch
  <2>2. B.rawBytes \in Int
    BY <1>0, BatchShape
  <2>3. C.state \in Active =>
          C.done \/ (B.state \in Active /\ C.email = B.email /\ C.done = B.done)
    <3> HIDE DEF C, full, open
    <3> QED BY <1>0, <1>2, <1>3, <2>1 DEF Batch
  <2> HIDE DEF C, full, open
  <2> QED BY <1>2, <1>4, <2>2, <2>3 DEF Version, Counted, RawCount
<1>6. Settled(C) = C
  <2> DEFINE full2 == Cardinality(WithStatus(C, {"confirmed"})) = C.expected
             open2 == IF Len(C.entries) = C.expected THEN "processing" ELSE "receiving"
  <2>1. (full2 <=> full) /\ open2 = open
    <3> HIDE DEF C
    <3> QED BY <1>2 DEF WithStatus
  <2>2. Settled(C) = IF full2 THEN IF C.done THEN [C EXCEPT !.state = "completed"]
                       ELSE [C EXCEPT !.state = "completed", !.done = TRUE, !.age = 0]
          ELSE [C EXCEPT !.state = open2]
    BY DEF Settled, Closed
  <2> HIDE DEF C, full, full2, open, open2
  <2>3. full => C.done
    BY <1>2
  <2> QED BY <1>2, <2>1, <2>2, <2>3 DEF Batch
<1> QED BY <1>3, <1>5, <1>6 DEF Quiet

LEMMA FailedVersion ==
  ASSUME NEW B, Sound(B), B.state \notin Terminal, NEW i \in Sendable(B)
  PROVE  LET C == Discard(Closed(Attempted(B, i, "queued"), "failed"), {i}, "failed")
         IN  Version(B, C, {i}) /\ C.state = "failed"
<1> DEFINE A == Attempted(B, i, "queued")
           F == Closed(A, "failed")
           C == Discard(F, {i}, "failed")
<1>1. Version(B, A, {i})
  BY AttemptedVersion
<1>2. Sound(A)
  BY <1>1 DEF Version
<1>3. Version(A, F, {}) /\ F.state = "failed"
  <2> HIDE DEF A
  <2> QED BY <1>2, ClosedVersion DEF Terminal
<1>4. Sound(F) /\ {i} \in SUBSET DOMAIN F.entries /\ F.state \in Terminal
  <2>1. i \in DOMAIN B.entries
    BY DEF Sendable, WithStatus
  <2> HIDE DEF A, F
  <2> QED BY <1>1, <1>3, <2>1 DEF Version, Terminal
<1>5. Version(F, C, {i}) /\ C.state = "failed"
  <2> HIDE DEF F
  <2> QED BY <1>3, <1>4, DiscardVersion DEF GaveUp
<1> HIDE DEF A, F, C
<1>6. Version(B, F, {i} \cup {})
  BY <1>1, <1>3, VersionTrans
<1>7. Version(B, C, ({i} \cup {}) \cup {i})
  BY <1>5, <1>6, VersionTrans
<1>8. ({i} \cup {}) \cup {i} = {i}
  OBVIOUS
<1> QED BY <1>5, <1>7, <1>8 DEF A, F, C

LEMMA ObservedStatus ==
  ASSUME NEW e \in Entry, NEW tx
  PROVE  /\ Observed(e.status, tx) \in {"queued", "submitted", "confirmed", "failed", "canceled"}
         /\ e.status \in GaveUp => Observed(e.status, tx) = e.status
         /\ Observed(e.status, tx) \in GaveUp /\ e.status \notin GaveUp =>
                Observed(e.status, tx) = "failed"
  BY DEF Observed, Entry, GaveUp

\* Reconciling changes statuses only; a new failure closes the batch.
LEMMA ReconciledVersion ==
  ASSUME NEW b, Sound(batches[b])
  PROVE  LET B == batches[b]
             R == Reconciled(b)
         IN  /\ Version(B, R, Differ(B, R))
             /\ R.state \notin Terminal => R = [B EXCEPT !.entries = R.entries]
             /\ Differ(B, R) = {} => R = B
             /\ \A i \in DOMAIN B.entries : R.entries[i].raw = B.entries[i].raw
<1> DEFINE B == batches[b]
           E == [i \in DOMAIN B.entries |->
                   [B.entries[i] EXCEPT !.status = Observed(@, TxOf(b, i))]]
           Q == [B EXCEPT !.entries = E]
           same == WithStatus(Q, {"failed"}) = WithStatus(B, {"failed"})
           R == Reconciled(b)
<1>0. B \in Batch
  BY DEF Sound
<1>1. B.entries \in Entries /\ B.rawBytes \in Int
  BY <1>0, BatchShape
<1>2. /\ DOMAIN B.entries = 1..Len(B.entries) /\ Len(B.entries) \in 1..MaxExpected
      /\ B.entries \in [1..Len(B.entries) -> Entry]
  BY <1>1, EntriesShape
<1>3. \A i \in DOMAIN B.entries :
        /\ E[i] \in Entry /\ E[i].raw = B.entries[i].raw
        /\ E[i].status = Observed(B.entries[i].status, TxOf(b, i))
  <2> TAKE i \in DOMAIN B.entries
  <2> DEFINE e == B.entries[i]
             o == Observed(e.status, TxOf(b, i))
  <2>1. e \in Entry
    BY <1>2
  <2>2. o \in {"queued", "submitted", "confirmed", "failed", "canceled"}
    <3> HIDE DEF e
    <3> QED BY <2>1, ObservedStatus
  <2>3. E[i] = [e EXCEPT !.status = o]
    OBVIOUS
  <2> HIDE DEF E, e, o
  <2>4. E[i] \in Entry /\ E[i].raw = e.raw /\ E[i].status = o
    BY <2>1, <2>2, <2>3 DEF Entry
  <2> QED BY <2>4 DEF e, o
<1>4. E \in Entries /\ Len(E) = Len(B.entries) /\ DOMAIN E = DOMAIN B.entries
  <2>1. E \in [1..Len(B.entries) -> Entry]
    BY <1>2, <1>3
  <2> HIDE DEF E
  <2> QED BY <1>2, <2>1, EntriesFrom
<1> HIDE DEF E
<1>5. /\ Q \in Batch /\ Q.state = B.state /\ Q.base = B.base /\ Q.expected = B.expected
      /\ Q.done = B.done /\ Q.email = B.email /\ Q.entries = E /\ Q.rawBytes = B.rawBytes
  BY <1>0, <1>4 DEF Batch
<1>6. R = IF same THEN Q ELSE Closed(Q, "failed")
  BY DEF Reconciled, E
<1>7. ASSUME NEW i \in DOMAIN B.entries PROVE
        /\ E[i].status \in GaveUp => B.entries[i].status \in GaveUp \/ ~same
        /\ B.entries[i].status \in GaveUp => E[i].status \in GaveUp
  <2>1. B.entries[i] \in Entry
    BY <1>2
  <2>2. ASSUME E[i].status \in GaveUp, B.entries[i].status \notin GaveUp PROVE ~same
    <3>1. E[i].status = "failed" /\ B.entries[i].status # "failed"
      BY <1>3, <2>1, <2>2, ObservedStatus DEF GaveUp
    <3>2. i \in WithStatus(Q, {"failed"}) /\ i \notin WithStatus(B, {"failed"})
      <4> HIDE DEF Q
      <4> QED BY <1>4, <1>5, <3>1 DEF WithStatus
    <3> QED BY <3>2
  <2>3. B.entries[i].status \in GaveUp => E[i].status \in GaveUp
    BY <1>3, <2>1, ObservedStatus
  <2> QED BY <2>2, <2>3
<1>8. /\ R \in Batch /\ R.base = B.base /\ R.expected = B.expected
      /\ R.email = B.email /\ R.entries = E /\ R.rawBytes = B.rawBytes
      /\ same => R = Q
      /\ ~same => R.state = "failed" /\ R.done
  <2>1. 0 \in 0..(Retention + 1)
    BY BucketAssumption
  <2> HIDE DEF Q, R, same
  <2> QED BY <1>5, <1>6, <2>1 DEF Batch, Closed, Terminal
<1> HIDE DEF R, same
<1>9. Sound(R)
  <2>1. ASSUME NEW i \in DOMAIN R.entries PROVE
          /\ R.entries[i].raw \/ R.entries[i].status \in GaveUp
          /\ R.entries[i].status \in GaveUp => R.state \in Terminal
    <3>1. i \in DOMAIN B.entries /\ R.entries[i] = E[i]
      BY <1>4, <1>8
    <3>2. R.entries[i].raw \/ R.entries[i].status \in GaveUp
      BY <1>3, <1>7, <3>1 DEF Sound
    <3>3. ASSUME R.entries[i].status \in GaveUp PROVE R.state \in Terminal
      <4>1. CASE same
        BY <1>5, <1>7, <1>8, <3>1, <3>3, <4>1 DEF Sound
      <4>2. CASE ~same
        BY <1>8, <4>2 DEF Terminal
      <4> QED BY <4>1, <4>2
    <3> QED BY <3>2, <3>3
  <2>2. R.state = "completed" => R.done
    BY <1>5, <1>8 DEF Sound
  <2> HIDE DEF Q, B
  <2>3. Sound(B)
    BY DEF B
  <2> QED BY <1>4, <1>8, <2>1, <2>2, <2>3 DEF Sound
<1>10. RawCount(R) = RawCount(B)
  <2>1. {j \in DOMAIN R.entries : R.entries[j].raw} = {j \in DOMAIN B.entries : B.entries[j].raw}
    BY <1>3, <1>4, <1>8
  <2> QED BY <2>1 DEF RawCount
<1>11. Version(B, R, Differ(B, R))
  <2>1. Counted(B) => Counted(R) /\ R.rawBytes <= B.rawBytes
    BY <1>1, <1>8, <1>10 DEF Counted
  <2>2. B.state \in Terminal => R.state \in Terminal
    BY <1>5, <1>8 DEF Terminal
  <2>3. R.state \in Active => B.state \in Active /\ R.done = B.done
    BY <1>5, <1>8 DEF Active
  <2> QED BY <1>4, <1>8, <1>9, <2>1, <2>2, <2>3 DEF Version, Differ
<1>12. R.state \notin Terminal => R = [B EXCEPT !.entries = R.entries]
  BY <1>8 DEF Terminal
<1>13. Differ(B, R) = {} => R = B
  <2>1. ASSUME Differ(B, R) = {} PROVE R = B
    <3>1. \A i \in DOMAIN B.entries : E[i] = B.entries[i]
      BY <1>8, <2>1 DEF Differ
    <3>2. E = B.entries
      <4>1. E = [i \in DOMAIN E |-> E[i]] /\ B.entries = [i \in DOMAIN B.entries |-> B.entries[i]]
        BY <1>2 DEF E
      <4> QED BY <1>4, <3>1, <4>1
    <3>3. Q = B
      BY <1>0, <3>2 DEF Batch
    <3>4. same
      BY <3>3 DEF same
    <3> QED BY <1>8, <3>3, <3>4
  <2> QED BY <2>1
<1>14. \A i \in DOMAIN B.entries : R.entries[i].raw = B.entries[i].raw
  BY <1>3, <1>8
<1> QED BY <1>11, <1>12, <1>13, <1>14 DEF R

\* queue adds one entry, with its byte.
LEMMA ExtendedSound ==
  ASSUME NEW B, Sound(B), B.state \in Active, InRange(B)
  PROVE  LET C == Extended(B)
         IN  /\ Sound(C) /\ C.state \in Active
             /\ C.email = B.email /\ C.done = B.done /\ C.rawBytes = B.rawBytes + 1
             /\ Len(C.entries) = Len(B.entries) + 1
             /\ DOMAIN B.entries \subseteq DOMAIN C.entries
             /\ Len(C.entries) \in DOMAIN C.entries
             /\ \A i \in DOMAIN C.entries \ {Len(C.entries)} :
                  i \in DOMAIN B.entries /\ C.entries[i] = B.entries[i]
             /\ Counted(B) => Counted(C)
             /\ Quiet(B) => Quiet(C)
<1> DEFINE n == Len(B.entries)
           E == Append(B.entries, NewEntry)
           last == n + 1 = B.expected
           r == B.rawBytes + 1
           C == Extended(B)
<1>0. B \in Batch /\ NewEntry \in Entry
  <2>1. 0 \in 0..RetryInterval
    BY BucketAssumption
  <2> QED BY <2>1 DEF Sound, NewEntry, Entry
<1>1. /\ B.entries \in Entries /\ B.rawBytes \in Int /\ r \in Int
      /\ B.expected \in 1..MaxExpected
  BY <1>0, BatchShape
<1>2. /\ DOMAIN B.entries = 1..n /\ n \in 1..MaxExpected
      /\ B.entries \in [1..n -> Entry] /\ B.entries \in Seq(Entry)
  BY <1>1, EntriesShape
<1>3. n < B.expected /\ n + 1 \in 1..MaxExpected /\ n \in Nat
  BY <1>1, <1>2, BucketAssumption DEF InRange
<1>4. /\ E \in Seq(Entry) /\ Len(E) = n + 1
      /\ \A i \in 1..n : E[i] = B.entries[i]
      /\ E[n + 1] = NewEntry
  BY <1>0, <1>2, AppendProperties
<1>5. E \in Entries /\ DOMAIN E = 1..(n + 1)
  <2> HIDE DEF E, n
  <2>1. E \in [1..(n + 1) -> Entry]
    BY <1>4, LenProperties
  <2> QED BY <1>3, <2>1, EntriesFrom
<1>6. C = [B EXCEPT !.entries = E, !.rawBytes = r, !.ttl = ActiveTTL,
                    !.state = IF last THEN "processing" ELSE B.state]
  BY <1>0 DEF Extended, Batch
<1>7. /\ C \in Batch /\ C.base = B.base /\ C.expected = B.expected /\ C.email = B.email
      /\ C.done = B.done /\ C.entries = E /\ C.rawBytes = r
      /\ C.state = IF last THEN "processing" ELSE B.state
  <2>1. ActiveTTL \in 0..ActiveTTL
    BY BucketAssumption
  <2> HIDE DEF C, E, last, r
  <2> QED BY <1>0, <1>1, <1>5, <1>6, <2>1 DEF Batch, Active
<1>8. C.state \in Active
  BY <1>7 DEF Active
<1> HIDE DEF C, E
<1>9. \A i \in DOMAIN C.entries : i # n + 1 => i \in DOMAIN B.entries /\ C.entries[i] = B.entries[i]
  BY <1>2, <1>4, <1>5, <1>7
<1>10. NewEntry.raw = TRUE /\ NewEntry.status = "queued"
  BY DEF NewEntry
<1>11. Sound(C)
  <2>1. ASSUME NEW i \in DOMAIN C.entries PROVE
          /\ C.entries[i].raw \/ C.entries[i].status \in GaveUp
          /\ C.entries[i].status \in GaveUp => C.state \in Terminal
    <3>1. CASE i = n + 1
      BY <1>4, <1>7, <1>10, <3>1 DEF GaveUp
    <3>2. CASE i # n + 1
      <4>1. B.state \notin Terminal
        BY StatesDistinct
      <4> QED BY <1>9, <3>2, <4>1 DEF Sound
    <3> QED BY <3>1, <3>2
  <2>2. Len(C.entries) <= C.expected
    BY <1>1, <1>3, <1>4, <1>7
  <2>3. C.state # "completed"
    BY <1>8, StatesDistinct
  <2> QED BY <1>7, <2>1, <2>2, <2>3 DEF Sound
<1>12. Counted(B) => Counted(C)
  <2> DEFINE Q == {i \in DOMAIN B.entries : B.entries[i].raw}
  <2>1. {i \in DOMAIN C.entries : C.entries[i].raw} = Q \cup {n + 1}
    <3>1. n + 1 \in DOMAIN C.entries /\ C.entries[n + 1].raw
      BY <1>3, <1>4, <1>5, <1>7, <1>10
    <3>2. \A i \in DOMAIN B.entries : i \in DOMAIN C.entries /\ i # n + 1
      BY <1>2, <1>3, <1>5, <1>7
    <3> QED BY <1>9, <3>1, <3>2
  <2>2. n + 1 \notin Q
    BY <1>2, <1>3
  <2>3. IsFiniteSet(Q) /\ Cardinality(Q) \in Nat
    <3>1. Q \in SUBSET DOMAIN B.entries
      OBVIOUS
    <3> HIDE DEF Q
    <3> QED BY <1>0, <3>1, RawCountNat
  <2>4. Cardinality(Q \cup {n + 1}) = Cardinality(Q) + 1
    <3> HIDE DEF Q
    <3> QED BY <2>2, <2>3, FS_AddElement
  <2>5. RawCount(C) = RawCount(B) + 1
    BY <2>1, <2>4 DEF RawCount
  <2> HIDE DEF Q
  <2> QED BY <1>7, <2>5 DEF Counted
<1>13. Quiet(B) => Quiet(C)
  <2>1. SUFFICES ASSUME Quiet(B) PROVE Settled(C) = C
    BY DEF Quiet
  <2>2. Settled(B) = B
    BY <2>1, StatesDistinct DEF Quiet
  <2> DEFINE W == WithStatus(B, {"confirmed"})
  <2>3. WithStatus(C, {"confirmed"}) = W
    <3>1. n + 1 \notin WithStatus(C, {"confirmed"})
      BY <1>4, <1>7, <1>10 DEF WithStatus
    <3>2. \A i \in DOMAIN B.entries : i \in DOMAIN C.entries /\ C.entries[i] = B.entries[i]
      BY <1>2, <1>3, <1>4, <1>5, <1>7
    <3> QED BY <1>9, <3>1, <3>2 DEF WithStatus
  <2>4. Cardinality(W) \in Nat /\ Cardinality(W) <= n
    <3>1. W \in SUBSET (1..n)
      BY <1>2 DEF WithStatus
    <3>2. IsFiniteSet(1..n) /\ Cardinality(1..n) = n
      BY <1>2, <1>3, FS_Interval
    <3> HIDE DEF W
    <3> QED BY <3>1, <3>2, FS_Subset, FS_CardinalityType
  <2>5. Cardinality(W) # B.expected /\ n # B.expected
    BY <1>1, <1>3, <2>4
  <2>6. B = [B EXCEPT !.state = "receiving"]
    <3> HIDE DEF W, n
    <3> QED BY <2>2, <2>5 DEF Settled, W, n
  <2>7. B.state = "receiving"
    <3>1. [B EXCEPT !.state = "receiving"].state = "receiving"
      BY <1>0 DEF Batch
    <3> QED BY <2>6, <3>1
  <2>8. Settled(C) = [C EXCEPT !.state = IF n + 1 = B.expected THEN "processing" ELSE "receiving"]
    BY <1>4, <1>7, <2>3, <2>5 DEF Settled
  <2>9. C.state = IF n + 1 = B.expected THEN "processing" ELSE "receiving"
    BY <1>7, <2>7
  <2> QED BY <1>7, <2>8, <2>9 DEF Batch
<1> QED BY <1>2, <1>3, <1>4, <1>5, <1>7, <1>8, <1>9, <1>11, <1>12, <1>13 DEF C, last

\* When the write fails, queue takes back exactly what it did.
LEMMA RollbackUndoes ==
  ASSUME NEW B \in Batch
  PROVE  Rollback(Extended(B), B) = B
<1> DEFINE E == Append(B.entries, NewEntry)
           C == Extended(B)
<1>1. B.entries \in Seq(Entry) /\ NewEntry \in Entry /\ B.rawBytes \in Int
  <2>1. 0 \in 0..RetryInterval
    BY BucketAssumption
  <2> QED BY <2>1, BatchShape, EntriesShape DEF NewEntry, Entry
<1>2. E \in Seq(Entry) /\ Len(E) = Len(B.entries) + 1
      /\ \A i \in 1..Len(B.entries) : E[i] = B.entries[i]
  BY <1>1, AppendProperties
<1>3. SubSeq(E, 1, Len(E) - 1) = B.entries
  <2>1. Len(B.entries) \in Nat /\ Len(E) - 1 = Len(B.entries)
    BY <1>1, <1>2, LenProperties
  <2> DEFINE s == SubSeq(E, 1, Len(B.entries))
  <2>2. \A i \in 1..Len(B.entries) : E[i] \in Entry
    BY <1>1, <1>2, ElementOfSeq
  <2> HIDE DEF E
  <2>3. /\ s \in Seq(Entry) /\ Len(s) = IF 1 <= Len(B.entries) THEN Len(B.entries) - 1 + 1 ELSE 0
        /\ \A i \in 1..(Len(B.entries) - 1 + 1) : s[i] = E[1 + i - 1]
    BY <2>1, <2>2, SubSeqProperties
  <2>4. Len(s) = Len(B.entries)
    <3> HIDE DEF s
    <3> QED BY <2>1, <2>3
  <2>5. \A i \in 1..Len(s) : s[i] = B.entries[i]
    <3> HIDE DEF s
    <3> QED BY <1>2, <2>1, <2>3, <2>4
  <2>6. s = B.entries
    <3> HIDE DEF s
    <3> QED BY <1>1, <2>3, <2>4, <2>5, SeqEqual
  <2> QED BY <2>1, <2>6
<1> DEFINE r == B.rawBytes + 1
           st == IF Len(B.entries) + 1 = B.expected THEN "processing" ELSE B.state
<1>4. C = [B EXCEPT !.entries = E, !.rawBytes = r, !.ttl = ActiveTTL, !.state = st]
  BY DEF Extended
<1>5. r - 1 = B.rawBytes
  BY <1>1
<1> HIDE DEF C, E, r, st
<1>6. C.entries = E /\ C.rawBytes = r
  BY <1>4 DEF Batch
<1> DEFINE s == SubSeq(C.entries, 1, Len(C.entries) - 1)
           q == C.rawBytes - 1
<1>7. s = B.entries /\ q = B.rawBytes
  BY <1>3, <1>5, <1>6
<1>8. Rollback(C, B) = [C EXCEPT !.entries = s, !.rawBytes = q,
                                 !.state = B.state, !.ttl = B.ttl]
  BY DEF Rollback
<1> HIDE DEF s, q
<1>9. Rollback(C, B) = B
  BY <1>4, <1>7, <1>8 DEF Batch
<1> QED BY <1>9 DEF C

(***************************************************************************)
(* What is written to the store                                            *)
(***************************************************************************)
LEMMA StoredSound ==
  ASSUME NEW D, NEW B, NEW changed, Sound(D), Sound(B),
         DOMAIN D.entries \subseteq DOMAIN B.entries,
         D.state \in Terminal => B.state \in Terminal
  PROVE  /\ Sound(Stored(D, B, changed))
         /\ Stored(D, B, changed).state = B.state
         /\ DOMAIN Stored(D, B, changed).entries = DOMAIN B.entries
<1> DEFINE C == Stored(D, B, changed)
           E == [i \in DOMAIN B.entries |->
                   IF i \in changed \/ ~(i \in DOMAIN D.entries)
                   THEN B.entries[i] ELSE D.entries[i]]
<1>0. B \in Batch /\ D \in Batch
  BY DEF Sound
<1>1. B.entries \in Entries /\ D.entries \in Entries
  BY <1>0, BatchShape
<1>2. /\ DOMAIN B.entries = 1..Len(B.entries) /\ Len(B.entries) \in 1..MaxExpected
      /\ B.entries \in [1..Len(B.entries) -> Entry]
      /\ DOMAIN D.entries = 1..Len(D.entries)
      /\ D.entries \in [1..Len(D.entries) -> Entry]
  BY <1>1, EntriesShape
<1>3. E \in [1..Len(B.entries) -> Entry]
  BY <1>2
<1>4. E \in Entries /\ Len(E) = Len(B.entries) /\ DOMAIN E = DOMAIN B.entries
  <2> HIDE DEF E
  <2> QED BY <1>2, <1>3, EntriesFrom
<1>5. C = [B EXCEPT !.entries = E]
  BY DEF Stored
<1>6. /\ C \in Batch /\ C.state = B.state /\ C.base = B.base /\ C.expected = B.expected
      /\ C.done = B.done /\ C.entries = E
  <2> HIDE DEF C, E
  <2> QED BY <1>0, <1>4, <1>5 DEF Batch
<1>7. \A i \in DOMAIN E :
        \/ E[i] = B.entries[i] /\ i \in DOMAIN B.entries
        \/ E[i] = D.entries[i] /\ i \in DOMAIN D.entries
  OBVIOUS
<1>8. Sound(C)
  <2> HIDE DEF C, E
  <2> QED BY <1>4, <1>6, <1>7 DEF Sound
<1> QED BY <1>4, <1>6, <1>8

\* A write of every entry that differs makes the store what memory is.
LEMMA StoredExact ==
  ASSUME NEW D, NEW B \in Batch, NEW changed,
         \A i \in DOMAIN B.entries \ changed :
            i \in DOMAIN D.entries => B.entries[i] = D.entries[i]
  PROVE  Stored(D, B, changed) = B
<1> DEFINE E == [i \in DOMAIN B.entries |->
                   IF i \in changed \/ ~(i \in DOMAIN D.entries)
                   THEN B.entries[i] ELSE D.entries[i]]
<1>1. B.entries = [i \in DOMAIN B.entries |-> B.entries[i]]
  BY BatchShape, EntriesShape
<1>2. E = B.entries
  BY <1>1
<1>3. Stored(D, B, changed) = [B EXCEPT !.entries = E]
  BY DEF Stored
<1> HIDE DEF E
<1> QED BY <1>2, <1>3 DEF Batch

\* The versions of a batch between two writes count the same bytes.
LEMMA SyncedCounted ==
  ASSUME NEW M, NEW D, NEW changed, Sound(M), Sound(D),
         DOMAIN M.entries = DOMAIN D.entries, Synced(M, D, changed)
  PROVE  /\ M.rawBytes = D.rawBytes /\ M.state = D.state /\ M.email = D.email
         /\ M.done = D.done
         /\ Counted(D) => Counted(M)
<1>1. M \in Batch /\ D \in Batch
  BY DEF Sound
<1>2. /\ M.rawBytes = D.rawBytes /\ M.state = D.state /\ M.email = D.email
      /\ M.done = D.done
  BY <1>1 DEF Synced, Batch
<1>3. {i \in DOMAIN M.entries : M.entries[i].raw} = {i \in DOMAIN D.entries : D.entries[i].raw}
  BY DEF Synced
<1> QED BY <1>2, <1>3 DEF Counted, RawCount

LEMMA SyncedSame ==
  ASSUME NEW M, NEW D, Sound(M), Sound(D), DOMAIN M.entries = DOMAIN D.entries,
         Synced(M, D, {})
  PROVE  M = D
<1>1. M \in Batch /\ D \in Batch
  BY DEF Sound
<1>2. /\ M.entries = [i \in DOMAIN M.entries |-> M.entries[i]]
      /\ D.entries = [i \in DOMAIN D.entries |-> D.entries[i]]
  BY <1>1, BatchShape, EntriesShape
<1>3. M.entries = D.entries
  BY <1>2 DEF Synced
<1> QED BY <1>1, <1>3 DEF Synced, Batch

LEMMA SyncedSelf ==
  ASSUME NEW B \in Batch, NEW changed
  PROVE  Synced(B, B, changed)
  BY DEF Synced, Batch

\* Time changes no status, no byte and no state.
LEMMA AgedSound ==
  ASSUME NEW B, Sound(B)
  PROVE  LET C == Aged(B)
         IN  /\ Sound(C) /\ C.state = B.state /\ C.email = B.email /\ C.done = B.done
             /\ C.rawBytes = B.rawBytes
             /\ DOMAIN C.entries = DOMAIN B.entries
             /\ Counted(B) => Counted(C)
             /\ Quiet(B) => Quiet(C)
<1> DEFINE C == Aged(B)
           E == [i \in DOMAIN B.entries |->
                   [B.entries[i] EXCEPT !.wait = IF @ = 0 THEN 0 ELSE @ - 1]]
           t == IF B.ttl = 0 THEN 0 ELSE B.ttl - 1
           a == IF B.done /\ B.age <= Retention THEN B.age + 1 ELSE B.age
<1>0. B \in Batch
  BY DEF Sound
<1>1. /\ B.entries \in Entries /\ B.ttl \in 0..ActiveTTL /\ B.age \in 0..(Retention + 1)
      /\ B.state \notin {"unused", "pruned"}
  BY <1>0, BatchShape, StatesDistinct
<1>2. /\ DOMAIN B.entries = 1..Len(B.entries) /\ Len(B.entries) \in 1..MaxExpected
      /\ B.entries \in [1..Len(B.entries) -> Entry]
  BY <1>1, EntriesShape
<1>3. \A i \in DOMAIN B.entries :
        E[i] \in Entry /\ E[i].raw = B.entries[i].raw /\ E[i].status = B.entries[i].status
  <2> TAKE i \in DOMAIN B.entries
  <2> DEFINE e == B.entries[i]
             w == IF e.wait = 0 THEN 0 ELSE e.wait - 1
  <2>1. e \in Entry
    BY <1>2
  <2>2. w \in 0..RetryInterval
    BY <2>1, BucketAssumption DEF Entry
  <2>3. E[i] = [e EXCEPT !.wait = w]
    OBVIOUS
  <2> HIDE DEF E, e, w
  <2>4. E[i] \in Entry /\ E[i].raw = e.raw /\ E[i].status = e.status
    BY <2>1, <2>2, <2>3 DEF Entry
  <2> QED BY <2>4 DEF e
<1>4. E \in Entries /\ Len(E) = Len(B.entries) /\ DOMAIN E = DOMAIN B.entries
  <2>1. E \in [1..Len(B.entries) -> Entry]
    BY <1>2, <1>3
  <2> HIDE DEF E
  <2> QED BY <1>2, <2>1, EntriesFrom
<1>5. t \in 0..ActiveTTL /\ a \in 0..(Retention + 1)
  BY <1>1, BucketAssumption
<1>6. C = [B EXCEPT !.ttl = t, !.age = a, !.entries = E]
  BY <1>0, <1>1 DEF Aged
<1> HIDE DEF C, E, t, a
<1>7. /\ C \in Batch /\ C.state = B.state /\ C.base = B.base /\ C.expected = B.expected
      /\ C.email = B.email /\ C.done = B.done /\ C.rawBytes = B.rawBytes /\ C.entries = E
  BY <1>0, <1>4, <1>5, <1>6 DEF Batch
<1>8. Sound(C)
  BY <1>3, <1>4, <1>7 DEF Sound
<1>9. Counted(B) => Counted(C)
  <2>1. {i \in DOMAIN C.entries : C.entries[i].raw} = {i \in DOMAIN B.entries : B.entries[i].raw}
    BY <1>3, <1>4, <1>7
  <2> QED BY <1>7, <2>1 DEF Counted, RawCount
<1>10. ASSUME Settled(B) = B PROVE Settled(C) = C
  <2> DEFINE full == Cardinality(WithStatus(B, {"confirmed"})) = B.expected
             open == IF Len(B.entries) = B.expected THEN "processing" ELSE "receiving"
  <2>1. WithStatus(C, {"confirmed"}) = WithStatus(B, {"confirmed"})
    BY <1>3, <1>4, <1>7 DEF WithStatus
  <2>2. Settled(B) = IF full THEN IF B.done THEN [B EXCEPT !.state = "completed"]
                       ELSE [B EXCEPT !.state = "completed", !.done = TRUE, !.age = 0]
                     ELSE [B EXCEPT !.state = open]
    BY DEF Settled, Closed
  <2>3. Settled(C) = IF full THEN IF C.done THEN [C EXCEPT !.state = "completed"]
                       ELSE [C EXCEPT !.state = "completed", !.done = TRUE, !.age = 0]
                     ELSE [C EXCEPT !.state = open]
    BY <1>4, <1>7, <2>1 DEF Settled, Closed
  <2> HIDE DEF full, open
  <2>4. full => B.done /\ B.state = "completed"
    BY <1>0, <1>10, <2>2 DEF Batch
  <2>5. ~full => B.state = open
    BY <1>0, <1>10, <2>2 DEF Batch
  <2> QED BY <1>7, <2>3, <2>4, <2>5 DEF Batch
<1>11. Quiet(B) => Quiet(C)
  BY <1>7, <1>10 DEF Quiet
<1> QED BY <1>4, <1>7, <1>8, <1>9, <1>11 DEF C

(***************************************************************************)
(* One batch is written                                                    *)
(***************************************************************************)
LEMMA PairShape ==
  ASSUME NEW M, NEW D, Pair(M, D)
  PROVE  /\ M.state \in {"unused", "pruned"} <=> D.state \in {"unused", "pruned"}
         /\ M.state \notin {"unused", "pruned"} =>
              /\ Sound(M) /\ Sound(D) /\ DOMAIN M.entries = DOMAIN D.entries
              /\ D.state \in Terminal => M.state \in Terminal
         /\ M.state \in Active => Sound(M)
         /\ D.state = "pruned" => M = Pruned /\ D = Pruned
         /\ M.state = "pruned" => M = Pruned /\ D = Pruned
         /\ M.state = "unused" => M = Unused /\ D = Unused
<1>1. CASE M = Unused /\ D = Unused
  BY <1>1, StatesDistinct DEF Unused, Pruned
<1>2. CASE M = Pruned /\ D = Pruned
  BY <1>2, StatesDistinct DEF Unused, Pruned
<1>3. CASE Sound(M) /\ Sound(D) /\ DOMAIN M.entries = DOMAIN D.entries
           /\ (D.state \in Terminal => M.state \in Terminal)
  <2>1. M.state \notin {"unused", "pruned"} /\ D.state \notin {"unused", "pruned"}
    BY <1>3, BatchShape, StatesDistinct DEF Sound
  <2> QED BY <1>3, <2>1
<1> QED BY <1>1, <1>2, <1>3 DEF Pair

LEMMA LiveShape ==
  ASSUME PairsSound
  PROVE  /\ \A b \in Live : /\ b \in BatchId /\ Sound(batches[b]) /\ Sound(disk[b])
                            /\ DOMAIN batches[b].entries = DOMAIN disk[b].entries
                            /\ disk[b].state \in Terminal => batches[b].state \in Terminal
         /\ \A b \in BatchId : Exists(disk, b) <=> b \in Live
         /\ ActiveBatches \subseteq Live
  BY PairShape, StatesDistinct DEF PairsSound, Live, Exists, ActiveBatches

SizesInt == [b \in BatchId |-> RawBytesOf(b)] \in [BatchId -> Int]

LEMMA RawBytesOfInt == PairsSound => SizesInt
  BY LiveShape, BatchShape DEF SizesInt, RawBytesOf, Sound

\* The sizes in the next state, as a function.
LEMMA TotalRawBytesPrimed ==
  TotalRawBytes' = SumOver([b \in BatchId |-> RawBytesOf(b)'])[BatchId]
  BY DEF TotalRawBytes, SumOver, RawBytesOf, Live, Exists

\* What a write of M to memory and of D to the store may do to batch b, with k
\* more bytes.
Writes(b, M, D, k) ==
    /\ Pair(M, D)
    /\ Exists(disk, b) =>
        D = Pruned \/ (Sound(D) /\ DOMAIN disk[b].entries \subseteq DOMAIN D.entries)
    /\ batches[b].state \in Terminal \cup {"pruned"} => M.state \in Terminal \cup {"pruned"}
    /\ disk[b].state \in Terminal \cup {"pruned"} => D.state \in Terminal \cup {"pruned"}
    /\ disk[b] = Pruned => D = Pruned
    /\ M.state \in Active =>
        \/ M.done
        \/ batches[b].state \in Active /\ M.email = batches[b].email /\ M.done = batches[b].done
        \/ \A c \in ActiveBatches : M.email /\ batches[c].email
    /\ k \in Nat
    /\ ~lostWrite => (IF M.state \in {"unused", "pruned"} THEN 0 ELSE M.rawBytes)
                        <= RawBytesOf(b) + k

LEMMA WriteKeeps ==
  ASSUME BatchesSound, NEW b \in BatchId, NEW M, NEW D, NEW k,
         batches' = [batches EXCEPT ![b] = M], disk' = [disk EXCEPT ![b] = D],
         Writes(b, M, D, k),
         lostWrite' \in BOOLEAN, lostWrite => lostWrite',
         \A c \in BatchId \ {b} : Pending(c) = {},
         ~lostWrite' => \/ M.state \in {"unused", "pruned"}
                        \/ Counted(D) /\ Quiet(D) /\ Synced(M, D, Pending(b)'),
         ~lostWrite' => k = 0 \/ TotalRawBytes + k <= MaxRawBytes,
         \A p \in acked' : p \in acked \/ (p[1] = b /\ Sound(D) /\ p[2] \in DOMAIN D.entries),
         \A c \in canceled' : c \in canceled
                              \/ (c = b /\ M.state \in Terminal /\ D.state \in Terminal)
  PROVE  BatchesSound'
<1>1. /\ batches' = [c \in BatchId |-> IF c = b THEN M ELSE batches[c]]
      /\ disk' = [c \in BatchId |-> IF c = b THEN D ELSE disk[c]]
  BY DEF BatchesSound, PairsSound
<1>2. /\ batches'[b] = M /\ disk'[b] = D
      /\ \A c \in BatchId : c # b => batches'[c] = batches[c] /\ disk'[c] = disk[c]
  BY <1>1
<1>3. PairsSound'
  BY <1>1, <1>2 DEF BatchesSound, PairsSound, Writes
<1>4. \A c \in BatchId : c # b => (c \in Live' <=> c \in Live)
  BY <1>2 DEF Live, Exists
<1>5. b \in Live' <=> M.state \notin {"unused", "pruned"}
  BY <1>2 DEF Live, Exists
<1>6. StoreSound'
  <2>1. SUFFICES ASSUME ~lostWrite', NEW c \in Live' PROVE Faithful(c)'
    BY DEF StoreSound
  <2>2. CASE c = b
    BY <1>2, <1>5, <2>1, <2>2 DEF Faithful
  <2>3. CASE c # b
    <3>1. c \in Live /\ ~lostWrite /\ Faithful(c) /\ Pending(c) = {}
      BY <1>4, <2>1, <2>3 DEF BatchesSound, StoreSound, Live
    <3>2. Synced(batches[c], disk[c], Pending(c)')
      BY <3>1 DEF Faithful, Synced
    <3> QED BY <1>2, <2>3, <3>1, <3>2 DEF Faithful, Live
  <2> QED BY <2>2, <2>3
<1>7. WithinBudget'
  <2>1. SUFFICES ASSUME ~lostWrite' PROVE TotalRawBytes' <= MaxRawBytes
    BY DEF WithinBudget
  <2> DEFINE v == [c \in BatchId |-> RawBytesOf(c)]
             w == [c \in BatchId |-> RawBytesOf(c)']
  <2>2. v \in [BatchId -> Int]
    BY RawBytesOfInt DEF BatchesSound, SizesInt
  <2>3. w \in [BatchId -> Int]
    <3>1. (PairsSound => SizesInt)'
      BY RawBytesOfInt, PTL
    <3> QED BY <1>3, <3>1 DEF SizesInt
  <2>4. RawBytesOf(b)' = IF M.state \in {"unused", "pruned"} THEN 0 ELSE M.rawBytes
    BY <1>2, <1>5 DEF RawBytesOf
  <2>5. \A c \in BatchId \ {b} : RawBytesOf(c)' = RawBytesOf(c)
    BY <1>2, <1>4 DEF RawBytesOf
  <2>6. w[b] <= v[b] + k /\ k \in Nat
    BY <2>1, <2>4 DEF Writes
  <2>7. \A c \in BatchId \ {b} : w[c] <= v[c]
    BY <2>2, <2>5
  <2> HIDE DEF v, w
  <2>8. /\ SumOver(v)[BatchId] \in Int /\ SumOver(w)[BatchId] \in Int
        /\ SumOver(w)[BatchId] <= SumOver(v)[BatchId] + k
    BY <2>2, <2>3, <2>6, <2>7, SumGrows
  <2>9. TotalRawBytes = SumOver(v)[BatchId] /\ TotalRawBytes' = SumOver(w)[BatchId]
    BY TotalRawBytesPrimed DEF v, w, TotalRawBytes
  <2>10. TotalRawBytes + k <= MaxRawBytes
    BY <2>1, <2>6, <2>8, <2>9 DEF BatchesSound, WithinBudget
  <2> QED BY <2>6, <2>8, <2>9, <2>10, BucketAssumption
<1>8. AckedStored'
  <2>1. SUFFICES ASSUME NEW p \in acked'
                 PROVE  /\ p[1] \in BatchId
                        /\ \/ disk'[p[1]] = Pruned
                           \/ Exists(disk', p[1]) /\ p[2] \in DOMAIN disk'[p[1]].entries
    BY DEF AckedStored, Exists
  <2>2. Sound(D) => Exists(disk', b)
    BY <1>2, BatchShape, StatesDistinct DEF Exists, Sound
  <2>3. CASE p[1] = b /\ Sound(D) /\ p[2] \in DOMAIN D.entries
    BY <1>2, <2>2, <2>3
  <2>4. CASE p \in acked
    <3>1. p[1] \in BatchId /\ (\/ disk[p[1]] = Pruned
                               \/ Exists(disk, p[1]) /\ p[2] \in DOMAIN disk[p[1]].entries)
      BY <2>4 DEF BatchesSound, AckedStored
    <3>2. CASE p[1] = b
      BY <1>2, <2>2, <3>1, <3>2 DEF Writes
    <3>3. CASE p[1] # b
      BY <1>2, <3>1, <3>3 DEF Exists
    <3> QED BY <3>2, <3>3
  <2> QED BY <2>1, <2>3, <2>4
<1>9. CanceledClosed'
  <2>1. canceled' \subseteq BatchId
    BY DEF BatchesSound, CanceledClosed
  <2>2. ASSUME NEW c \in canceled'
        PROVE  /\ batches'[c].state \in Terminal \cup {"pruned"}
               /\ disk'[c].state \in Terminal \cup {"pruned"}
    <3>1. CASE c = b
      BY <1>2, <2>2, <3>1 DEF BatchesSound, CanceledClosed, Writes
    <3>2. CASE c # b
      BY <1>2, <2>1, <2>2, <3>2 DEF BatchesSound, CanceledClosed
    <3> QED BY <3>1, <3>2
  <2> QED BY <2>1, <2>2 DEF CanceledClosed
<1>10. OrdinaryBatchesExclusive'
  <2>1. SUFFICES ASSUME ~lostWrite', NEW x \in ActiveBatches', NEW y \in ActiveBatches', x # y
                 PROVE  \/ batches'[x].email /\ batches'[y].email
                        \/ batches'[x].done \/ batches'[y].done
    BY DEF OrdinaryBatchesExclusive
  <2>2. \A c \in ActiveBatches' : c # b => c \in ActiveBatches
    BY <1>2 DEF ActiveBatches
  <2>3. ~lostWrite
    BY <2>1
  <2>4. \A c, d \in ActiveBatches : c = d \/ (batches[c].email /\ batches[d].email)
                                    \/ batches[c].done \/ batches[d].done
    BY <2>3 DEF BatchesSound, OrdinaryBatchesExclusive
  <2>5. x \in BatchId /\ y \in BatchId
    BY DEF ActiveBatches
  <2>6. b \in ActiveBatches' => M.state \in Active
    BY <1>2 DEF ActiveBatches
  <2>7. batches[b].state \in Active => b \in ActiveBatches
    BY DEF ActiveBatches
  <2>8. CASE x # b /\ y # b
    BY <1>2, <2>1, <2>2, <2>4, <2>5, <2>8
  <2>9. CASE x = b
    <3>1. y \in ActiveBatches /\ batches'[y] = batches[y] /\ batches'[x] = M
      BY <1>2, <2>1, <2>2, <2>5, <2>9
    <3> QED BY <2>1, <2>4, <2>6, <2>7, <2>9, <3>1 DEF Writes
  <2>10. CASE y = b
    <3>1. x \in ActiveBatches /\ batches'[x] = batches[x] /\ batches'[y] = M
      BY <1>2, <2>1, <2>2, <2>5, <2>10
    <3> QED BY <2>1, <2>4, <2>6, <2>7, <2>10, <3>1 DEF Writes
  <2> QED BY <2>8, <2>9, <2>10
<1> QED BY <1>3, <1>6, <1>7, <1>8, <1>9, <1>10 DEF BatchesSound

LEMMA VersionWrites ==
  ASSUME BatchesSound, NEW b \in Live, NEW B, NEW changed, Version(batches[b], B, changed),
         NEW D, Sound(D), DOMAIN D.entries = DOMAIN B.entries,
         D.state \in Terminal => B.state \in Terminal,
         disk[b].state \in Terminal => D.state \in Terminal
  PROVE  Writes(b, B, D, 0)
<1>1. /\ Sound(batches[b]) /\ Sound(disk[b]) /\ b \in BatchId
      /\ DOMAIN batches[b].entries = DOMAIN disk[b].entries
      /\ disk[b].state \in Terminal => batches[b].state \in Terminal
  BY LiveShape DEF BatchesSound
<1>2. /\ batches[b].state \notin {"unused", "pruned"}
      /\ disk[b].state \notin {"unused", "pruned"}
      /\ B.state \notin {"unused", "pruned"}
      /\ batches[b].rawBytes \in Int /\ B.rawBytes \in Int
  <2>1. batches[b] \in Batch /\ disk[b] \in Batch /\ B \in Batch
    BY <1>1 DEF Sound, Version
  <2>2. \A A \in Batch : A.state \notin {"unused", "pruned"} /\ A.rawBytes \in Int
    BY BatchShape, StatesDistinct
  <2> QED BY ONLY <2>1, <2>2
<1>3. disk[b] # Pruned
  BY <1>2 DEF Pruned
<1>4. RawBytesOf(b) = batches[b].rawBytes
  BY DEF RawBytesOf
<1>5. ~lostWrite => Counted(batches[b])
  BY <1>1, SyncedCounted DEF BatchesSound, StoreSound, Faithful
<1>6. Pair(B, D)
  BY DEF Pair, Version
<1> QED BY <1>1, <1>2, <1>3, <1>4, <1>5, <1>6 DEF Writes, Version

\* A new version is saved, with every entry that memory was ahead of.
LEMMA SaveKeeps ==
  ASSUME BatchesSound, NEW b \in Live, NEW B, NEW changed, Version(batches[b], B, changed),
         Quiet(B), Save(b, B, changed, TRUE),
         Pending(b) \subseteq changed, \A c \in BatchId \ {b} : Pending(c) = {},
         lostWrite' = lostWrite, acked' = acked,
         \A c \in canceled' : c \in canceled \/ (c = b /\ B.state \in Terminal)
  PROVE  BatchesSound'
<1> DEFINE D == Stored(disk[b], B, changed)
<1>1. /\ Sound(batches[b]) /\ Sound(disk[b]) /\ b \in BatchId
      /\ DOMAIN batches[b].entries = DOMAIN disk[b].entries
      /\ disk[b].state \in Terminal => batches[b].state \in Terminal
  BY LiveShape DEF BatchesSound
<1>2. Sound(B) /\ DOMAIN B.entries = DOMAIN batches[b].entries
      /\ (disk[b].state \in Terminal => B.state \in Terminal)
  BY <1>1 DEF Version
<1>3. Sound(D) /\ D.state = B.state /\ DOMAIN D.entries = DOMAIN B.entries
  BY <1>1, <1>2, StoredSound
<1>4. ASSUME ~lostWrite PROVE D = B /\ Counted(B)
  <2>1. Faithful(b)
    BY <1>4 DEF BatchesSound, StoreSound
  <2>2. Counted(B)
    BY <1>1, <2>1, SyncedCounted DEF Faithful, Version
  <2>3. \A i \in DOMAIN B.entries \ changed : B.entries[i] = disk[b].entries[i]
    BY <1>2, <2>1 DEF Faithful, Synced, Version
  <2>4. B \in Batch
    BY <1>2 DEF Sound
  <2> QED BY <2>2, <2>3, <2>4, StoredExact
<1>5. ~lostWrite => Counted(D) /\ Quiet(D) /\ Synced(B, D, Pending(b)')
  <2>1. B \in Batch
    BY <1>2 DEF Sound
  <2> HIDE DEF D
  <2> QED BY <1>4, <2>1, SyncedSelf
<1>6. batches' = [batches EXCEPT ![b] = B] /\ disk' = [disk EXCEPT ![b] = D]
  BY DEF Save
<1> HIDE DEF D
<1>7. Writes(b, B, D, 0)
  BY <1>2, <1>3, VersionWrites
<1>8. lostWrite' \in BOOLEAN /\ (lostWrite => lostWrite')
  BY DEF BatchesSound
<1>9. \A c \in canceled' :
        c \in canceled \/ (c = b /\ B.state \in Terminal /\ D.state \in Terminal)
  BY <1>3
<1>10. ~lostWrite' => B.state \in {"unused", "pruned"}
                      \/ (Counted(D) /\ Quiet(D) /\ Synced(B, D, Pending(b)'))
  BY <1>5
<1> QED BY <1>1, <1>6, <1>7, <1>8, <1>9, <1>10, WriteKeeps

\* A new version stays in memory.
LEMMA MemoryKeeps ==
  ASSUME BatchesSound, NEW b \in Live, NEW B, NEW changed, Version(batches[b], B, changed),
         batches' = [batches EXCEPT ![b] = B], disk' = disk,
         \A c \in BatchId \ {b} : Pending(c) = {},
         lostWrite' \in BOOLEAN, lostWrite => lostWrite', acked' = acked, canceled' = canceled,
         ~lostWrite' => Synced(B, disk[b], Pending(b)')
  PROVE  BatchesSound'
<1>1. /\ Sound(batches[b]) /\ Sound(disk[b]) /\ b \in BatchId
      /\ DOMAIN batches[b].entries = DOMAIN disk[b].entries
      /\ disk[b].state \in Terminal => batches[b].state \in Terminal
  BY LiveShape DEF BatchesSound
<1>2. Writes(b, B, disk[b], 0)
  BY <1>1, VersionWrites DEF Version
<1>3. disk' = [disk EXCEPT ![b] = disk[b]]
  BY DEF BatchesSound, PairsSound
<1>4. ~lostWrite' => Counted(disk[b]) /\ Quiet(disk[b])
  BY DEF BatchesSound, StoreSound, Faithful
<1> QED BY <1>1, <1>2, <1>3, <1>4, WriteKeeps

\* A batch is forgotten.
LEMMA ForgetKeeps ==
  ASSUME BatchesSound, NEW b \in Live, Forget(b),
         \A c \in BatchId \ {b} : Pending(c) = {},
         lostWrite' = lostWrite, acked' = acked, canceled' = canceled
  PROVE  BatchesSound'
<1>1. /\ Sound(batches[b]) /\ Sound(disk[b]) /\ b \in BatchId
      /\ DOMAIN batches[b].entries = DOMAIN disk[b].entries
  BY LiveShape DEF BatchesSound
<1>2. Pruned.state = "pruned" /\ Pair(Pruned, Pruned)
  BY DEF Pruned, Pair
<1>3. ~lostWrite => 0 <= RawBytesOf(b) + 0
  <2>1. SUFFICES ASSUME ~lostWrite PROVE batches[b].rawBytes \in Nat
    BY DEF RawBytesOf
  <2>2. Counted(batches[b])
    BY <1>1, <2>1, SyncedCounted DEF BatchesSound, StoreSound, Faithful
  <2> QED BY <1>1, <2>2, RawCountNat DEF Counted, Sound
<1>4. Writes(b, Pruned, Pruned, 0)
  BY <1>2, <1>3, StatesDistinct DEF Writes
<1>5. lostWrite' \in BOOLEAN
  BY DEF BatchesSound
<1> QED BY <1>1, <1>2, <1>4, <1>5, WriteKeeps DEF Forget

\* No batch changes.
LEMMA NothingKeeps ==
  ASSUME BatchesSound, UNCHANGED <<batches, disk, acked, canceled, lostWrite>>,
         \A c \in BatchId : Pending(c) \subseteq Pending(c)'
  PROVE  BatchesSound' /\ Live' = Live
<1>1. Live' = Live
  BY DEF Live, Exists
<1>2. PairsSound' /\ AckedStored' /\ CanceledClosed' /\ lostWrite' \in BOOLEAN
  BY DEF BatchesSound, PairsSound, AckedStored, CanceledClosed, Exists
<1>3. OrdinaryBatchesExclusive'
  BY DEF BatchesSound, OrdinaryBatchesExclusive, ActiveBatches
<1>4. StoreSound'
  <2>1. ASSUME ~lostWrite, NEW c \in Live PROVE Faithful(c)'
    <3>1. Faithful(c) /\ c \in BatchId
      BY <2>1 DEF BatchesSound, StoreSound, Live
    <3> QED BY <3>1 DEF Faithful, Synced
  <2> QED BY <1>1, <2>1 DEF StoreSound
<1>5. WithinBudget'
  <2>1. TotalRawBytes' = TotalRawBytes
    BY DEF TotalRawBytes, SumOver, RawBytesOf, Live, Exists
  <2> QED BY <2>1 DEF BatchesSound, WithinBudget
<1> QED BY <1>1, <1>2, <1>3, <1>4, <1>5 DEF BatchesSound

(***************************************************************************)
(* The lock                                                                *)
(***************************************************************************)
LEMMA LiveAfter ==
  ASSUME PairsSound, NEW b \in Live, NEW B, batches' = [batches EXCEPT ![b] = B]
  PROVE  Live \ {b} \subseteq Live' /\ (Sound(B) => Live' = Live)
<1>1. \A c \in BatchId : batches'[c] = IF c = b THEN B ELSE batches[c]
  BY DEF PairsSound
<1>2. Sound(B) => B.state \notin {"unused", "pruned"}
  BY BatchShape, StatesDistinct DEF Sound
<1> QED BY <1>1, <1>2 DEF Live, Exists

LEMMA ReleasedLock ==
  ASSUME NEW T, lock' = Released(T), T \subseteq Live'
  PROVE  LockSound' /\ \A c \in BatchId : Pending(c)' = {}
<1>1. CASE T = {}
  <2>1. lock'.phase = "idle"
    BY <1>1 DEF Released, Idle
  <2> QED BY <2>1 DEF LockSound, Passing, Pending
<1>2. CASE T # {}
  <2>1. lock'.phase = "next" /\ lock'.todo = T
    BY <1>2 DEF Released
  <2> QED BY <2>1 DEF LockSound, Passing, Pending
<1> QED BY <1>1, <1>2

LEMMA PassingLock ==
  ASSUME LockSound, lock.phase \in Passing
  PROVE  /\ lock \in PassLock /\ lock.id \in Live /\ lock.id \in BatchId
         /\ lock.todo \subseteq Live /\ lock.id \notin lock.todo
         /\ \A c \in BatchId \ {lock.id} : Pending(c) = {}
  BY DEF LockSound, Pending, Live

\* The end of a pass that has changed the entries of changed.
LEMMA FinishKeeps ==
  ASSUME BucketInv, lock.phase \in Passing, NEW B, NEW changed, NEW write,
         Version(batches[lock.id], B, changed), Quiet(B), Pending(lock.id) \subseteq changed,
         Finish(lock.id, B, changed, write),
         ~write /\ ~lostWrite => B = disk[lock.id],
         acked' = acked, canceled' = canceled
  PROVE  BatchesSound' /\ LockSound'
<1>0. PICK b : b = lock.id
  OBVIOUS
<1>1. /\ b \in Live /\ b \in BatchId /\ lock.todo \subseteq Live \ {b}
      /\ \A c \in BatchId \ {b} : Pending(c) = {}
  BY <1>0, PassingLock DEF BucketInv
<1>2. BatchesSound /\ PairsSound
  BY DEF BucketInv, BatchesSound
<1>3. /\ Sound(B) /\ Version(batches[b], B, changed) /\ Pending(b) \subseteq changed
      /\ ~write /\ ~lostWrite => B = disk[b]
  BY <1>0 DEF Version
<1>4. lock' = Released(lock.todo)
  BY DEF Finish
<1>5. ASSUME Forget(b), UNCHANGED lostWrite PROVE BatchesSound' /\ lock.todo \subseteq Live'
  <2>1. BatchesSound'
    BY <1>1, <1>2, <1>5, ForgetKeeps
  <2>2. lock.todo \subseteq Live'
    BY <1>1, <1>2, <1>5, LiveAfter DEF Forget
  <2> QED BY <2>1, <2>2
<1>6. ASSUME Save(b, B, changed, write), UNCHANGED lostWrite
      PROVE  BatchesSound' /\ lock.todo \subseteq Live'
  <2>1. batches' = [batches EXCEPT ![b] = B]
    BY <1>6 DEF Save
  <2>2. lock.todo \subseteq Live'
    BY <1>1, <1>2, <2>1, LiveAfter
  <2>3. CASE write
    <3>1. Save(b, B, changed, TRUE)
      BY <1>6, <2>3 DEF Save
    <3>2. BatchesSound'
      BY <1>1, <1>2, <1>3, <1>6, <3>1, SaveKeeps
    <3> QED BY <2>2, <3>2
  <2>4. CASE ~write
    <3>1. disk' = disk
      BY <1>6, <2>4 DEF Save
    <3>2. ~lostWrite' => Synced(B, disk[b], Pending(b)')
      BY <1>3, <1>6, <2>4, SyncedSelf DEF Sound
    <3>3. lostWrite' \in BOOLEAN /\ (lostWrite => lostWrite')
      BY <1>2, <1>6 DEF BatchesSound
    <3>4. BatchesSound'
      BY <1>1, <1>2, <1>3, <2>1, <3>1, <3>2, <3>3, MemoryKeeps
    <3> QED BY <2>2, <3>4
  <2> QED BY <2>3, <2>4
<1>7. ASSUME lostWrite' = TRUE, batches' = [batches EXCEPT ![b] = B], UNCHANGED disk
      PROVE  BatchesSound' /\ lock.todo \subseteq Live'
  <2>1. lock.todo \subseteq Live'
    BY <1>1, <1>2, <1>7, LiveAfter
  <2>2. BatchesSound'
    BY <1>1, <1>2, <1>3, <1>7, MemoryKeeps
  <2> QED BY <2>1, <2>2
<1>8. BatchesSound' /\ lock.todo \subseteq Live'
  BY <1>0, <1>5, <1>6, <1>7 DEF Finish
<1> QED BY <1>4, <1>8, ReleasedLock

(***************************************************************************)
(* The steps of the bucket                                                 *)
(***************************************************************************)
LEMMA NodeStands ==
  ASSUME NodeSound, UNCHANGED Node
  PROVE  NodeSound'
  BY DEF NodeSound, Node, OnePerNonce

\* The lock is taken for a pass over b.
LEMMA SchedulingLock ==
  ASSUME NEW b \in Live', NEW T, T \subseteq Live' \ {b}, NEW ticking \in BOOLEAN,
         lock' = Scheduling(b, T, ticking)
  PROVE  LockSound' /\ \A c \in BatchId : Pending(c)' = {}
<1>1. lock'.phase = "nonce" /\ lock'.todo = T /\ lock'.id = b
  BY DEF Scheduling
<1>2. lock' \in PassLock
  BY DEF Scheduling, PassLock, Passing, Live
<1> QED BY <1>1, <1>2 DEF LockSound, Passing, Pending

LEMMA IdleLock ==
  ASSUME lock.phase \in {"idle", "next"}
  PROVE  \A c \in BatchId : Pending(c) = {}
  BY DEF Pending

LEMMA StatusStep ==
  ASSUME BucketInv, NEW b \in BatchId, Status(b) PROVE BucketInv'
<1>1. BatchesSound' /\ Live' = Live
  BY IdleLock, NothingKeeps DEF BucketInv, Status, Unlocked
<1>2. LockSound'
  BY <1>1, SchedulingLock DEF Status, Live
<1>3. NodeSound'
  BY NodeStands DEF BucketInv, Status
<1> QED BY <1>1, <1>2, <1>3 DEF BucketInv

LEMMA RunStep ==
  ASSUME BucketInv, Run PROVE BucketInv'
<1>1. BatchesSound' /\ Live' = Live
  BY IdleLock, NothingKeeps DEF BucketInv, Run, Unlocked
<1>2. LockSound'
  <2>1. lock'.phase = "next" /\ lock'.todo = Live
    BY DEF Run
  <2> QED BY <1>1, <2>1 DEF LockSound, Passing
<1>3. NodeSound'
  BY NodeStands DEF BucketInv, Run
<1> QED BY <1>1, <1>2, <1>3 DEF BucketInv

LEMMA RunNextStep ==
  ASSUME BucketInv, RunNext PROVE BucketInv'
<1>1. BatchesSound' /\ Live' = Live
  BY IdleLock, NothingKeeps DEF BucketInv, RunNext
<1>2. LockSound'
  <2>1. PICK b \in lock.todo : lock' = Scheduling(b, lock.todo \ {b}, TRUE)
    BY DEF RunNext
  <2>2. lock.todo \subseteq Live
    BY DEF BucketInv, LockSound, RunNext
  <2> QED BY <1>1, <2>1, <2>2, SchedulingLock
<1>3. NodeSound'
  BY NodeStands DEF BucketInv, RunNext
<1> QED BY <1>1, <1>2, <1>3 DEF BucketInv

LEMMA CanonNonce ==
  ASSUME NodeSound
  PROVE  CanonicalNonce \in 0..MaxNonce
<1>1. canon \in Seq(Tx) /\ Len(canon) \in Nat
  BY LenProperties DEF NodeSound
<1>2. CASE Len(canon) = 0
  BY <1>1, <1>2, BucketAssumption DEF CanonicalNonce
<1>3. CASE Len(canon) > 0
  <2>1. Len(canon) \in 1..Len(canon)
    BY <1>1, <1>3
  <2>2. canon[Len(canon)] \in Tx /\ canon[Len(canon)].nonce = Len(canon) - 1
    BY <1>1, <2>1, ElementOfSeq DEF NodeSound
  <2> QED BY <1>1, <2>2, BucketAssumption DEF Tx, CanonicalNonce
<1> QED BY <1>1, <1>2, <1>3

LEMMA ReadNonceStep ==
  ASSUME BucketInv, ReadNonce PROVE BucketInv'
<1>1. /\ lock.phase = "nonce" /\ lock.phase \in Passing /\ acked' = acked
      /\ canceled' = canceled /\ UNCHANGED Node
  BY DEF ReadNonce, Passing
<1>2. /\ lock \in PassLock /\ lock.id \in Live /\ lock.todo \subseteq Live \ {lock.id}
      /\ \A c \in BatchId : Pending(c) = {}
  BY <1>1, PassingLock DEF BucketInv, Pending
<1>3. NodeSound'
  BY <1>1, NodeStands DEF BucketInv
<1>4. CASE /\ lock' = [lock EXCEPT !.phase = "reconcile", !.nonce = CanonicalNonce]
           /\ UNCHANGED <<batches, disk, faults, lostWrite>>
  <2>1. BatchesSound' /\ Live' = Live
    BY <1>1, <1>2, <1>4, NothingKeeps DEF BucketInv
  <2>2. CanonicalNonce \in Nat
    BY CanonNonce DEF BucketInv
  <2>3. lock' \in PassLock /\ lock'.phase = "reconcile" /\ lock'.id = lock.id
        /\ lock'.todo = lock.todo
    BY <1>2, <1>4, <2>2 DEF PassLock, Passing
  <2>4. LockSound'
    BY <1>2, <2>1, <2>3 DEF LockSound, Passing
  <2> QED BY <1>3, <2>1, <2>4 DEF BucketInv
<1>5. CASE /\ lock' = Released(lock.todo) /\ UNCHANGED lostWrite
           /\ IF Prunable(batches[lock.id]) THEN Forget(lock.id) ELSE UNCHANGED <<batches, disk>>
  <2>1. CASE Forget(lock.id)
    <3>1. BatchesSound'
      BY <1>1, <1>2, <1>5, <2>1, ForgetKeeps DEF BucketInv
    <3>2. lock.todo \subseteq Live'
      BY <1>2, <2>1, LiveAfter DEF Forget, BucketInv, BatchesSound
    <3> QED BY <1>3, <1>5, <3>1, <3>2, ReleasedLock DEF BucketInv
  <2>2. CASE UNCHANGED <<batches, disk>>
    <3>1. BatchesSound' /\ Live' = Live
      BY <1>1, <1>2, <1>5, <2>2, NothingKeeps DEF BucketInv
    <3> QED BY <1>2, <1>3, <1>5, <3>1, ReleasedLock DEF BucketInv
  <2> QED BY <1>5, <2>1, <2>2
<1> QED BY <1>4, <1>5 DEF ReadNonce

LEMMA CancelStep ==
  ASSUME BucketInv, NEW b \in BatchId, Cancel(b) PROVE BucketInv'
<1> DEFINE B == Withdrawn(batches[b])
           S == WithStatus(batches[b], {"queued"})
<1>1. /\ b \in Live /\ lock.phase = "idle" /\ lock' = lock /\ UNCHANGED Node /\ acked' = acked
      /\ \A c \in BatchId : Pending(c) = {}
  BY IdleLock DEF Cancel, Unlocked, Live
<1>2. BatchesSound /\ PairsSound /\ Sound(batches[b])
  BY <1>1, LiveShape DEF BucketInv, BatchesSound
<1>3. Version(batches[b], B, S) /\ B.state = "canceled"
  BY <1>2, WithdrawnVersion
<1>4. B.state \in Terminal /\ Quiet(B)
  BY <1>3 DEF Terminal, Quiet
<1> HIDE DEF B, S
<1>5. ASSUME Save(b, B, S, TRUE), canceled' = canceled \cup {b},
             UNCHANGED <<faults, lostWrite>>
      PROVE  BatchesSound'
  <2>1. \A c \in canceled' : c \in canceled \/ (c = b /\ B.state \in Terminal)
    BY <1>4, <1>5
  <2> QED BY <1>1, <1>2, <1>3, <1>4, <1>5, <2>1, SaveKeeps
<1>6. ASSUME batches' = [batches EXCEPT ![b] = B], lostWrite' = TRUE,
             UNCHANGED <<disk, canceled>>
      PROVE  BatchesSound'
  BY <1>1, <1>2, <1>3, <1>6, MemoryKeeps
<1>7. BatchesSound'
  BY <1>5, <1>6 DEF Cancel, B, S
<1>8. LockSound'
  BY <1>1 DEF LockSound, Passing
<1>9. NodeSound'
  BY <1>1, NodeStands DEF BucketInv
<1> QED BY <1>7, <1>8, <1>9 DEF BucketInv

LEMMA QueueStep ==
  ASSUME BucketInv, NEW b \in BatchId, Queue(b) PROVE BucketInv'
<1> DEFINE M == batches[b]
           B == Extended(M)
           n == Len(B.entries)
           D == Stored(disk[b], B, {n})
<1>1. /\ M.state \in Active /\ lock.phase = "idle" /\ UNCHANGED Node /\ InRange(M)
      /\ canceled' = canceled /\ lostWrite' = lostWrite
      /\ TotalRawBytes + 1 <= MaxRawBytes
      /\ \A c \in BatchId : Pending(c) = {}
  BY IdleLock DEF Queue, Unlocked
<1>2. b \in Live
  BY <1>1, StatesDistinct DEF Live, Exists
<1>3. /\ BatchesSound /\ PairsSound /\ Sound(M) /\ Sound(disk[b])
      /\ DOMAIN M.entries = DOMAIN disk[b].entries
      /\ disk[b].state \in Terminal => M.state \in Terminal
  BY <1>2, LiveShape DEF BucketInv, BatchesSound
<1>4. NodeSound'
  BY <1>1, NodeStands DEF BucketInv
<1>5. CASE /\ batches' = [batches EXCEPT ![b] = B] /\ disk' = QueueWrites(b, B)
           /\ acked' = acked \cup {<<b, n>>} /\ lock' = Scheduling(b, {}, FALSE)
  <2>1. /\ Sound(B) /\ B.state \in Active
        /\ B.email = M.email /\ B.done = M.done /\ B.rawBytes = M.rawBytes + 1
        /\ DOMAIN M.entries \subseteq DOMAIN B.entries /\ n \in DOMAIN B.entries
        /\ \A i \in DOMAIN B.entries \ {n} :
              i \in DOMAIN M.entries /\ B.entries[i] = M.entries[i]
        /\ Counted(M) => Counted(B)
        /\ Quiet(M) => Quiet(B)
    BY <1>1, <1>3, ExtendedSound
  <2>2. M.state \notin Terminal /\ B.state \notin Terminal /\ M.state \notin {"unused", "pruned"}
        /\ B.state \notin {"unused", "pruned"} /\ M.state # "pruned"
    BY <1>1, <2>1, StatesDistinct
  <2>3. Sound(D) /\ D.state = B.state /\ DOMAIN D.entries = DOMAIN B.entries
    <3> HIDE DEF B, M, n
    <3> QED BY <1>3, <2>1, <2>2, StoredSound
  <2>4. disk' = [disk EXCEPT ![b] = D]
    BY <1>5 DEF QueueWrites
  <2>5. Live' = Live /\ LockSound'
    <3> HIDE DEF B
    <3>1. Live' = Live
      BY <1>2, <1>3, <1>5, <2>1, LiveAfter
    <3> QED BY <1>2, <1>5, <3>1, SchedulingLock
  <2>6. ASSUME ~lostWrite PROVE Counted(D) /\ Quiet(D) /\ D = B
    <3>1. Faithful(b) /\ Synced(M, disk[b], {})
      BY <1>1, <1>2, <1>3, <2>6 DEF BatchesSound, StoreSound, Faithful
    <3>2. M = disk[b]
      <4> HIDE DEF M
      <4> QED BY <1>3, <3>1, SyncedSame
    <3>3. Counted(B) /\ Quiet(B)
      BY <2>1, <3>1, <3>2 DEF Faithful
    <3>4. D = B
      <4>1. B \in Batch
        BY <2>1 DEF Sound
      <4> HIDE DEF B, M, n
      <4> QED BY <2>1, <3>2, <4>1, StoredExact
    <3> QED BY <3>3, <3>4
  <2>7. Writes(b, B, D, 1)
    <3>1. RawBytesOf(b) = M.rawBytes /\ M.rawBytes \in Int
      BY <1>2, <1>3, BatchShape DEF RawBytesOf, Sound
    <3>2. Pair(B, D)
      <4> HIDE DEF B, D, M, n
      <4> QED BY <2>1, <2>2, <2>3 DEF Pair
    <3>3. disk[b] # Pruned /\ disk[b].state \notin Terminal \cup {"pruned"}
      <4>1. disk[b].state \notin {"unused", "pruned"}
        BY <1>3, BatchShape, StatesDistinct DEF Sound
      <4> QED BY <1>3, <2>2, <4>1 DEF Pruned
    <3>4. batches[b].state \notin Terminal \cup {"pruned"} /\ batches[b].state \in Active
          /\ B.email = batches[b].email /\ B.done = batches[b].done
      BY <1>1, <2>1, <2>2
    <3>5. DOMAIN disk[b].entries \subseteq DOMAIN D.entries
      BY <1>3, <2>1, <2>3
    <3>6. (IF B.state \in {"unused", "pruned"} THEN 0 ELSE B.rawBytes) <= RawBytesOf(b) + 1
      BY <2>1, <2>2, <3>1
    <3> HIDE DEF B, D, M, n
    <3> QED BY <2>3, <3>2, <3>3, <3>4, <3>5, <3>6 DEF Writes
  <2>8. BatchesSound'
    <3>1. \A p \in acked' : p \in acked \/ (p[1] = b /\ Sound(D) /\ p[2] \in DOMAIN D.entries)
      <4> HIDE DEF B, D, n
      <4> QED BY <1>5, <2>1, <2>3
    <3>2. lostWrite' \in BOOLEAN
      BY <1>1, <1>3 DEF BatchesSound
    <3>3. ~lostWrite' => Counted(D) /\ Quiet(D) /\ Synced(B, D, Pending(b)')
      <4>1. B \in Batch
        BY <2>1 DEF Sound
      <4> HIDE DEF B, D
      <4> QED BY <1>1, <2>6, <4>1, SyncedSelf
    <3> HIDE DEF B, D, M, n
    <3> QED BY <1>1, <1>3, <1>5, <2>4, <2>7, <3>1, <3>2, <3>3, WriteKeeps
  <2> QED BY <1>4, <2>5, <2>8 DEF BucketInv
<1>6. CASE /\ batches' = [batches EXCEPT ![b] = Rollback(B, M)] /\ UNCHANGED <<disk, acked, lock>>
  <2>1. Rollback(B, M) = M
    BY <1>3, RollbackUndoes DEF Sound
  <2>2. batches' = batches
    BY <1>3, <1>6, <2>1 DEF PairsSound
  <2>3. BatchesSound' /\ Live' = Live
    BY <1>1, <1>3, <1>6, <2>2, NothingKeeps
  <2>4. LockSound'
    BY <1>1, <1>6 DEF LockSound, Passing
  <2> QED BY <1>4, <2>3, <2>4 DEF BucketInv
<1> QED BY <1>5, <1>6 DEF Queue

(***************************************************************************)
(* The steps of a pass                                                     *)
(***************************************************************************)
LEMMA VersionWeaken ==
  ASSUME NEW A, NEW B, NEW c, NEW d, Version(A, B, c), c \subseteq d
  PROVE  Version(A, B, d)
  BY DEF Version

LEMMA PassFacts ==
  ASSUME BucketInv, lock.phase \in Passing
  PROVE  LET b == lock.id
         IN  /\ lock \in PassLock /\ b \in Live /\ b \in BatchId
             /\ lock.todo \subseteq Live \ {b}
             /\ \A c \in BatchId \ {b} : Pending(c) = {}
             /\ Sound(batches[b]) /\ Sound(disk[b])
             /\ DOMAIN batches[b].entries = DOMAIN disk[b].entries
             /\ disk[b].state \in Terminal => batches[b].state \in Terminal
             /\ ~lostWrite => Faithful(b)
  BY PassingLock, LiveShape DEF BucketInv, BatchesSound, StoreSound

LEMMA SubmitPhase ==
  ASSUME BucketInv, lock.phase = "submit"
  PROVE  /\ lock.phase \in Passing /\ batches[lock.id].state \notin Terminal
         /\ Pending(lock.id) = lock.changed
  BY DEF BucketInv, LockSound, Passing, Pending

\* The entry that the loop comes to is the first one that can be sent.
LEMMA NextToSendFirst ==
  ASSUME NEW B, Sound(B), Sendable(B) # {}
  PROVE  /\ NextToSend(B) \in Sendable(B)
         /\ \A j \in Sendable(B) : NextToSend(B) <= j
<1>1. Sendable(B) \subseteq Nat
  BY BatchShape, EntriesShape DEF Sound, Sendable, WithStatus
<1>2. \E x \in Sendable(B) : \A y \in Sendable(B) : x <= y
  BY <1>1, LeastOfNaturals
<1> QED BY <1>2 DEF NextToSend, Least

LEMMA ReconcileStep ==
  ASSUME BucketInv, Reconcile PROVE BucketInv'
<1>0. PICK b : b = lock.id
  OBVIOUS
<1> DEFINE B == batches[b]
           R == Reconciled(b)
           X == Expiry(R)
<1>1. /\ lock.phase = "reconcile" /\ lock.phase \in Passing
      /\ UNCHANGED Node /\ acked' = acked /\ canceled' = canceled
  BY DEF Reconcile, Passing
<1>2. /\ lock \in PassLock /\ b \in Live /\ b \in BatchId
      /\ lock.todo \subseteq Live \ {b}
      /\ \A c \in BatchId : Pending(c) = {}
      /\ Sound(B) /\ Sound(disk[b])
      /\ DOMAIN B.entries = DOMAIN disk[b].entries
      /\ ~lostWrite => Faithful(b)
  BY <1>0, <1>1, PassFacts DEF Pending
<1>3. ~lostWrite => B = disk[b]
  <2>1. ~lostWrite => Synced(B, disk[b], {})
    BY <1>2 DEF Faithful
  <2> HIDE DEF B
  <2> QED BY <1>2, <2>1, SyncedSame
<1>4. /\ Version(B, R, Differ(B, R))
      /\ R.state \notin Terminal => R = [B EXCEPT !.entries = R.entries]
      /\ Differ(B, R) = {} => R = B
      /\ \A i \in DOMAIN B.entries : R.entries[i].raw = B.entries[i].raw
  BY <1>2, ReconciledVersion
<1>5. Sound(R)
  BY <1>4 DEF Version
<1>6. NodeSound'
  BY <1>1, NodeStands DEF BucketInv
<1> HIDE DEF R
<1>7. CASE IsClosed(R) /\ Finish(b, R, Differ(B, R), Differ(B, R) # {})
  <2>1. Quiet(R)
    BY <1>7 DEF IsClosed, Quiet
  <2>2. BatchesSound' /\ LockSound'
    BY <1>0, <1>1, <1>2, <1>3, <1>4, <1>7, <2>1, FinishKeeps
  <2> QED BY <1>6, <2>2 DEF BucketInv
<1>8. CASE Finish(b, X, Differ(B, X), TRUE)
  <2>1. Version(R, X, WithStatus(R, {"queued"})) /\ X.state = "expired"
    BY <1>5, ExpiryVersion
  <2> HIDE DEF X
  <2>2. Version(B, X, Differ(B, R) \cup WithStatus(R, {"queued"}))
    BY <1>2, <1>4, <2>1, VersionTrans
  <2>3. Version(B, X, Differ(B, X)) /\ Quiet(X)
    BY <2>1, <2>2, VersionDiffer DEF Quiet, Terminal
  <2>4. BatchesSound' /\ LockSound'
    BY <1>0, <1>1, <1>2, <1>8, <2>3, FinishKeeps
  <2> QED BY <1>6, <2>4 DEF BucketInv
<1>9. CASE /\ ~IsClosed(R)
           /\ batches' = [batches EXCEPT ![b] = R]
           /\ lock' = [lock EXCEPT !.phase = "submit", !.changed = Differ(B, R)]
           /\ UNCHANGED <<disk, faults, lostWrite>>
  <2>1. Differ(B, R) \subseteq Nat
    BY <1>2, BatchShape, EntriesShape DEF Differ, Sound
  <2>2. /\ lock' \in PassLock /\ lock'.phase = "submit" /\ lock'.id = b
        /\ lock'.todo = lock.todo /\ lock'.changed = Differ(B, R)
    <3> HIDE DEF B
    <3> QED BY <1>0, <1>2, <1>9, <2>1 DEF PassLock, Passing
  <2>3. Pending(b)' = Differ(B, R)
    BY <2>2 DEF Pending
  <2>4. ~lostWrite' => Synced(R, disk[b], Pending(b)')
    <3>1. SUFFICES ASSUME ~lostWrite PROVE Synced(R, B, Differ(B, R))
      BY <1>3, <1>9, <2>3
    <3>2. R = [B EXCEPT !.entries = R.entries]
      BY <1>4, <1>9 DEF IsClosed
    <3>3. DOMAIN R.entries = DOMAIN B.entries
      BY <1>4 DEF Version
    <3> HIDE DEF B
    <3> QED BY <1>4, <3>2, <3>3 DEF Synced, Differ
  <2>5. BatchesSound'
    <3>1. lostWrite' \in BOOLEAN /\ (lostWrite => lostWrite')
      BY <1>9 DEF BucketInv, BatchesSound
    <3> QED BY <1>1, <1>2, <1>4, <1>9, <2>4, <3>1, MemoryKeeps DEF BucketInv
  <2>6. Live' = Live /\ batches'[b] = R
    BY <1>2, <1>5, <1>9, LiveAfter DEF BucketInv, BatchesSound, PairsSound
  <2>7. LockSound'
    BY <1>2, <1>9, <2>2, <2>6 DEF LockSound, Passing, IsClosed
  <2> QED BY <1>6, <2>5, <2>7 DEF BucketInv
<1> QED BY <1>0, <1>7, <1>8, <1>9 DEF Reconcile, R

LEMMA TxOfType ==
  ASSUME NEW b \in BatchId, Sound(batches[b]), NEW i \in DOMAIN batches[b].entries
  PROVE  TxOf(b, i) \in Tx
<1>1. /\ batches[b].base \in 0..(MaxNonce - 1) /\ batches[b].expected \in 1..MaxExpected
      /\ batches[b].entries \in Entries
  BY BatchShape DEF Sound
<1>2. i \in 1..Len(batches[b].entries) /\ Len(batches[b].entries) \in Nat
  BY <1>1, EntriesShape
<1>3. /\ Len(batches[b].entries) <= batches[b].expected
      /\ batches[b].base + batches[b].expected <= MaxNonce
  BY DEF Sound
<1>4. \A n, e, l, j, m \in Nat :
         (j >= 1 /\ j <= l /\ l <= e /\ n + e <= m) => n + j - 1 \in 0..(m - 1)
  OBVIOUS
<1>5. MaxNonce \in Nat /\ MaxExpected \in Nat
  BY BucketAssumption
<1>6. /\ batches[b].base \in Nat /\ batches[b].expected \in Nat
      /\ i \in Nat /\ i >= 1 /\ i <= Len(batches[b].entries)
  BY ONLY <1>1, <1>2, <1>5
<1>7. batches[b].base + i - 1 \in 0..(MaxNonce - 1)
  BY ONLY <1>2, <1>3, <1>4, <1>5, <1>6
<1> QED BY <1>7 DEF TxOf, Tx

\* Another transaction of the same nonce gives way in the tracker.
LEMMA TrackSound ==
  ASSUME NodeSound, NEW tx \in Tx
  PROVE  Track(tx) \subseteq Tx /\ OnePerNonce(Track(tx))
  BY DEF NodeSound, Track, OnePerNonce

\* The pool takes a transaction.
LEMMA PoolTakes ==
  ASSUME NodeSound, NEW tx \in Tx, tx \in pool \/ PoolAccepts(tx)
  PROVE  /\ pool \cup {tx} \subseteq Tx /\ OnePerNonce(pool \cup {tx})
         /\ \A t \in pool \cup {tx} : t.nonce >= Len(canon)
  BY DEF NodeSound, PoolAccepts, PoolNonces, OnePerNonce

LEMMA SubmitStep ==
  ASSUME BucketInv, Submit PROVE BucketInv'
<1>0. PICK b : b = lock.id
  OBVIOUS
<1> DEFINE B == batches[b]
           i == NextToSend(B)
           A == Attempted(B, i, "submitted")
           tx == TxOf(b, i)
<1>1. /\ lock.phase = "submit" /\ MaySend(B) /\ (tx \in pool \/ PoolAccepts(tx))
      /\ batches' = [batches EXCEPT ![b] = A]
      /\ lock' = [lock EXCEPT !.changed = @ \cup {i}]
      /\ pool' = pool \cup {tx}
      /\ tracked' = IF tx \in pool THEN tracked ELSE Track(tx)
      /\ entered' = entered \cup {tx}
      /\ UNCHANGED <<canon, disk, faults, acked, canceled, lostWrite>>
  BY <1>0 DEF Submit
<1>2. /\ lock \in PassLock /\ b \in Live /\ b \in BatchId
      /\ lock.todo \subseteq Live \ {b}
      /\ \A c \in BatchId \ {b} : Pending(c) = {}
      /\ Sound(B) /\ Sound(disk[b])
      /\ DOMAIN B.entries = DOMAIN disk[b].entries
      /\ ~lostWrite => Faithful(b)
      /\ B.state \notin Terminal /\ Pending(b) = lock.changed
  BY <1>0, <1>1, PassFacts, SubmitPhase
<1>3. i \in Sendable(B)
  BY <1>1, <1>2, NextToSendFirst DEF MaySend
<1>4. i \in DOMAIN B.entries /\ i \in Nat
  <2>1. i \in DOMAIN B.entries
    BY <1>3 DEF Sendable, WithStatus
  <2> QED BY <1>2, <2>1, BatchShape, EntriesShape DEF Sound
<1>5. tx \in Tx
  <2> HIDE DEF i
  <2> QED BY <1>2, <1>4, TxOfType
<1>6. NodeSound'
  <2>1. canon' \in Seq(Tx) /\ \A j \in 1..Len(canon') : canon'[j].nonce = j - 1
    BY <1>1 DEF BucketInv, NodeSound
  <2> HIDE DEF tx
  <2>2. pool' \subseteq Tx /\ OnePerNonce(pool') /\ \A t \in pool' : t.nonce >= Len(canon')
    BY <1>1, <1>5, PoolTakes DEF BucketInv
  <2>3. tracked' \subseteq Tx /\ OnePerNonce(tracked') /\ entered' \subseteq Tx
    BY <1>1, <1>5, TrackSound DEF BucketInv, NodeSound
  <2> QED BY <2>1, <2>2, <2>3 DEF NodeSound, OnePerNonce
<1>7. /\ Version(B, A, {i}) /\ A.state = B.state
      /\ A = [B EXCEPT !.entries = A.entries]
      /\ \A j \in DOMAIN B.entries : A.entries[j].raw = B.entries[j].raw
  <2> HIDE DEF i
  <2> QED BY <1>2, <1>3, AttemptedVersion
<1> HIDE DEF A, i, tx
<1>8. /\ lock' \in PassLock /\ lock'.phase = "submit" /\ lock'.id = b
      /\ lock'.todo = lock.todo /\ lock'.changed = lock.changed \cup {i}
  BY <1>0, <1>1, <1>2, <1>4 DEF PassLock, Passing
<1>9. ~lostWrite' => Synced(A, disk[b], Pending(b)')
  <2>1. SUFFICES ASSUME ~lostWrite PROVE Synced(A, disk[b], lock.changed \cup {i})
    BY <1>1, <1>8 DEF Pending
  <2>2. Synced(B, disk[b], lock.changed)
    BY <1>2, <2>1 DEF Faithful
  <2>3. DOMAIN A.entries = DOMAIN B.entries
        /\ \A j \in DOMAIN B.entries \ {i} : A.entries[j] = B.entries[j]
    BY <1>7 DEF Version
  <2>4. disk[b] \in Batch /\ B \in Batch
    BY <1>2 DEF Sound
  <2> HIDE DEF B
  <2>5. A = [disk[b] EXCEPT !.entries = A.entries]
    BY <1>7, <2>2, <2>4 DEF Synced, Batch
  <2> QED BY <1>7, <2>2, <2>3, <2>5 DEF Synced
<1>10. BatchesSound'
  <2>1. lostWrite' \in BOOLEAN /\ (lostWrite => lostWrite')
    BY <1>1 DEF BucketInv, BatchesSound
  <2> QED BY <1>1, <1>2, <1>7, <1>9, <2>1, MemoryKeeps DEF BucketInv
<1>11. Live' = Live /\ batches'[b] = A
  BY <1>1, <1>2, <1>7, LiveAfter DEF BucketInv, BatchesSound, PairsSound, Version
<1>12. LockSound'
  BY <1>2, <1>7, <1>8, <1>11 DEF LockSound, Passing
<1> QED BY <1>6, <1>10, <1>12 DEF BucketInv

\* An attempt that was put off, settled.
LEMMA PutOffVersion ==
  ASSUME BucketInv, lock.phase = "submit", MaySend(batches[lock.id])
  PROVE  LET B == batches[lock.id]
             i == NextToSend(B)
             S == Settled(Attempted(B, i, "queued"))
         IN  Version(B, S, lock.changed \cup {i}) /\ Quiet(S)
<1> DEFINE B == batches[lock.id]
           i == NextToSend(B)
           A == Attempted(B, i, "queued")
           S == Settled(A)
<1>1. Sound(B) /\ B.state \notin Terminal
  BY PassFacts, SubmitPhase
<1>2. i \in Sendable(B)
  BY <1>1, NextToSendFirst DEF MaySend
<1>3. Version(B, A, {i}) /\ A.state = B.state
  <2> HIDE DEF i, B
  <2> QED BY <1>1, <1>2, AttemptedVersion
<1>4. Sound(A) /\ A.state \notin Terminal
  BY <1>1, <1>3 DEF Version
<1>5. Version(A, S, {}) /\ Quiet(S)
  <2> HIDE DEF A
  <2> QED BY <1>4, SettledVersion
<1>6. Version(B, S, {i} \cup {})
  <2> HIDE DEF A, S, B, i
  <2> QED BY <1>1, <1>3, <1>5, VersionTrans
<1>7. Version(B, S, lock.changed \cup {i})
  <2> HIDE DEF A, S, B, i
  <2> QED BY <1>6, VersionWeaken
<1> QED BY <1>5, <1>7

LEMMA SubmitRejectedStep ==
  ASSUME BucketInv, SubmitRejected PROVE BucketInv'
<1> DEFINE B == batches[lock.id]
           i == NextToSend(B)
           S == Settled(Attempted(B, i, "queued"))
<1>1. /\ lock.phase = "submit" /\ MaySend(B) /\ UNCHANGED Node /\ acked' = acked
      /\ canceled' = canceled /\ Finish(lock.id, S, lock.changed \cup {i}, TRUE)
  BY DEF SubmitRejected
<1>2. Version(B, S, lock.changed \cup {i}) /\ Quiet(S)
  BY <1>1, PutOffVersion
<1>3. lock.phase \in Passing /\ Pending(lock.id) = lock.changed
  BY <1>1, SubmitPhase
<1>4. BatchesSound' /\ LockSound'
  <2> HIDE DEF S, i
  <2> QED BY <1>1, <1>2, <1>3, FinishKeeps
<1>5. NodeSound'
  BY <1>1, NodeStands DEF BucketInv
<1> QED BY <1>4, <1>5 DEF BucketInv

LEMMA SettleStep ==
  ASSUME BucketInv, Settle PROVE BucketInv'
<1> DEFINE B == batches[lock.id]
           S == Settled(B)
<1>1. /\ lock.phase = "submit" /\ UNCHANGED Node /\ acked' = acked
      /\ canceled' = canceled /\ Finish(lock.id, S, lock.changed, lock.changed # {})
  BY DEF Settle
<1>2. /\ lock.phase \in Passing /\ Pending(lock.id) = lock.changed /\ B.state \notin Terminal
      /\ Sound(B) /\ Sound(disk[lock.id])
      /\ DOMAIN B.entries = DOMAIN disk[lock.id].entries
      /\ ~lostWrite => Faithful(lock.id)
  BY <1>1, SubmitPhase, PassFacts
<1>3. Version(B, S, {}) /\ Quiet(S)
  <2> HIDE DEF B
  <2> QED BY <1>2, SettledVersion
<1>4. Version(B, S, lock.changed)
  <2> HIDE DEF B, S
  <2> QED BY <1>3, VersionWeaken
<1>5. lock.changed = {} /\ ~lostWrite => S = disk[lock.id]
  <2>1. SUFFICES ASSUME lock.changed = {}, ~lostWrite PROVE S = disk[lock.id]
    OBVIOUS
  <2>2. Synced(B, disk[lock.id], {}) /\ Quiet(disk[lock.id])
    BY <1>2, <2>1 DEF Faithful
  <2>3. B = disk[lock.id]
    <3> HIDE DEF B
    <3> QED BY <1>2, <2>2, SyncedSame
  <2>4. Settled(B) = B
    BY <1>2, <2>2, <2>3 DEF Quiet
  <2> QED BY <2>3, <2>4
<1>6. BatchesSound' /\ LockSound'
  <2> HIDE DEF S
  <2> QED BY <1>1, <1>2, <1>3, <1>4, <1>5, FinishKeeps
<1>7. NodeSound'
  BY <1>1, NodeStands DEF BucketInv
<1> QED BY <1>6, <1>7 DEF BucketInv

LEMMA SubmitDeferredStep ==
  ASSUME BucketInv, SubmitDeferred PROVE BucketInv'
<1>0. PICK b : b = lock.id
  OBVIOUS
<1> DEFINE B == batches[b]
           i == NextToSend(B)
           S == Settled(Attempted(B, i, "queued"))
           tx == TxOf(b, i)
<1>1. /\ lock.phase = "submit" /\ MaySend(B) /\ acked' = acked /\ canceled' = canceled
      /\ UNCHANGED <<canon, pool, entered>> /\ lostWrite' = lostWrite
      /\ tracked' \in {tracked, Track(tx)}
      /\ IF Prunable(B) THEN Forget(b) ELSE Save(b, S, lock.changed \cup {i}, TRUE)
      /\ lock' = Released(lock.todo)
  BY <1>0 DEF SubmitDeferred
<1>2. /\ b \in Live /\ b \in BatchId /\ lock.todo \subseteq Live \ {b} /\ Sound(B)
      /\ Pending(b) = lock.changed /\ \A c \in BatchId \ {b} : Pending(c) = {}
  BY <1>0, <1>1, SubmitPhase, PassFacts
<1>3. Version(B, S, lock.changed \cup {i}) /\ Quiet(S)
  BY <1>0, <1>1, PutOffVersion
<1>4. NodeSound'
  <2>1. i \in DOMAIN B.entries
    BY <1>1, <1>2, NextToSendFirst DEF MaySend, Sendable, WithStatus
  <2>2. tx \in Tx
    <3> HIDE DEF i
    <3> QED BY <1>2, <2>1, TxOfType
  <2> HIDE DEF tx
  <2>3. tracked' \subseteq Tx /\ OnePerNonce(tracked')
    BY <1>1, <2>2, TrackSound DEF BucketInv, NodeSound
  <2> QED BY <1>1, <2>3 DEF BucketInv, NodeSound, OnePerNonce
<1> HIDE DEF S, i
<1>5. BatchesSound' /\ lock.todo \subseteq Live'
  <2>1. CASE Forget(b)
    <3>1. BatchesSound'
      BY <1>1, <1>2, <2>1, ForgetKeeps DEF BucketInv
    <3>2. lock.todo \subseteq Live'
      BY <1>2, <2>1, LiveAfter DEF Forget, BucketInv, BatchesSound
    <3> QED BY <3>1, <3>2
  <2>2. CASE Save(b, S, lock.changed \cup {i}, TRUE)
    <3>0. /\ BatchesSound /\ Pending(b) \subseteq lock.changed \cup {i}
          /\ \A c \in canceled' : c \in canceled
      BY <1>1, <1>2 DEF BucketInv
    <3>1. BatchesSound'
      BY <1>1, <1>2, <1>3, <2>2, <3>0, SaveKeeps, ZenonT(60)
    <3>2. lock.todo \subseteq Live'
      BY <1>2, <2>2, LiveAfter DEF Save, BucketInv, BatchesSound
    <3> QED BY <3>1, <3>2
  <2> QED BY <1>1, <2>1, <2>2
<1>6. LockSound'
  BY <1>1, <1>5, ReleasedLock
<1> QED BY <1>4, <1>5, <1>6 DEF BucketInv

LEMMA SubmitFailsStep ==
  ASSUME BucketInv, SubmitFails PROVE BucketInv'
<1>0. PICK b : b = lock.id
  OBVIOUS
<1> DEFINE B == batches[b]
           i == NextToSend(B)
           F == Discard(Closed(Attempted(B, i, "queued"), "failed"), {i}, "failed")
<1>1. /\ lock.phase = "submit" /\ MaySend(B) /\ acked' = acked /\ canceled' = canceled
      /\ UNCHANGED Node /\ lostWrite' = lostWrite
      /\ Save(b, F, lock.changed \cup {i}, TRUE)
      /\ lock' = Released(lock.todo)
  BY <1>0 DEF SubmitFails
<1>2. /\ b \in Live /\ b \in BatchId /\ lock.todo \subseteq Live \ {b} /\ Sound(B)
      /\ B.state \notin Terminal
      /\ Pending(b) = lock.changed /\ \A c \in BatchId \ {b} : Pending(c) = {}
  BY <1>0, <1>1, SubmitPhase, PassFacts
<1>3. i \in Sendable(B)
  BY <1>1, <1>2, NextToSendFirst DEF MaySend
<1>4. Version(B, F, {i}) /\ F.state = "failed"
  <2> HIDE DEF i, B
  <2> QED BY <1>2, <1>3, FailedVersion
<1> HIDE DEF F, i
<1>5. Version(B, F, lock.changed \cup {i}) /\ Quiet(F)
  BY <1>4, VersionWeaken DEF Quiet, Terminal
<1>6. BatchesSound'
  <2>1. /\ BatchesSound /\ Pending(b) \subseteq lock.changed \cup {i}
        /\ \A c \in canceled' : c \in canceled
    BY <1>1, <1>2 DEF BucketInv
  <2> QED BY <1>1, <1>2, <1>5, <2>1, SaveKeeps, ZenonT(60)
<1>7. lock.todo \subseteq Live'
  BY <1>1, <1>2, LiveAfter DEF Save, BucketInv, BatchesSound
<1>8. NodeSound'
  BY <1>1, NodeStands DEF BucketInv
<1> QED BY <1>1, <1>6, <1>7, <1>8, ReleasedLock DEF BucketInv

(***************************************************************************)
(* Begin                                                                   *)
(***************************************************************************)
LEMMA PoolNonceType ==
  ASSUME NodeSound
  PROVE  /\ Len(canon) \in Nat
         /\ PoolNonce \in Len(canon)..MaxNonce
         /\ PoolNonce \notin PoolNonces
<1> DEFINE C == {n \in Len(canon)..MaxNonce : n \notin PoolNonces}
<1>1. Len(canon) \in 0..MaxNonce
  BY CanonNonce DEF CanonicalNonce
<1>2. MaxNonce \in C
  <2>1. MaxNonce \notin PoolNonces
    BY BucketAssumption DEF PoolNonces, NodeSound, Tx
  <2> QED BY <1>1, <2>1, BucketAssumption
<1>3. C \subseteq Nat
  BY <1>1
<1>4. \E x \in C : \A y \in C : x <= y
  <2> HIDE DEF C
  <2> QED BY <1>2, <1>3, LeastOfNaturals
<1>5. PoolNonce \in C
  <2>1. PoolNonce = CHOOSE x \in C : \A y \in C : x <= y
    BY DEF PoolNonce, Least
  <2> HIDE DEF C
  <2> QED BY <1>4, <2>1
<1> QED BY <1>1, <1>5

LEMMA NextSenderNonceType ==
  ASSUME BucketInv
  PROVE  NextSenderNonce \in 0..MaxNonce
<1> DEFINE C == {PoolNonce} \cup {batches[b].base + batches[b].expected : b \in ActiveBatches}
<1>1. PoolNonce \in 0..MaxNonce
  BY PoolNonceType DEF BucketInv
<1>2. ASSUME NEW b \in ActiveBatches
      PROVE  batches[b].base + batches[b].expected \in 0..MaxNonce
  <2>1. Sound(batches[b])
    BY LiveShape DEF BucketInv, BatchesSound
  <2>2. batches[b].base \in 0..(MaxNonce - 1) /\ batches[b].expected \in 1..MaxExpected
    BY <2>1, BatchShape DEF Sound
  <2> QED BY <2>1, <2>2, BucketAssumption, SMTT(20) DEF Sound
<1>3. C \subseteq 0..MaxNonce /\ C # {}
  BY <1>1, <1>2
<1>4. \E x \in C : \A y \in C : y <= x
  <2> HIDE DEF C
  <2> QED BY <1>3, BucketAssumption, LargestOfNaturals
<1>5. NextSenderNonce \in C
  <2>1. NextSenderNonce = CHOOSE x \in C : \A y \in C : y <= x
    BY DEF NextSenderNonce, Largest
  <2> HIDE DEF C
  <2> QED BY <1>4, <2>1
<1> QED BY <1>3, <1>5

LEMMA BeginStep ==
  ASSUME BucketInv, NEW b \in BatchId, NEW n \in 1..MaxExpected, NEW email \in BOOLEAN,
         Begin(b, n, email)
  PROVE  BucketInv'
<1> DEFINE N == NextSenderNonce
           st == IF n = 1 THEN "processing" ELSE "receiving"
           B == [state |-> st, base |-> N, expected |-> n, email |-> email,
                 rawBytes |-> 1, ttl |-> ActiveTTL, done |-> FALSE, age |-> 0,
                 entries |-> <<NewEntry>>]
<1>1. /\ lock.phase = "idle" /\ batches[b] = Unused /\ ValidNewBatch(n, email)
      /\ N + n <= MaxNonce /\ TotalRawBytes + 1 <= MaxRawBytes
      /\ batches' = [batches EXCEPT ![b] = B] /\ disk' = [disk EXCEPT ![b] = B]
      /\ acked' = acked \cup {<<b, 1>>} /\ lock' = Scheduling(b, {}, FALSE)
      /\ UNCHANGED Node /\ canceled' = canceled /\ lostWrite' = lostWrite
  BY DEF Begin, Unlocked
<1>2. BatchesSound /\ PairsSound /\ \A c \in BatchId : Pending(c) = {}
  BY <1>1, IdleLock DEF BucketInv, BatchesSound
<1>3. disk[b] = Unused
  BY <1>1, <1>2, PairShape DEF PairsSound, Unused
<1>4. N \in 0..(MaxNonce - 1) /\ n \in Nat
  <2>1. N \in 0..MaxNonce
    BY NextSenderNonceType
  <2> HIDE DEF N
  <2> QED BY <1>1, <2>1, BucketAssumption
<1> HIDE DEF N
<1>5. /\ <<NewEntry>> \in Entries /\ Len(<<NewEntry>>) = 1 /\ DOMAIN <<NewEntry>> = 1..1
      /\ <<NewEntry>>[1] = NewEntry
  <2>1. NewEntry \in Entry
    <3>1. 0 \in 0..RetryInterval
      BY BucketAssumption
    <3> QED BY <3>1 DEF NewEntry, Entry
  <2>2. <<NewEntry>> \in [1..1 -> Entry]
    BY <2>1
  <2>3. 1 \in 1..MaxExpected
    BY BucketAssumption
  <2> QED BY <2>2, <2>3, EntriesFrom
<1>6. B \in Batch
  <2>1. 0 \in 0..(Retention + 1) /\ ActiveTTL \in 0..ActiveTTL
    BY BucketAssumption
  <2> QED BY <1>4, <1>5, <2>1 DEF Batch, Active
<1>7. B.state = st /\ st \in Active /\ B.entries = <<NewEntry>> /\ B.done = FALSE
      /\ B.email = email /\ B.expected = n /\ B.base = N /\ B.rawBytes = 1
  BY DEF Active
<1> HIDE DEF B
<1>8. NewEntry.raw = TRUE /\ NewEntry.status = "queued"
  BY DEF NewEntry
<1>9. Sound(B)
  <2>1. \A i \in DOMAIN B.entries : B.entries[i] = NewEntry
    BY <1>5, <1>7
  <2>2. B.state # "completed"
    BY <1>7, StatesDistinct
  <2>3. Len(B.entries) <= B.expected /\ B.base + B.expected <= MaxNonce
    BY <1>1, <1>4, <1>5, <1>7
  <2> QED BY <1>6, <1>8, <2>1, <2>2, <2>3 DEF Sound, GaveUp
<1>10. Counted(B)
  <2>1. {i \in DOMAIN B.entries : B.entries[i].raw} = {1}
    BY <1>5, <1>7, <1>8
  <2> QED BY <1>7, <2>1, FS_Singleton DEF Counted, RawCount
<1>11. Quiet(B)
  <2>1. WithStatus(B, {"confirmed"}) = {}
    BY <1>5, <1>7, <1>8 DEF WithStatus
  <2>2. Cardinality(WithStatus(B, {"confirmed"})) # B.expected
    BY <1>4, <1>7, <2>1, FS_EmptySet
  <2>3. Settled(B) = [B EXCEPT !.state = st]
    BY <1>5, <1>7, <2>2 DEF Settled
  <2>4. Settled(B) = B
    BY <1>6, <1>7, <2>3 DEF Batch
  <2> QED BY <2>4 DEF Quiet
<1>12. Writes(b, B, B, 1)
  <2>1. Pair(B, B)
    BY <1>9 DEF Pair
  <2>2. batches[b].state = "unused" /\ disk[b].state = "unused" /\ disk[b] # Pruned
        /\ "unused" \notin Terminal \cup {"pruned"} /\ ~Exists(disk, b) /\ b \notin Live
    BY <1>1, <1>3 DEF Unused, Pruned, Terminal, Exists, Live
  <2>3. \A c \in ActiveBatches : B.email /\ batches[c].email
    BY <1>1, <1>7 DEF ValidNewBatch
  <2>4. RawBytesOf(b) = 0
    BY <2>2 DEF RawBytesOf
  <2>5. (IF B.state \in {"unused", "pruned"} THEN 0 ELSE B.rawBytes) <= RawBytesOf(b) + 1
    BY <1>7, <2>4
  <2> QED BY <2>1, <2>2, <2>3, <2>5 DEF Writes
<1>13. BatchesSound'
  <2>1. \A p \in acked' : p \in acked \/ (p[1] = b /\ Sound(B) /\ p[2] \in DOMAIN B.entries)
    BY <1>1, <1>5, <1>7, <1>9
  <2>2. lostWrite' \in BOOLEAN
    BY <1>1, <1>2 DEF BatchesSound
  <2> QED BY <1>1, <1>2, <1>6, <1>10, <1>11, <1>12, <2>1, <2>2, SyncedSelf, WriteKeeps
<1>14. LockSound'
  <2>1. b \in Live'
    <3>1. batches'[b] = B
      BY <1>1, <1>2 DEF PairsSound
    <3> QED BY <1>7, <3>1, StatesDistinct DEF Live, Exists
  <2> QED BY <1>1, <2>1, SchedulingLock
<1>15. NodeSound'
  BY <1>1, NodeStands DEF BucketInv
<1> QED BY <1>13, <1>14, <1>15 DEF BucketInv

(***************************************************************************)
(* The steps of the node                                                   *)
(***************************************************************************)
LEMMA OthersStand ==
  ASSUME BucketInv, UNCHANGED Others
  PROVE  LockSound' /\ BatchesSound'
<1>1. \A c \in BatchId : Pending(c)' = Pending(c)
  BY DEF Others, Pending
<1>2. BatchesSound' /\ Live' = Live
  BY <1>1, NothingKeeps DEF BucketInv, Others
<1> QED BY <1>2 DEF BucketInv, LockSound, Others

\* The chain grows by the transaction of the next nonce.
LEMMA CanonGrows ==
  ASSUME NodeSound, NEW tx \in Tx, tx.nonce = Len(canon)
  PROVE  LET c == Append(canon, tx)
         IN  /\ c \in Seq(Tx) /\ Len(c) = Len(canon) + 1
             /\ \A i \in 1..Len(c) : c[i].nonce = i - 1
<1> DEFINE c == Append(canon, tx)
<1>1. canon \in Seq(Tx) /\ Len(canon) \in Nat
  BY LenProperties DEF NodeSound
<1>2. /\ c \in Seq(Tx) /\ Len(c) = Len(canon) + 1
      /\ \A i \in 1..Len(canon) : c[i] = canon[i]
      /\ c[Len(canon) + 1] = tx
  BY <1>1, AppendProperties
<1> HIDE DEF c
<1>3. ASSUME NEW i \in 1..Len(c) PROVE c[i].nonce = i - 1
  <2>1. CASE i = Len(canon) + 1
    BY <1>1, <1>2, <2>1
  <2>2. CASE i # Len(canon) + 1
    <3>1. i \in 1..Len(canon)
      BY <1>1, <1>2, <2>2
    <3> QED BY <1>2, <3>1 DEF NodeSound
  <2> QED BY <2>1, <2>2
<1> QED BY <1>2, <1>3 DEF c

LEMMA MineStep ==
  ASSUME BucketInv, Mine PROVE BucketInv'
<1>1. PICK tx \in pool :
        /\ tx.nonce = Len(canon) /\ canon' = Append(canon, tx) /\ pool' = pool \ {tx}
        /\ UNCHANGED <<Others, tracked, faults, entered>>
  BY DEF Mine
<1>2. LockSound' /\ BatchesSound'
  BY <1>1, OthersStand
<1>3. NodeSound /\ tx \in Tx /\ Len(canon) \in Nat
  BY LenProperties DEF BucketInv, NodeSound
<1>4. /\ canon' \in Seq(Tx) /\ Len(canon') = Len(canon) + 1
      /\ \A i \in 1..Len(canon') : canon'[i].nonce = i - 1
  BY <1>1, <1>3, CanonGrows
<1>5. \A t \in pool' : t.nonce >= Len(canon')
  <2>1. ASSUME NEW t \in pool' PROVE t.nonce >= Len(canon) + 1
    <3>1. t \in pool /\ t # tx /\ t \in Tx /\ t.nonce \in Int
      BY <1>1, <1>3 DEF NodeSound, Tx
    <3>2. t.nonce >= Len(canon) /\ t.nonce # Len(canon)
      BY <1>1, <1>3, <3>1 DEF NodeSound, OnePerNonce
    <3> QED BY <1>3, <3>1, <3>2
  <2> QED BY <1>4, <2>1
<1>6. pool' \subseteq Tx /\ OnePerNonce(pool') /\ tracked' = tracked /\ entered' = entered
  BY <1>1, <1>3 DEF NodeSound, OnePerNonce
<1> QED BY <1>2, <1>3, <1>4, <1>5, <1>6 DEF BucketInv, NodeSound, OnePerNonce

LEMMA ForeignTransactionStep ==
  ASSUME BucketInv, ForeignTransaction PROVE BucketInv'
<1>1. PICK n \in Len(canon)..PoolNonce :
        LET tx == [nonce |-> n, owner |-> Foreign]
            rest == {t \in pool : t.nonce # n}
        IN  /\ n < MaxNonce
            /\ \/ canon' = canon /\ pool' = rest \cup {tx}
               \/ n = Len(canon) /\ canon' = Append(canon, tx) /\ pool' = rest
            /\ entered' = entered \cup {tx}
            /\ UNCHANGED <<Others, tracked>>
  BY DEF ForeignTransaction
<1> DEFINE tx == [nonce |-> n, owner |-> Foreign]
           rest == {t \in pool : t.nonce # n}
<1>2. NodeSound /\ Len(canon) \in Nat /\ n \in Int /\ n >= Len(canon) /\ n < MaxNonce
  BY <1>1, PoolNonceType DEF BucketInv
<1>3. tx \in Tx /\ tx.nonce = n
  BY <1>2, BucketAssumption DEF Tx
<1>4. LockSound' /\ BatchesSound'
  BY <1>1, OthersStand
<1>5. rest \subseteq Tx /\ OnePerNonce(rest) /\ \A t \in rest : t.nonce >= Len(canon)
  BY <1>2 DEF NodeSound, OnePerNonce
<1>6. entered' \subseteq Tx /\ tracked' = tracked
  BY <1>1, <1>2, <1>3 DEF NodeSound
<1>7. CASE canon' = canon /\ pool' = rest \cup {tx}
  <2>1. OnePerNonce(pool') /\ pool' \subseteq Tx
    BY <1>3, <1>5, <1>7 DEF OnePerNonce
  <2>2. \A t \in pool' : t.nonce >= Len(canon')
    BY <1>2, <1>3, <1>5, <1>7
  <2>3. NodeSound'
    BY <1>2, <1>6, <1>7, <2>1, <2>2 DEF NodeSound, OnePerNonce
  <2> QED BY <1>4, <2>3 DEF BucketInv
<1>8. CASE n = Len(canon) /\ canon' = Append(canon, tx) /\ pool' = rest
  <2> HIDE DEF tx
  <2>1. /\ canon' \in Seq(Tx) /\ Len(canon') = Len(canon) + 1
        /\ \A i \in 1..Len(canon') : canon'[i].nonce = i - 1
    BY <1>2, <1>3, <1>8, CanonGrows
  <2>2. \A t \in pool' : t.nonce >= Len(canon')
    <3>1. ASSUME NEW t \in rest PROVE t.nonce >= Len(canon) + 1
      <4>1. t.nonce \in Int /\ t.nonce >= Len(canon) /\ t.nonce # Len(canon)
        BY <1>5, <1>8 DEF Tx
      <4> QED BY <1>2, <4>1
    <3> QED BY <1>8, <2>1, <3>1
  <2>3. OnePerNonce(pool') /\ pool' \subseteq Tx
    BY <1>5, <1>8
  <2>4. NodeSound'
    BY <1>2, <1>6, <2>1, <2>2, <2>3 DEF NodeSound, OnePerNonce
  <2> QED BY <1>4, <2>4 DEF BucketInv
<1> QED BY <1>1, <1>7, <1>8

LEMMA ReorgStep ==
  ASSUME BucketInv, Reorg PROVE BucketInv'
<1> DEFINE n == Len(canon)
           tx == canon[n]
           rest == SubSeq(canon, 1, n - 1)
           other == [nonce |-> tx.nonce, owner |-> Foreign]
<1>1. /\ canon # <<>>
      /\ \/ canon' = rest /\ pool' \in {pool, pool \cup {tx}} /\ UNCHANGED entered
         \/ canon' = Append(rest, other) /\ entered' = entered \cup {other} /\ UNCHANGED pool
      /\ UNCHANGED <<Others, tracked>>
  BY DEF Reorg
<1>2. NodeSound /\ canon \in Seq(Tx) /\ n \in Nat \ {0}
  BY <1>1, EmptySeq DEF BucketInv, NodeSound
<1>3. LockSound' /\ BatchesSound'
  BY <1>1, OthersStand
<1>4. tx \in Tx /\ tx.nonce = n - 1
  <2>1. n \in 1..n
    BY <1>2
  <2> QED BY <1>2, <2>1, ElementOfSeq DEF NodeSound
<1>5. other \in Tx /\ other.nonce = n - 1
  BY <1>4 DEF Tx
<1>6. /\ rest \in Seq(Tx) /\ Len(rest) = n - 1
      /\ \A i \in 1..Len(rest) : rest[i].nonce = i - 1
  <2>1. \A i \in 1..(n - 1) : canon[i] \in Tx /\ canon[i].nonce = i - 1
    BY <1>2, ElementOfSeq DEF NodeSound
  <2>2. /\ rest \in Seq(Tx) /\ Len(rest) = IF 1 <= n - 1 THEN n - 1 - 1 + 1 ELSE 0
        /\ \A i \in 1..(n - 1 - 1 + 1) : rest[i] = canon[1 + i - 1]
    <3>1. 1 \in Int /\ n - 1 \in Int
      BY <1>2
    <3> HIDE DEF n
    <3> QED BY <2>1, <3>1, SubSeqProperties
  <2>3. Len(rest) = n - 1
    <3>1. Len(rest) = IF 1 <= n - 1 THEN n - 1 - 1 + 1 ELSE 0
      BY <2>2
    <3> HIDE DEF rest, n
    <3>2. CASE n = 1
      BY <3>1, <3>2
    <3>3. CASE n # 1
      BY <1>2, <3>1, <3>3
    <3> QED BY <3>2, <3>3
  <2>4. ASSUME NEW i \in 1..(n - 1) PROVE rest[i].nonce = i - 1
    <3>1. 1 + i - 1 = i /\ i \in 1..(n - 1 - 1 + 1)
      BY <1>2
    <3>2. rest[i] = canon[i]
      <4> HIDE DEF rest
      <4> QED BY <2>2, <3>1
    <3> QED BY <2>1, <3>2
  <2> HIDE DEF rest
  <2> QED BY <2>2, <2>3, <2>4
<1>7. \A t \in pool : t \in Tx /\ t.nonce \in Int /\ t.nonce >= n
  BY <1>2 DEF NodeSound, Tx
<1> HIDE DEF rest, tx, other
<1>8. CASE canon' = rest /\ pool' \in {pool, pool \cup {tx}} /\ UNCHANGED entered
  <2>1. pool' \subseteq Tx /\ OnePerNonce(pool')
    BY <1>2, <1>4, <1>7, <1>8 DEF NodeSound, OnePerNonce
  <2>2. \A t \in pool' : t.nonce >= Len(canon')
    <3>1. n - 1 <= n /\ \A t \in pool : t.nonce >= n - 1
      BY <1>2, <1>7
    <3> QED BY <1>2, <1>4, <1>6, <1>8, <3>1
  <2>3. NodeSound'
    BY <1>1, <1>2, <1>6, <1>8, <2>1, <2>2 DEF NodeSound, OnePerNonce
  <2> QED BY <1>3, <2>3 DEF BucketInv
<1>9. CASE canon' = Append(rest, other) /\ entered' = entered \cup {other} /\ UNCHANGED pool
  <2>1. /\ canon' \in Seq(Tx) /\ Len(canon') = Len(rest) + 1
        /\ \A i \in 1..Len(rest) : canon'[i] = rest[i]
        /\ canon'[Len(rest) + 1] = other
    BY <1>5, <1>6, <1>9, AppendProperties
  <2>2. Len(canon') = n
    BY <1>2, <1>6, <2>1
  <2>3. ASSUME NEW i \in 1..Len(canon') PROVE canon'[i].nonce = i - 1
    <3>1. CASE i = n
      BY <1>2, <1>5, <1>6, <2>1, <3>1
    <3>2. CASE i # n
      <4>1. i \in 1..Len(rest)
        BY <1>2, <1>6, <2>2, <3>2
      <4> QED BY <1>6, <2>1, <4>1
    <3> QED BY <3>1, <3>2
  <2>4. entered' \subseteq Tx
    BY <1>2, <1>5, <1>9 DEF NodeSound
  <2>5. NodeSound'
    BY <1>1, <1>2, <1>9, <2>1, <2>2, <2>3, <2>4 DEF NodeSound, OnePerNonce
  <2> QED BY <1>3, <2>5 DEF BucketInv
<1> QED BY <1>1, <1>8, <1>9

LEMMA EvictStep ==
  ASSUME BucketInv, Evict PROVE BucketInv'
<1>1. LockSound' /\ BatchesSound'
  BY OthersStand DEF Evict
<1>2. NodeSound'
  BY DEF BucketInv, NodeSound, OnePerNonce, Evict
<1> QED BY <1>1, <1>2 DEF BucketInv

LEMMA RecheckStep ==
  ASSUME BucketInv, Recheck PROVE BucketInv'
<1> DEFINE kept == {t \in tracked : t.nonce >= PoolNonce}
           lost == {t \in kept : PoolAccepts(t)}
<1>1. /\ tracked' = kept /\ pool' = pool \cup lost /\ entered' = entered \cup lost
      /\ UNCHANGED <<Others, canon>>
  BY DEF Recheck
<1>2. LockSound' /\ BatchesSound'
  BY <1>1, OthersStand
<1>3. NodeSound
  BY DEF BucketInv
<1>4. kept \subseteq Tx /\ OnePerNonce(kept) /\ lost \subseteq kept
  BY <1>3 DEF NodeSound, OnePerNonce
<1>5. \A t \in lost : t.nonce >= Len(canon) /\ \A u \in pool : u.nonce # t.nonce
  BY DEF PoolAccepts, PoolNonces
<1> HIDE DEF kept, lost
<1>6. OnePerNonce(pool')
  BY <1>1, <1>3, <1>4, <1>5 DEF NodeSound, OnePerNonce
<1>7. NodeSound'
  BY <1>1, <1>3, <1>4, <1>5, <1>6 DEF NodeSound, OnePerNonce
<1> QED BY <1>2, <1>7 DEF BucketInv

(***************************************************************************)
(* Crash and time                                                          *)
(***************************************************************************)
LEMMA CrashStep ==
  ASSUME BucketInv, Crash PROVE BucketInv'
<1>1. /\ batches' = disk /\ disk' = disk /\ lock' = Idle /\ pool' = {}
      /\ UNCHANGED <<canon, tracked, entered, acked, canceled, lostWrite>>
  BY DEF Crash
<1>2. BatchesSound /\ PairsSound
  BY DEF BucketInv, BatchesSound
<1>3. lock'.phase = "idle" /\ \A c \in BatchId : Pending(c)' = {}
  BY <1>1 DEF Idle, Pending
<1>4. Live' = Live
  BY <1>1, <1>2, LiveShape DEF Live, Exists
<1>5. PairsSound'
  <2>1. \A b \in BatchId : Pair(disk[b], disk[b])
    BY <1>2 DEF PairsSound, Pair
  <2> QED BY <1>1, <1>2, <2>1 DEF PairsSound
<1>6. StoreSound'
  <2>1. ASSUME ~lostWrite, NEW b \in Live PROVE Faithful(b)'
    <3>1. Faithful(b) /\ disk[b] \in Batch
      BY <1>2, <2>1, LiveShape DEF BatchesSound, StoreSound, Sound
    <3> QED BY <1>1, <3>1, SyncedSelf DEF Faithful
  <2> QED BY <1>1, <1>4, <2>1 DEF StoreSound
<1>7. ASSUME ~lostWrite, NEW b \in Live
      PROVE  /\ disk[b].rawBytes = batches[b].rawBytes /\ disk[b].state = batches[b].state
             /\ disk[b].email = batches[b].email /\ disk[b].done = batches[b].done
  BY <1>2, <1>7, LiveShape, SyncedCounted DEF BatchesSound, StoreSound, Faithful
<1>8. WithinBudget'
  <2>1. SUFFICES ASSUME ~lostWrite PROVE TotalRawBytes' <= MaxRawBytes
    BY <1>1 DEF WithinBudget
  <2>2. [b \in BatchId |-> RawBytesOf(b)'] = [b \in BatchId |-> RawBytesOf(b)]
    BY <1>1, <1>4, <1>7, <2>1 DEF RawBytesOf
  <2>3. TotalRawBytes' = TotalRawBytes
    BY <2>2, TotalRawBytesPrimed DEF TotalRawBytes
  <2> QED BY <1>2, <2>1, <2>3 DEF BatchesSound, WithinBudget
<1>9. AckedStored' /\ CanceledClosed' /\ lostWrite' \in BOOLEAN
  BY <1>1, <1>2 DEF BatchesSound, AckedStored, CanceledClosed, Exists
<1>10. OrdinaryBatchesExclusive'
  <2>1. SUFFICES ASSUME ~lostWrite,
                        NEW x \in ActiveBatches', NEW y \in ActiveBatches', x # y
                 PROVE  \/ disk[x].email /\ disk[y].email
                        \/ disk[x].done \/ disk[y].done
    BY <1>1 DEF OrdinaryBatchesExclusive
  <2>2. x \in Live' /\ y \in Live'
    BY StatesDistinct DEF ActiveBatches, Live, Exists
  <2>3. x \in Live /\ y \in Live
    BY <1>4, <2>2
  <2>4. x \in ActiveBatches /\ y \in ActiveBatches
    BY <1>1, <1>7, <2>1, <2>3 DEF ActiveBatches
  <2> QED BY <1>2, <1>7, <2>1, <2>3, <2>4 DEF BatchesSound, OrdinaryBatchesExclusive
<1>11. LockSound' /\ NodeSound'
  BY <1>1, <1>3 DEF LockSound, Passing, BucketInv, NodeSound, OnePerNonce
<1> QED BY <1>5, <1>6, <1>8, <1>9, <1>10, <1>11 DEF BucketInv, BatchesSound

LEMMA TickStep ==
  ASSUME BucketInv, Tick PROVE BucketInv'
<1>1. /\ batches' = [b \in BatchId |-> Aged(batches[b])]
      /\ disk' = [b \in BatchId |-> Aged(disk[b])]
      /\ lock.phase = "idle" /\ UNCHANGED Node
      /\ UNCHANGED <<lock, acked, canceled, lostWrite>>
  BY DEF Tick, Unlocked
<1>2. BatchesSound /\ PairsSound /\ \A c \in BatchId : Pending(c) = {} /\ Pending(c)' = {}
  BY <1>1, IdleLock DEF BucketInv, BatchesSound, Pending
<1>3. Aged(Unused) = Unused /\ Aged(Pruned) = Pruned
  BY DEF Aged, Unused, Pruned
<1>4. \A b \in BatchId : Pair(Aged(batches[b]), Aged(disk[b]))
  <2> TAKE b \in BatchId
  <2>1. Pair(batches[b], disk[b])
    BY <1>2 DEF PairsSound
  <2>2. CASE b \notin Live
    <3>1. \/ batches[b] = Unused /\ disk[b] = Unused
          \/ batches[b] = Pruned /\ disk[b] = Pruned
      BY <2>1, <2>2, PairShape DEF Live, Exists
    <3> QED BY <1>3, <3>1 DEF Pair
  <2>3. CASE b \in Live
    BY <1>2, <2>3, LiveShape, AgedSound DEF Pair
  <2> QED BY <2>2, <2>3
<1>5. PairsSound'
  BY <1>1, <1>4 DEF PairsSound
<1>6. \A b \in BatchId : batches'[b].state = batches[b].state /\ disk'[b].state = disk[b].state
  <2> TAKE b \in BatchId
  <2>1. Pair(batches[b], disk[b])
    BY <1>2 DEF PairsSound
  <2>2. CASE b \notin Live
    <3>1. \/ batches[b] = Unused /\ disk[b] = Unused
          \/ batches[b] = Pruned /\ disk[b] = Pruned
      BY <2>1, <2>2, PairShape DEF Live, Exists
    <3> QED BY <1>1, <1>3, <3>1
  <2>3. CASE b \in Live
    BY <1>1, <1>2, <2>3, LiveShape, AgedSound
  <2> QED BY <2>2, <2>3
<1>7. Live' = Live /\ ActiveBatches' = ActiveBatches
  BY <1>6 DEF Live, Exists, ActiveBatches
<1>8. \A b \in Live : /\ batches'[b].email = batches[b].email
                      /\ batches'[b].done = batches[b].done
                      /\ batches'[b].rawBytes = batches[b].rawBytes
                      /\ DOMAIN disk'[b].entries = DOMAIN disk[b].entries
  BY <1>1, <1>2, LiveShape, AgedSound
<1>9. StoreSound'
  <2>1. ASSUME ~lostWrite, NEW b \in Live PROVE Faithful(b)'
    <3>1. Faithful(b) /\ Sound(batches[b]) /\ Sound(disk[b]) /\ b \in BatchId
          /\ DOMAIN batches[b].entries = DOMAIN disk[b].entries
      BY <1>2, <2>1, LiveShape DEF BatchesSound, StoreSound
    <3>2. batches[b] = disk[b]
      BY <1>2, <3>1, SyncedSame DEF Faithful
    <3>3. Counted(Aged(disk[b])) /\ Quiet(Aged(disk[b])) /\ Aged(disk[b]) \in Batch
      BY <3>1, AgedSound DEF Faithful, Sound
    <3>4. Synced(Aged(disk[b]), Aged(disk[b]), {})
      BY <3>3, SyncedSelf
    <3> QED BY <1>1, <1>2, <3>1, <3>2, <3>3, <3>4 DEF Faithful
  <2> QED BY <1>1, <1>7, <2>1 DEF StoreSound
<1>10. WithinBudget'
  <2>1. [b \in BatchId |-> RawBytesOf(b)'] = [b \in BatchId |-> RawBytesOf(b)]
    BY <1>7, <1>8 DEF RawBytesOf
  <2>2. TotalRawBytes' = TotalRawBytes
    BY <2>1, TotalRawBytesPrimed DEF TotalRawBytes
  <2> QED BY <1>1, <1>2, <2>2 DEF BatchesSound, WithinBudget
<1>11. AckedStored'
  <2>1. SUFFICES ASSUME NEW p \in acked
                 PROVE  /\ p[1] \in BatchId
                        /\ \/ disk'[p[1]] = Pruned
                           \/ Exists(disk', p[1]) /\ p[2] \in DOMAIN disk'[p[1]].entries
    BY <1>1 DEF AckedStored, Exists
  <2>2. p[1] \in BatchId /\ (\/ disk[p[1]] = Pruned
                             \/ Exists(disk, p[1]) /\ p[2] \in DOMAIN disk[p[1]].entries)
    BY <1>2 DEF BatchesSound, AckedStored
  <2>3. CASE disk[p[1]] = Pruned
    BY <1>1, <1>3, <2>2, <2>3
  <2>4. CASE Exists(disk, p[1]) /\ p[2] \in DOMAIN disk[p[1]].entries
    <3>1. p[1] \in Live /\ Exists(disk', p[1])
      BY <1>2, <1>6, <2>2, <2>4, LiveShape DEF Exists
    <3> QED BY <1>8, <2>2, <2>4, <3>1
  <2> QED BY <2>2, <2>3, <2>4
<1>12. CanceledClosed' /\ lostWrite' \in BOOLEAN
  BY <1>1, <1>2, <1>6 DEF BatchesSound, CanceledClosed
<1>13. OrdinaryBatchesExclusive'
  <2>1. ActiveBatches \subseteq Live
    BY <1>2, LiveShape
  <2> QED BY <1>1, <1>2, <1>7, <1>8, <2>1, SMTT(20) DEF BatchesSound, OrdinaryBatchesExclusive
<1>14. LockSound' /\ NodeSound'
  BY <1>1, NodeStands DEF LockSound, Passing, BucketInv
<1> QED BY <1>5, <1>9, <1>10, <1>11, <1>12, <1>13, <1>14 DEF BucketInv, BatchesSound

(***************************************************************************)
(* The invariant                                                           *)
(***************************************************************************)
LEMMA SumZero ==
  ASSUME NEW w \in [BatchId -> Int], \A b \in BatchId : w[b] = 0
  PROVE  SumOver(w)[BatchId] = 0
<1> DEFINE T == {S \in SUBSET BatchId : SumOver(w)[S] = 0}
<1>1. {} \in T
  <2>1. {} \in SUBSET BatchId
    OBVIOUS
  <2> QED BY <2>1, SumUnfolds
<1>2. \A U \in SUBSET BatchId : (\A x \in U : U \ {x} \in T) => U \in T
  <2>1. SUFFICES ASSUME NEW U \in SUBSET BatchId, \A x \in U : U \ {x} \in T, U # {}
                 PROVE  U \in T
    BY <1>1
  <2>2. Picked(U) \in U
    BY <2>1 DEF Picked
  <2>3. SumOver(w)[U \ {Picked(U)}] = 0 /\ w[Picked(U)] = 0
    BY <2>1, <2>2
  <2>4. SumOver(w)[U] = SumOver(w)[U \ {Picked(U)}] + w[Picked(U)]
    BY <2>1, SumUnfolds
  <2> QED BY <2>3, <2>4
<1>3. SUBSET BatchId \subseteq T
  <2> HIDE DEF T
  <2> QED BY <1>1, <1>2, BucketAssumption, InductionOnSubsets
<1> QED BY <1>3

LEMMA InitSound == Init => BucketInv
<1>1. SUFFICES ASSUME Init PROVE BucketInv
  OBVIOUS
<1>2. Live = {} /\ ActiveBatches = {}
  BY <1>1 DEF Init, Live, ActiveBatches, Exists, Unused, Active
<1>3. PairsSound /\ StoreSound
  BY <1>1, <1>2 DEF Init, PairsSound, Pair, StoreSound
<1>4. TotalRawBytes <= MaxRawBytes
  <2> DEFINE w == [b \in BatchId |-> RawBytesOf(b)]
  <2>1. w \in [BatchId -> Int] /\ \A b \in BatchId : w[b] = 0
    BY <1>2 DEF RawBytesOf
  <2>2. TotalRawBytes = SumOver(w)[BatchId]
    BY DEF TotalRawBytes
  <2> HIDE DEF w
  <2> QED BY <2>1, <2>2, SumZero, BucketAssumption
<1>5. AckedStored /\ CanceledClosed /\ OrdinaryBatchesExclusive /\ lostWrite \in BOOLEAN
  BY <1>1, <1>2 DEF Init, AckedStored, CanceledClosed, OrdinaryBatchesExclusive
<1>6. LockSound
  BY <1>1 DEF Init, Idle, LockSound, Passing
<1>7. NodeSound
  <2>1. canon = <<>> /\ canon \in Seq(Tx) /\ Len(canon) = 0
    BY <1>1, EmptySeq DEF Init
  <2> QED BY <1>1, <2>1 DEF Init, NodeSound, OnePerNonce
<1> QED BY <1>3, <1>4, <1>5, <1>6, <1>7 DEF BucketInv, BatchesSound, WithinBudget

LEMMA StutterStep ==
  ASSUME BucketInv, UNCHANGED vars PROVE BucketInv'
<1>1. LockSound' /\ BatchesSound'
  BY OthersStand DEF vars, Others
<1>2. NodeSound'
  BY NodeStands DEF vars, Node, BucketInv
<1> QED BY <1>1, <1>2 DEF BucketInv

LEMMA NextSound == BucketInv /\ [Next]_vars => BucketInv'
<1>1. SUFFICES ASSUME BucketInv, [Next]_vars PROVE BucketInv'
  OBVIOUS
<1>2. CASE UNCHANGED vars
  BY <1>1, <1>2, StutterStep
<1>3. CASE Call
  BY <1>1, <1>3, BeginStep, QueueStep, StatusStep, CancelStep DEF Call
<1>4. CASE Run \/ Pass
  BY <1>1, <1>4, RunStep, RunNextStep, ReadNonceStep, ReconcileStep, SubmitStep,
     SubmitRejectedStep, SettleStep DEF Pass
<1>5. CASE SubmitDeferred \/ SubmitFails
  BY <1>1, <1>5, SubmitDeferredStep, SubmitFailsStep
<1>6. CASE Mine \/ ForeignTransaction \/ Reorg \/ Evict \/ Recheck \/ Crash \/ Tick
  BY <1>1, <1>6, MineStep, ForeignTransactionStep, ReorgStep, EvictStep, RecheckStep,
     CrashStep, TickStep
<1> QED BY <1>1, <1>2, <1>3, <1>4, <1>5, <1>6 DEF Next

\* Every state of the bucket satisfies the inductive invariant: memory and store
\* apart only by what the pass under way has not yet written, the budget kept, the
\* lock held for a batch that exists.
THEOREM BucketInvariant == Spec => []BucketInv
  BY InitSound, NextSound, PTL DEF Spec

(***************************************************************************)
(* The properties                                                          *)
(***************************************************************************)
LEMMA TypeFromInv == BucketInv => BucketTypeOK
<1>1. SUFFICES ASSUME BucketInv PROVE BucketTypeOK
  OBVIOUS
<1>2. \A b \in BatchId : /\ batches[b] \in Batch \cup {Unused, Pruned}
                         /\ disk[b] \in Batch \cup {Unused, Pruned}
  BY <1>1 DEF BucketInv, BatchesSound, PairsSound, Pair, Sound
<1>3. lock.phase \in {"idle", "next", "nonce", "reconcile", "submit"}
  BY <1>1 DEF BucketInv, LockSound, Passing
<1>4. \A i \in 1..Len(canon) : canon[i] \in Tx /\ canon[i].nonce = i - 1
  BY <1>1, ElementOfSeq DEF BucketInv, NodeSound
<1> QED BY <1>1, <1>2, <1>3, <1>4 DEF BucketInv, NodeSound, OnePerNonce, BucketTypeOK

\* The bucket and the node around it keep their shapes, and the pool holds one
\* transaction for a nonce and none that the chain has passed, through every
\* interleaving of passes, calls, blocks, reorganisations and crashes.
THEOREM BucketTypeCorrect == Spec => []BucketTypeOK
  BY BucketInvariant, TypeFromInv, PTL

LEMMA RawFromInv == BucketInv => RawAccounted
<1>1. SUFFICES ASSUME BucketInv, ~lostWrite PROVE RawAccounted
  BY DEF RawAccounted
<1>2. BatchesSound /\ PairsSound
  BY <1>1 DEF BucketInv, BatchesSound
<1>3. \A b \in Live : Counted(batches[b]) /\ Counted(disk[b])
  BY <1>1, <1>2, LiveShape, SyncedCounted DEF BatchesSound, StoreSound, Faithful
<1>4. \A b \in BatchId : Exists(disk, b) => b \in Live
  BY <1>2, LiveShape
<1> QED BY <1>1, <1>2, <1>3, <1>4 DEF RawAccounted, Counted, BatchesSound, WithinBudget

\* As long as no failed write was passed over, RawBytes counts the raw
\* transactions that memory and the store keep, and their sum over all batches
\* never exceeds the storage limit.
THEOREM RawCorrect == Spec => []RawAccounted
  BY BucketInvariant, RawFromInv, PTL

LEMMA AckedFromInv == BucketInv => AcknowledgedDurable
<1>1. SUFFICES ASSUME BucketInv, NEW a \in acked, disk[a[1]] # Pruned
               PROVE  /\ a[2] \in DOMAIN disk[a[1]].entries
                      /\ \/ disk[a[1]].entries[a[2]].raw
                         \/ disk[a[1]].entries[a[2]].status \in {"failed", "canceled"}
  BY DEF AcknowledgedDurable
<1>2. a[1] \in BatchId /\ Exists(disk, a[1]) /\ a[2] \in DOMAIN disk[a[1]].entries
  BY <1>1 DEF BucketInv, BatchesSound, AckedStored
<1>3. Sound(disk[a[1]])
  BY <1>1, <1>2, LiveShape DEF BucketInv, BatchesSound
<1> QED BY <1>2, <1>3 DEF Sound, GaveUp

\* An acknowledged transaction stays in the store with its raw bytes until the
\* store says that it failed or was canceled, or the batch is pruned, whatever
\* writes fail and wherever the daemon crashes.
THEOREM DurableCorrect == Spec => []AcknowledgedDurable
  BY BucketInvariant, AckedFromInv, PTL

LEMMA RestsFromInv == BucketInv => CanceledBatchRests
<1>1. SUFFICES ASSUME BucketInv, NEW b \in canceled
               PROVE  /\ batches[b].state \in Terminal \cup {"pruned"}
                      /\ disk[b].state \in Terminal \cup {"pruned"}
                      /\ lock.phase = "submit" => lock.id # b
  BY DEF CanceledBatchRests
<1>2. /\ batches[b].state \in Terminal \cup {"pruned"}
      /\ disk[b].state \in Terminal \cup {"pruned"}
  BY <1>1 DEF BucketInv, BatchesSound, CanceledClosed
<1>3. ASSUME lock.phase = "submit", lock.id = b PROVE FALSE
  <2>1. b \in Live /\ batches[b].state \notin Terminal
    BY <1>1, <1>3 DEF BucketInv, LockSound, Passing
  <2> QED BY <1>2, <2>1 DEF Live, Exists
<1> QED BY <1>2, <1>3

\* After cancel has answered, no pass ever reaches the submission loop with that
\* batch again, in memory or read back from the store after a crash.
THEOREM CancelCorrect == Spec => []CanceledBatchRests
  BY BucketInvariant, RestsFromInv, PTL

\* As long as no failed write was passed over, an ordinary batch is the sender's
\* only active one, but for batches that a reorganisation opened again.
THEOREM ExclusiveCorrect == Spec => []OrdinaryBatchesExclusive
<1>1. BucketInv => OrdinaryBatchesExclusive
  BY DEF BucketInv, BatchesSound
<1> QED BY <1>1, BucketInvariant, PTL

LEMMA SubmitInOrder ==
  ASSUME BucketInv, Submit PROVE InOrder
<1>0. PICK c : c = lock.id
  OBVIOUS
<1> DEFINE B == batches[c]
           k == NextToSend(B)
           A == Attempted(B, k, "submitted")
<1>1. lock.phase = "submit" /\ MaySend(B) /\ batches' = [batches EXCEPT ![c] = A]
  BY <1>0 DEF Submit
<1>2. Sound(B) /\ B.state \notin Terminal /\ c \in BatchId /\ PairsSound
  BY <1>0, <1>1, PassFacts, SubmitPhase DEF BucketInv, BatchesSound
<1>3. k \in Sendable(B) /\ \A j \in Sendable(B) : k <= j
  BY <1>1, <1>2, NextToSendFirst DEF MaySend
<1>4. /\ DOMAIN B.entries = 1..Len(B.entries) /\ Len(B.entries) \in Nat
      /\ B.entries \in [1..Len(B.entries) -> Entry]
  BY <1>2, BatchShape, EntriesShape DEF Sound
<1>5. \A j \in DOMAIN B.entries \ {k} : A.entries[j] = B.entries[j]
  <2>1. Version(B, A, {k})
    <3> HIDE DEF k, B
    <3> QED BY <1>2, <1>3, AttemptedVersion
  <2> QED BY <2>1 DEF Version
<1>6. SUFFICES ASSUME NEW b \in Live, NEW i \in DOMAIN batches[b].entries,
                      batches[b].entries[i].status = "queued",
                      batches'[b].entries[i].status = "submitted",
                      NEW j \in 1..(i - 1)
               PROVE  batches[b].entries[j].status \in {"submitted", "confirmed"}
  BY DEF InOrder
<1>7. b \in BatchId /\ \A d \in BatchId : batches'[d] = IF d = c THEN A ELSE batches[d]
  BY <1>1, <1>2 DEF PairsSound, Live
<1>8. b = c
  BY <1>6, <1>7
<1>9. i = k
  <2>1. batches'[b] = A
    BY <1>7, <1>8
  <2> HIDE DEF A, k
  <2> QED BY <1>5, <1>6, <1>8, <2>1
<1>10. j \in DOMAIN B.entries /\ j < k
  <2>1. i \in 1..Len(B.entries)
    BY <1>4, <1>6, <1>8
  <2> QED BY <1>4, <1>9, <2>1
<1>11. j \notin Sendable(B)
  <2>1. k \in Int /\ j \in Int
    BY <1>4, <1>10, <1>3 DEF Sendable, WithStatus
  <2> QED BY <1>3, <1>10, <2>1
<1>12. B.entries[j].status \notin GaveUp /\ (B.entries[j].raw \/ B.entries[j].status \in GaveUp)
  BY <1>2, <1>10 DEF Sound
<1>13. B.entries[j].status # "queued"
  BY <1>10, <1>11, <1>12 DEF Sendable, WithStatus
<1>14. B.entries[j].status \in {"queued", "submitted", "confirmed", "failed", "canceled"}
  BY <1>4, <1>10 DEF Entry
<1> QED BY <1>8, <1>12, <1>13, <1>14 DEF GaveUp

\* The scheduler promotes the entries of a batch in the order of their nonces,
\* whatever the pool, the chain and earlier passes did to the others.
THEOREM PromotionCorrect == Spec => PromotedInOrder
<1>1. BucketInv /\ [Next]_vars => [InOrder]_vars
  <2>1. SUFFICES ASSUME BucketInv, Next, lock.phase = "submit", lock'.phase = "submit"
                 PROVE  InOrder
    BY DEF InOrder
  <2>2. CASE UNCHANGED batches
    BY <2>2 DEF InOrder
  <2>3. CASE Submit
    BY <2>1, <2>3, SubmitInOrder
  <2>4. ~Call /\ ~Run /\ ~RunNext /\ ~ReadNonce /\ ~Reconcile /\ ~Tick /\ ~Crash
    BY <2>1 DEF Call, Begin, Queue, Status, Cancel, Run, RunNext, ReadNonce, Reconcile,
                Tick, Crash, Unlocked, Idle
  <2>5. \A T : Released(T).phase # "submit"
    BY DEF Released, Idle
  <2>6. ~SubmitRejected /\ ~SubmitDeferred /\ ~SubmitFails /\ ~Settle
    BY <2>1, <2>5 DEF SubmitRejected, SubmitDeferred, SubmitFails, Settle, Finish
  <2>7. CASE Mine \/ ForeignTransaction \/ Reorg \/ Evict \/ Recheck
    BY <2>2, <2>7 DEF Mine, ForeignTransaction, Reorg, Evict, Recheck, Others
  <2> QED BY <2>1, <2>3, <2>4, <2>6, <2>7 DEF Next, Pass
<1> QED BY <1>1, BucketInvariant, PTL DEF Spec, PromotedInOrder
=============================================================================
