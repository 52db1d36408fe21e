------------------------ MODULE BlockAssemblyProofs ------------------------
(***************************************************************************)
(* Proofs about BlockAssembly: whatever is tried, refused, interrupted and   *)
(* refilled, the body replays to the state the miner holds, and a transaction *)
(* the worker passed over has become one that import refuses.                *)
(***************************************************************************)
EXTENDS BlockAssembly, Induction, SequenceTheorems

(***************************************************************************)
(* The inductive invariant                                                 *)
(***************************************************************************)
Claim == {b.claim : b \in Body}
State == [nonce : [Sender -> Nat], claimed : SUBSET Claim]
Result == [ok : BOOLEAN, state : State, used : Nat, receipts : Seq(Nat)]

Increasing(q) == \A i, j \in DOMAIN q : i < j => q[i].nonce < q[j].nonce

\* The queues of a sender hold its transactions in nonce order, those that have
\* not arrived yet behind the others.
QueuesOrdered ==
    \A s \in Sender :
        /\ \A t \in ToSet(ready[s]) \cup ToSet(waiting[s]) : t.sender = s
        /\ Increasing(ready[s]) /\ Increasing(waiting[s])
        /\ \A t \in ToSet(ready[s]), u \in ToSet(waiting[s]) : t.nonce < u.nonce

HistorySound ==
    /\ parent \in State /\ state \in State
    /\ receipts \in Seq(Nat) /\ cumulative \in Nat
    /\ offered \subseteq Tx
    /\ seen \subseteq state.claimed
    /\ whole \in BOOLEAN
    /\ wasted \in Nat /\ spoiled \in Nat /\ spoiled <= wasted

\* The environment against the replay: the gas that refused transactions had
\* bought is all that separates them, and the header shows it from the next
\* inclusion on.
Mirror ==
    /\ Replay \in Result
    /\ Replay.ok
    /\ Replay.state = state
    /\ gas = BlockGas - Replay.used - wasted
    /\ gasUsed = Replay.used + spoiled
    /\ cumulative = Replay.used
    /\ receipts = Replay.receipts

\* The worker has passed tx over and import will refuse it from now on: what it
\* claims is taken, the rules want more gas than it has, its nonce is used, the
\* block has no gas for it, or a nonce before it is missing and nothing queued can bring it.
Dead(tx) ==
    \/ Claims(tx, {"shielded", "tvm", "handler"}) \cap state.claimed # {}
    \/ Short(tx)
    \/ tx.nonce < state.nonce[tx.sender]
    \/ tx.body.gas > gas
    \/ /\ tx.nonce > state.nonce[tx.sender]
       /\ \A u \in ToSet(ready[tx.sender]) \cup ToSet(waiting[tx.sender]) : u.nonce > tx.nonce

Roomy == whole /\ wasted = 0 /\ Len(txs) < MaxTxs

PassedOver ==
    Roomy => \A tx \in offered \ ToSet(txs) : tx \in ToSet(ready[tx.sender]) \/ Dead(tx)

Finished == whole => phase # "dropped" /\ (phase = "done" => Exhausted)

AssemblyInv ==
    /\ AssemblyTypeOK /\ HistorySound /\ QueuesOrdered
    /\ Mirror
    /\ Finished /\ PassedOver

(***************************************************************************)
(* Transactions, queues and the import loop                                *)
(***************************************************************************)
LEMMA TxShape ==
  ASSUME NEW tx \in Tx
  PROVE  /\ tx.sender \in Sender /\ tx.nonce \in 0..(TxsPerSender - 1) /\ tx.nonce \in Nat
         /\ tx.body \in Body /\ tx.body.gas \in Nat /\ tx.body.gas >= TxGas
         /\ tx.body.claim \in Claim
         /\ tx.body.stage \in {"none", "short", "shielded", "tvm", "handler"}
<1>1. PICK s \in Sender, n \in 0..(TxsPerSender - 1), b \in Body :
         tx = [sender |-> s, nonce |-> n, body |-> b]
  BY DEF Tx
<1>2. tx.sender = s /\ tx.nonce = n /\ tx.body = b
  BY <1>1
<1> QED BY <1>2, GasAssumption, StageAssumption DEF Claim

LEMMA ClaimsShape ==
  ASSUME NEW tx \in Tx, NEW stages
  PROVE  Claims(tx, stages) \in SUBSET Claim
BY TxShape DEF Claims

\* What applying a transaction makes of the state, field by field.
LEMMA AppliedState ==
  ASSUME NEW st \in State, NEW tx \in Tx
  PROVE  /\ Applied(st, tx) \in State
         /\ st.claimed \subseteq Applied(st, tx).claimed
         /\ Claims(tx, {"shielded", "tvm", "handler"}) \subseteq Applied(st, tx).claimed
         /\ Applied(st, tx).nonce[tx.sender] = st.nonce[tx.sender] + 1
         /\ \A s \in Sender \ {tx.sender} : Applied(st, tx).nonce[s] = st.nonce[s]
<1>1. tx.sender \in Sender
  BY TxShape
<1>2. Claims(tx, {"shielded", "tvm", "handler"}) \in SUBSET Claim
  BY ClaimsShape
<1> DEFINE c == Claims(tx, {"shielded", "tvm", "handler"})
           n == [st.nonce EXCEPT ![tx.sender] = @ + 1]
<1>3. st.nonce \in [Sender -> Nat] /\ st.claimed \in SUBSET Claim
  BY DEF State
<1>4. st.nonce[tx.sender] + 1 \in Nat
  BY <1>1, <1>3
<1>5. n \in [Sender -> Nat] /\ n[tx.sender] = st.nonce[tx.sender] + 1
  BY <1>1, <1>3, <1>4
<1>6. \A s \in Sender \ {tx.sender} : n[s] = st.nonce[s]
  BY <1>3
<1>7. Applied(st, tx) = [nonce |-> n, claimed |-> st.claimed \cup c]
  BY DEF Applied
<1>8. c \in SUBSET Claim
  BY <1>2
<1> HIDE DEF n, c
<1>9. Applied(st, tx) \in State /\ Applied(st, tx).nonce = n /\ Applied(st, tx).claimed = st.claimed \cup c
  BY <1>3, <1>5, <1>7, <1>8 DEF State
<1> QED BY <1>5, <1>6, <1>9 DEF c

LEMMA ProcessedType ==
  ASSUME NEW r \in Result, NEW tx \in Tx
  PROVE  Processed(r, tx) \in Result
<1>1. r.state \in State /\ r.used \in Nat /\ r.receipts \in Seq(Nat)
  BY DEF Result
<1>2. Applied(r.state, tx) \in State
  BY <1>1, AppliedState
<1>3. r.used + tx.body.gas \in Nat
  BY <1>1, TxShape
<1>4. Append(r.receipts, r.used + tx.body.gas) \in Seq(Nat)
  BY <1>1, <1>3
<1>5. [r EXCEPT !.ok = FALSE] \in Result
  BY DEF Result
<1> QED BY <1>1, <1>2, <1>3, <1>4, <1>5 DEF Processed, Result

Start(st) == [ok |-> TRUE, state |-> st, used |-> 0, receipts |-> << >>]

LEMMA StartType ==
  ASSUME NEW st \in State
  PROVE  Start(st) \in Result
BY DEF Start, Result

\* f holds the results of the loop after every prefix of the body.
Loops(f, st, body) ==
    /\ f \in [0..Len(body) -> Result]
    /\ f[0] = Start(st)
    /\ \A k \in 1..Len(body) : f[k] = Processed(f[k - 1], body[k])

LEMMA LoopsExists ==
  ASSUME NEW st \in State, NEW body \in Seq(Tx)
  PROVE  \E f : Loops(f, st, body)
<1> DEFINE N == Len(body)
           step == [k \in 1..N |-> [r \in Result |-> Processed(r, body[k])]]
<1>1. N \in Nat /\ \A k \in 1..N : body[k] \in Tx
  OBVIOUS
<1>2. step \in [1..N -> [Result -> Result]]
  BY <1>1, ProcessedType
<1>3. Start(st) \in Result
  BY StartType
<1>4. \A k \in 1..N, r \in Result : step[k][r] = Processed(r, body[k])
  OBVIOUS
<1> HIDE DEF step
<1>5. PICK f : Iterates(f, N, Result, Start(st), step)
  BY <1>1, <1>2, <1>3, RecursionOnPrefix
<1>6. \A k \in 1..N : f[k] = Processed(f[k - 1], body[k])
  <2> TAKE k \in 1..N
  <2>1. k - 1 \in 0..N
    BY <1>1
  <2>2. f[k - 1] \in Result
    BY <1>5, <2>1 DEF Iterates
  <2> QED BY <1>4, <1>5, <2>2 DEF Iterates
<1> QED BY <1>5, <1>6 DEF Iterates, Loops

\* Two such functions agree on the bodies' common prefix.
LEMMA LoopsAgree ==
  ASSUME NEW st \in State, NEW b \in Seq(Tx), NEW c \in Seq(Tx), NEW f, NEW g,
         Loops(f, st, b), Loops(g, st, c),
         NEW n \in Nat, n <= Len(b), n <= Len(c), \A k \in 1..n : b[k] = c[k]
  PROVE  f[n] = g[n]
<1> DEFINE T == {k \in Nat : k <= n => f[k] = g[k]}
<1>1. 0 \in T
  BY DEF Loops
<1>2. ASSUME NEW k \in Nat, k \in T PROVE k + 1 \in T
  <2>1. SUFFICES ASSUME k + 1 <= n PROVE f[k + 1] = g[k + 1]
    OBVIOUS
  <2>2. f[k] = g[k] /\ (k + 1) - 1 = k
    BY <1>2, <2>1
  <2>3. Len(b) \in Nat /\ Len(c) \in Nat
    OBVIOUS
  <2>4. k + 1 \in 1..Len(b) /\ k + 1 \in 1..Len(c) /\ b[k + 1] = c[k + 1]
    BY <2>1, <2>3
  <2> QED BY <2>2, <2>4 DEF Loops
<1>3. Nat \subseteq T
  <2> HIDE DEF T
  <2> QED BY <1>1, <1>2, InductionOnNaturals
<1> QED BY <1>3

\* Import is the last value of such a function.
LEMMA ImportLoops ==
  ASSUME NEW st \in State, NEW body \in Seq(Tx)
  PROVE  \E f : Loops(f, st, body) /\ Import(st, body) = f[Len(body)]
<1> DEFINE N == Len(body)
           Loop(h) == [k \in 0..N |-> IF k = 0 THEN Start(st) ELSE Processed(h[k - 1], body[k])]
           g == CHOOSE h : h = Loop(h)
<1>1. N \in Nat
  OBVIOUS
<1>2. PICK f : Loops(f, st, body)
  BY LoopsExists
<1>3. f = Loop(f)
  <2>1. f \in [0..N -> Result] /\ f[0] = Start(st)
    BY <1>2 DEF Loops
  <2>2. \A k \in 0..N : k # 0 => f[k] = Processed(f[k - 1], body[k])
    BY <1>1, <1>2 DEF Loops
  <2>3. \A k \in 0..N : f[k] = Loop(f)[k]
    BY <2>1, <2>2
  <2> QED BY <2>1, <2>3
<1>4. g = Loop(g)
  BY <1>3
<1>5. Import(st, body) = g[N]
  BY DEF Import, Start
<1> HIDE DEF g
<1>6. DOMAIN g = 0..N /\ g[0] = Start(st)
  BY <1>1, <1>4
<1>7. \A k \in 1..N : g[k] = Processed(g[k - 1], body[k])
  BY <1>1, <1>4
<1> DEFINE T == {k \in Nat : k <= N => g[k] \in Result}
<1>8. 0 \in T
  BY <1>6, StartType
<1>9. ASSUME NEW k \in Nat, k \in T PROVE k + 1 \in T
  <2>1. SUFFICES ASSUME k + 1 <= N PROVE g[k + 1] \in Result
    OBVIOUS
  <2>2. k + 1 \in 1..N /\ (k + 1) - 1 = k /\ g[k] \in Result
    BY <1>1, <1>9, <2>1
  <2>3. body[k + 1] \in Tx
    BY <2>2
  <2>4. g[k + 1] = Processed(g[k], body[k + 1])
    BY <1>7, <2>2
  <2> QED BY <2>2, <2>3, <2>4, ProcessedType
<1>10. Nat \subseteq T
  <2> HIDE DEF T
  <2> QED BY <1>8, <1>9, InductionOnNaturals
<1>11. g \in [0..N -> Result]
  <2>1. \A k \in 0..N : g[k] \in Result
    BY <1>1, <1>10
  <2>2. g = [k \in 0..N |-> g[k]]
    BY <1>4, <1>6
  <2> QED BY <2>1, <2>2
<1>12. Loops(g, st, body)
  BY <1>6, <1>7, <1>11 DEF Loops
<1> QED BY <1>5, <1>12

LEMMA ImportEmpty ==
  ASSUME NEW st \in State
  PROVE  Import(st, << >>) = Start(st)
<1>1. << >> \in Seq(Tx) /\ Len(<< >>) = 0
  OBVIOUS
<1>2. PICK f : Loops(f, st, << >>) /\ Import(st, << >>) = f[Len(<< >>)]
  BY <1>1, ImportLoops
<1> QED BY <1>1, <1>2 DEF Loops

\* One more transaction is one more round of the loop.
LEMMA ImportAppend ==
  ASSUME NEW st \in State, NEW body \in Seq(Tx), NEW tx \in Tx
  PROVE  /\ Import(st, body) \in Result
         /\ Import(st, Append(body, tx)) = Processed(Import(st, body), tx)
<1> DEFINE N == Len(body)
           longer == Append(body, tx)
<1>1. /\ longer \in Seq(Tx) /\ N \in Nat /\ Len(longer) = N + 1
      /\ longer[N + 1] = tx /\ \A k \in 1..N : body[k] = longer[k]
  OBVIOUS
<1>2. PICK f : Loops(f, st, body) /\ Import(st, body) = f[N]
  BY ImportLoops
<1> HIDE DEF longer
<1>3. PICK g : Loops(g, st, longer) /\ Import(st, longer) = g[N + 1]
  BY <1>1, ImportLoops
<1>4. f[N] = g[N]
  BY <1>1, <1>2, <1>3, LoopsAgree
<1>5. N + 1 \in 1..Len(longer) /\ (N + 1) - 1 = N
  BY <1>1
<1>6. g[N + 1] = Processed(g[N], tx)
  BY <1>1, <1>3, <1>5 DEF Loops
<1>7. f[N] \in Result
  BY <1>1, <1>2 DEF Loops
<1> QED BY <1>2, <1>3, <1>4, <1>6, <1>7 DEF longer

LEMMA ToSetShape ==
  ASSUME NEW S, NEW q \in Seq(S)
  PROVE  /\ ToSet(q) \in SUBSET S
         /\ q = << >> <=> ToSet(q) = {}
         /\ \A x : x \in ToSet(q) <=> \E i \in 1..Len(q) : q[i] = x
         /\ DOMAIN q = 1..Len(q) /\ Len(q) \in Nat
<1>1. DOMAIN q = 1..Len(q) /\ Len(q) \in Nat
  OBVIOUS
<1>2. ToSet(q) = {q[i] : i \in 1..Len(q)}
  BY <1>1 DEF ToSet
<1>3. \A i \in 1..Len(q) : q[i] \in S
  OBVIOUS
<1>4. q # << >> => 1 \in 1..Len(q)
  BY <1>1
<1>5. q = << >> => 1..Len(q) = {}
  OBVIOUS
<1> QED BY <1>1, <1>2, <1>3, <1>4, <1>5

\* The head of a queue and what is behind it.
LEMMA QueueTail ==
  ASSUME NEW q \in Seq(Tx), q # << >>
  PROVE  /\ Head(q) \in Tx /\ Head(q) \in ToSet(q)
         /\ Tail(q) \in Seq(Tx)
         /\ ToSet(q) = {Head(q)} \cup ToSet(Tail(q))
         /\ Increasing(q) => /\ Increasing(Tail(q))
                             /\ \A u \in ToSet(Tail(q)) : Head(q).nonce < u.nonce
<1> DEFINE N == Len(q)
           t == Tail(q)
<1>1. N \in Nat /\ N >= 1 /\ DOMAIN q = 1..N /\ Head(q) = q[1]
  OBVIOUS
<1>2. t \in Seq(Tx) /\ Len(t) = N - 1 /\ \A i \in 1..(N - 1) : t[i] = q[i + 1]
  BY <1>1
<1>3. DOMAIN t = 1..(N - 1)
  BY <1>2
<1> HIDE DEF t
<1>4. Head(q) \in Tx /\ Head(q) \in ToSet(q)
  BY <1>1, ToSetShape
<1>5. ToSet(t) \subseteq ToSet(q)
  <2>1. ASSUME NEW u \in ToSet(t) PROVE u \in ToSet(q)
    <3>1. PICK i \in 1..(N - 1) : t[i] = u
      BY <1>2, ToSetShape
    <3>2. i + 1 \in 1..N /\ q[i + 1] = u
      BY <1>1, <1>2, <3>1
    <3> QED BY <3>2, ToSetShape
  <2> QED BY <2>1
<1>6. ASSUME NEW u \in ToSet(q), u # Head(q) PROVE u \in ToSet(t)
  <2>1. PICK i \in 1..N : q[i] = u
    BY ToSetShape
  <2>2. i - 1 \in 1..(N - 1) /\ (i - 1) + 1 = i
    BY <1>1, <1>6, <2>1
  <2>3. t[i - 1] = u
    BY <1>2, <2>1, <2>2
  <2>4. i - 1 \in 1..Len(t)
    BY <1>2, <2>2
  <2> QED BY <1>2, <2>3, <2>4, ToSetShape
<1>7. ASSUME Increasing(q) PROVE Increasing(t)
  <2>1. SUFFICES ASSUME NEW i \in 1..(N - 1), NEW j \in 1..(N - 1), i < j
                 PROVE  t[i].nonce < t[j].nonce
    BY <1>3 DEF Increasing
  <2>2. i + 1 \in 1..N /\ j + 1 \in 1..N /\ i + 1 < j + 1
    BY <1>1, <2>1
  <2>3. q[i + 1].nonce < q[j + 1].nonce
    BY <1>1, <1>7, <2>2 DEF Increasing
  <2> QED BY <1>2, <2>3
<1>8. ASSUME Increasing(q), NEW u \in ToSet(t) PROVE Head(q).nonce < u.nonce
  <2>1. PICK i \in 1..(N - 1) : t[i] = u
    BY <1>2, ToSetShape
  <2>2. i + 1 \in 1..N /\ 1 \in 1..N /\ 1 < i + 1 /\ q[i + 1] = u
    BY <1>1, <1>2, <2>1
  <2> QED BY <1>1, <1>8, <2>2 DEF Increasing
<1>9. Head(q) \in Tx /\ t \in Seq(Tx) /\ ToSet(q) = {Head(q)} \cup ToSet(t)
  BY <1>2, <1>4, <1>5, <1>6
<1> QED BY <1>4, <1>7, <1>8, <1>9 DEF t

LEMMA ToSetAppend ==
  ASSUME NEW q \in Seq(Tx), NEW tx \in Tx
  PROVE  /\ Append(q, tx) \in Seq(Tx) /\ Len(Append(q, tx)) = Len(q) + 1
         /\ ToSet(Append(q, tx)) = ToSet(q) \cup {tx}
<1> DEFINE N == Len(q)
           a == Append(q, tx)
<1>1. /\ a \in Seq(Tx) /\ Len(a) = N + 1 /\ N \in Nat
      /\ a[N + 1] = tx /\ \A i \in 1..N : a[i] = q[i]
  OBVIOUS
<1> HIDE DEF a
<1>2. \A x : x \in ToSet(a) <=> \E i \in 1..(N + 1) : a[i] = x
  BY <1>1, ToSetShape
<1>3. \A x : x \in ToSet(q) <=> \E i \in 1..N : q[i] = x
  BY ToSetShape
<1>4. ASSUME NEW x \in ToSet(a) PROVE x \in ToSet(q) \cup {tx}
  <2>1. PICK i \in 1..(N + 1) : a[i] = x
    BY <1>2
  <2>2. i = N + 1 \/ i \in 1..N
    BY <1>1
  <2> QED BY <1>1, <1>3, <2>1, <2>2
<1>5. ASSUME NEW x \in ToSet(q) PROVE x \in ToSet(a)
  <2>1. PICK i \in 1..N : q[i] = x
    BY <1>3
  <2>2. i \in 1..(N + 1) /\ a[i] = x
    BY <1>1, <2>1
  <2> QED BY <1>2, <2>2
<1>6. tx \in ToSet(a)
  BY <1>1, <1>2
<1>7. ToSet(a) = ToSet(q) \cup {tx}
  BY <1>4, <1>5, <1>6
<1> QED BY <1>1, <1>7 DEF a

(***************************************************************************)
(* The initial states                                                      *)
(***************************************************************************)
LEMMA ConsecutiveOrdered ==
  ASSUME NEW a \in Sender, NEW bodies \in [1..TxsPerSender -> Body],
         NEW from \in Nat, NEW to \in Nat, from <= to, to <= TxsPerSender
  PROVE  LET q == Consecutive(a, bodies, from, to) IN
         /\ q \in Seq(Tx) /\ Increasing(q)
         /\ \A t \in ToSet(q) : t.sender = a /\ t.nonce >= from /\ t.nonce < to
<1> DEFINE q == Consecutive(a, bodies, from, to)
           n == to - from
<1>1. n \in Nat /\ TxsPerSender \in Nat
  BY GasAssumption
<1>2. q = [i \in 1..n |-> [sender |-> a, nonce |-> from + i - 1, body |-> bodies[from + i]]]
  BY DEF Consecutive
<1>3. ASSUME NEW i \in 1..n
      PROVE  /\ q[i] \in Tx /\ q[i].sender = a /\ q[i].nonce = from + i - 1
             /\ q[i].nonce >= from /\ q[i].nonce < to
  <2>1. from + i \in 1..TxsPerSender /\ from + i - 1 \in 0..(TxsPerSender - 1)
    BY <1>1
  <2>2. bodies[from + i] \in Body
    BY <2>1
  <2>3. q[i] = [sender |-> a, nonce |-> from + i - 1, body |-> bodies[from + i]]
    BY <1>2
  <2>4. q[i] \in Tx
    BY <2>1, <2>2, <2>3 DEF Tx
  <2>5. q[i].sender = a /\ q[i].nonce = from + i - 1
    BY <2>3
  <2> QED BY <1>1, <2>4, <2>5
<1>4. q \in [1..n -> Tx]
  BY <1>2, <1>3
<1> HIDE DEF q
<1>5. q \in Seq(Tx) /\ Len(q) = n /\ DOMAIN q = 1..n
  BY <1>1, <1>4, SeqDef
<1>6. Increasing(q)
  <2>1. SUFFICES ASSUME NEW i \in 1..n, NEW j \in 1..n, i < j PROVE q[i].nonce < q[j].nonce
    BY <1>5 DEF Increasing
  <2>2. q[i].nonce = from + i - 1 /\ q[j].nonce = from + j - 1
    BY <1>3
  <2> QED BY <2>1, <2>2
<1>7. ASSUME NEW t \in ToSet(q) PROVE t.sender = a /\ t.nonce >= from /\ t.nonce < to
  <2>1. PICK i \in 1..n : q[i] = t
    BY <1>5, ToSetShape
  <2> QED BY <1>3, <2>1
<1> QED BY <1>5, <1>6, <1>7 DEF q

LEMMA InitAssembly == Init => AssemblyInv
<1> SUFFICES ASSUME Init PROVE AssemblyInv
  OBVIOUS
<1>1. PICK bodies \in [Sender -> [1..TxsPerSender -> Body]], split \in 1..TxsPerSender :
        /\ ready = [a \in Sender |-> Consecutive(a, bodies[a], 0, split)]
        /\ waiting = [a \in Sender |-> Consecutive(a, bodies[a], split, TxsPerSender)]
  BY DEF Init
<1>2. PICK mined \in [Sender -> {0, 1}] : parent = [nonce |-> mined, claimed |-> {}]
  BY DEF Init
<1>3. TxsPerSender \in Nat /\ BlockGas \in Nat /\ MaxTxs \in Nat /\ TxGas \in Nat \ {0}
  BY GasAssumption
<1>4. split \in Nat /\ 0 \in Nat /\ 0 <= split /\ split <= TxsPerSender /\ TxsPerSender <= TxsPerSender
  BY <1>3
<1>5. ASSUME NEW s \in Sender
      PROVE  /\ ready[s] \in Seq(Tx) /\ Increasing(ready[s])
             /\ \A t \in ToSet(ready[s]) : t.sender = s /\ t.nonce >= 0 /\ t.nonce < split
             /\ waiting[s] \in Seq(Tx) /\ Increasing(waiting[s])
             /\ \A t \in ToSet(waiting[s]) : t.sender = s /\ t.nonce >= split /\ t.nonce < TxsPerSender
  <2>1. ready[s] = Consecutive(s, bodies[s], 0, split)
        /\ waiting[s] = Consecutive(s, bodies[s], split, TxsPerSender)
    BY <1>1
  <2>2. bodies[s] \in [1..TxsPerSender -> Body]
    OBVIOUS
  <2>3. /\ ready[s] \in Seq(Tx) /\ Increasing(ready[s])
        /\ \A t \in ToSet(ready[s]) : t.sender = s /\ t.nonce >= 0 /\ t.nonce < split
    BY ONLY <1>4, <2>1, <2>2, s \in Sender, ConsecutiveOrdered
  <2>4. /\ waiting[s] \in Seq(Tx) /\ Increasing(waiting[s])
        /\ \A t \in ToSet(waiting[s]) : t.sender = s /\ t.nonce >= split /\ t.nonce < TxsPerSender
    BY ONLY <1>3, <1>4, <2>1, <2>2, s \in Sender, ConsecutiveOrdered
  <2> QED BY <2>3, <2>4
<1>6. ready \in [Sender -> Seq(Tx)] /\ waiting \in [Sender -> Seq(Tx)]
  BY <1>1, <1>5
<1>7. mined \in [Sender -> Nat] /\ mined \in [Sender -> 0..(TxsPerSender + 1)]
  BY <1>3
<1>8. parent \in State /\ parent.nonce = mined /\ parent.claimed = {}
  BY <1>2, <1>7 DEF State
<1>9. AssemblyTypeOK
  BY <1>3, <1>6, <1>7, <1>8 DEF AssemblyTypeOK, Init
<1>10. offered \subseteq Tx
  BY <1>5, ToSetShape DEF Init
<1>11. HistorySound
  BY <1>8, <1>10 DEF HistorySound, Init
<1>12. QueuesOrdered
  <2>1. ASSUME NEW s \in Sender, NEW t \in ToSet(ready[s]), NEW u \in ToSet(waiting[s])
        PROVE  t.nonce < u.nonce
    <3>1. t \in Tx /\ u \in Tx
      BY <1>5, ToSetShape
    <3>2. t.nonce < split /\ split <= u.nonce /\ t.nonce \in Nat /\ u.nonce \in Nat
      BY <1>5, <3>1, TxShape
    <3> QED BY <1>4, <3>2
  <2> QED BY <1>5, <2>1 DEF QueuesOrdered
<1>13. Mirror
  <2>1. Replay = Start(parent)
    BY <1>8, ImportEmpty DEF Replay, Init
  <2>2. Replay \in Result
    BY <1>8, <2>1, StartType
  <2>3. Replay.ok /\ Replay.state = parent /\ Replay.used = 0 /\ Replay.receipts = << >>
    BY <2>1 DEF Start
  <2> QED BY <1>3, <2>2, <2>3 DEF Mirror, Init
<1>14. Finished
  BY DEF Finished, Init
<1>15. PassedOver
  <2>1. ASSUME NEW tx \in offered PROVE tx \in ToSet(ready[tx.sender])
    <3>1. PICK s \in Sender : tx \in ToSet(ready[s])
      BY DEF Init
    <3> QED BY <1>5, <3>1
  <2> QED BY <2>1 DEF PassedOver
<1> QED BY <1>9, <1>11, <1>12, <1>13, <1>14, <1>15 DEF AssemblyInv

(***************************************************************************)
(* The steps                                                               *)
(***************************************************************************)
\* What the invariant says of the head that is tried.
LEMMA HeadFacts ==
  ASSUME AssemblyInv, NEW a \in Sender, ready[a] # << >>, NEW tx, tx = Head(ready[a])
  PROVE  /\ tx \in Tx /\ tx.sender = a
         /\ tx \in ToSet(ready[a]) /\ ToSet(ready[a]) = {tx} \cup ToSet(Tail(ready[a]))
         /\ Tail(ready[a]) \in Seq(Tx) /\ Increasing(Tail(ready[a]))
         /\ \A u \in ToSet(Tail(ready[a])) \cup ToSet(waiting[a]) : u.nonce > tx.nonce
<1>1. ready[a] \in Seq(Tx) /\ waiting[a] \in Seq(Tx)
  BY DEF AssemblyInv, AssemblyTypeOK
<1>2. /\ Increasing(ready[a])
      /\ \A t \in ToSet(ready[a]) \cup ToSet(waiting[a]) : t.sender = a
      /\ \A t \in ToSet(ready[a]), u \in ToSet(waiting[a]) : t.nonce < u.nonce
  BY DEF AssemblyInv, QueuesOrdered
<1>3. /\ tx \in Tx /\ tx \in ToSet(ready[a]) /\ ToSet(ready[a]) = {tx} \cup ToSet(Tail(ready[a]))
      /\ Tail(ready[a]) \in Seq(Tx) /\ Increasing(Tail(ready[a]))
      /\ \A u \in ToSet(Tail(ready[a])) : tx.nonce < u.nonce
  BY <1>1, <1>2, QueueTail
<1>4. ASSUME NEW u \in ToSet(Tail(ready[a])) \cup ToSet(waiting[a]) PROVE u.nonce > tx.nonce
  <2>1. u \in Tx
    BY <1>1, <1>3, ToSetShape
  <2>2. tx.nonce < u.nonce
    BY <1>2, <1>3
  <2> QED BY <1>3, <2>1, <2>2, TxShape
<1> QED BY <1>2, <1>3, <1>4

\* The queues of a have been cut to a part of what they held, in order.
Cut(a) ==
    /\ waiting' = waiting
    /\ \E q \in Seq(Tx) : /\ ready' = [ready EXCEPT ![a] = q]
                          /\ ToSet(q) \subseteq ToSet(ready[a]) /\ Increasing(q)

LEMMA ShiftCuts ==
  ASSUME AssemblyInv, NEW a \in Sender, ready[a] # << >>, Shift(a), waiting' = waiting
  PROVE  /\ Cut(a) /\ ready'[a] = Tail(ready[a])
         /\ \A s \in Sender \ {a} : ready'[s] = ready[s]
<1>1. /\ Tail(ready[a]) \in Seq(Tx) /\ Increasing(Tail(ready[a]))
      /\ ToSet(Tail(ready[a])) \subseteq ToSet(ready[a])
  BY HeadFacts
<1>2. ready' = [ready EXCEPT ![a] = Tail(ready[a])]
  BY DEF Shift
<1>3. ready \in [Sender -> Seq(Tx)]
  BY DEF AssemblyInv, AssemblyTypeOK
<1> QED BY <1>1, <1>2, <1>3 DEF Cut

LEMMA PopCuts ==
  ASSUME AssemblyInv, NEW a \in Sender, Pop(a), waiting' = waiting
  PROVE  /\ Cut(a) /\ ready'[a] = << >>
         /\ \A s \in Sender \ {a} : ready'[s] = ready[s]
<1>1. << >> \in Seq(Tx) /\ ToSet(<< >>) = {} /\ Increasing(<< >>)
  BY DEF ToSet, Increasing
<1>2. ready' = [ready EXCEPT ![a] = << >>]
  BY DEF Pop
<1>3. ready \in [Sender -> Seq(Tx)]
  BY DEF AssemblyInv, AssemblyTypeOK
<1> QED BY <1>1, <1>2, <1>3 DEF Cut

LEMMA CutQueues ==
  ASSUME AssemblyInv, NEW a \in Sender, Cut(a)
  PROVE  /\ ready' \in [Sender -> Seq(Tx)] /\ waiting' \in [Sender -> Seq(Tx)]
         /\ QueuesOrdered'
         /\ \A s \in Sender : ToSet(ready'[s]) \cup ToSet(waiting'[s])
                                \subseteq ToSet(ready[s]) \cup ToSet(waiting[s])
<1>1. PICK q \in Seq(Tx) : /\ ready' = [ready EXCEPT ![a] = q]
                           /\ ToSet(q) \subseteq ToSet(ready[a]) /\ Increasing(q)
  BY DEF Cut
<1>2. waiting' = waiting
  BY DEF Cut
<1>3. ready \in [Sender -> Seq(Tx)] /\ waiting \in [Sender -> Seq(Tx)]
  BY DEF AssemblyInv, AssemblyTypeOK
<1>4. ready' \in [Sender -> Seq(Tx)] /\ waiting' \in [Sender -> Seq(Tx)]
  BY <1>1, <1>2, <1>3
<1>5. ready'[a] = q /\ \A s \in Sender \ {a} : ready'[s] = ready[s]
  BY <1>1, <1>3
<1>6. \A s \in Sender : ToSet(ready'[s]) \subseteq ToSet(ready[s])
  BY <1>1, <1>5
<1>7. \A s \in Sender : Increasing(ready'[s])
  BY <1>1, <1>5 DEF AssemblyInv, QueuesOrdered
<1>8. QueuesOrdered'
  BY <1>2, <1>6, <1>7 DEF AssemblyInv, QueuesOrdered
<1> QED BY <1>2, <1>4, <1>6, <1>8

\* A dead transaction stays dead while the block only grows and the queues only
\* shrink; a nonce moves by including what was queued.
LEMMA DeadStays ==
  ASSUME AssemblyInv, NEW tx \in Tx, Dead(tx),
         state' \in State, gas' \in Nat, gas' <= gas,
         state.claimed \subseteq state'.claimed,
         \/ state'.nonce[tx.sender] = state.nonce[tx.sender]
         \/ /\ state'.nonce[tx.sender] = state.nonce[tx.sender] + 1
            /\ \E u \in ToSet(ready[tx.sender]) : u.nonce = state.nonce[tx.sender],
         ToSet(ready'[tx.sender]) \cup ToSet(waiting'[tx.sender])
            \subseteq ToSet(ready[tx.sender]) \cup ToSet(waiting[tx.sender])
  PROVE  Dead(tx)'
<1>1. /\ tx.sender \in Sender /\ tx.nonce \in Nat /\ tx.body.gas \in Nat
      /\ state.nonce[tx.sender] \in Nat /\ gas \in Nat /\ state \in State
  <2>1. tx.sender \in Sender /\ tx.nonce \in Nat /\ tx.body.gas \in Nat
    BY TxShape
  <2>2. gas \in Nat /\ state \in State
    BY GasAssumption DEF AssemblyInv, AssemblyTypeOK, HistorySound
  <2> QED BY <2>1, <2>2 DEF State
<1>2. ASSUME Claims(tx, {"shielded", "tvm", "handler"}) \cap state.claimed # {} PROVE Dead(tx)'
  BY <1>2 DEF Dead
<1>3. ASSUME tx.nonce < state.nonce[tx.sender] PROVE Dead(tx)'
  <2>1. tx.nonce < state'.nonce[tx.sender]
    BY <1>1, <1>3
  <2> QED BY <2>1 DEF Dead
<1>4. ASSUME tx.body.gas > gas PROVE Dead(tx)'
  <2>1. tx.body.gas > gas'
    BY <1>1, <1>4
  <2> QED BY <2>1 DEF Dead
<1>5. ASSUME tx.nonce > state.nonce[tx.sender],
             \A u \in ToSet(ready[tx.sender]) \cup ToSet(waiting[tx.sender]) : u.nonce > tx.nonce
      PROVE  Dead(tx)'
  <2>1. state'.nonce[tx.sender] = state.nonce[tx.sender]
    BY <1>1, <1>5
  <2>2. tx.nonce > state'.nonce[tx.sender]
    BY <1>5, <2>1
  <2>3. \A u \in ToSet(ready'[tx.sender]) \cup ToSet(waiting'[tx.sender]) : u.nonce > tx.nonce
    BY <1>5
  <2> QED BY <2>2, <2>3 DEF Dead
<1>6. ASSUME Short(tx) PROVE Dead(tx)'
  BY <1>6 DEF Dead, Short
<1> QED BY <1>2, <1>3, <1>4, <1>5, <1>6 DEF Dead

LEMMA MirrorStays ==
  ASSUME Mirror, UNCHANGED <<parent, state, gas, cumulative, txs, receipts, gasUsed, wasted, spoiled>>
  PROVE  Mirror'
<1>1. Replay' = Replay
  BY DEF Replay
<1> QED BY <1>1 DEF Mirror

\* The steps that leave the block alone and cut one queue.
LEMMA SkipStep ==
  ASSUME AssemblyInv, NEW a \in Sender, Cut(a), phase # "done" \/ Exhausted',
         UNCHANGED <<block, phase, whole, wasted, spoiled>>, offered' \subseteq offered,
         Roomy => \A t \in ToSet(ready[a]) \ (ToSet(ready'[a]) \cup ToSet(txs)) :
                    t \notin offered' \/ Dead(t)'
  PROVE  AssemblyInv'
<1>1. UNCHANGED <<parent, state, gas, cumulative, seen, txs, receipts, gasUsed>>
  BY DEF block
<1>2. /\ ready' \in [Sender -> Seq(Tx)] /\ waiting' \in [Sender -> Seq(Tx)]
      /\ QueuesOrdered'
      /\ \A s \in Sender : ToSet(ready'[s]) \cup ToSet(waiting'[s])
                             \subseteq ToSet(ready[s]) \cup ToSet(waiting[s])
  BY CutQueues
<1>3. AssemblyTypeOK' /\ HistorySound' /\ Mirror'
  BY <1>1, <1>2, MirrorStays DEF AssemblyInv, AssemblyTypeOK, HistorySound
<1>4. Finished'
  BY DEF AssemblyInv, Finished
<1>5. PassedOver'
  <2>1. SUFFICES ASSUME Roomy, NEW tx \in offered', tx \notin ToSet(txs)
                 PROVE  tx \in ToSet(ready'[tx.sender]) \/ Dead(tx)'
    BY <1>1 DEF PassedOver, Roomy
  <2>2. tx \in Tx /\ tx.sender \in Sender
    BY TxShape DEF AssemblyInv, HistorySound
  <2>3. gas \in Nat /\ state \in State
    BY GasAssumption DEF AssemblyInv, AssemblyTypeOK, HistorySound
  <2>4. ASSUME Dead(tx) PROVE Dead(tx)'
    <3>1. /\ state' \in State /\ gas' \in Nat /\ gas' <= gas
          /\ state.claimed \subseteq state'.claimed
          /\ state'.nonce[tx.sender] = state.nonce[tx.sender]
      BY <1>1, <2>3
    <3>2. ToSet(ready'[tx.sender]) \cup ToSet(waiting'[tx.sender])
            \subseteq ToSet(ready[tx.sender]) \cup ToSet(waiting[tx.sender])
      BY <1>2, <2>2
    <3> QED BY ONLY AssemblyInv, <2>2, <2>4, <3>1, <3>2, DeadStays
  <2>5. tx \in ToSet(ready[tx.sender]) \/ Dead(tx)
    BY <2>1 DEF AssemblyInv, PassedOver
  <2>6. tx.sender # a => ready'[tx.sender] = ready[tx.sender]
    BY <2>2 DEF Cut, AssemblyInv, AssemblyTypeOK
  <2> QED BY <2>1, <2>4, <2>5, <2>6
<1> QED BY <1>2, <1>3, <1>4, <1>5 DEF AssemblyInv

LEMMA NoRoomStep ==
  ASSUME AssemblyInv, NEW a \in Sender, NoRoom(a)
  PROVE  AssemblyInv'
<1> DEFINE tx == Head(ready[a])
<1>1. /\ ready[a] # << >> /\ phase # "done" /\ Pop(a)
      /\ UNCHANGED <<block, waiting, phase, offered, whole, wasted, spoiled>>
  BY DEF NoRoom, Filling
<1>2. Cut(a) /\ ready'[a] = << >>
  BY <1>1, PopCuts
<1>3. /\ tx \in Tx /\ tx.sender = a /\ ToSet(ready[a]) = {tx} \cup ToSet(Tail(ready[a]))
      /\ Tail(ready[a]) \in Seq(Tx)
      /\ \A u \in ToSet(Tail(ready[a])) \cup ToSet(waiting[a]) : u.nonce > tx.nonce
  BY <1>1, HeadFacts
<1>4. ASSUME Roomy, NEW t \in ToSet(ready[a]) PROVE Dead(t)'
  <2>1. ~Oversized(tx)
    <3>1. Len(txs) \in Nat /\ MaxTxs \in Nat /\ Len(txs) < MaxTxs
      BY <1>4, GasAssumption DEF AssemblyInv, AssemblyTypeOK, Roomy
    <3> QED BY <3>1 DEF Oversized
  <2>2. ~WrongNonce(tx) /\ OutOfGas(tx)
    BY <2>1 DEF NoRoom
  <2>3. UNCHANGED <<state, gas, waiting>>
    BY <1>1 DEF block
  <2>4. ASSUME t = tx PROVE Dead(t)'
    BY <2>2, <2>3, <2>4 DEF OutOfGas, Dead
  <2>5. ASSUME t # tx PROVE Dead(t)'
    <3>1. t \in ToSet(Tail(ready[a])) /\ t \in ToSet(ready[a])
      BY <1>3, <2>5
    <3>2. t \in Tx /\ t.sender = a
      BY <1>3, <3>1, ToSetShape DEF AssemblyInv, QueuesOrdered
    <3>3. t.nonce > state'.nonce[t.sender]
      BY <1>3, <2>2, <2>3, <3>1, <3>2 DEF WrongNonce
    <3>4. ASSUME NEW u \in ToSet(ready'[a]) \cup ToSet(waiting'[a]) PROVE u.nonce > t.nonce
      <4>1. u \in ToSet(waiting[a])
        BY <1>2, <2>3 DEF ToSet
      <4>2. t.nonce < u.nonce
        BY <3>1, <4>1 DEF AssemblyInv, QueuesOrdered
      <4>3. u \in Tx
        BY <4>1, ToSetShape DEF AssemblyInv, AssemblyTypeOK
      <4> QED BY <3>2, <4>2, <4>3, TxShape
    <3> QED BY <3>2, <3>3, <3>4 DEF Dead
  <2> QED BY <2>4, <2>5
<1> QED BY <1>1, <1>2, <1>4, SkipStep

LEMMA RefuseEarlyStep ==
  ASSUME AssemblyInv, NEW a \in Sender, RefuseEarly(a)
  PROVE  AssemblyInv'
<1>0. PICK tx : tx = Head(ready[a])
  OBVIOUS
<1>1. /\ ready[a] # << >> /\ phase # "done" /\ Shift(a)
      /\ RefusedEarly(tx) \/ WrongNonce(tx)
      /\ UNCHANGED <<block, waiting, phase, offered, whole, wasted, spoiled>>
  BY <1>0 DEF RefuseEarly, Filling
<1>2. Cut(a) /\ ready'[a] = Tail(ready[a])
  BY <1>1, ShiftCuts
<1>3. /\ tx \in Tx /\ tx.sender = a /\ ToSet(ready[a]) = {tx} \cup ToSet(Tail(ready[a]))
      /\ \A u \in ToSet(Tail(ready[a])) \cup ToSet(waiting[a]) : u.nonce > tx.nonce
  BY <1>0, <1>1, HeadFacts
<1>4. UNCHANGED <<state, gas, waiting>>
  BY <1>1 DEF block
<1>5. Dead(tx)'
  <2>1. ASSUME RefusedEarly(tx) PROVE Dead(tx)'
    <3>1. Claims(tx, {"shielded"}) \cap state.claimed # {}
      BY <2>1 DEF RefusedEarly, AssemblyInv, HistorySound
    <3>2. Claims(tx, {"shielded", "tvm", "handler"}) \cap state'.claimed # {}
      BY <1>4, <3>1 DEF Claims
    <3> QED BY <3>2 DEF Dead
  <2>2. ASSUME WrongNonce(tx) PROVE Dead(tx)'
    <3>1. tx.nonce # state.nonce[a] /\ tx.nonce \in Nat /\ state.nonce[a] \in Nat
      BY <1>3, <2>2, TxShape DEF WrongNonce, AssemblyInv, HistorySound, State
    <3>2. tx.nonce < state.nonce[a] \/ tx.nonce > state.nonce[a]
      BY <3>1
    <3>3. \A u \in ToSet(ready'[a]) \cup ToSet(waiting'[a]) : u.nonce > tx.nonce
      BY <1>2, <1>3, <1>4
    <3> QED BY <1>3, <1>4, <3>2, <3>3 DEF Dead
  <2> QED BY <1>1, <2>1, <2>2
<1>6. \A t \in ToSet(ready[a]) \ (ToSet(ready'[a]) \cup ToSet(txs)) : t = tx
  BY <1>2, <1>3
<1>7. \A t \in ToSet(ready[a]) \ (ToSet(ready'[a]) \cup ToSet(txs)) : Dead(t)'
  BY <1>5, <1>6
<1> QED BY <1>1, <1>2, <1>7, SkipStep

LEMMA VanishStep ==
  ASSUME AssemblyInv, NEW a \in Sender, Vanish(a)
  PROVE  AssemblyInv'
<1>1. /\ phase # "done" /\ Pop(a) /\ offered' = offered \ ToSet(ready[a])
      /\ UNCHANGED <<block, waiting, phase, whole, wasted, spoiled>>
  BY DEF Vanish, Filling
<1>2. Cut(a)
  BY <1>1, PopCuts
<1> QED BY <1>1, <1>2, SkipStep

\* What a transaction that buys its gas has passed.
LEMMA BuysGasFacts ==
  ASSUME AssemblyInv, NEW tx \in Tx, BuysGas(tx)
  PROVE  /\ gas \in Nat /\ tx.body.gas \in Nat /\ tx.body.gas <= gas
         /\ gas - tx.body.gas \in 0..BlockGas
         /\ tx.nonce = state.nonce[tx.sender]
         /\ Claims(tx, {"shielded"}) \cap state.claimed = {}
         /\ Len(txs) \in Nat /\ Len(txs) + 1 <= MaxTxs
<1>1. gas \in 0..BlockGas /\ BlockGas \in Nat /\ MaxTxs \in Nat /\ txs \in Seq(Tx)
  BY GasAssumption DEF AssemblyInv, AssemblyTypeOK
<1>2. tx.body.gas \in Nat
  BY TxShape
<1>3. tx.body.gas <= gas
  BY <1>1, <1>2 DEF BuysGas, OutOfGas
<1>4. Len(txs) \in Nat /\ Len(txs) + 1 <= MaxTxs
  BY <1>1 DEF BuysGas, Oversized
<1>5. tx.nonce = state.nonce[tx.sender] /\ Claims(tx, {"shielded"}) \cap state.claimed = {}
  BY DEF BuysGas, WrongNonce, RefusedEarly
<1>6. gas \in Nat /\ gas - tx.body.gas \in 0..BlockGas
  BY <1>1, <1>2, <1>3
<1> QED BY <1>2, <1>3, <1>4, <1>5, <1>6

LEMMA RefuseBoughtStep ==
  ASSUME AssemblyInv, NEW a \in Sender, RefuseBought(a)
  PROVE  AssemblyInv'
<1> DEFINE tx == Head(ready[a])
<1>1. /\ ready[a] # << >> /\ phase # "done" /\ BuysGas(tx) /\ Shift(a)
      /\ gas' = gas - tx.body.gas /\ wasted' = wasted + tx.body.gas
      /\ UNCHANGED <<waiting, parent, state, cumulative, seen, txs, receipts, gasUsed, phase,
                     offered, whole, spoiled>>
  BY DEF RefuseBought, Filling
<1>2. tx \in Tx
  BY <1>1, HeadFacts
<1>3. /\ ready' \in [Sender -> Seq(Tx)] /\ waiting' \in [Sender -> Seq(Tx)] /\ QueuesOrdered'
  BY <1>1, ShiftCuts, CutQueues
<1> HIDE DEF tx
<1>4. gas \in Nat /\ tx.body.gas \in Nat /\ gas' \in 0..BlockGas
  BY <1>1, <1>2, BuysGasFacts
<1>5. tx.body.gas > 0
  BY <1>2, <1>4, TxShape, GasAssumption
<1>6. wasted \in Nat /\ spoiled \in Nat /\ spoiled <= wasted
  BY DEF AssemblyInv, HistorySound
<1>7. wasted' \in Nat /\ spoiled' <= wasted' /\ wasted' # 0
  BY <1>1, <1>4, <1>5, <1>6
<1>8. AssemblyTypeOK' /\ HistorySound'
  BY <1>1, <1>3, <1>4, <1>7 DEF AssemblyInv, AssemblyTypeOK, HistorySound
<1>9. Mirror'
  <2>1. Replay' = Replay /\ Replay \in Result /\ gas = BlockGas - Replay.used - wasted
    BY <1>1 DEF AssemblyInv, Mirror, Replay
  <2>2. Replay.used \in Nat /\ BlockGas \in Nat
    BY <2>1, GasAssumption DEF Result
  <2>3. gas' = gas - tx.body.gas /\ wasted' = wasted + tx.body.gas
    BY <1>1
  <2>4. /\ gas = BlockGas - Replay.used - wasted /\ tx.body.gas \in Nat /\ wasted \in Nat
        /\ Replay.used \in Nat /\ BlockGas \in Nat
    BY <1>4, <1>6, <2>1, <2>2
  <2>5. gas' = BlockGas - Replay.used - wasted'
    BY ONLY <2>3, <2>4
  <2> QED BY <1>1, <2>1, <2>5 DEF AssemblyInv, Mirror
<1>10. Finished' /\ PassedOver'
  BY <1>1, <1>7 DEF AssemblyInv, Finished, PassedOver, Roomy
<1> QED BY <1>3, <1>8, <1>9, <1>10 DEF AssemblyInv

\* The process ends: nothing it held is read again.
LEMMA RefuseLateStep ==
  ASSUME AssemblyInv, NEW a \in Sender, RefuseLate(a)
  PROVE  AssemblyInv'
<1>1. /\ phase' = "crashed"
      /\ UNCHANGED <<parent, state, gas, cumulative, seen, txs, receipts, gasUsed, ready, waiting,
                     offered, whole, wasted, spoiled>>
  BY DEF RefuseLate, block
<1>2. AssemblyTypeOK' /\ HistorySound' /\ QueuesOrdered' /\ Mirror'
  BY <1>1, MirrorStays DEF AssemblyInv, AssemblyTypeOK, HistorySound, QueuesOrdered
<1>3. Finished' /\ PassedOver'
  BY <1>1 DEF AssemblyInv, Finished, PassedOver, Roomy, Dead
<1> QED BY <1>2, <1>3 DEF AssemblyInv

LEMMA CompleteStep ==
  ASSUME AssemblyInv, Complete
  PROVE  AssemblyInv'
<1>1. /\ Exhausted /\ phase' = "done"
      /\ UNCHANGED <<parent, state, gas, cumulative, seen, txs, receipts, gasUsed, ready, waiting, offered,
                     whole, wasted, spoiled>>
  BY DEF Complete, block
<1>2. AssemblyTypeOK' /\ HistorySound' /\ QueuesOrdered' /\ Mirror'
  BY <1>1, MirrorStays DEF AssemblyInv, AssemblyTypeOK, HistorySound, QueuesOrdered
<1>3. Finished'
  BY <1>1 DEF AssemblyInv, Finished, Exhausted
<1>4. PassedOver'
  BY <1>1 DEF AssemblyInv, PassedOver, Roomy, Dead
<1> QED BY <1>2, <1>3, <1>4 DEF AssemblyInv

LEMMA InterruptStep ==
  ASSUME AssemblyInv, NEW outcome \in {"done", "dropped"}, Interrupt(outcome)
  PROVE  AssemblyInv'
<1>1. /\ phase' = outcome /\ whole' = FALSE
      /\ UNCHANGED <<parent, state, gas, cumulative, seen, txs, receipts, gasUsed, ready, waiting, offered,
                     wasted, spoiled>>
  BY DEF Interrupt, block
<1>2. AssemblyTypeOK' /\ HistorySound' /\ QueuesOrdered' /\ Mirror'
  BY <1>1, MirrorStays DEF AssemblyInv, AssemblyTypeOK, HistorySound, QueuesOrdered
<1>3. Finished' /\ PassedOver'
  BY <1>1 DEF Finished, PassedOver, Roomy
<1> QED BY <1>2, <1>3 DEF AssemblyInv

LEMMA IncludeStep ==
  ASSUME AssemblyInv, NEW a \in Sender, Include(a)
  PROVE  AssemblyInv'
<1>0. PICK tx : tx = Head(ready[a])
  OBVIOUS
<1>1. /\ ready[a] # << >> /\ phase # "done" /\ Executes(tx) /\ ~RefusedLate(tx) /\ Shift(a)
      /\ state' = Applied(state, tx) /\ gas' = gas - tx.body.gas
      /\ cumulative' = cumulative + tx.body.gas
      /\ seen' = seen \cup Claims(tx, {"shielded"})
      /\ txs' = Append(txs, tx) /\ receipts' = Append(receipts, cumulative + tx.body.gas)
      /\ gasUsed' = BlockGas - gas' /\ spoiled' = wasted
      /\ UNCHANGED <<waiting, parent, phase, offered, whole, wasted>>
  BY <1>0 DEF Include, Filling
<1>2. /\ tx \in Tx /\ tx.sender = a /\ tx \in ToSet(ready[a])
      /\ ToSet(ready[a]) = {tx} \cup ToSet(Tail(ready[a]))
  BY <1>0, <1>1, HeadFacts
<1>3. /\ Cut(a) /\ ready'[a] = Tail(ready[a]) /\ \A s \in Sender \ {a} : ready'[s] = ready[s]
  BY <1>1, ShiftCuts
<1>4. /\ ready' \in [Sender -> Seq(Tx)] /\ waiting' \in [Sender -> Seq(Tx)] /\ QueuesOrdered'
      /\ \A s \in Sender : ToSet(ready'[s]) \cup ToSet(waiting'[s])
                             \subseteq ToSet(ready[s]) \cup ToSet(waiting[s])
  BY <1>3, CutQueues
<1>5. /\ gas \in Nat /\ tx.body.gas \in Nat /\ tx.body.gas <= gas
      /\ gas - tx.body.gas \in 0..BlockGas
      /\ tx.nonce = state.nonce[tx.sender]
      /\ Claims(tx, {"shielded"}) \cap state.claimed = {}
      /\ Len(txs) \in Nat /\ Len(txs) + 1 <= MaxTxs
  BY <1>1, <1>2, BuysGasFacts DEF Executes
<1>6. gas' \in Nat /\ gas' <= gas /\ gas' \in 0..BlockGas /\ gasUsed' \in 0..BlockGas /\ BlockGas \in Nat
  <2>1. gas' = gas - tx.body.gas /\ gasUsed' = BlockGas - gas'
    BY <1>1
  <2>2. /\ BlockGas \in Nat /\ gas \in Nat /\ tx.body.gas \in Nat
        /\ gas - tx.body.gas \in 0..BlockGas
    BY <1>5, GasAssumption
  <2> QED BY ONLY <2>1, <2>2
<1>7. /\ state \in State /\ parent \in State /\ txs \in Seq(Tx)
      /\ wasted \in Nat /\ spoiled \in Nat /\ spoiled <= wasted
  BY DEF AssemblyInv, AssemblyTypeOK, HistorySound
<1>8. /\ state' \in State /\ state.claimed \subseteq state'.claimed
      /\ Claims(tx, {"shielded", "tvm", "handler"}) \subseteq state'.claimed
      /\ state'.nonce[a] = state.nonce[a] + 1
      /\ \A s \in Sender \ {a} : state'.nonce[s] = state.nonce[s]
  BY <1>1, <1>2, <1>7, AppliedState
<1>9. /\ txs' \in Seq(Tx) /\ Len(txs') = Len(txs) + 1 /\ ToSet(txs') = ToSet(txs) \cup {tx}
  BY <1>1, <1>2, <1>7, ToSetAppend
<1>10. AssemblyTypeOK'
  <2>1. state.nonce \in [Sender -> 0..(TxsPerSender + 1)]
    BY DEF AssemblyInv, AssemblyTypeOK
  <2>2. tx.nonce \in 0..(TxsPerSender - 1) /\ TxsPerSender \in Nat
    BY <1>2, TxShape, GasAssumption
  <2>3. state'.nonce[a] \in 0..(TxsPerSender + 1)
    BY <1>2, <1>5, <1>8, <2>2
  <2>4. \A s \in Sender : state'.nonce[s] \in 0..(TxsPerSender + 1)
    BY <1>8, <2>1, <2>3
  <2>5. state'.nonce \in [Sender -> Nat]
    BY <1>8 DEF State
  <2>6. state'.nonce \in [Sender -> 0..(TxsPerSender + 1)]
    BY <2>4, <2>5
  <2> QED BY <1>1, <1>4, <1>5, <1>6, <1>9, <2>6 DEF AssemblyInv, AssemblyTypeOK
<1>11. HistorySound'
  <2>0. cumulative' \in Nat /\ cumulative + tx.body.gas \in Nat
    <3>1. cumulative \in Nat
      BY DEF AssemblyInv, HistorySound
    <3>2. cumulative' = cumulative + tx.body.gas /\ tx.body.gas \in Nat
      BY <1>1, <1>5
    <3> QED BY ONLY <3>1, <3>2
  <2>1. receipts' \in Seq(Nat)
    BY <1>1, <2>0 DEF AssemblyInv, HistorySound
  <2>2. Claims(tx, {"shielded"}) \subseteq Claims(tx, {"shielded", "tvm", "handler"})
    BY DEF Claims
  <2>3. seen' \subseteq state'.claimed
    BY <1>1, <1>8, <2>2 DEF AssemblyInv, HistorySound
  <2> QED BY <1>1, <1>7, <1>8, <2>0, <2>1, <2>3 DEF AssemblyInv, HistorySound
<1>12. Mirror'
  <2> DEFINE R == Import(parent, txs)
  <2>1. /\ R \in Result /\ R.ok /\ R.state = state /\ gas = BlockGas - R.used - wasted
        /\ gasUsed = R.used + spoiled /\ cumulative = R.used /\ receipts = R.receipts
    BY DEF AssemblyInv, Mirror, Replay
  <2>2. Replay' = Processed(R, tx) /\ Replay' \in Result
    <3>1. Replay' = Import(parent, Append(txs, tx))
      BY <1>1 DEF Replay
    <3> QED BY <1>2, <1>7, <2>1, <3>1, ImportAppend, ProcessedType
  <2> HIDE DEF R
  <2>3. R.used \in Nat /\ R.receipts \in Seq(Nat)
    BY <2>1 DEF Result
  <2>4. /\ gas' = gas - tx.body.gas /\ gas = BlockGas - R.used - wasted /\ tx.body.gas <= gas
        /\ gas \in Nat /\ tx.body.gas \in Nat /\ R.used \in Nat /\ wasted \in Nat /\ BlockGas \in Nat
    BY <1>1, <1>5, <1>6, <1>7, <2>1, <2>3
  <2>5. tx.body.gas <= BlockGas - R.used
    BY ONLY <2>4
  <2>6. ImportTxOk(R.state, BlockGas - R.used, tx)
    <3>1. Claims(tx, {"tvm", "handler"}) \cap state.claimed = {}
      BY <1>1 DEF RefusedLate
    <3>2. Claims(tx, {"shielded", "tvm"}) \cap state.claimed = {}
      BY <1>5, <3>1 DEF Claims
    <3>3. Claims(tx, {"handler"}) \cap state.claimed = {}
      BY <3>1 DEF Claims
    <3>4. ~Short(tx)
      BY <1>1 DEF Executes
    <3> QED BY <1>5, <2>1, <2>5, <3>2, <3>3, <3>4 DEF ImportTxOk
  <2>7. /\ Replay'.ok /\ Replay'.state = state' /\ Replay'.used = R.used + tx.body.gas
        /\ Replay'.receipts = Append(R.receipts, R.used + tx.body.gas)
    BY <1>1, <2>1, <2>2, <2>6 DEF Processed
  <2>8. gas' = BlockGas - (R.used + tx.body.gas) - wasted
    BY ONLY <2>4
  <2>9. BlockGas - gas' = (R.used + tx.body.gas) + wasted
    BY ONLY <2>4, <2>8
  <2>10. cumulative' = R.used + tx.body.gas /\ receipts' = Append(R.receipts, R.used + tx.body.gas)
    BY <1>1, <2>1
  <2> QED BY <1>1, <2>2, <2>7, <2>8, <2>9, <2>10 DEF Mirror
<1>13. Finished'
  BY <1>1 DEF AssemblyInv, Finished
<1>14. PassedOver'
  <2>1. SUFFICES ASSUME Roomy', NEW t \in offered, t \notin ToSet(txs')
                 PROVE  t \in ToSet(ready'[t.sender]) \/ Dead(t)'
    BY <1>1 DEF PassedOver
  <2>2. Roomy
    <3>1. MaxTxs \in Nat
      BY GasAssumption
    <3> QED BY <1>1, <1>5, <1>9, <2>1, <3>1 DEF Roomy
  <2>3. t \in Tx /\ t.sender \in Sender /\ t # tx /\ t \notin ToSet(txs)
    BY <1>9, <2>1, TxShape DEF AssemblyInv, HistorySound
  <2>4. t \in ToSet(ready[t.sender]) \/ Dead(t)
    BY <2>2, <2>3 DEF AssemblyInv, PassedOver
  <2>5. t \in ToSet(ready[t.sender]) => t \in ToSet(ready'[t.sender])
    BY <1>2, <1>3, <2>3
  <2>6. ASSUME Dead(t) PROVE Dead(t)'
    <3>1. \/ state'.nonce[t.sender] = state.nonce[t.sender]
          \/ /\ state'.nonce[t.sender] = state.nonce[t.sender] + 1
             /\ \E u \in ToSet(ready[t.sender]) : u.nonce = state.nonce[t.sender]
      BY <1>2, <1>5, <1>8, <2>3
    <3>2. ToSet(ready'[t.sender]) \cup ToSet(waiting'[t.sender])
            \subseteq ToSet(ready[t.sender]) \cup ToSet(waiting[t.sender])
      BY <1>4, <2>3
    <3> QED BY ONLY AssemblyInv, <1>6, <1>8, <2>3, <2>6, <3>1, <3>2, DeadStays
  <2> QED BY <2>4, <2>5, <2>6
<1> QED BY <1>4, <1>10, <1>11, <1>12, <1>13, <1>14 DEF AssemblyInv

LEMMA NewTxsStep ==
  ASSUME AssemblyInv, NEW a \in Sender, NewTxs(a)
  PROVE  AssemblyInv'
<1>1. /\ phase \in {"done", "dropped"} /\ phase' = "refill" /\ seen' = {}
      /\ ready' = [b \in Sender |-> IF b = a THEN waiting[a] ELSE << >>]
      /\ waiting' = [waiting EXCEPT ![a] = << >>]
      /\ offered' = offered \cup ToSet(waiting[a])
      /\ UNCHANGED <<parent, state, gas, cumulative, txs, receipts, gasUsed, whole, wasted, spoiled>>
  BY DEF NewTxs
<1>2. ready \in [Sender -> Seq(Tx)] /\ waiting \in [Sender -> Seq(Tx)] /\ gas \in Nat /\ state \in State
  BY GasAssumption DEF AssemblyInv, AssemblyTypeOK, HistorySound
<1>3. << >> \in Seq(Tx) /\ ToSet(<< >>) = {} /\ Increasing(<< >>)
  BY DEF ToSet, Increasing
<1>4. ready' \in [Sender -> Seq(Tx)] /\ waiting' \in [Sender -> Seq(Tx)]
  BY <1>1, <1>2, <1>3
<1>5. /\ ready'[a] = waiting[a] /\ waiting'[a] = << >>
      /\ \A s \in Sender \ {a} : ready'[s] = << >> /\ waiting'[s] = waiting[s]
  BY <1>1, <1>2
<1>6. \A s \in Sender : ToSet(ready'[s]) \cup ToSet(waiting'[s])
                          \subseteq ToSet(ready[s]) \cup ToSet(waiting[s])
  BY <1>3, <1>5
<1>7. QueuesOrdered'
  <2>1. ASSUME NEW s \in Sender
        PROVE  /\ \A t \in ToSet(ready'[s]) \cup ToSet(waiting'[s]) : t.sender = s
               /\ Increasing(ready'[s]) /\ Increasing(waiting'[s])
               /\ \A t \in ToSet(ready'[s]), u \in ToSet(waiting'[s]) : t.nonce < u.nonce
    <3>1. /\ \A t \in ToSet(ready[s]) \cup ToSet(waiting[s]) : t.sender = s
          /\ Increasing(waiting[s])
      BY DEF AssemblyInv, QueuesOrdered
    <3>2. ToSet(ready'[s]) = {} \/ ToSet(waiting'[s]) = {}
      BY <1>3, <1>5
    <3>3. Increasing(ready'[s]) /\ Increasing(waiting'[s])
      BY <1>3, <1>5, <3>1
    <3> QED BY <1>6, <3>1, <3>2, <3>3
  <2> QED BY <2>1 DEF QueuesOrdered
<1>8. ToSet(waiting[a]) \subseteq Tx
  BY <1>2, ToSetShape
<1>9. AssemblyTypeOK' /\ HistorySound' /\ Mirror'
  BY <1>1, <1>4, <1>8, MirrorStays DEF AssemblyInv, AssemblyTypeOK, HistorySound
<1>10. Finished'
  BY <1>1 DEF Finished
<1>11. PassedOver'
  <2>1. SUFFICES ASSUME Roomy, NEW t \in offered', t \notin ToSet(txs)
                 PROVE  t \in ToSet(ready'[t.sender]) \/ Dead(t)'
    BY <1>1 DEF PassedOver, Roomy
  <2>2. Exhausted
    BY <1>1, <2>1 DEF AssemblyInv, Finished, Roomy
  <2>3. ASSUME t \in ToSet(waiting[a]) PROVE t \in ToSet(ready'[t.sender])
    BY <1>5, <2>3 DEF AssemblyInv, QueuesOrdered
  <2>4. ASSUME t \in offered PROVE Dead(t)'
    <3>1. t \in Tx /\ t.sender \in Sender
      BY <2>4, TxShape DEF AssemblyInv, HistorySound
    <3>2. ASSUME t \in ToSet(ready[t.sender]) PROVE t.body.gas > gas
      <4>1. ready[t.sender] # << >>
        BY <3>2 DEF ToSet
      <4>2. gas < TxGas /\ TxGas \in Nat
        BY <2>2, <3>1, <4>1, GasAssumption DEF Exhausted
      <4> QED BY <1>2, <3>1, <4>2, TxShape
    <3>3. Dead(t)
      BY <2>1, <2>4, <3>2 DEF AssemblyInv, PassedOver, Dead
    <3>4. /\ state' \in State /\ gas' \in Nat /\ gas' <= gas
          /\ state.claimed \subseteq state'.claimed
          /\ state'.nonce[t.sender] = state.nonce[t.sender]
      BY <1>1, <1>2
    <3>5. ToSet(ready'[t.sender]) \cup ToSet(waiting'[t.sender])
            \subseteq ToSet(ready[t.sender]) \cup ToSet(waiting[t.sender])
      BY <1>6, <3>1
    <3> QED BY ONLY AssemblyInv, <3>1, <3>3, <3>4, <3>5, DeadStays
  <2> QED BY <1>1, <2>3, <2>4
<1> QED BY <1>7, <1>9, <1>10, <1>11 DEF AssemblyInv

LEMMA StutterStep ==
  ASSUME AssemblyInv, UNCHANGED bvars
  PROVE  AssemblyInv'
<1>1. UNCHANGED <<ready, waiting, parent, state, gas, cumulative, seen, txs, receipts, gasUsed,
                  phase, offered, whole, wasted, spoiled>>
  BY DEF bvars
<1>2. AssemblyTypeOK' /\ HistorySound' /\ QueuesOrdered' /\ Mirror'
  BY <1>1, MirrorStays DEF AssemblyInv, AssemblyTypeOK, HistorySound, QueuesOrdered
<1>3. Finished' /\ PassedOver'
  BY <1>1 DEF AssemblyInv, Finished, Exhausted, PassedOver, Roomy, Dead
<1> QED BY <1>2, <1>3 DEF AssemblyInv

(***************************************************************************)
(* The theorems                                                            *)
(***************************************************************************)
\* Every reachable state of the worker satisfies the inductive invariant.
THEOREM AssemblyInvariant == Spec => []AssemblyInv
<1>1. Init => AssemblyInv
  BY InitAssembly
<1>2. AssemblyInv /\ [Next]_bvars => AssemblyInv'
  <2> SUFFICES ASSUME AssemblyInv, [Next]_bvars PROVE AssemblyInv'
    OBVIOUS
  <2>1. ASSUME NEW a \in Sender, Include(a) PROVE AssemblyInv'
    BY <2>1, IncludeStep
  <2>2. ASSUME NEW a \in Sender, RefuseLate(a) PROVE AssemblyInv'
    BY <2>2, RefuseLateStep
  <2>3. ASSUME NEW a \in Sender, NoRoom(a) PROVE AssemblyInv'
    BY <2>3, NoRoomStep
  <2>4. ASSUME NEW a \in Sender, RefuseEarly(a) PROVE AssemblyInv'
    BY <2>4, RefuseEarlyStep
  <2>5. ASSUME NEW a \in Sender, Vanish(a) PROVE AssemblyInv'
    BY <2>5, VanishStep
  <2>6. ASSUME NEW a \in Sender, NewTxs(a) PROVE AssemblyInv'
    BY <2>6, NewTxsStep
  <2>7. CASE Complete
    BY <2>7, CompleteStep
  <2>8. CASE Interrupt("done") \/ Interrupt("dropped")
    BY <2>8, InterruptStep
  <2>9. CASE UNCHANGED bvars
    BY <2>9, StutterStep
  <2>10. ASSUME NEW a \in Sender, RefuseBought(a) PROVE AssemblyInv'
    BY <2>10, RefuseBoughtStep
  <2> QED BY <2>1, <2>2, <2>3, <2>4, <2>5, <2>6, <2>7, <2>8, <2>9, <2>10 DEF Next
<1> QED BY <1>1, <1>2, PTL DEF Spec

\* Type correctness: the gas pool never leaves the block's limit, the body never
\* outgrows its size, the queues stay queues of transactions.
THEOREM AssemblyTypeCorrect == Spec => []AssemblyTypeOK
<1>1. AssemblyInv => AssemblyTypeOK
  BY DEF AssemblyInv
<1> QED BY <1>1, AssemblyInvariant, PTL

\* The miner mirrors StateProcessor: the body replays, at every moment and in
\* whatever order transactions were tried, to the state and the receipts the
\* miner holds; the header's gas agrees exactly when no inclusion followed a
\* transaction that had bought gas and was refused.
THEOREM MirrorCorrect == Spec => []MirrorsImport
<1>1. AssemblyInv => MirrorsImport
  <2> SUFFICES ASSUME AssemblyInv PROVE MirrorsImport
    OBVIOUS
  <2>1. /\ Replay \in Result /\ Replay.ok /\ Replay.state = state
        /\ gasUsed = Replay.used + spoiled
        /\ receipts = Replay.receipts /\ spoiled \in Nat
    BY DEF AssemblyInv, Mirror, HistorySound
  <2>2. Replay.used \in Nat
    BY <2>1 DEF Result
  <2>3. gasUsed = Replay.used <=> spoiled = 0
    BY <2>1, <2>2
  <2> QED BY <2>1, <2>3 DEF MirrorsImport
<1> QED BY <1>1, AssemblyInvariant, PTL

\* When the filling ran to its end and no refused transaction kept gas, import
\* refuses every offered transaction that was left out.
THEOREM LeftOutCorrect == Spec => []NothingLeftOut
<1>1. AssemblyInv => NothingLeftOut
  <2> SUFFICES ASSUME AssemblyInv, phase = "done", Roomy, NEW tx \in offered \ ToSet(txs)
               PROVE  ~Import(parent, Append(txs, tx)).ok
    BY DEF NothingLeftOut, Roomy
  <2>1. /\ tx \in Tx /\ tx.sender \in Sender /\ tx.nonce \in Nat /\ tx.body.gas \in Nat
        /\ tx.body.gas >= TxGas
    BY TxShape DEF AssemblyInv, HistorySound
  <2>2. /\ parent \in State /\ state \in State /\ txs \in Seq(Tx) /\ gas \in Nat
        /\ state.nonce[tx.sender] \in Nat
    BY <2>1, GasAssumption DEF AssemblyInv, AssemblyTypeOK, HistorySound, State
  <2>3. Exhausted /\ wasted = 0
    BY DEF AssemblyInv, Finished, Roomy
  <2>4. ASSUME tx \in ToSet(ready[tx.sender]) PROVE Dead(tx)
    <3>1. ready[tx.sender] # << >>
      BY <2>4 DEF ToSet
    <3>2. gas < TxGas /\ TxGas \in Nat
      BY <2>1, <2>3, <3>1, GasAssumption DEF Exhausted
    <3>3. tx.body.gas > gas
      BY <2>1, <2>2, <3>2
    <3> QED BY <3>3 DEF Dead
  <2>5. Dead(tx)
    BY <2>4 DEF AssemblyInv, PassedOver
  <2> DEFINE R == Import(parent, txs)
  <2>6. /\ R \in Result /\ R.state = state /\ gas = BlockGas - R.used - wasted
    BY DEF AssemblyInv, Mirror, Replay
  <2>7. Import(parent, Append(txs, tx)) = Processed(R, tx)
    BY <2>1, <2>2, ImportAppend
  <2> HIDE DEF R
  <2>8. BlockGas - R.used = gas
    <3>1. R.used \in Nat /\ BlockGas \in Nat
      BY <2>6, GasAssumption DEF Result
    <3> QED BY <2>3, <2>6, <3>1
  <2>9. ~ImportTxOk(state, gas, tx)
    <3>1. ASSUME Claims(tx, {"shielded", "tvm", "handler"}) \cap state.claimed # {}
          PROVE  ~ImportTxOk(state, gas, tx)
      BY <3>1 DEF ImportTxOk, Claims
    <3>2. ASSUME tx.nonce < state.nonce[tx.sender] \/ tx.nonce > state.nonce[tx.sender]
          PROVE  ~ImportTxOk(state, gas, tx)
      <4>1. tx.nonce # state.nonce[tx.sender]
        BY <2>1, <2>2, <3>2
      <4> QED BY <4>1 DEF ImportTxOk
    <3>3. ASSUME tx.body.gas > gas PROVE ~ImportTxOk(state, gas, tx)
      <4>1. ~(tx.body.gas <= gas)
        BY <2>1, <2>2, <3>3
      <4> QED BY <4>1 DEF ImportTxOk
    <3>4. ASSUME Short(tx) PROVE ~ImportTxOk(state, gas, tx)
      BY <3>4 DEF ImportTxOk
    <3> QED BY <2>5, <3>1, <3>2, <3>3, <3>4 DEF Dead
  <2>10. Processed(R, tx) = [R EXCEPT !.ok = FALSE]
    BY <2>6, <2>8, <2>9 DEF Processed
  <2> QED BY <2>6, <2>7, <2>10 DEF Result
<1> QED BY <1>1, AssemblyInvariant, PTL
=============================================================================
