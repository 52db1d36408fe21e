------------------------- MODULE TransactionBucket -------------------------
(***************************************************************************)
(* The daemon's bucket of signed shielded transactions                      *)
(* (eth/transaction_bucket.go), with the parts of the node it leans on: the *)
(* canonical chain of the sender, the transaction pool and the tracker of   *)
(* local transactions behind SendTx.                                        *)
(*                                                                         *)
(* bucket.mu serialises the bucket's own operations but neither the chain   *)
(* nor the pool, so one pass of scheduleBatchLocked is several steps: read  *)
(* the account nonce, reconcile the entries, submit one entry at a time,    *)
(* settle.  The chain, the pool and a crash may come between any two.       *)
(*                                                                         *)
(* One sender: batches of different senders share only the raw-byte budget. *)
(* The transaction of entry i of batch b is the pair of its nonce and b; a  *)
(* raw transaction counts one byte.  Times are kept as time left or time    *)
(* passed, so that no clock has to be bounded; `now` is fixed while the     *)
(* mutex is held.                                                           *)
(***************************************************************************)
EXTENDS Integers, Sequences, FiniteSets

CONSTANTS
    BatchId,            \* random batch ids, never drawn twice
    Foreign,            \* the owner of the sender's other transactions
    MaxExpected,        \* transactionBucketMaxTransactions
    Window,             \* transactionBucketWindowSize
    MaxRawBytes,        \* transactionBucketMaxRawBytes
    ActiveTTL,          \* transactionBucketActiveTTL
    RetryInterval,      \* transactionBucketRetryInterval
    Retention,          \* transactionBucketRetention
    MaxNonce,           \* bound: nonces 0..MaxNonce-1 are used
    MaxFaults           \* bound: faults of the environment in a behaviour

ASSUME BucketAssumption ==
    /\ IsFiniteSet(BatchId) /\ Foreign \notin BatchId
    /\ MaxExpected \in Nat \ {0} /\ Window \in Nat \ {0}
    /\ MaxRawBytes \in Nat \ {0} /\ ActiveTTL \in Nat \ {0}
    /\ RetryInterval \in Nat \ {0} /\ Retention \in Nat \ {0}
    /\ MaxNonce \in Nat /\ MaxFaults \in Nat

VARIABLES
    batches,    \* bucket.batches, in memory
    disk,       \* the key-value store: metadata and entries of each batch
    lock,       \* who holds bucket.mu, and how far its scheduling pass is
    canon,      \* the sender's transactions on the canonical chain
    pool,       \* the sender's transactions in the node's pool
    tracked,    \* localTxTracker's transactions, journalled
    faults,     \* faults so far
    entered,    \* history: transactions that were ever in the pool or mined
    acked,      \* history: transactions whose queueing was acknowledged
    canceled,   \* history: batches whose cancellation was acknowledged
    lostWrite   \* history: a failed write left memory ahead of the store

vars == <<batches, disk, lock, canon, pool, tracked, faults, entered, acked,
          canceled, lostWrite>>

Unused == [state |-> "unused"]
Pruned == [state |-> "pruned"]
Terminal == {"canceled", "expired", "failed"}
Active == {"receiving", "processing"}

Tx == [nonce : 0..(MaxNonce - 1), owner : BatchId \cup {Foreign}]
Entry == [status : {"queued", "submitted", "confirmed", "failed", "canceled"},
          raw : BOOLEAN,                \* Raw is still kept
          wait : 0..RetryInterval]      \* until LastAttempt is old enough
Entries == UNION {[1..n -> Entry] : n \in 1..MaxExpected}
Batch == [state : Active \cup Terminal \cup {"completed"},
          base : 0..(MaxNonce - 1), expected : 1..MaxExpected, email : BOOLEAN,
          rawBytes : Int,
          ttl : 0..ActiveTTL,           \* until ExpiresAt
          done : BOOLEAN,               \* CompletedAt > 0
          age : 0..(Retention + 1),     \* since CompletedAt
          entries : Entries]

Exists(store, b) == store[b].state \notin {"unused", "pruned"}
Live == {b \in BatchId : Exists(batches, b)}
ActiveBatches == {b \in BatchId : batches[b].state \in Active}
TxOf(b, i) == [nonce |-> batches[b].base + i - 1, owner |-> b]
WithStatus(B, S) == {i \in DOMAIN B.entries : B.entries[i].status \in S}
RawCount(B) == Cardinality({i \in DOMAIN B.entries : B.entries[i].raw})
Least(S) == CHOOSE n \in S : \A m \in S : n <= m
Largest(S) == CHOOSE n \in S : \A m \in S : m <= n

CanonicalNonce == Len(canon)
Canonical(tx) == tx.nonce < Len(canon) /\ canon[tx.nonce + 1] = tx
PoolNonces == {tx.nonce : tx \in pool}
\* txPool.PoolNonce: the first nonce the pending transactions leave open.
PoolNonce == Least({n \in Len(canon)..MaxNonce : n \notin PoolNonces})

Idle == [phase |-> "idle"]
Scheduling(b, todo, ticking) ==
    [phase |-> "nonce", id |-> b, nonce |-> 0, changed |-> {}, todo |-> todo,
     ticking |-> ticking]

Unlocked == lock.phase = "idle"
Node == <<canon, pool, tracked, entered>>
Fault == faults < MaxFaults /\ faults' = faults + 1

(***************************************************************************)
(* Persistence                                                             *)
(***************************************************************************)
\* persistLocked: the metadata and the entries that changed, in one write.
Stored(old, B, changed) ==
    [B EXCEPT !.entries =
        [i \in DOMAIN B.entries |->
            IF i \in changed \/ ~(i \in DOMAIN old.entries)
            THEN B.entries[i] ELSE old.entries[i]]]

Save(b, B, changed, write) ==
    /\ batches' = [batches EXCEPT ![b] = B]
    /\ disk' = IF write THEN [disk EXCEPT ![b] = Stored(disk[b], B, changed)] ELSE disk

(***************************************************************************)
(* The RPC methods                                                         *)
(***************************************************************************)
\* Mutant: a message may join a batch of ordinary transactions.
ValidIfMessage(n, email) ==
    /\ ActiveBatches # {} => email /\ n = 1
    /\ Cardinality(ActiveBatches) < Window

\* validateNewBatchLocked
ValidNewBatch(n, email) ==
    /\ ActiveBatches # {} =>
        email /\ n = 1 /\ \A b \in ActiveBatches : batches[b].email
    /\ Cardinality(ActiveBatches) < Window

\* nextSenderNonceLocked; with reservedNonce, what GetPoolNonce answers.
NextSenderNonce ==
    Largest({PoolNonce} \cup {batches[b].base + batches[b].expected : b \in ActiveBatches})

\* The sum of size[b] over the batches b of S.
SumOver(size) ==
    LET used[S \in SUBSET BatchId] ==
          IF S = {} THEN 0
          ELSE LET b == CHOOSE x \in S : TRUE IN used[S \ {b}] + size[b]
    IN  used

RawBytesOf(b) == IF b \in Live THEN batches[b].rawBytes ELSE 0
TotalRawBytes == SumOver([b \in BatchId |-> RawBytesOf(b)])[BatchId]

NewEntry == [status |-> "queued", raw |-> TRUE, wait |-> 0]

\* begin: a failed write deletes the batch again and so leaves no trace.
Begin(b, n, email) ==
    LET B == [state |-> IF n = 1 THEN "processing" ELSE "receiving",
              base |-> NextSenderNonce, expected |-> n, email |-> email,
              rawBytes |-> 1, ttl |-> ActiveTTL, done |-> FALSE, age |-> 0,
              entries |-> <<NewEntry>>]
    IN  /\ Unlocked
        /\ batches[b] = Unused
        /\ email => n = 1
        /\ ValidNewBatch(n, email)
        /\ NextSenderNonce + n <= MaxNonce
        /\ TotalRawBytes + 1 <= MaxRawBytes
        /\ batches' = [batches EXCEPT ![b] = B]
        /\ disk' = [disk EXCEPT ![b] = B]
        /\ acked' = acked \cup {<<b, 1>>}
        /\ lock' = Scheduling(b, {}, FALSE)
        /\ UNCHANGED <<Node, faults, canceled, lostWrite>>

\* What queue makes of the batch before it writes.
Extended(B) ==
    [B EXCEPT !.entries = Append(@, NewEntry),
              !.rawBytes = @ + 1,
              !.ttl = ActiveTTL,
              !.state = IF Len(B.entries) + 1 = B.expected THEN "processing" ELSE @]

\* Mutant: the bytes of the refused entry stay counted.
RollbackKeepsBytes(B, old) ==
    [B EXCEPT !.entries = SubSeq(@, 1, Len(@) - 1), !.state = old.state, !.ttl = old.ttl]

\* What queue takes back when the write fails.
Rollback(B, old) ==
    [B EXCEPT !.entries = SubSeq(@, 1, Len(@) - 1),
              !.rawBytes = @ - 1,
              !.state = old.state,
              !.ttl = old.ttl]

\* Mutant: the write is left to the scheduler, which may have nothing to write.
QueueWritesLater(b, B) == disk

QueueWrites(b, B) == [disk EXCEPT ![b] = Stored(disk[b], B, {Len(B.entries)})]

\* Mutant: the index is not compared with the announced count.
AnyIndex(B) == TRUE

InRange(B) == Len(B.entries) < B.expected

\* queue: the next entry in order; an entry that is already there is answered
\* from memory and changes nothing.
Queue(b) ==
    LET B == Extended(batches[b])
    IN  /\ Unlocked
        /\ batches[b].state \in Active
        /\ batches[b].ttl > 0
        /\ InRange(batches[b])
        /\ TotalRawBytes + 1 <= MaxRawBytes
        /\ \/ /\ batches' = [batches EXCEPT ![b] = B]
              /\ disk' = QueueWrites(b, B)
              /\ acked' = acked \cup {<<b, Len(B.entries)>>}
              /\ lock' = Scheduling(b, {}, FALSE)
              /\ UNCHANGED faults
           \/ /\ batches' = [batches EXCEPT ![b] = Rollback(B, batches[b])]
              /\ Fault
              /\ UNCHANGED <<disk, acked, lock>>
        /\ UNCHANGED <<Node, canceled, lostWrite>>

Status(b) ==
    /\ Unlocked
    /\ Exists(batches, b)
    /\ lock' = Scheduling(b, {}, FALSE)
    /\ UNCHANGED <<batches, disk, Node, faults, acked, canceled, lostWrite>>

\* The entries of S give up their raw transaction.
Discard(B, S, status) ==
    [B EXCEPT !.entries = [i \in DOMAIN B.entries |->
                  IF i \in S THEN [B.entries[i] EXCEPT !.status = status, !.raw = FALSE]
                  ELSE B.entries[i]],
              !.rawBytes = @ - Cardinality({i \in S : B.entries[i].raw})]

Closed(B, state) == [B EXCEPT !.state = state, !.done = TRUE, !.age = 0]

Withdrawn(B) == Discard(Closed(B, "canceled"), WithStatus(B, {"queued"}), "canceled")

\* cancel: a failed write is reported, with memory already changed.
Cancel(b) ==
    LET B == Withdrawn(batches[b])
    IN  /\ Unlocked
        /\ Exists(batches, b)
        /\ batches[b].state # "completed"
        /\ \/ /\ Save(b, B, WithStatus(batches[b], {"queued"}), TRUE)
              /\ canceled' = canceled \cup {b}
              /\ UNCHANGED <<faults, lostWrite>>
           \/ /\ Fault
              /\ batches' = [batches EXCEPT ![b] = B]
              /\ lostWrite' = TRUE
              /\ UNCHANGED <<disk, canceled>>
        /\ UNCHANGED <<Node, lock, acked>>

(***************************************************************************)
(* scheduleBatchLocked                                                     *)
(***************************************************************************)
\* After a pass: run goes on to its next batch, any other caller unlocks.
Released(todo) == IF todo = {} THEN Idle
                  ELSE [phase |-> "next", todo |-> todo]

Prunable(B) == lock.ticking /\ B.done /\ B.age > Retention

Forget(b) ==
    /\ batches' = [batches EXCEPT ![b] = Pruned]
    /\ disk' = [disk EXCEPT ![b] = Pruned]

\* The end of a pass.  run prunes the batch it has just scheduled, in the store
\* and in memory; when the delete fails the batch waits for the next tick.
Finish(b, B, changed, write) ==
    /\ lock' = Released(lock.todo)
    /\ IF Prunable(B)
       THEN \/ Forget(b) /\ UNCHANGED <<lostWrite, faults>>
            \/ /\ Fault
               /\ Save(b, B, changed, write)
               /\ UNCHANGED lostWrite
       ELSE \/ Save(b, B, changed, write) /\ UNCHANGED <<lostWrite, faults>>
            \/ /\ write /\ Fault
               /\ lostWrite' = TRUE
               /\ batches' = [batches EXCEPT ![b] = B]
               /\ UNCHANGED disk

\* run: one tick schedules every batch, in the order of the random ids.
Run ==
    /\ Unlocked
    /\ Live # {}
    /\ lock' = [phase |-> "next", todo |-> Live]
    /\ UNCHANGED <<batches, disk, Node, faults, acked, canceled, lostWrite>>

RunNext ==
    /\ lock.phase = "next"
    /\ \E b \in lock.todo : lock' = Scheduling(b, lock.todo \ {b}, TRUE)
    /\ UNCHANGED <<batches, disk, Node, faults, acked, canceled, lostWrite>>

\* The account nonce is read first; without a head state the pass ends.
ReadNonce ==
    /\ lock.phase = "nonce"
    /\ \/ /\ lock' = [lock EXCEPT !.phase = "reconcile", !.nonce = CanonicalNonce]
          /\ UNCHANGED <<batches, disk, faults, lostWrite>>
       \/ /\ Fault
          /\ lock' = Released(lock.todo)
          /\ IF Prunable(batches[lock.id])
             THEN Forget(lock.id)
             ELSE UNCHANGED <<batches, disk>>
          /\ UNCHANGED lostWrite
    /\ UNCHANGED <<Node, acked, canceled>>


\* Mutant: a submitted transaction that left the pool stays submitted.
SubmittedForGood(status, tx) ==
    IF status \in {"canceled", "failed"} THEN status
    ELSE IF Canonical(tx) THEN "confirmed"
    ELSE IF tx.nonce < lock.nonce THEN "failed"
    ELSE IF tx \in pool \/ status = "submitted" THEN "submitted"
    ELSE "queued"

\* What the chain and the pool say of an entry now; lock.nonce is as old as the
\* pass.
Observed(status, tx) ==
    IF status \in {"canceled", "failed"} THEN status
    ELSE IF Canonical(tx) THEN "confirmed"
    ELSE IF tx.nonce < lock.nonce THEN "failed"
    ELSE IF tx \in pool THEN "submitted"
    ELSE "queued"

Reconciled(b) ==
    LET B == batches[b]
        R == [B EXCEPT !.entries = [i \in DOMAIN B.entries |->
                 [B.entries[i] EXCEPT !.status = Observed(@, TxOf(b, i))]]]
    IN  IF WithStatus(R, {"failed"}) = WithStatus(B, {"failed"}) THEN R
        ELSE Closed(R, "failed")

Expiry(B) == Discard(Closed(B, "expired"), WithStatus(B, {"queued"}), "canceled")

Differ(B, R) == {i \in DOMAIN B.entries : B.entries[i] # R.entries[i]}

\* Mutant: a canceled batch is scheduled on.
IsClosedNotCanceled(B) == B.state \in {"expired", "failed"}

IsClosed(B) == B.state \in Terminal

\* The entries meet the chain and the pool; a closed batch goes no further, and
\* one that was not received in time expires.
Reconcile ==
    LET b == lock.id
        B == batches[b]
        R == Reconciled(b)
        X == Expiry(R)
    IN  /\ lock.phase = "reconcile"
        /\ IF IsClosed(R)
           THEN Finish(b, R, Differ(B, R), Differ(B, R) # {})
           ELSE IF R.ttl = 0 /\ Len(R.entries) < R.expected
           THEN Finish(b, X, Differ(B, X), TRUE)
           ELSE /\ batches' = [batches EXCEPT ![b] = R]
                /\ lock' = [lock EXCEPT !.phase = "submit", !.changed = Differ(B, R)]
                /\ UNCHANGED <<disk, faults, lostWrite>>
        /\ UNCHANGED <<Node, acked, canceled>>

Sendable(B) == {i \in WithStatus(B, {"queued"}) : B.entries[i].raw}

\* Mutant: the loop runs from the last entry.
LastToSend(B) == Largest(Sendable(B))

\* The entry the submission loop comes to next.
NextToSend(B) == Least(Sendable(B))

\* The window has room and the entry is not waiting to be retried.
MaySend(B) ==
    /\ Cardinality(WithStatus(B, {"submitted"})) < Window
    /\ Sendable(B) # {}
    /\ B.entries[NextToSend(B)].wait = 0

Attempted(B, i, status) ==
    [B EXCEPT !.entries[i].wait = RetryInterval, !.entries[i].status = status]

\* The state of a batch that is still open when its pass ends.
Settled(B) ==
    IF Cardinality(WithStatus(B, {"confirmed"})) = B.expected
    THEN IF B.done THEN [B EXCEPT !.state = "completed"] ELSE Closed(B, "completed")
    ELSE [B EXCEPT !.state = IF Len(B.entries) = B.expected THEN "processing" ELSE "receiving"]

\* The pool takes a transaction whose nonce is neither used nor occupied.
PoolAccepts(tx) == tx.nonce >= Len(canon) /\ tx.nonce \notin PoolNonces

\* TxTracker.TrackAll: one transaction for each nonce.
Track(tx) == {t \in tracked : t.nonce # tx.nonce} \cup {tx}

\* SendTx admits the transaction: the loop goes on.
Submit ==
    LET b == lock.id
        B == batches[b]
        i == NextToSend(B)
        tx == TxOf(b, i)
    IN  /\ lock.phase = "submit"
        /\ MaySend(B)
        /\ tx \in pool \/ PoolAccepts(tx)
        /\ batches' = [batches EXCEPT ![b] = Attempted(B, i, "submitted")]
        /\ lock' = [lock EXCEPT !.changed = @ \cup {i}]
        /\ pool' = pool \cup {tx}
        /\ tracked' = IF tx \in pool THEN tracked ELSE Track(tx)
        /\ entered' = entered \cup {tx}
        /\ UNCHANGED <<canon, disk, faults, acked, canceled, lostWrite>>

\* The nonce is used or occupied: the loop stops and the entry waits.
SubmitRejected ==
    LET b == lock.id
        B == batches[b]
        i == NextToSend(B)
        tx == TxOf(b, i)
    IN  /\ lock.phase = "submit"
        /\ MaySend(B)
        /\ tx \notin pool /\ ~PoolAccepts(tx)
        /\ Finish(b, Settled(Attempted(B, i, "queued")), lock.changed \cup {i}, TRUE)
        /\ UNCHANGED <<Node, acked, canceled>>

\* The pool refuses for now.  When it is only full, SendTx answers no error and
\* leaves the transaction to the tracker.
SubmitDeferred ==
    LET b == lock.id
        B == batches[b]
        i == NextToSend(B)
        tx == TxOf(b, i)
    IN  /\ lock.phase = "submit"
        /\ MaySend(B)
        /\ PoolAccepts(tx)
        /\ Fault
        /\ tracked' \in {tracked, Track(tx)}
        /\ IF Prunable(B) THEN Forget(b)
           ELSE Save(b, Settled(Attempted(B, i, "queued")), lock.changed \cup {i}, TRUE)
        /\ lock' = Released(lock.todo)
        /\ UNCHANGED <<canon, pool, entered, acked, canceled, lostWrite>>

\* permanentTransactionBucketError: the entry and its batch fail.
SubmitFails ==
    LET b == lock.id
        B == batches[b]
        i == NextToSend(B)
    IN  /\ lock.phase = "submit"
        /\ MaySend(B)
        /\ TxOf(b, i) \notin pool
        /\ Fault
        /\ Save(b, Discard(Closed(Attempted(B, i, "queued"), "failed"), {i}, "failed"),
                lock.changed \cup {i}, TRUE)
        /\ lock' = Released(lock.todo)
        /\ UNCHANGED <<Node, acked, canceled, lostWrite>>

Settle ==
    /\ lock.phase = "submit"
    /\ ~MaySend(batches[lock.id])
    /\ Finish(lock.id, Settled(batches[lock.id]), lock.changed, lock.changed # {})
    /\ UNCHANGED <<Node, acked, canceled>>

(***************************************************************************)
(* The node around the bucket                                              *)
(***************************************************************************)
Others == <<batches, disk, lock, acked, canceled, lostWrite>>

\* A block takes the sender's next transaction from the pool.
Mine ==
    \E tx \in pool :
        /\ tx.nonce = Len(canon)
        /\ canon' = Append(canon, tx)
        /\ pool' = pool \ {tx}
        /\ UNCHANGED <<Others, tracked, faults, entered>>

\* The sender's other wallet: its transaction reaches the pool, in the place of
\* another one if it pays more, or a block straight away.
ForeignTransaction ==
    \E n \in Len(canon)..PoolNonce :
        LET tx == [nonce |-> n, owner |-> Foreign]
        IN  /\ n < MaxNonce
            /\ Fault
            /\ LET rest == {t \in pool : t.nonce # n}
               IN  \/ canon' = canon /\ pool' = rest \cup {tx}
                   \/ n = Len(canon) /\ canon' = Append(canon, tx) /\ pool' = rest
            /\ entered' = entered \cup {tx}
            /\ UNCHANGED <<Others, tracked>>

\* The head moves to another branch: the last transaction leaves the chain, goes
\* back to the pool or is forgotten, and another one may take its place.
Reorg ==
    LET tx == canon[Len(canon)]
        rest == SubSeq(canon, 1, Len(canon) - 1)
        other == [nonce |-> tx.nonce, owner |-> Foreign]
    IN  /\ canon # <<>>
        /\ Fault
        /\ \/ canon' = rest /\ pool' \in {pool, pool \cup {tx}} /\ UNCHANGED entered
           \/ /\ tx # other
              /\ canon' = Append(rest, other)
              /\ entered' = entered \cup {other}
              /\ UNCHANGED pool
        /\ UNCHANGED <<Others, tracked>>

Evict ==
    /\ Fault
    /\ \E tx \in pool : pool' = pool \ {tx}
    /\ UNCHANGED <<Others, canon, tracked, entered>>

\* TxTracker.recheck: forget what lies below the pool's nonce, submit again what
\* the pool lost.
Recheck ==
    LET kept == {t \in tracked : t.nonce >= PoolNonce}
        lost == {t \in kept : PoolAccepts(t)}
    IN  /\ lost # {} \/ kept # tracked
        /\ tracked' = kept
        /\ pool' = pool \cup lost
        /\ entered' = entered \cup lost
        /\ UNCHANGED <<Others, canon, faults>>

\* A crash at any point; load reads the batches back.  The pool is lost, the
\* tracker's journal is not.
Crash ==
    /\ Fault
    /\ batches' = disk
    /\ lock' = Idle
    /\ pool' = {}
    /\ UNCHANGED <<disk, canon, tracked, entered, acked, canceled, lostWrite>>

\* Time passes for a batch, in memory or in the store.
Aged(B) ==
    IF B.state \in {"unused", "pruned"} THEN B
    ELSE [B EXCEPT !.ttl = IF @ = 0 THEN 0 ELSE @ - 1,
                   !.age = IF B.done /\ @ <= Retention THEN @ + 1 ELSE @,
                   !.entries = [i \in DOMAIN B.entries |->
                       [B.entries[i] EXCEPT !.wait = IF @ = 0 THEN 0 ELSE @ - 1]]]

Tick ==
    /\ Unlocked
    /\ batches' = [b \in BatchId |-> Aged(batches[b])]
    /\ disk' = [b \in BatchId |-> Aged(disk[b])]
    /\ UNCHANGED <<Node, lock, faults, acked, canceled, lostWrite>>

Init ==
    /\ batches = [b \in BatchId |-> Unused]
    /\ disk = [b \in BatchId |-> Unused]
    /\ lock = Idle
    /\ canon = <<>>
    /\ pool = {} /\ tracked = {} /\ entered = {} /\ acked = {} /\ canceled = {}
    /\ faults = 0
    /\ lostWrite = FALSE

Pass == RunNext \/ ReadNonce \/ Reconcile \/ Submit \/ SubmitRejected \/ Settle

Call ==
    \/ \E b \in BatchId, n \in 1..MaxExpected, email \in BOOLEAN : Begin(b, n, email)
    \/ \E b \in BatchId : Queue(b) \/ Status(b) \/ Cancel(b)

Next ==
    \/ Call \/ Run \/ Pass \/ SubmitDeferred \/ SubmitFails
    \/ Mine \/ ForeignTransaction \/ Reorg \/ Evict \/ Recheck \/ Crash \/ Tick

Spec == Init /\ [][Next]_vars

\* A pass runs to its end.  The ticker and Go's mutex let every tick run in the
\* end, although clients call at any time.  Blocks are found and time passes.
FairSpec ==
    /\ Spec
    /\ WF_vars(Pass) /\ SF_vars(Run) /\ WF_vars(Mine) /\ SF_vars(Tick)

(***************************************************************************)
(* Properties                                                              *)
(***************************************************************************)
\* The shapes of the bucket and of the node around it; the pool holds one
\* transaction for a nonce and none that the chain has passed.
BucketTypeOK ==
    /\ \A b \in BatchId :
        /\ batches[b] \in Batch \cup {Unused, Pruned}
        /\ disk[b] \in Batch \cup {Unused, Pruned}
    /\ lock.phase \in {"idle", "next", "nonce", "reconcile", "submit"}
    /\ pool \cup tracked \cup entered \subseteq Tx
    /\ \A i \in 1..Len(canon) : canon[i] \in Tx /\ canon[i].nonce = i - 1
    /\ \A t \in pool : t.nonce >= Len(canon)
    /\ \A t, u \in pool : t.nonce = u.nonce => t = u

\* RawBytes of a batch is the size of the raw transactions it still keeps, in
\* memory and in the store, through rollbacks, cancellations, expiries and
\* crashes, as long as no failed write was passed over; so the storage limit that
\* begin and queue check is the limit on what is stored.
RawAccounted ==
    ~lostWrite =>
        /\ \A b \in Live : batches[b].rawBytes = RawCount(batches[b])
        /\ \A b \in BatchId : Exists(disk, b) => disk[b].rawBytes = RawCount(disk[b])
        /\ TotalRawBytes <= MaxRawBytes

\* "durably stores one locally signed shielded transaction": whatever crashes and
\* failed writes follow, an acknowledged transaction is in the store with its raw
\* bytes until the store itself says that it failed or was canceled, or the batch
\* was pruned.
AcknowledgedDurable ==
    \A a \in acked :
        LET D == disk[a[1]]
        IN  \/ D = Pruned
            \/ /\ a[2] \in DOMAIN D.entries
               /\ D.entries[a[2]].raw \/ D.entries[a[2]].status \in {"failed", "canceled"}

\* Once cancel has answered, the scheduler never again submits a transaction of
\* that batch: not after a reorganisation, a restart or a failed write.
CanceledBatchRests ==
    \A b \in canceled :
        /\ batches[b].state \in Terminal \cup {"pruned"}
        /\ disk[b].state \in Terminal \cup {"pruned"}
        /\ lock.phase = "submit" => lock.id # b

\* A step that promotes an entry finds every earlier one promoted before.
InOrder ==
    \A b \in Live, i \in 1..MaxExpected :
        (/\ lock.phase = "submit" /\ lock'.phase = "submit"
         /\ i \in DOMAIN batches[b].entries
         /\ batches[b].entries[i].status = "queued"
         /\ batches'[b].state # "pruned"
         /\ batches'[b].entries[i].status = "submitted")
        => \A j \in 1..(i - 1) : batches[b].entries[j].status \in {"submitted", "confirmed"}

\* The scheduler submits the nonces of a batch in order: when it promotes an
\* entry, every earlier one is in the pool or on the chain as far as it knows.
PromotedInOrder == [][InOrder]_vars

\* A nonce below the batch that nobody is going to use.
Gap(b) ==
    \E n \in Len(canon)..(batches[b].base - 1) :
        /\ n \notin PoolNonces
        /\ \A c \in ActiveBatches :
            ~(n \in batches[c].base..(batches[c].base + batches[c].expected - 1))

\* Every batch is closed in the end: all its transactions confirm, one of them
\* fails, it expires or it is canceled, unless a lower nonce is missing.
BatchSettles ==
    \A b \in BatchId :
        batches[b].state \in Active ~> (batches[b].state \notin Active \/ Gap(b))

\* "CancelTransactionBatch stops promotion of transactions that have not yet
\* entered the txpool."
CancelStopsPromotion ==
    [][\A b \in canceled : batches[b] # Pruned =>
        \A i \in WithStatus(batches[b], {"canceled"}) :
            TxOf(b, i) \notin entered => TxOf(b, i) \notin entered']_vars

\* "validateNewBatchLocked keeps ordinary shielded batches exclusive": a sender
\* with an active batch of ordinary transactions has no other active batch.  One
\* exception the code makes is a batch that had completed and that a
\* reorganisation opened again, its CompletedAt still set.  The other is a lost
\* write: a batch whose closing was not stored is active again after a restart,
\* beside the batch that was begun in the meantime.
OrdinaryBatchesExclusive ==
    ~lostWrite => \A b, c \in ActiveBatches :
        \/ b = c
        \/ batches[b].email /\ batches[c].email
        \/ batches[b].done \/ batches[c].done
=============================================================================
