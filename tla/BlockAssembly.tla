--------------------------- MODULE BlockAssembly ---------------------------
(***************************************************************************)
(* How the miner fills a block (miner/worker.go, commitTransactions and      *)
(* commitTransaction) against how every node processes it again              *)
(* (core/state_processor.go, Process, and ValidateState).                    *)
(*                                                                         *)
(* A transaction claims at most one thing that can be claimed once: a        *)
(* nullifier or a stamp ("shielded", checked before execution on both        *)
(* sides), a private TVM root ("tvm", checked before execution on import and *)
(* after it by the miner) or what a registry, vote, oracle or cross-chain    *)
(* handler guards ("handler", checked after execution on both sides).  A      *)
(* transaction may also ask for less gas than the rules of this block want   *)
(* ("short": admitted by the pool under the rules of an earlier head), which  *)
(* is found out after the gas pool has been charged.                         *)
(*                                                                         *)
(* ready and waiting are the transactions of the pool in nonce order per     *)
(* sender and those that arrive while the node is not mining; the price heap *)
(* that chooses the sender is left open.  offered, whole, wasted and spoiled *)
(* are history.  A transaction uses all the gas it buys.                     *)
(***************************************************************************)
EXTENDS Integers, Sequences, SequencesExt

CONSTANTS
    Sender,
    Body,           \* what a transaction does: [gas, stage, claim]
    TxsPerSender,   \* BOUND: transactions of every sender
    BlockGas,       \* gas limit of the block
    TxGas,          \* params.TxGas, the least a transaction needs
    MaxTxs          \* transactions that fit ShieldedV3MaxTxSize bytes

ASSUME GasAssumption == /\ TxsPerSender \in Nat /\ BlockGas \in Nat /\ TxGas \in Nat \ {0} /\ MaxTxs \in Nat
                        /\ \A b \in Body : b.gas \in Nat /\ b.gas >= TxGas
ASSUME StageAssumption == \A b \in Body : b.stage \in {"none", "short", "shielded", "tvm", "handler"}

Tx == {[sender |-> s, nonce |-> n, body |-> b] : s \in Sender, n \in 0..(TxsPerSender - 1), b \in Body}

VARIABLES
    ready,      \* transactionsByPriceAndNonce: what is left of every sender
    waiting,    \* transactions that have not reached the worker yet
    parent,     \* the state the block is built on
    state,      \* w.current.state: account nonces and claims made
    gas,        \* w.current.gasPool: what remains
    cumulative, \* w.current.gasPool: cumulativeUsed
    seen,       \* seenShieldedNullifiers of this commitTransactions call
    txs,        \* w.current.txs
    receipts,   \* cumulative gas of every receipt
    gasUsed,    \* header.GasUsed
    phase,      \* "fill", "refill" (no interrupt word), "done", "dropped" or "crashed"
    offered,    \* history: transactions the worker could have taken
    whole,      \* history: no interrupt has cut the filling short
    wasted,     \* history: gas bought by transactions that were refused then
    spoiled     \* history: `wasted` when the last transaction was included

bvars == <<ready, waiting, parent, state, gas, cumulative, seen, txs, receipts, gasUsed, phase,
           offered, whole, wasted, spoiled>>
block == <<parent, state, gas, cumulative, seen, txs, receipts, gasUsed>>

Claims(tx, stages) == IF tx.body.stage \in stages THEN {tx.body.claim} ELSE {}

\* After buyGas: the gas limit is below the intrinsic or the floor cost, or the
\* init code is too long.
Short(tx) == tx.body.stage = "short"

-----------------------------------------------------------------------------
(* Import: the loop of StateProcessor.Process on a body *)

Applied(st, tx) == [nonce   |-> [st.nonce EXCEPT ![tx.sender] = @ + 1],
                    claimed |-> st.claimed \cup Claims(tx, {"shielded", "tvm", "handler"})]

\* Every check of the loop, whatever its place, refuses the block.
ImportTxOk(st, left, tx) ==
    /\ Claims(tx, {"shielded", "tvm"}) \cap st.claimed = {}
    /\ tx.nonce = st.nonce[tx.sender]
    /\ tx.body.gas <= left
    /\ ~Short(tx)
    /\ Claims(tx, {"handler"}) \cap st.claimed = {}

Processed(r, tx) ==
    IF r.ok /\ ImportTxOk(r.state, BlockGas - r.used, tx)
    THEN [ok |-> TRUE, state |-> Applied(r.state, tx), used |-> r.used + tx.body.gas,
          receipts |-> Append(r.receipts, r.used + tx.body.gas)]
    ELSE [r EXCEPT !.ok = FALSE]

Import(st, body) ==
    LET result[k \in 0..Len(body)] ==
          IF k = 0 THEN [ok |-> TRUE, state |-> st, used |-> 0, receipts |-> << >>]
          ELSE Processed(result[k - 1], body[k])
    IN  result[Len(body)]

-----------------------------------------------------------------------------
(* commitTransaction: its outcomes for the next transaction of a sender *)

Oversized(tx) == Len(txs) + 1 > MaxTxs

\* Mutant: only the nullifiers of this commitTransactions call are looked at.
RefusedBySeen(tx) == Claims(tx, {"shielded"}) \cap seen # {}

RefusedEarly(tx) == Claims(tx, {"shielded"}) \cap (state.claimed \cup seen) # {}
WrongNonce(tx) == tx.nonce # state.nonce[tx.sender]

\* Mutant: the sender pays for the gas, the block is not asked.
GasUnchecked(tx) == FALSE

OutOfGas(tx) == tx.body.gas > gas
RefusedLate(tx) == Claims(tx, {"tvm", "handler"}) \cap state.claimed # {}

BuysGas(tx) == ~Oversized(tx) /\ ~RefusedEarly(tx) /\ ~WrongNonce(tx) /\ ~OutOfGas(tx)
Executes(tx) == BuysGas(tx) /\ ~Short(tx)

\* commitTransactions tries a head while the block has gas for one more.
Filling(a) == phase \in {"fill", "refill"} /\ gas >= TxGas /\ ready[a] # << >>
Pop(a) == ready' = [ready EXCEPT ![a] = << >>]

\* Mutant: every outcome drops the account.
ShiftPops(a) == Pop(a)

Shift(a) == ready' = [ready EXCEPT ![a] = Tail(@)]

Include(a) ==
    LET tx == Head(ready[a]) IN
    /\ Filling(a) /\ Executes(tx) /\ ~RefusedLate(tx)
    /\ Shift(a)
    /\ state' = Applied(state, tx)
    /\ gas' = gas - tx.body.gas
    /\ cumulative' = cumulative + tx.body.gas
    /\ seen' = seen \cup Claims(tx, {"shielded"})
    /\ txs' = Append(txs, tx)
    /\ receipts' = Append(receipts, cumulative')
    /\ gasUsed' = BlockGas - gas'
    /\ spoiled' = wasted
    /\ UNCHANGED <<waiting, parent, phase, offered, whole, wasted>>

\* A handler refuses the transaction after it has executed.  ApplyTransaction has
\* finalised the state, which ends every snapshot: RevertToSnapshot panics, and
\* nothing in the worker recovers.  The process ends with the block it held.
RefuseLate(a) ==
    LET tx == Head(ready[a]) IN
    /\ Filling(a) /\ Executes(tx) /\ RefusedLate(tx)
    /\ phase' = "crashed"
    /\ UNCHANGED <<block, ready, waiting, offered, whole, wasted, spoiled>>

\* An error behind buyGas: the state goes back to the snapshot, the gas pool
\* does not.
RefuseBought(a) ==
    LET tx == Head(ready[a]) IN
    /\ Filling(a) /\ BuysGas(tx) /\ Short(tx)
    /\ Shift(a)
    /\ gas' = gas - tx.body.gas
    /\ wasted' = wasted + tx.body.gas
    /\ UNCHANGED <<waiting, parent, state, cumulative, seen, txs, receipts, gasUsed, phase,
                   offered, whole, spoiled>>

\* ErrBlockOversized and ErrGasLimitReached drop the sender.
NoRoom(a) ==
    LET tx == Head(ready[a]) IN
    /\ Filling(a)
    /\ \/ Oversized(tx)
       \/ ~Oversized(tx) /\ ~RefusedEarly(tx) /\ ~WrongNonce(tx) /\ OutOfGas(tx)
    /\ Pop(a)
    /\ UNCHANGED <<block, waiting, phase, offered, whole, wasted, spoiled>>

\* The errors in front of buyGas skip one transaction.  The nonce errors too: they arrive
\* wrapped and the switch compares for identity.
RefuseEarly(a) ==
    LET tx == Head(ready[a]) IN
    /\ Filling(a) /\ ~Oversized(tx)
    /\ RefusedEarly(tx) \/ WrongNonce(tx)
    /\ Shift(a)
    /\ UNCHANGED <<block, waiting, phase, offered, whole, wasted, spoiled>>

\* The pool has evicted the head since Pending was called: Resolve gives nil.
Vanish(a) ==
    /\ Filling(a)
    /\ Pop(a)
    /\ offered' = offered \ ToSet(ready[a])
    /\ UNCHANGED <<block, waiting, phase, whole, wasted, spoiled>>

-----------------------------------------------------------------------------
(* The end of commitTransactions *)

Exhausted == gas < TxGas \/ \A a \in Sender : ready[a] = << >>

\* All done; the block is committed to sealing or becomes the pending snapshot.
Complete ==
    /\ phase \in {"fill", "refill"} /\ Exhausted
    /\ phase' = "done"
    /\ UNCHANGED <<block, ready, waiting, offered, whole, wasted, spoiled>>

\* commitInterruptResubmit submits the semi-finished block, commitInterruptNewHead
\* discards it; both leave the environment where it is.
Interrupt(outcome) ==
    /\ phase = "fill"
    /\ phase' = outcome
    /\ whole' = FALSE
    /\ UNCHANGED <<block, ready, waiting, offered, wasted, spoiled>>

\* While the node is not mining, transactions that arrive later are packed into
\* the same environment by another commitTransactions call, with an empty
\* nullifier map and no interrupt word; the gas pool goes on.
NewTxs(a) ==
    /\ phase \in {"done", "dropped"} /\ waiting[a] # << >>
    /\ ready' = [b \in Sender |-> IF b = a THEN waiting[a] ELSE << >>]
    /\ waiting' = [waiting EXCEPT ![a] = << >>]
    /\ offered' = offered \cup ToSet(waiting[a])
    /\ seen' = {}
    /\ phase' = "refill"
    /\ UNCHANGED <<parent, state, gas, cumulative, txs, receipts, gasUsed, whole, wasted, spoiled>>

-----------------------------------------------------------------------------
\* The pool holds runs of consecutive nonces; the first of them may have been
\* mined already.  `split` transactions of every sender are there at once.
Consecutive(a, bodies, from, to) ==
    [i \in 1..(to - from) |-> [sender |-> a, nonce |-> from + i - 1, body |-> bodies[from + i]]]

Init ==
    /\ \E bodies \in [Sender -> [1..TxsPerSender -> Body]], split \in 1..TxsPerSender :
          /\ ready = [a \in Sender |-> Consecutive(a, bodies[a], 0, split)]
          /\ waiting = [a \in Sender |-> Consecutive(a, bodies[a], split, TxsPerSender)]
    /\ offered = UNION {ToSet(ready[a]) : a \in Sender}
    /\ \E mined \in [Sender -> {0, 1}] : parent = [nonce |-> mined, claimed |-> {}]
    /\ state = parent
    /\ gas = BlockGas
    /\ cumulative = 0
    /\ seen = {}
    /\ txs = << >>
    /\ receipts = << >>
    /\ gasUsed = 0
    /\ phase = "fill"
    /\ whole = TRUE
    /\ wasted = 0
    /\ spoiled = 0

Next ==
    \/ \E a \in Sender : \/ Include(a) \/ RefuseLate(a) \/ RefuseBought(a) \/ NoRoom(a)
                         \/ RefuseEarly(a) \/ Vanish(a) \/ NewTxs(a)
    \/ Complete
    \/ Interrupt("done")
    \/ Interrupt("dropped")

Spec == Init /\ [][Next]_bvars

-----------------------------------------------------------------------------
(* Properties *)

Replay == Import(parent, txs)

\* Type invariant.
AssemblyTypeOK ==
    /\ ready \in [Sender -> Seq(Tx)] /\ waiting \in [Sender -> Seq(Tx)]
    /\ state.nonce \in [Sender -> 0..(TxsPerSender + 1)]
    /\ gas \in 0..BlockGas /\ gasUsed \in 0..BlockGas
    /\ txs \in Seq(Tx) /\ Len(txs) <= MaxTxs
    /\ phase \in {"fill", "refill", "done", "dropped", "crashed"}

\* The comment in commitTransaction: the miner mirrors what StateProcessor applies
\* during import, or its block would be refused by every peer.  At every moment
\* the body so far replays without an error to the state and the receipts the
\* miner holds, in whatever order transactions were tried, refused, interrupted
\* and added by a second call.  The header's gas agrees as well, except when a
\* transaction was included behind one that had bought gas and was refused:
\* then it never does, because the gas pool was not given back.
MirrorsImport ==
    /\ Replay.ok
    /\ Replay.state = state
    /\ Replay.receipts = receipts
    /\ gasUsed = Replay.used <=> spoiled = 0

\* "The first sealing task must include them so the miner can collect their
\* fees" (commitNewWork): when the filling ran to its end and no refused
\* transaction kept gas, no transaction offered to the worker is left outside
\* that import would still accept at the end of the block.
NothingLeftOut ==
    (phase = "done" /\ whole /\ wasted = 0 /\ Len(txs) < MaxTxs) =>
        \A tx \in offered \ ToSet(txs) : ~Import(parent, Append(txs, tx)).ok

\* "Strange error, discard the transaction and get the next in line"
\* (commitTransactions): a transaction that is refused costs the worker that
\* transaction, never the process.  Violated: see RefuseLate.
RefusedAreDiscarded == phase # "crashed"
=============================================================================
