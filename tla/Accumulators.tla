---------------------------- MODULE Accumulators ----------------------------
(***************************************************************************)
(* The note tree and the Shield6 output accumulator as transactions fill     *)
(* them.  A Shield3/4/5 transaction appends all its outputs or none          *)
(* (processShieldedV3 and its successors take a snapshot and revert to it),  *)
(* a Shield6 transaction likewise (processShieldedV6).  Every other check on *)
(* a transaction is in ShieldedPool; here are the ones about the trees.      *)
(*                                                                         *)
(* noteLog and outputLog are history: the outputs of the accepted            *)
(* transactions, in order.  No action reads them.                            *)
(***************************************************************************)
EXTENDS MerkleTree, FiniteSets, SequencesExt

CONSTANTS
    Commitment,     \* note commitments
    Asset,          \* native TKM and wrapped TKM: one tree for both
    Keys,           \* BOUND: one-time keys are 1..Keys
    Slots,          \* OutputSlots: outputs of every Shield3/4/5 transaction
    MaxOutputs      \* most outputs of a Shield6 transaction

ASSUME SlotsAssumption == Slots \in Nat \ {0} /\ MaxOutputs \in Nat \ {0} /\ Keys \in Nat

\* "zero or duplicate Shield3 output commitment": the empty leaf is the zero digest.
ASSUME LeafAssumption == Zero \notin Commitment

VARIABLES
    notes,          \* the node tree of notes
    created,        \* "commitment" slots: <<asset, commitment>>
    outputs,        \* the frontier of Shield6 outputs
    noteLog, outputLog

avars == <<notes, created, outputs, noteLog, outputLog>>

\* Sequences of n different members of S.
DistinctOutputs(S, n) == {s \in [1..n -> S] : IsInjective(s)}

-----------------------------------------------------------------------------
\* validateShieldedV3State: no commitment of this asset exists, and the tree
\* has room for all the outputs.
NoteTxAccepted(asset, outs) ==
    /\ \A i \in 1..Slots : <<asset, outs[i]>> \notin created
    /\ notes.next < Capacity - (Slots - 1)

\* The append loop of processShieldedV3, processShieldedV4, processShieldedV5.
AppendNotes(t, outs) ==
    LET after[n \in 0..Len(outs)] ==
            IF n = 0 THEN t ELSE AppendLeaf(after[n - 1], outs[n], outs[n])
    IN  after[Len(outs)]

NoteTx(asset, outs) ==
    /\ NoteTxAccepted(asset, outs)
    /\ notes' = AppendNotes(notes, outs)
    /\ created' = created \cup {<<asset, outs[i]>> : i \in 1..Slots}
    /\ noteLog' = noteLog \o outs
    /\ UNCHANGED <<outputs, outputLog>>

\* The append loop of processShieldedV6 up to its first failure.
Appended(f, outs) ==
    LET after[n \in 0..Len(outs)] ==
            IF n = 0 THEN [state |-> f, ok |-> TRUE]
            ELSE LET before == after[n - 1]
                 IN  IF before.ok /\ OutputAccepted(before.state, outs[n])
                     THEN [state |-> AppendOutput(before.state, outs[n]), ok |-> TRUE]
                     ELSE [before EXCEPT !.ok = FALSE]
    IN  after[Len(outs)]

\* Mutant: the snapshot is not restored.
NotReverted(f, result) == result.state

\* RevertToSnapshot on the first failing append.
Reverted(f, result) == IF result.ok THEN result.state ELSE f

OutputTx(outs) ==
    LET result == Appended(outputs, outs)
    IN  /\ outputs' = Reverted(outputs, result)
        /\ outputLog' = IF result.ok THEN outputLog \o outs ELSE outputLog
        /\ UNCHANGED <<notes, created, noteLog>>

-----------------------------------------------------------------------------
\* Keys are opaque, so a key used for the first time may be the least unused one.
FreshInOrder(outs) ==
    \A i \in DOMAIN outs :
        \/ outs[i] \in outputs.keys \cup {outs[j] : j \in 1..(i - 1)}
        \/ outs[i] = 1 + Cardinality(outputs.keys \cup {outs[j] : j \in 1..(i - 1)})

AccInit ==
    /\ notes = EmptyTree
    /\ created = {}
    /\ outputs = EmptyFrontier
    /\ noteLog = << >>
    /\ outputLog = << >>

AccNext ==
    \/ \E asset \in Asset : \E outs \in DistinctOutputs(Commitment, Slots) : NoteTx(asset, outs)
    \/ \E n \in 1..MaxOutputs : \E outs \in [1..n -> 1..Keys] :
          FreshInOrder(outs) /\ OutputTx(outs)

AccSpec == AccInit /\ [][AccNext]_avars

-----------------------------------------------------------------------------
(* Properties *)

\* The leaf every output of a log enters the tree with.
OutputLeaves(log) == [i \in 1..Len(log) |-> OutputLeaf(i - 1, log[i])]

\* The note tree commits to exactly the outputs of the accepted transactions in
\* their order: after any number of incremental appends, up to the last free
\* leaf, the current root is the root of the complete tree over all of them.
NotesCommitted ==
    /\ notes.next = Len(noteLog)
    /\ notes.next > 0 => notes.root = BatchRoot(noteLog)

\* The Shield6 accumulator, which keeps one node per level only, commits to the
\* same complete tree, also after a transaction that failed half way, and no
\* one-time key is in it twice.
OutputsCommitted ==
    /\ outputs.count = Len(outputLog)
    /\ outputs.root = BatchRoot(OutputLeaves(outputLog))
    /\ IsInjective(outputLog)

\* A note stays spendable however many notes follow it: the path the node serves
\* for its commitment leads from that commitment to the current root, also for
\* a commitment that both assets have created.
PathsAuthenticate ==
    \A c \in ToSet(noteLog) :
        /\ c \in DOMAIN notes.indexOf
        /\ RootOf(notes.indexOf[c] - 1, c, Path(notes, c)) = notes.root

\* The roots a spend may be anchored to are those of the tree's own past, one
\* for every leaf ever appended: none is forgotten, none is shared by two
\* different histories, and nothing else is accepted.
AnchorsAreHistory ==
    /\ notes.roots = {BatchRoot(SubSeq(noteLog, 1, n)) : n \in 1..Len(noteLog)}
    /\ Cardinality(notes.roots) = Len(noteLog)
=============================================================================
