--------------------------- MODULE KingRegistry ---------------------------
(***************************************************************************)
(* The rotating kings: each node's registry (eth/backend.go,                *)
(* eth/api_king.go), its two database records, the list inside the RandomX  *)
(* engine that decides the reward (consensus/randomx), the gossip between   *)
(* nodes and the markers in the headers of one canonical chain.             *)
(*                                                                         *)
(* Nodes import the chain at their own pace, and only the last block of an  *)
(* import raises a head event.  Gossip may be lost, delayed and repeated.   *)
(* rk_add and a gossiped update give up s.lock between their check and the  *)
(* record they write.  The lock horizon is counted in blocks from the       *)
(* node's head: a received unlock time is never later than the receiver's   *)
(* own minimum, which then replaces it.                                     *)
(*                                                                         *)
(* A process may end at any moment, also between two writes of one step; the *)
(* memory of a node that is down is never read again.  The first header may  *)
(* carry a legacy marker, which names an address and no lock.                *)
(***************************************************************************)
EXTENDS Naturals, Sequences, FiniteSets, SequencesExt

CONSTANTS
    Node,
    Operator,       \* the nodes on which rk_add is called
    Miner,          \* the nodes that mine
    Address,
    None,           \* no address, the zero address
    Interval,       \* rotatingKingInterval
    LockBlocks,     \* rkLockPeriod in blocks
    MaxMarker,      \* 0xffffff, the largest height a marker can carry
    MaxHeight,      \* bound on the chain
    MaxEvents,      \* bound on transfers, new connections and crashes
    MaxRequests     \* bound on registrations that wait at the same time

ASSUME KingAssumption ==
    /\ None \notin Address /\ Operator \subseteq Node /\ Miner \subseteq Node
    /\ Interval \in Nat \ {0} /\ LockBlocks \in Nat \ {0}
    /\ MaxMarker \in Nat \ {0} /\ MaxHeight \in Nat \ {0} /\ MaxEvents \in Nat /\ MaxRequests \in Nat

VARIABLES
    registry,   \* kingAddresses and rkLocks of each node
    disk,       \* its rotating-king database: the two records
    engine,     \* rotatingKings and rotatingKingActivations of its engine
    extra,      \* the marker its miner puts into headers
    height,     \* its head
    up,         \* whether its process runs
    pending,    \* registrations between their two critical sections
    headers,    \* the markers of the canonical chain
    balance,    \* 0 below the required stake, 1 the stake, 2 with the fee cushion
    net,        \* updates on their way
    events      \* transfers, new connections and crashes so far

vars == <<registry, disk, engine, extra, height, up, pending, headers, balance, net,
          events>>

NoLock == [added |-> 0]
NoMarker == [address |-> None]
\* full: it carries a lock.  Only a legacy marker does not.
Marker == [address : Address, added : Nat \ {0}, activation : Nat, unlock : Nat, full : BOOLEAN]
\* timed: UnlockTime is set, which a compact header marker does not carry.
Lock == [added : Nat \ {0}, activation : Nat, unlock : Nat, timed : BOOLEAN]

Event == events < MaxEvents /\ events' = events + 1

Locked(locks) == {a \in Address : locks[a] # NoLock}

\* The members of s that are in S, in their order (SelectSeq, as a recursive
\* function of the position so that it can be reasoned about).
Kept(s, S) ==
    LET kept[i \in 0..Len(s)] ==
          IF i = 0 THEN <<>>
          ELSE IF s[i] \in S THEN Append(kept[i - 1], s[i]) ELSE kept[i - 1]
    IN  kept[Len(s)]

(***************************************************************************)
(* The selection, written twice in the code                                *)
(***************************************************************************)
ActiveAt(kings, activation, h) == Kept(kings, {a \in Address : activation[a] <= h})

IndexOf(s, a) == CHOOSE i \in DOMAIN s : s[i] = a

\* Mutant: the rotation moves two places.
SkipsOne(active, current) ==
    IF active = <<>> THEN current
    ELSE IF ~Contains(active, current) THEN active[1]
    ELSE active[((IndexOf(active, current) + 1) % Len(active)) + 1]

\* The king after `current` among the active ones; with none active it stays.
Rotated(active, current) ==
    IF active = <<>> THEN current
    ELSE IF ~Contains(active, current) THEN active[1]
    ELSE active[(IndexOf(active, current) % Len(active)) + 1]

\* The king after each boundary, from the active kings at every boundary.
Replayed(active) ==
    LET at[k \in DOMAIN active] == Rotated(active[k], IF k = 0 THEN None ELSE at[k - 1])
    IN  at

\* rotatingKingAt and getRotatingKing: replay every boundary up to h.
KingAt(kings, activation, h) ==
    LET last == h \div Interval
    IN  Replayed([k \in 0..last |-> ActiveAt(kings, activation, k * Interval)])[last]

Activations(locks) ==
    [a \in Address |-> IF locks[a] = NoLock THEN 0 ELSE locks[a].activation]

NodeKing(n, h) == KingAt(registry[n].kings, Activations(registry[n].locks), h)
EngineKing(E, h) == KingAt(E.kings, E.activation, h)

\* Mutant: an address that comes back is appended again.
AppendsAgain(E, a, activation) ==
    [kings |-> Append(E.kings, a), activation |-> [E.activation EXCEPT ![a] = activation]]

\* AddRotatingKingAt: never removes, and only lowers an activation.
AddToEngine(E, a, activation) ==
    IF Contains(E.kings, a)
    THEN [E EXCEPT !.activation[a] = IF activation < @ THEN activation ELSE @]
    ELSE [kings |-> Append(E.kings, a), activation |-> [E.activation EXCEPT ![a] = activation]]

(***************************************************************************)
(* The registry of one node                                                *)
(***************************************************************************)
Without(R, S) ==
    [kings |-> Kept(R.kings, Address \ S),
     locks |-> [a \in Address |-> IF a \in S THEN NoLock ELSE R.locks[a]]]

Underfunded(R) == {a \in ToSet(R.kings) : balance[a] = 0}
DueAt(locks, h) == {a \in Locked(locks) : locks[a].unlock # 0 /\ h >= locks[a].unlock}
ExpiredAt(R, h) == DueAt(R.locks, h)

\* persistRotatingKingLocksLocked: the locks in the order of the addresses.
LocksRecord(R) == [order |-> Kept(R.kings, Locked(R.locks)), locks |-> R.locks]
Persisted(R) == [kings |-> R.kings, locks |-> LocksRecord(R)]

\* Mutant: the locks are cleared before they are written again.
Cleared(D, R) ==
    [kings |-> R.kings, locks |-> [order |-> <<>>, locks |-> [a \in Address |-> NoLock]]]

\* The addresses are written, the locks are not yet.
Torn(D, R) == [D EXCEPT !.kings = R.kings]

\* The writes of one step: all of them, and the process runs, or those up to one
\* of the states in between, where it ends.
Writes(n, between, D) ==
    \/ /\ disk' = [disk EXCEPT ![n] = D]
       /\ up' = [up EXCEPT ![n] = TRUE]
       /\ UNCHANGED events
    \/ /\ Event
       /\ \E B \in between : disk' = [disk EXCEPT ![n] = B]
       /\ up' = [up EXCEPT ![n] = FALSE]

\* registeredRotatingKingAddresses: the stored order, without addresses that have
\* no lock, then the locks it misses.
Registered(D) ==
    Kept(D.kings, ToSet(D.locks.order)) \o Kept(D.locks.order, Address \ ToSet(D.kings))

\* loadRotatingKingStateLocked: an empty database leaves memory alone.
Loaded(n) ==
    IF disk[n].kings = <<>> /\ disk[n].locks.order = <<>> THEN registry[n]
    ELSE [kings |-> Registered(disk[n]), locks |-> disk[n].locks.locks]

\* The engine after every king that has a lock was added to it.
Loading(R, E) ==
    LET kings == Kept(R.kings, Locked(R.locks))
        added[i \in 0..Len(kings)] ==
          IF i = 0 THEN E
          ELSE AddToEngine(added[i - 1], kings[i], R.locks[kings[i]].activation)
    IN  added[Len(kings)]

LoadedEngine(n) == Loading(Loaded(n), engine[n])

\* Mutant: the underfunded kings stay in the stored locks.
FundedInMemory(R, D) == D

\* removeUnderfundedRotatingKingsLocked: only the locks are written again.
FundedStored(R, D) ==
    IF Underfunded(R) = {} THEN D
    ELSE [D EXCEPT !.locks = LocksRecord(Without(R, Underfunded(R)))]

IsRegistered(R, a) == Contains(R.kings, a) \/ R.locks[a] # NoLock

\* Mutant: the slot that is already running.
ActivatesNow(h) == (h \div Interval) * Interval

\* nextRotatingKingActivationHeight
NextActivation(h) == ((h \div Interval) + 1) * Interval

NewLock(h) ==
    [added |-> h + 1, activation |-> NextActivation(h), unlock |-> h + LockBlocks, timed |-> TRUE]

\* encodeRotatingKingHeaderExtra: three heights of 24 bits.
Cap(v) == IF v > MaxMarker THEN MaxMarker ELSE v
Encoded(a, lock) == [address |-> a, added |-> Cap(lock.added),
                     activation |-> Cap(lock.activation), unlock |-> Cap(lock.unlock),
                     full |-> TRUE]

\* recordRotatingKingLocked for an address that is not registered, and the
\* announcement that follows.
Record(n, a, R, E) ==
    LET lock == NewLock(height[n])
        N == [kings |-> Append(R.kings, a), locks |-> [R.locks EXCEPT ![a] = lock]]
    IN  /\ registry' = [registry EXCEPT ![n] = N]
        /\ Writes(n, {Torn(disk[n], N)}, Persisted(N))
        /\ extra' = [extra EXCEPT ![n] = Encoded(a, lock)]
        /\ engine' = [engine EXCEPT ![n] = AddToEngine(E, a, lock.activation)]
        /\ net' = IF up'[n] THEN net \cup {[to |-> m, address |-> a] : m \in Node \ {n}} ELSE net

(***************************************************************************)
(* rk_add, the read methods and gossip                                     *)
(***************************************************************************)
Request(a, via) == [address |-> a, via |-> via]
MayWait == Cardinality(UNION {{<<n, r>> : r \in pending[n]} : n \in Node}) < MaxRequests

\* First critical section: load, drop the underfunded, look; then the balance.
AddCheck(n, a) ==
    LET R == Loaded(n)
        kept == Without(R, Underfunded(R))
    IN  /\ up[n] /\ MayWait
        /\ registry' = [registry EXCEPT ![n] = kept]
        /\ disk' = [disk EXCEPT ![n] = FundedStored(R, @)]
        /\ engine' = [engine EXCEPT ![n] = LoadedEngine(n)]
        /\ pending' = [pending EXCEPT ![n] =
              IF ~IsRegistered(kept, a) /\ balance[a] = 2 THEN @ \cup {Request(a, "rpc")} ELSE @]
        /\ UNCHANGED <<extra, height, up, headers, balance, net, events>>

\* noteRotatingKing: the same without the load.
NoteCheck(n, a) ==
    LET R == registry[n]
        kept == Without(R, Underfunded(R))
        msg == [to |-> n, address |-> a]
    IN  /\ up[n] /\ MayWait
        /\ msg \in net
        /\ net' = net \ {msg}
        /\ registry' = [registry EXCEPT ![n] = kept]
        /\ disk' = [disk EXCEPT ![n] = FundedStored(R, @)]
        /\ pending' = [pending EXCEPT ![n] =
              IF ~IsRegistered(kept, a) /\ balance[a] = 2 THEN @ \cup {Request(a, "peer")} ELSE @]
        /\ UNCHANGED <<engine, extra, height, up, headers, balance, events>>

\* Second critical section: look again, record and announce.
RecordPending(n, a, via) ==
    LET R == IF via = "rpc" THEN Loaded(n) ELSE registry[n]
        E == IF via = "rpc" THEN LoadedEngine(n) ELSE engine[n]
    IN  /\ up[n] /\ Request(a, via) \in pending[n]
        /\ pending' = [pending EXCEPT ![n] = @ \ {Request(a, via)}]
        /\ IF IsRegistered(R, a)
           THEN /\ registry' = [registry EXCEPT ![n] = R]
                /\ engine' = [engine EXCEPT ![n] = E]
                /\ UNCHANGED <<disk, up, extra, net, events>>
           ELSE Record(n, a, R, E)
        /\ UNCHANGED <<height, headers, balance>>

\* rk_list, rk_status, rk_getKingStats: load, then releaseUnlocked...Locked.
Read(n) ==
    LET R == Loaded(n)
        live == Without(R, ExpiredAt(R, height[n]))
        D == IF live = R THEN disk[n] ELSE Persisted(live)
        between == IF live = R THEN {} ELSE {Torn(disk[n], live), D}
    IN  /\ up[n]
        /\ registry' = [registry EXCEPT ![n] = Without(live, Underfunded(live))]
        /\ Writes(n, between, FundedStored(live, D))
        /\ engine' = [engine EXCEPT ![n] = LoadedEngine(n)]
        /\ UNCHANGED <<extra, height, pending, headers, balance, net>>

\* rotatingKingSnapshot, sent to a peer that connects.
Connect(n, m) ==
    /\ n # m /\ up[n]
    /\ Event
    /\ net' = net \cup {[to |-> m, address |-> a] :
                          a \in {b \in ToSet(registry[n].kings) :
                                   registry[n].locks[b] # NoLock /\ registry[n].locks[b].timed}}
    /\ UNCHANGED <<registry, disk, engine, extra, height, up, pending, headers, balance>>

(***************************************************************************)
(* Headers                                                                 *)
(***************************************************************************)
\* The 30 bytes earlier releases wrote: no activation and no unlock height.
LegacyMarker(a) ==
    [address |-> a, added |-> 1, activation |-> 0, unlock |-> 0, full |-> FALSE]

Passed(marker, h) == marker = NoMarker \/ (marker.full /\ marker.unlock # 0 /\ h >= marker.unlock)

ListedKings(kings, marker) ==
    IF Contains(kings, marker.address) THEN kings ELSE Append(kings, marker.address)

MarkedLocks(locks, marker) ==
    IF ~marker.full \/ locks[marker.address] # NoLock THEN locks
    ELSE [locks EXCEPT ![marker.address] =
            [added |-> marker.added, activation |-> marker.activation,
             unlock |-> marker.unlock, timed |-> FALSE]]

\* Mutant: the marker reaches the registry and not the engine.
RecoverRegistryOnly(S, marker, h) ==
    IF Passed(marker, h) THEN S
    ELSE [S EXCEPT !.kings = ListedKings(@, marker), !.locks = MarkedLocks(@, marker)]

\* recoverRotatingKingFromHeaderLocked on the registry and the engine of a node.  A
\* legacy marker makes a king without a lock.
Recover(S, marker, h) ==
    IF Passed(marker, h) THEN S
    ELSE [kings |-> ListedKings(S.kings, marker),
          locks |-> MarkedLocks(S.locks, marker),
          engine |-> AddToEngine(S.engine, marker.address, marker.activation)]

\* What follows every recovery: prune, and write both records if need be.  D is
\* what the database holds until then.
Recovered(n, S, h, was, D) ==
    LET R == [kings |-> S.kings, locks |-> S.locks]
        live == Without(R, ExpiredAt(R, h))
    IN  /\ registry' = [registry EXCEPT ![n] = live]
        /\ engine' = [engine EXCEPT ![n] = S.engine]
        /\ IF R = was /\ live = R THEN Writes(n, {D}, D)
           ELSE Writes(n, {D, Torn(D, live)}, Persisted(live))

State(R, E) == [kings |-> R.kings, locks |-> R.locks, engine |-> E]

\* The scan of the chain from block 1: the markers of all headers recovered.
Scanned(S, markers, h) ==
    LET scan[k \in 0..Len(markers)] ==
          IF k = 0 THEN S ELSE Recover(scan[k - 1], markers[k], h)
    IN  scan[Len(markers)]

\* The head event of the last block of an import.
HeadEvent(n, marker, h) ==
    /\ height' = [height EXCEPT ![n] = h]
    /\ Recovered(n, Recover(State(registry[n], engine[n]), marker, h), h, registry[n], disk[n])

Import(n, h) ==
    /\ up[n]
    /\ h \in (height[n] + 1)..Len(headers)
    /\ HeadEvent(n, headers[h], h)
    /\ UNCHANGED <<extra, pending, headers, balance, net>>

Mine(n) ==
    /\ up[n]
    /\ height[n] = Len(headers)
    /\ height[n] < MaxHeight
    /\ headers' = Append(headers, extra[n])
    /\ HeadEvent(n, extra[n], height[n] + 1)
    /\ UNCHANGED <<extra, pending, balance, net>>

Crash(n) ==
    /\ up[n]
    /\ Event
    /\ up' = [up EXCEPT ![n] = FALSE]
    /\ UNCHANGED <<registry, disk, engine, extra, height, pending, headers, balance, net>>

\* A new process: the engine starts from the stored addresses, all of them active
\* from block 0; then the locks are loaded and the whole chain is scanned.
Start(n) ==
    LET kings == Registered(disk[n])
        R == [kings |-> kings, locks |-> disk[n].locks.locks]
        E == [kings |-> kings, activation |-> [a \in Address |-> 0]]
        S == Scanned(State(R, E), SubSeq(headers, 1, height[n]), height[n])
    IN  /\ ~up[n]
        /\ Recovered(n, S, height[n], R, [disk[n] EXCEPT !.kings = kings])
        /\ extra' = [extra EXCEPT ![n] = NoMarker]
        /\ pending' = [pending EXCEPT ![n] = {}]
        /\ UNCHANGED <<height, headers, balance, net>>

\* An ordinary transfer: nothing holds the stake back.
Transfer(a, v) ==
    /\ Event
    /\ v # balance[a]
    /\ balance' = [balance EXCEPT ![a] = v]
    /\ UNCHANGED <<registry, disk, engine, extra, height, up, pending, headers, net>>

Init ==
    /\ registry = [n \in Node |-> [kings |-> <<>>, locks |-> [a \in Address |-> NoLock]]]
    /\ disk = [n \in Node |-> Persisted(registry[n])]
    /\ engine = [n \in Node |-> [kings |-> <<>>, activation |-> [a \in Address |-> 0]]]
    /\ extra = [n \in Node |-> NoMarker]
    /\ height = [n \in Node |-> 0]
    /\ up = [n \in Node |-> TRUE]
    /\ pending = [n \in Node |-> {}]
    /\ headers \in {<<>>} \cup {<<LegacyMarker(a)>> : a \in Address}
    /\ balance = [a \in Address |-> 2]
    /\ net = {}
    /\ events = 0

Next ==
    \/ \E n \in Miner : Mine(n)
    \/ \E n \in Node, h \in 1..MaxHeight : Import(n, h)
    \/ \E n \in Operator, a \in Address : AddCheck(n, a)
    \/ \E n \in Node, a \in Address :
        NoteCheck(n, a) \/ \E via \in {"rpc", "peer"} : RecordPending(n, a, via)
    \/ \E n \in Node : Crash(n) \/ Start(n) \/ Read(n) \/ \E m \in Node : Connect(n, m)
    \/ \E a \in Address, v \in 0..2 : Transfer(a, v)

Spec == Init /\ [][Next]_vars

(***************************************************************************)
(* Properties                                                              *)
(***************************************************************************)
\* The shapes of the state; no address is twice in a registry or in an engine.
KingTypeOK ==
    /\ \A n \in Node :
        /\ ToSet(registry[n].kings) \cup ToSet(engine[n].kings) \subseteq Address
        /\ Len(registry[n].kings) = Cardinality(ToSet(registry[n].kings))
        /\ Len(engine[n].kings) = Cardinality(ToSet(engine[n].kings))
        /\ \A a \in Address : registry[n].locks[a] \in Lock \cup {NoLock}
        /\ extra[n] \in Marker \cup {NoMarker}
        /\ height[n] \in 0..Len(headers)
        /\ up[n] \in BOOLEAN
    /\ Len(headers) <= MaxHeight
    /\ \A msg \in net : msg.to \in Node /\ msg.address \in Address

\* The reload that begins every RPC, and a process that starts again, get back what
\* the node had: the two database records, written by different functions and not
\* always both, together give the kings that have a lock, in their order, and the
\* locks.  A king known only from a legacy marker has none and is what is lost.
ReloadKeepsLocked ==
    \A n \in Node : up[n] =>
        /\ Registered(disk[n]) = Kept(registry[n].kings, Locked(registry[n].locks))
        /\ disk[n].locks.locks = registry[n].locks

\* What a process that ends, or a start that fails, leaves of the database.
CrashKeepsStored ==
    \A n \in Node : ~up'[n] =>
        LET was == disk[n].locks.locks
            is == disk'[n].locks.locks
            live == Locked(was) \ DueAt(was, height'[n])
        IN  /\ \A a \in live : is[a] = was[a]
            /\ Locked(is) \subseteq Locked(was)
            /\ Kept(Registered(disk'[n]), live) = Kept(Registered(disk[n]), live)

\* A crash at any moment, between the two writes of a registration, a recovery, a
\* pruning or a start included: every stored registration that is not due comes
\* back with its lock and in its place, and one that was being written is not
\* half there.  The record of the locks decides.
CrashKeepsRegistrations == [][CrashKeepsStored]_vars

\* Whoever the node lists as a king is in the schedule that decides the rewards,
\* and not later than the node says, whichever way the node learned of it.
EngineCoversRegistry ==
    \A n \in Node, a \in Address :
        Contains(registry[n].kings, a) =>
            /\ Contains(engine[n].kings, a)
            /\ registry[n].locks[a] # NoLock =>
                engine[n].activation[a] <= registry[n].locks[a].activation

\* The kings of the blocks a node has stay, unless its head moves, its process
\* starts or the step is one of the counted events.
KeepsPastKings ==
    \A n \in Node :
        (height'[n] = height[n] /\ up'[n] = up[n] /\ events' = events /\ engine'[n] # engine[n]) =>
            \A h \in 0..height[n] : EngineKing(engine'[n], h) = EngineKing(engine[n], h)

\* A registration, a gossiped update or a read never changes who was king of a
\* block the node already has: blocks that were validated stay valid.  (A restart
\* and a late header marker are not covered: they do.)
PastKingsFixed == [][KeepsPastKings]_vars

\* nextRotationHeight: "every registered address must appear within one full
\* rotation", within the margin the search allows, whatever was added, pruned and
\* recovered before.
RotationReachesAll ==
    \A n \in Node :
        LET limit == 2 * Len(registry[n].kings) + 2
        IN  \A a \in ToSet(registry[n].kings) : \E step \in 0..(limit - 1) :
                NodeKing(n, NextActivation(height[n]) + step * Interval) = a

=============================================================================
