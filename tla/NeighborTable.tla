--------------------------- MODULE NeighborTable ---------------------------
(***************************************************************************)
(* What a node knows of the nodes around it (uplink_phase/topology/        *)
(* neighbor_table.{h,cpp}): per node a state with hysteresis that says     *)
(* whether the link is unknown, weak or strong, the bitsets of the node's  *)
(* own topology element, and the predecessors, the neighbors nearer to the *)
(* master, to which SMEs and topologies can be handed.                     *)
(*                                                                         *)
(* A table is a record and the operators return the table that a call      *)
(* leaves behind.  The predecessors are a heap in the code of which only   *)
(* the greatest element is read; here they are a set of entries, one per   *)
(* node, and which of two equal entries is at the front is left open.      *)
(***************************************************************************)
EXTENDS Integers, FiniteSets

CONSTANTS
    NodesCount,          \* getMaxNodes()
    UseWeakTopologies,
    StrongTimeout,       \* getMaxRoundsUnavailableBecomesDead()
    WeakTimeout,         \* getMaxRoundsWeakLinkBecomesDead()
    MinStrongRssi,       \* getMinNeighborRSSI()
    MinWeakRssi          \* getMinWeakNeighborRSSI()

ASSUME NeighborAssumption ==
    /\ NodesCount \in Nat \ {0}
    /\ UseWeakTopologies \in BOOLEAN
    /\ StrongTimeout \in 1 .. 2^16 - 1
    /\ WeakTimeout \in 1 .. 2^16 - 1
    /\ MinStrongRssi \in Int
    /\ MinWeakRssi \in Int

Ids == 0 .. NodesCount - 1

unknownNeighborThreshold == 11
unknownNeighborIncrement == 5
unknownNeighborDecrement == 1

\* The integer division of C, which rounds towards zero.
DivideC(x, d) == IF x >= 0 THEN x \div d ELSE -((-x) \div d)

minMidRssi == DivideC(MinStrongRssi + MinWeakRssi, 2)

one == 16   \* the fixed point averages have four fractional bits

Byte == 256   \* values of a counter

-----------------------------------------------------------------------------
(***************************************************************************)
(* The state of one neighbor.                                              *)
(***************************************************************************)
UnknownNeighbor == [status |-> "UNKNOWN", freqTimeoutCtr |-> 0, avgRssi |-> 0]

NewLink(status, rssi) == [status |-> status, freqTimeoutCtr |-> 0, avgRssi |-> rssi * one]

AvgRssi(neighbor) == DivideC(neighbor.avgRssi, one)

\* updateAvgRssi(): three quarters of the average and one of the sample.
Filter(avg, rssi) == DivideC(avg * 12, one) + (one - 12) * rssi

CountDown(ctr) == IF ctr > unknownNeighborDecrement THEN ctr - unknownNeighborDecrement ELSE 0

\* Mutant: a weak link becomes strong by reciprocity only.
UpdateReceived_ReciprocityOnly(neighbor, rssi, strongRec, weakRec) ==
    LET often == neighbor.freqTimeoutCtr + unknownNeighborIncrement
        avg == Filter(neighbor.avgRssi, rssi)
        known(status) == [status |-> status, freqTimeoutCtr |-> 0, avgRssi |-> avg]
    IN  CASE neighbor.status = "UNKNOWN" /\ (rssi >= MinStrongRssi \/ strongRec) ->
               NewLink("STRONG", rssi)
          [] neighbor.status = "UNKNOWN" /\ rssi < MinStrongRssi /\ ~strongRec ->
               CASE weakRec \/ (rssi >= MinWeakRssi /\ often >= unknownNeighborThreshold) ->
                      NewLink("WEAK", rssi)
                 [] ~weakRec /\ rssi >= MinWeakRssi /\ often < unknownNeighborThreshold ->
                      [neighbor EXCEPT !.freqTimeoutCtr = often]
                 [] OTHER ->
                      [neighbor EXCEPT !.freqTimeoutCtr = CountDown(@)]
          [] neighbor.status = "WEAK" ->
               known(IF strongRec THEN "STRONG" ELSE "WEAK")
          [] OTHER ->
               known(IF DivideC(avg, one) <= minMidRssi \/ ~strongRec
                     THEN "WEAK" ELSE "STRONG")

\* Neighbor::updateReceived()
UpdateReceived(neighbor, rssi, strongRec, weakRec) ==
    LET often == neighbor.freqTimeoutCtr + unknownNeighborIncrement
        avg == Filter(neighbor.avgRssi, rssi)
        known(status) == [status |-> status, freqTimeoutCtr |-> 0, avgRssi |-> avg]
    IN  CASE neighbor.status = "UNKNOWN" /\ (rssi >= MinStrongRssi \/ strongRec) ->
               NewLink("STRONG", rssi)
          [] neighbor.status = "UNKNOWN" /\ rssi < MinStrongRssi /\ ~strongRec ->
               CASE weakRec \/ (rssi >= MinWeakRssi /\ often >= unknownNeighborThreshold) ->
                      NewLink("WEAK", rssi)
                 [] ~weakRec /\ rssi >= MinWeakRssi /\ often < unknownNeighborThreshold ->
                      [neighbor EXCEPT !.freqTimeoutCtr = often]
                 [] OTHER ->
                      [neighbor EXCEPT !.freqTimeoutCtr = CountDown(@)]
          [] neighbor.status = "WEAK" ->
               known(IF DivideC(avg, one) >= MinStrongRssi \/ strongRec
                     THEN "STRONG" ELSE "WEAK")
          [] OTHER ->
               known(IF DivideC(avg, one) <= minMidRssi \/ ~strongRec
                     THEN "WEAK" ELSE "STRONG")

\* Neighbor::updateMissed().  The timeouts have 16 bits, the counter has 8.
UpdateMissed(neighbor) ==
    LET timeout == IF neighbor.status = "WEAK" THEN WeakTimeout ELSE StrongTimeout
        missed == (neighbor.freqTimeoutCtr + 1) % Byte
    IN  IF neighbor.status = "UNKNOWN"
        THEN [neighbor EXCEPT !.freqTimeoutCtr = CountDown(@)]
        ELSE IF missed >= timeout
        THEN [neighbor EXCEPT !.status = "UNKNOWN", !.freqTimeoutCtr = 0]
        ELSE [neighbor EXCEPT !.freqTimeoutCtr = missed]

-----------------------------------------------------------------------------
(***************************************************************************)
(* The table.                                                              *)
(***************************************************************************)
NewTable(hop) ==
    [hop |-> hop, badAssignee |-> TRUE, strong |-> {}, weak |-> {},
     neighbors |-> [n \in Ids |-> UnknownNeighbor], predecessors |-> {}]

\* clear().  The loop that resets the neighbors iterates over copies of them:
\* their states survive.
Clear(table, newHop) ==
    [table EXCEPT !.hop = newHop, !.badAssignee = TRUE, !.strong = {}, !.weak = {},
                  !.predecessors = {}]

HasPredecessor(table) == table.predecessors # {}

\* The entries that may be at the front of the heap.
BestPredecessors(table) ==
    {p \in table.predecessors : \A q \in table.predecessors : q.rssi <= p.rssi}

TopologyOf(table) ==
    [strong |-> table.strong, weak |-> IF UseWeakTopologies THEN table.weak ELSE {}]

\* updateTopologyElement()
UpdateTopology(table, node) ==
    LET status == table.neighbors[node].status
    IN  [table EXCEPT
            !.strong = IF status = "STRONG" THEN @ \cup {node} ELSE @ \ {node},
            !.weak = IF status \in {"WEAK", "STRONG"} THEN @ \cup {node} ELSE @ \ {node}]

\* computeBadAssignee()
ComputeBadAssignee(table, myId) ==
    [table EXCEPT !.badAssignee =
        /\ myId # 0
        /\ ~HasPredecessor(table) \/ \E p \in BestPredecessors(table) : p.rssi < MinStrongRssi]

Others(predecessors, node) == {p \in predecessors : p.id # node}

\* Mutant: only strong neighbors are predecessors.
PredecessorsAfter_StrongOnly(table, node, hop, bad) ==
    LET neighbor == table.neighbors[node]
        priority == IF bad THEN AvgRssi(neighbor) - 128 ELSE AvgRssi(neighbor)
    IN  IF neighbor.status # "STRONG" THEN table.predecessors
        ELSE Others(table.predecessors, node)
             \cup IF hop < table.hop
                  THEN {[id |-> node, rssi |-> priority, timeout |-> StrongTimeout % Byte]}
                  ELSE {}

\* The predecessors after a message of `node' at distance `hop': it enters with
\* a fresh timeout if it is nearer to the master than this node, with a lowered
\* priority if it is a bad assignee, and leaves if it is not nearer (any more).
PredecessorsAfter(table, node, hop, bad) ==
    LET neighbor == table.neighbors[node]
        priority == IF bad THEN AvgRssi(neighbor) - 128 ELSE AvgRssi(neighbor)
    IN  IF neighbor.status = "UNKNOWN" THEN table.predecessors
        ELSE Others(table.predecessors, node)
             \cup IF hop < table.hop
                  THEN {[id |-> node, rssi |-> priority, timeout |-> StrongTimeout % Byte]}
                  ELSE {}

\* receivedMessage(): `sender' is the topology element in the message.
ReceivedMessage(table, myId, node, hop, rssi, bad, sender) ==
    LET neighbor == UpdateReceived(table.neighbors[node], rssi,
                                   myId \in sender.strong, myId \in sender.weak)
        known == UpdateTopology([table EXCEPT !.neighbors[node] = neighbor], node)
    IN  ComputeBadAssignee(
            [known EXCEPT !.predecessors = PredecessorsAfter(known, node, hop, bad)], myId)

\* removePredecessor() when the node was not heard: one round less to live.
Expire(predecessors, node) ==
    Others(predecessors, node)
    \cup {[p EXCEPT !.timeout = (@ - 1) % Byte] : p \in {q \in predecessors : q.id = node /\ q.timeout # 1}}

\* missedMessage()
MissedMessage(table, myId, node) ==
    LET known == UpdateTopology(
                    [table EXCEPT !.neighbors[node] = UpdateMissed(@)], node)
    IN  ComputeBadAssignee(
            [known EXCEPT !.predecessors = Expire(@, node)], myId)

=============================================================================
