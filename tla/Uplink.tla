------------------------------- MODULE Uplink -------------------------------
(***************************************************************************)
(* The uplink phase (uplink_phase/{uplink_phase,dynamic_uplink_phase,      *)
(* master_uplink_phase}.cpp) of the master, node 0, and of the other nodes.*)
(* In every uplink slot one node talks, in a round that goes from the      *)
(* highest id down to 0; no packet says who is talking, so every node      *)
(* counts the slots by itself.  A talking node tells its neighbors what it *)
(* hears and hands the topologies and SMEs it has collected to its best    *)
(* predecessor, the assignee of the message, which hands them on in its    *)
(* own turn; the master consumes them.  Nothing is acknowledged.           *)
(*                                                                         *)
(* A step is a tile of the control superframe.  The time synchronization   *)
(* is the environment: in the timesync slot a packet floods the network,   *)
(* and a node that does not hear it may be unable to operate for a while,  *)
(* when it only counts the slots (advance()), or be desynchronized, when   *)
(* it waits for a timesync and starts again.                               *)
(***************************************************************************)
EXTENDS UpdatableQueue, NeighborTable, UplinkMessage, SequencesExt

CONSTANTS
    Nodes,            \* the nodes that exist, ids below NodesCount
    Superframe,       \* controlSuperframeStructure
    ClockSync,        \* numSuperframesPerClockSync
    MaxHops,
    Rssi,             \* Rssi[s][r], at which r hears s; NoSignal if it does not
    NoSignal,
    Smes,             \* the SMEs issued in this instance, by their keys
    Origin,           \* the node that issues an SME
    MaxFaults         \* bound on missed timesyncs and slots with a lost packet

NumUplinks == Cardinality({i \in DOMAIN Superframe : Superframe[i] = "UPLINK"})

\* The network time in tiles is kept modulo a number of tiles after which the
\* round, the superframe and the clock synchronization are where they were.
TimeModulus == Len(Superframe) * ClockSync * NodesCount

ASSUME UplinkAssumption ==
    /\ Nodes \subseteq Ids
    /\ 0 \in Nodes
    /\ Superframe \in Seq({"DOWNLINK", "UPLINK"}) \ {<<>>}
    /\ Superframe[1] = "DOWNLINK"
    /\ ClockSync \in Nat \ {0}
    /\ MaxHops \in Nat \ {0}
    /\ Rssi \in [Nodes -> [Nodes -> Int]]
    /\ \A s, r \in Nodes : Rssi[s][r] # NoSignal => Rssi[s][r] >= MinWeakRssi
    /\ Origin \in [Smes -> Nodes]
    /\ MaxFaults \in Nat

VARIABLES
    tile,             \* the network time, in tiles
    mode,             \* of the clock of each node
    hop,              \* MACContext::hop
    nextNode,
    table,            \* myNeighborTable
    topologyQueue, smeQueue,
    managerQueue,     \* the SME queue of the node's StreamManager
    graph,            \* the strong links known to the master
    arrived,          \* history: the SMEs that the master consumed
    dropped,          \* history: the SMEs that a lost packet or a reset took
    faults            \* capped by MaxFaults

queueVars == <<topologyQueue, smeQueue, managerQueue>>
masterVars == <<graph, arrived>>
vars == <<tile, mode, hop, nextNode, table, queueVars, masterVars, dropped, faults>>

-----------------------------------------------------------------------------
Dynamic == Nodes \ {0}

NoHop == -1

KeysOf(q) == {q[i].key : i \in DOMAIN q}

KeysIn(queue, S) == UNION {KeysOf(queue[n]) : n \in S}

\* A call of enqueue() for each element of a sequence.
EnqueueInOrder(q, elements) ==
    LET after[i \in 0 .. Len(elements)] ==
            IF i = 0 THEN q ELSE Enqueue(after[i - 1], elements[i].key, elements[i].val)
    IN  after[Len(elements)]

\* alignToNetworkTime(): the round a node computes when it is synchronized, from
\* the number of uplink slots of the superframes and tiles before the current one.
AlignToNetworkTime(time) ==
    LET current == time % Len(Superframe)
        phase == (time \div Len(Superframe)) * NumUplinks
                 + Cardinality({i \in 1 .. current : Superframe[i] = "UPLINK"})
    IN  NodesCount - 1 - (phase % NodesCount)

\* getAndUpdateCurrentNode()
NextInRound(current) == IF current = 0 THEN NodesCount - 1 ELSE current - 1

Init ==
    /\ tile = 0
    /\ mode = [n \in Nodes |-> IF n = 0 THEN "synced" ELSE "lost"]
    /\ hop = [n \in Nodes |-> 0]
    /\ nextNode = [n \in Nodes |-> NodesCount - 1]
    /\ table = [n \in Nodes |-> NewTable(0)]
    /\ topologyQueue = [n \in Nodes |-> <<>>]
    /\ smeQueue = [n \in Nodes |-> <<>>]
    /\ managerQueue = [n \in Nodes |-> <<>>]
    /\ graph = {}
    /\ arrived = {}
    /\ dropped = {}
    /\ faults = 0

-----------------------------------------------------------------------------
(***************************************************************************)
(* The stream manager issues SMEs; a node without a clock cannot.          *)
(***************************************************************************)
Held(n) == KeysOf(managerQueue[n]) \cup KeysOf(smeQueue[n])

Issued == arrived \cup dropped \cup UNION {Held(n) : n \in Nodes}

IssueSME(x) ==
    /\ x \notin Issued
    /\ mode[Origin[x]] # "lost"
    /\ managerQueue' = [managerQueue EXCEPT ![Origin[x]] = Enqueue(@, x, x)]
    /\ UNCHANGED <<tile, mode, hop, nextNode, table, topologyQueue, smeQueue, masterVars,
                   dropped, faults>>

-----------------------------------------------------------------------------
(***************************************************************************)
(* The timesync slot, and downlink tiles in general.                       *)
(***************************************************************************)
InRange(s, r) == s # r /\ Rssi[s][r] # NoSignal

NextTile == tile' = (tile + 1) % TimeModulus

IsTimesync == (tile % (Len(Superframe) * ClockSync)) = 0

IsUplink == Superframe[(tile % Len(Superframe)) + 1] = "UPLINK"

\* A packet at distance h can be taken by a node that waits for any timesync
\* or, once it has a hop, by one that listens from that hop on.
Listens(n, h) == h <= MaxHops /\ (mode[n] = "lost" \/ h >= hop[n])

\* The ways a timesync can flood the network: the distance at which each node
\* hears it, NoHop for those that do not.
Floods ==
    {f \in [Nodes -> (0 .. MaxHops) \cup {NoHop}] :
        /\ f[0] = 0
        /\ \A n \in Dynamic :
              f[n] # NoHop => /\ f[n] > 0
                              /\ Listens(n, f[n])
                              /\ \E m \in Nodes : InRange(m, n) /\ f[m] = f[n] - 1}

\* Nodes that miss the packet although it is there to be heard.
Unlucky(f) ==
    {n \in Dynamic : /\ f[n] = NoHop
                     /\ \E m \in Nodes : InRange(m, n) /\ f[m] # NoHop /\ Listens(n, f[m] + 1)}

\* missedPacket() and doPeriodicSync(): a node that misses a timesync may go
\* on, exceed the receiver window, or lose the network (desyncMAC(), which
\* empties the queue of the stream manager); one that hears it operates again.
\* doResyncTime(), of a node that was lost, resets the phase with resync().
Timesync ==
    /\ IsTimesync
    /\ NextTile
    /\ \E f \in Floods :
          LET hears == {n \in Dynamic : f[n] # NoHop}
              joins == {n \in hears : mode[n] = "lost"}
          IN  /\ faults' = faults + Cardinality(Unlucky(f))
              /\ faults' <= MaxFaults
              /\ \E after \in [Nodes -> {"synced", "degraded", "lost"}] :
                    /\ \A n \in Nodes :
                          /\ n \in hears \cup {0} => after[n] = "synced"
                          /\ n \notin hears /\ mode[n] = "lost" => after[n] = "lost"
                    /\ mode' = after
                    /\ LET loses == {n \in Dynamic : mode[n] # "lost" /\ after[n] = "lost"}
                       IN  /\ managerQueue' = [n \in Nodes |->
                                  IF n \in loses THEN <<>> ELSE managerQueue[n]]
                           /\ dropped' = dropped \cup KeysIn(managerQueue, loses)
                                               \cup KeysIn(smeQueue, joins)
              /\ hop' = [n \in Nodes |-> IF n \in joins THEN f[n] ELSE hop[n]]
              /\ nextNode' = [n \in Nodes |->
                    IF n \in joins THEN AlignToNetworkTime(tile) ELSE nextNode[n]]
              /\ table' = [n \in Nodes |->
                    IF n \in joins THEN Clear(table[n], f[n]) ELSE table[n]]
              /\ topologyQueue' = [n \in Nodes |->
                    IF n \in joins THEN <<>> ELSE topologyQueue[n]]
              /\ smeQueue' = [n \in Nodes |-> IF n \in joins THEN <<>> ELSE smeQueue[n]]
    /\ UNCHANGED masterVars

Downlink ==
    /\ ~IsTimesync
    /\ ~IsUplink
    /\ NextTile
    /\ UNCHANGED <<mode, hop, nextNode, table, queueVars, masterVars, dropped, faults>>

-----------------------------------------------------------------------------
(***************************************************************************)
(* An uplink slot.                                                         *)
(***************************************************************************)
Talkers == {n \in Nodes : mode[n] = "synced" /\ nextNode[n] = n}

Listeners == {n \in Nodes : mode[n] = "synced" /\ nextNode[n] # n}

\* A listener hears a talker unless another one talks over it.
Audible(n) == {s \in Talkers : InRange(s, n)}

Hearing == {n \in Listeners : Cardinality(Audible(n)) = 1}

Heard(n) == CHOOSE s \in Audible(n) : TRUE

Forwards(n) == n # 0 /\ HasPredecessor(table[n])

\* What dequeueSMEs() leaves in the SME queue of the phase.
Collected(n) == EnqueueInOrder(smeQueue[n], managerQueue[n])

\* The topologies and SMEs in a message: none without a predecessor, since only
\* the node's own topology is sent then, and none from the master.
Load(n) ==
    LET counts == IF Forwards(n)
                  THEN Allocation(Len(topologyQueue[n]), Len(Collected(n)))
                  ELSE Layout(0, 0)
        sent == Sent(counts)
    IN  [header |-> counts,
         sent |-> sent,
         topologies |-> SubSeq(topologyQueue[n], 1, sent[counts.packets].topologies),
         smes |-> SubSeq(Collected(n), 1, sent[counts.packets].smes)]

Assignees(n) == IF Forwards(n) THEN {p.id : p \in BestPredecessors(table[n])} ELSE {n}

\* The packet p of a message is refused by recv().
Refused(load, p) == ~Acceptable(load.sent, p, load.header.topologies, load.header.smes)

\* The packets of a message that are used when the first k are heard: those
\* before the first that is refused.
Used(load, k) == Min({p - 1 : p \in {q \in 1 .. k : Refused(load, q)}} \cup {k})

\* receiveUplink(), the neighbor table: the first packet was received or not.
\* The message is taken to be from the node whose turn it is.
TableAfter(n, received) ==
    LET s == Heard(n)
    IN  IF received
        THEN ReceivedMessage(table[n], n, nextNode[n], hop[s], Rssi[s][n],
                             s # 0 /\ table[s].badAssignee, TopologyOf(table[s]))
        ELSE MissedMessage(table[n], n, nextNode[n])

\* receiveUplink(), the queues of the assignee after `used' packets.
TopologiesAfter(n, s, load, used) ==
    EnqueueInOrder(Enqueue(topologyQueue[n], nextNode[n], TopologyOf(table[s])),
                   SubSeq(load.topologies, 1, load.sent[used].topologies))

\* Mutant: only the elements of the first packet are deserialized.
SmesAfter_FirstPacket(n, load, used) ==
    EnqueueInOrder(smeQueue[n], SubSeq(load.smes, 1, load.sent[Least(used, 1)].smes))

SmesAfter(n, load, used) ==
    EnqueueInOrder(smeQueue[n], SubSeq(load.smes, 1, load.sent[used].smes))

\* doReceivedTopology(): node e.key reports its strong links.
Report(g, e) ==
    {l \in g : e.key \notin l} \cup {{e.key, m} : m \in e.val.strong \ {e.key}}

\* Mutant: a node that cannot operate does not count the slot.
Counts_OnlyOperating(n) == mode[n] = "synced"

\* execute() and advance() count the slot; a node that waits for a timesync
\* runs neither.
Counts(n) == mode[n] # "lost"

\* execute() of every node.  Each talker chooses its assignee; a listener hears
\* the first heard[n] packets of the message, of which one that is not the
\* assignee wants only the first.  At the end of its own execute() the master
\* consumes what its queues hold.
Uplink ==
    /\ IsUplink
    /\ NextTile
    /\ \E assignee \in [Talkers -> Nodes], heard \in [Listeners -> 0 .. MaxPackets] :
          LET load == [s \in Talkers |-> Load(s)]
              hasFrom(n) == n \in Hearing /\ assignee[Heard(n)] = n
              wanted(n) == CASE n \notin Hearing -> 0
                             [] hasFrom(n) -> load[Heard(n)].header.packets
                             [] OTHER -> 1
              used == [n \in Listeners |->
                          IF n \in Hearing THEN Used(load[Heard(n)], heard[n]) ELSE 0]
              takes(n) == n \in Listeners /\ hasFrom(n) /\ used[n] > 0
              sends(n) == n \in Talkers /\ Forwards(n)
              topologies == [n \in Nodes |->
                  CASE n = 0 /\ n \in Talkers -> Enqueue(topologyQueue[0], 0, TopologyOf(table[0]))
                    [] sends(n) -> Dequeue(topologyQueue[n], Len(load[n].topologies))
                    [] takes(n) -> TopologiesAfter(n, Heard(n), load[Heard(n)], used[n])
                    [] OTHER -> topologyQueue[n]]
              smes == [n \in Nodes |->
                  CASE sends(n) -> Dequeue(Collected(n), Len(load[n].smes))
                    [] takes(n) -> SmesAfter(n, load[Heard(n)], used[n])
                    [] OTHER -> smeQueue[n]]
              lost(s) == LET inTheAir == IF assignee[s] \in Hearing /\ Heard(assignee[s]) = s
                                         THEN heard[assignee[s]] ELSE 0
                         IN  KeysOf(SubSeq(load[s].smes, load[s].sent[inTheAir].smes + 1,
                                           Len(load[s].smes)))
          IN  /\ \A s \in Talkers : assignee[s] \in Assignees(s)
              /\ \A n \in Listeners : heard[n] <= wanted(n)
              /\ faults' = IF \A n \in Listeners : heard[n] = wanted(n)
                           THEN faults ELSE faults + 1
              /\ faults' <= MaxFaults
              /\ table' = [n \in Nodes |->
                    IF n \in Listeners THEN TableAfter(n, used[n] > 0) ELSE table[n]]
              /\ topologyQueue' = [topologies EXCEPT ![0] = <<>>]
              /\ graph' = FoldLeft(Report, graph, topologies[0])
              /\ smeQueue' = [smes EXCEPT ![0] = <<>>]
              /\ managerQueue' = [n \in Nodes |->
                    IF n = 0 \/ sends(n) THEN <<>> ELSE managerQueue[n]]
              /\ arrived' = arrived \cup KeysOf(smes[0]) \cup KeysOf(managerQueue[0])
              /\ dropped' = dropped \cup UNION {lost(s) : s \in Talkers}
    /\ nextNode' = [n \in Nodes |->
          IF Counts(n) THEN NextInRound(nextNode[n]) ELSE nextNode[n]]
    /\ UNCHANGED <<mode, hop>>

-----------------------------------------------------------------------------
MacStep == Timesync \/ Downlink \/ Uplink

Next == MacStep \/ \E x \in Smes : IssueSME(x)

Spec == Init /\ [][Next]_vars

\* The main loop of the MAC never stops: time, which only its steps advance,
\* goes on.
FairSpec == Spec /\ WF_tile(NextTile)

-----------------------------------------------------------------------------
(***************************************************************************)
(* Properties.                                                             *)
(***************************************************************************)
\* Every node that has a clock, the ones that cannot operate for the moment
\* included, expects the same node to talk next as the master does: no two talk
\* in one slot and nobody takes a message for another's.
RoundRobinAgrees ==
    \A n \in Nodes : mode[n] # "lost" => nextNode[n] = nextNode[0]

\* A node parts with an SME only if another node has it then, or the master, or
\* if the packet that carried it was not heard or the node was reset: the sender
\* and the receiver agree on what is in every packet.
CustodyIsPassedOn ==
    [][\A n \in Nodes : \A x \in Held(n) \ Held(n)' :
          \/ \E m \in Nodes : x \in Held(m)'
          \/ x \in arrived' \cup dropped']_vars

\* An SME reaches the master unless a lost packet or a reset took it: none goes
\* round in circles and none waits for ever, whatever the faults made of the
\* hops and the tables, since only finitely many faults occur.
ReachesMaster ==
    \A x \in Smes : x \in Issued ~> x \in arrived \cup dropped

\* The links that both ends hear strongly.
StrongLinks ==
    {{p[1], p[2]} : p \in {q \in Nodes \X Nodes :
        /\ InRange(q[1], q[2]) /\ Rssi[q[1]][q[2]] >= MinStrongRssi
        /\ InRange(q[2], q[1]) /\ Rssi[q[2]][q[1]] >= MinStrongRssi}}

\* In the end the master knows every strong link, of its own and of others,
\* and does not forget it: no report that was overtaken on its way stays.
MasterLearnsLinks == \A l \in StrongLinks : <>[](l \in graph)

=============================================================================
