--------------------------- MODULE UplinkMessage ---------------------------
(***************************************************************************)
(* How topologies and SMEs are laid out in the packets of one uplink       *)
(* message (uplink_phase/uplink_message.{h,cpp}).  The sender decides how  *)
(* many of each to send and tells only these two numbers, in the header of *)
(* the first packet; which packet carries what is worked out three times:  *)
(* when the numbers are decided, when each packet is filled, and by the    *)
(* receiver, which refuses a packet that is not as it expects.             *)
(*                                                                         *)
(* Sizes are in bytes.  Elements are whole: none is split between packets, *)
(* and no SME precedes a topology.                                         *)
(***************************************************************************)
EXTENDS Integers, Sequences, FiniteSetsExt

CONSTANTS
    FirstCapacity,          \* getFirstUplinkPacketCapacity()
    OtherCapacity,          \* getOtherUplinkPacketCapacity()
    TopologySize, SmeSize,
    MaxPackets,             \* getNumUplinkPackets()
    GuaranteedTopologies

\* NetworkConfiguration::validate(), and packets that hold at least an element.
ASSUME MessageAssumption ==
    /\ FirstCapacity \in Nat
    /\ OtherCapacity \in Nat
    /\ TopologySize \in Nat \ {0}
    /\ SmeSize \in Nat \ {0}
    /\ OtherCapacity >= TopologySize
    /\ OtherCapacity >= SmeSize
    /\ MaxPackets \in Nat \ {0}
    /\ GuaranteedTopologies \in Nat
    /\ GuaranteedTopologies * TopologySize
         <= FirstCapacity + (MaxPackets - 1) * OtherCapacity

-----------------------------------------------------------------------------
Least(a, b) == IF a <= b THEN a ELSE b

Capacity(packet) == IF packet = 1 THEN FirstCapacity ELSE OtherCapacity

\* How many of n elements of a size are in the packets up to `last', when
\* packet `first' has room for them and those after it are empty.
Placed(n, size, first, room, last) ==
    IF last < first THEN 0
    ELSE Least(n, (room \div size) + (last - first) * (OtherCapacity \div size))

\* The packet in which the last of n elements is placed, or the last packet.
LastPacket(n, size, first, room) ==
    Min({p \in first .. MaxPackets : Placed(n, size, first, room, p) = n} \cup {MaxPackets})

\* The layout of a message of as many topologies and SMEs as fit of those
\* asked for: the numbers in all packets and in each.
Layout(topologies, smes) ==
    LET topologiesUpTo(p) == Placed(topologies, TopologySize, 1, FirstCapacity, p)
        turn == LastPacket(topologies, TopologySize, 1, FirstCapacity)
        room == Capacity(turn)
                - (topologiesUpTo(turn) - topologiesUpTo(turn - 1)) * TopologySize
        smesUpTo(p) == Placed(smes, SmeSize, turn, room, p)
    IN  [topologies |-> topologiesUpTo(MaxPackets),
         smes |-> smesUpTo(MaxPackets),
         packets |-> LastPacket(smes, SmeSize, turn, room),
         topologiesIn |-> [p \in 1 .. MaxPackets |-> topologiesUpTo(p) - topologiesUpTo(p - 1)],
         smesIn |-> [p \in 1 .. MaxPackets |-> smesUpTo(p) - smesUpTo(p - 1)]]

\* computePacketAllocation(): the guaranteed topologies, then SMEs, then more
\* topologies, as if the packets were one; then what really fits of them.
Allocation(availableTopologies, availableSMEs) ==
    LET total == FirstCapacity + (MaxPackets - 1) * OtherCapacity
        guaranteed == Least(GuaranteedTopologies, availableTopologies)
        smes == Least(availableSMEs, (total - guaranteed * TopologySize) \div SmeSize)
        unused == total - guaranteed * TopologySize - smes * SmeSize
        topologies == guaranteed
                      + Least(unused \div TopologySize, availableTopologies - guaranteed)
    IN  Layout(topologies, smes)

-----------------------------------------------------------------------------
\* serializeTopologiesAndSMEs(): what goes in a packet when so many topologies
\* and SMEs are left to send.
Filled(topologies, smes, capacity) ==
    LET t == Least(topologies, capacity \div TopologySize)
    IN  [topologies |-> t,
         smes |-> IF t < topologies THEN 0
                  ELSE Least(smes, (capacity - t * TopologySize) \div SmeSize)]

\* The numbers of topologies and SMEs that the sender has put in the first p
\* packets.
Sent(allocation) ==
    LET sent[p \in 0 .. MaxPackets] ==
            IF p = 0 THEN [topologies |-> 0, smes |-> 0]
            ELSE LET packet == Filled(allocation.topologies - sent[p - 1].topologies,
                                      allocation.smes - sent[p - 1].smes, Capacity(p))
                 IN  [topologies |-> sent[p - 1].topologies + packet.topologies,
                      smes |-> sent[p - 1].smes + packet.smes]
    IN  [p \in 0 .. allocation.packets |-> sent[p]]

Bytes(topologies, smes) == topologies * TopologySize + smes * SmeSize

\* checkTopologiesAndSMEs() of packet p, when the header announces so many
\* topologies and SMEs: all of them fit in a message, and the packet has the
\* size of its share of them.
Acceptable(sent, p, topologies, smes) ==
    LET expected == Layout(topologies, smes)
    IN  \/ topologies = 0 /\ smes = 0 /\ p = 1
        \/ /\ expected.topologies = topologies
           /\ expected.smes = smes
           /\ Bytes(sent[p].topologies - sent[p - 1].topologies, sent[p].smes - sent[p - 1].smes)
                = Bytes(expected.topologiesIn[p], expected.smesIn[p])

=============================================================================
