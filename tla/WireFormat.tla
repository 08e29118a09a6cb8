----------------------------- MODULE WireFormat -----------------------------
(***************************************************************************)
(* The bytes in which nodes and master exchange what the other modules     *)
(* model as values: StreamId and StreamParameters (stream_parameters.h),   *)
(* stream management elements, the elements and packets of the downlink    *)
(* (scheduler/schedule_element.{h,cpp}) and topologies.                    *)
(*                                                                         *)
(* Structures are packed and bit fields are allocated from the least       *)
(* significant bit, in little-endian words, as the compilers of the        *)
(* project's targets do.  CRYPTO and WITH_SME_SEQNO are defined.           *)
(***************************************************************************)
EXTENDS Packet, Sequences

Below(n) == {v \in Nat : v < n}

-----------------------------------------------------------------------------
(***************************************************************************)
(* Streams.                                                                *)
(***************************************************************************)
StreamIds == [src : 0 .. 255, dst : 0 .. 255, srcPort : 0 .. 15, dstPort : 0 .. 15]

\* getKey(), by which ids are compared and sorted.
Key(id) == id.src + id.dst * 256 + id.srcPort * 65536 + id.dstPort * 1048576

ServerId(id) == [src |-> id.dst, dst |-> id.dst, srcPort |-> 0, dstPort |-> id.dstPort]

IsServer(id) == id.src = id.dst /\ id.srcPort = 0

IdBytes(id) == <<id.src, id.dst, id.srcPort + id.dstPort * 16>>

IdFromBytes(b) ==
    [src |-> b[1], dst |-> b[2], srcPort |-> b[3] % 16, dstPort |-> b[3] \div 16]

Parameters ==
    [redundancy : 0 .. 7, period : 0 .. 15, payloadSize : 0 .. 127, direction : 0 .. 3]

\* As the application gives them: what does not fit in a field is lost.
NewParameters(redundancy, period, payloadSize, direction) ==
    [redundancy |-> redundancy % 8, period |-> period % 16,
     payloadSize |-> payloadSize % 128, direction |-> direction % 4]

ParametersBytes(q) ==
    LET word == q.redundancy + q.period * 8 + q.payloadSize * 128 + q.direction * 16384
    IN  <<word % 256, word \div 256>>

ParametersFromBytes(b) ==
    LET word == b[1] + b[2] * 256
    IN  [redundancy |-> word % 8, period |-> (word \div 8) % 16,
         payloadSize |-> (word \div 128) % 128, direction |-> word \div 16384]

\* How many tiles a period is.
PeriodTiles(period) ==
    IF period \in 1 .. 13
    THEN <<1, 2, 5, 10, 20, 50, 100, 200, 500, 1000, 2000, 5000, 10000>>[period]
    ELSE 0

\* How many copies of a packet a redundancy is.
Copies(redundancy) ==
    IF redundancy \in 0 .. 4 THEN <<1, 2, 2, 3, 3>>[redundancy + 1] ELSE -1

-----------------------------------------------------------------------------
(***************************************************************************)
(* Stream management elements: [id, params, type, seqNo].                  *)
(***************************************************************************)
CONNECT == 0
LISTEN == 1
CLOSED == 2
RESEND_SCHEDULE == 3
CHALLENGE == 4
UNINITIALIZED == 255

SmeTypes == {CONNECT, LISTEN, CLOSED, RESEND_SCHEDULE, CHALLENGE, UNINITIALIZED}

Smes == [id : StreamIds, params : Parameters, type : SmeTypes, seqNo : Below(65536)]

SmeClass(type) ==
    CASE type \in {CONNECT, LISTEN, CLOSED} -> 0
      [] type = RESEND_SCHEDULE -> 1
      [] type = CHALLENGE -> 2
      [] OTHER -> 255

\* The key of an SME in an updatable queue.
SmeKey(sme) == Key(sme.id) + SmeClass(sme.type) * 16777216

StreamSme(id, params, type, seqNo) ==
    [id |-> id, params |-> params, type |-> type, seqNo |-> seqNo]

MakeResendSme(node, seqNo) ==
    [id |-> [src |-> node, dst |-> 0, srcPort |-> 0, dstPort |-> 0],
     params |-> NewParameters(0, 0, 0, 0), type |-> RESEND_SCHEDULE, seqNo |-> seqNo]

\* A challenge, four random bytes, takes the place of the id's other fields and
\* of the parameters.
MakeChallengeSme(node, chal, seqNo) ==
    [id |-> [src |-> node, dst |-> chal[1], srcPort |-> chal[2] % 16, dstPort |-> chal[2] \div 16],
     params |-> ParametersFromBytes(<<chal[3], chal[4]>>), type |-> CHALLENGE, seqNo |-> seqNo]

\* MasterKeyManager::enqueueChallenge(): the bytes whose encryption is the response.
ChallengeOf(sme) ==
    LET params == ParametersBytes(sme.params)
    IN  [k \in 1 .. 16 |->
            CASE k = 1 -> sme.id.dst
              [] k = 2 -> sme.id.srcPort + sme.id.dstPort * 16
              [] k \in {3, 4} -> params[k - 2]
              [] OTHER -> 0]

SmeSize == 8

SmeBytes(sme) ==
    LET id == IdBytes(sme.id)
        params == ParametersBytes(sme.params)
    IN  <<id[1], id[2], id[3], params[1], params[2], sme.type,
          sme.seqNo % 256, sme.seqNo \div 256>>

SmeFromBytes(b) ==
    [id |-> IdFromBytes(<<b[1], b[2], b[3]>>), params |-> ParametersFromBytes(<<b[4], b[5]>>),
     type |-> b[6], seqNo |-> b[7] + b[8] * 256]

\* validateInPacket(): the master and the nodes in between drop an uplink
\* packet with an SME that is not valid.
ValidSme(b, maxNodes) ==
    LET id == IdFromBytes(<<b[1], b[2], b[3]>>)
        type == b[6]
    IN  /\ id.src < maxNodes
        /\ type \in SmeTypes
        /\ type \in {LISTEN, CONNECT, CLOSED} => id.dst < maxNodes
        /\ type = LISTEN => IsServer(id)
        /\ type = RESEND_SCHEDULE =>
              id.src # 0 /\ id.dst = 0 /\ id.srcPort = 0 /\ id.dstPort = 0
        /\ type = CHALLENGE => id.src # 0

-----------------------------------------------------------------------------
(***************************************************************************)
(* Elements of the downlink.  One of a schedule or of an info is           *)
(* [type, id, params, tx, rx, offset], a response [type, node, response];  *)
(* both are ten bytes, with the type in the upper half of the last.        *)
(***************************************************************************)
SCHEDULE_ELEMENT == 0
INFO_ELEMENT == 1
RESPONSE == 2

InfoTypes == 0 .. 2     \* SERVER_OPENED, SERVER_CLOSED, STREAM_REJECT

ElementSize == 10

StreamElements ==
    [type : {SCHEDULE_ELEMENT, INFO_ELEMENT}, id : StreamIds, params : Parameters,
     tx : Byte, rx : Byte, offset : Below(1048576)]

ResponseElements == [type : {RESPONSE}, node : Byte, response : [1 .. 8 -> Byte]]

ScheduleElement(id, params, tx, rx, offset) ==
    [type |-> SCHEDULE_ELEMENT, id |-> id, params |-> params,
     tx |-> tx, rx |-> rx, offset |-> offset % 1048576]

\* The message of an info is where a transmission has its offset.
InfoElement(id, info) ==
    [type |-> INFO_ELEMENT, id |-> id, params |-> NewParameters(0, 0, 0, 0),
     tx |-> 0, rx |-> 0, offset |-> info]

\* Eight of the sixteen bytes of the solution.
ResponseElement(node, solution) ==
    [type |-> RESPONSE, node |-> node, response |-> [k \in 1 .. 8 |-> solution[k]]]

ElementBytes(e) ==
    IF e.type = RESPONSE
    THEN [k \in 1 .. 10 |-> CASE k = 1 -> e.node
                              [] k = 10 -> RESPONSE * 16
                              [] OTHER -> e.response[k - 1]]
    ELSE LET id == IdBytes(e.id)
             params == ParametersBytes(e.params)
         IN  <<id[1], id[2], id[3], params[1], params[2], e.tx, e.rx,
               e.offset % 256, (e.offset \div 256) % 256,
               (e.offset \div 65536) + e.type * 16>>

\* deserialize() throws on any other type.
CanParseElement(b) == b[10] \div 16 \in {SCHEDULE_ELEMENT, INFO_ELEMENT, RESPONSE}

ElementFromBytes(b) ==
    LET type == b[10] \div 16
    IN  IF type = RESPONSE
        THEN [type |-> type, node |-> b[1], response |-> [k \in 1 .. 8 |-> b[k + 1]]]
        ELSE [type |-> type, id |-> IdFromBytes(<<b[1], b[2], b[3]>>),
              params |-> ParametersFromBytes(<<b[4], b[5]>>), tx |-> b[6], rx |-> b[7],
              offset |-> b[8] + b[9] * 256 + (b[10] % 16) * 65536]

-----------------------------------------------------------------------------
(***************************************************************************)
(* Packets of the downlink.                                                *)
(***************************************************************************)
HeaderSize == 15

ScheduleHeaders ==
    [totalPacket : Below(65536), currentPacket : Below(65536), scheduleID : Below(4294967296),
     activationTile : Below(4294967296), scheduleTiles : Below(65536), repetition : Byte]

IsSchedulePacket(h) == h.totalPacket > 0

HeaderBytes(h) ==
    <<h.totalPacket % 256, h.totalPacket \div 256,
      h.currentPacket % 256, h.currentPacket \div 256,
      h.scheduleID % 256, (h.scheduleID \div 256) % 256,
      (h.scheduleID \div 65536) % 256, h.scheduleID \div 16777216,
      h.activationTile % 256, (h.activationTile \div 256) % 256,
      (h.activationTile \div 65536) % 256, h.activationTile \div 16777216,
      h.scheduleTiles % 256, h.scheduleTiles \div 256, h.repetition>>

HeaderFromBytes(b) ==
    [totalPacket |-> b[1] + b[2] * 256, currentPacket |-> b[3] + b[4] * 256,
     scheduleID |-> b[5] + b[6] * 256 + b[7] * 65536 + b[8] * 16777216,
     activationTile |-> b[9] + b[10] * 256 + b[11] * 65536 + b[12] * 16777216,
     scheduleTiles |-> b[13] + b[14] * 256, repetition |-> b[15]]

\* Where the bytes of an element are, from 0, in a packet that begins with both
\* headers.
ElementAt(i) == PanHeaderSize + HeaderSize + ElementSize * (i - 1)

SchedulePacketBytes(panId, header, elements) ==
    [k \in 1 .. ElementAt(Len(elements) + 1) |->
        IF k <= PanHeaderSize THEN PanHeader(panId)[k]
        ELSE IF k <= PanHeaderSize + HeaderSize THEN HeaderBytes(header)[k - PanHeaderSize]
        ELSE LET j == k - 1 - PanHeaderSize - HeaderSize
             IN  ElementBytes(elements[(j \div ElementSize) + 1])[(j % ElementSize) + 1]]

\* SchedulePacket::deserialize() of a packet of n bytes.
ParsedHeader(b) == HeaderFromBytes([k \in 1 .. HeaderSize |-> b[PanHeaderSize + k]])

ParsedElements(b, n) ==
    [i \in 1 .. (n - PanHeaderSize - HeaderSize) \div ElementSize |->
        ElementFromBytes([k \in 1 .. ElementSize |-> b[ElementAt(i) + k]])]

\* getPacketCapacity().
PacketCapacity == (MaxPktSize - (TagSize + PanHeaderSize + HeaderSize)) \div ElementSize

-----------------------------------------------------------------------------
(***************************************************************************)
(* A node takes the packet's elements apart: applyInfoElements(), when the *)
(* network authenticates the master with challenges.                       *)
(***************************************************************************)
\* The place of the first element of a type, or the end.
FirstOf(elements, type) ==
    CHOOSE i \in 1 .. Len(elements) + 1 :
        /\ i <= Len(elements) => elements[i].type = type
        /\ \A j \in 1 .. i - 1 : elements[j].type # type

Infos(elements) == SubSeq(elements, FirstOf(elements, INFO_ELEMENT), Len(elements))

\* From the first response to the end, where the infos are again.
Responses(elements) == SubSeq(elements, FirstOf(elements, RESPONSE), Len(elements))

\* How many elements popElements() removes from the end of the packet: more than
\* it has, when a packet without transmissions has responses and infos.
Popped(elements) == Len(Infos(elements)) + Len(Responses(elements))

\* What is left in the packet when it has as many elements as are removed.
LeftInPacket(elements) == SubSeq(elements, 1, Len(elements) - Popped(elements))

-----------------------------------------------------------------------------
(***************************************************************************)
(* Topologies: a set of nodes is a bit for each, node 0 the first (on the  *)
(* targets without bit banding).                                           *)
(***************************************************************************)
PowerOf2(k) == <<1, 2, 4, 8, 16, 32, 64, 128>>[k + 1]

\* The byte of a bitset with nodes first .. first + 7.
BitsetByte(nodes, first) ==
    LET bit(k) == IF first + k \in nodes THEN PowerOf2(7 - k) ELSE 0
    IN  bit(0) + bit(1) + bit(2) + bit(3) + bit(4) + bit(5) + bit(6) + bit(7)

\* A bitset has as many bits as the network has nodes, a multiple of 8.
BitsetBytes(nodes, maxNodes) ==
    [k \in 1 .. maxNodes \div 8 |-> BitsetByte(nodes, 8 * (k - 1))]

\* operator[]: bit i from the left.
BitIsSet(b, i) == (b[(i \div 8) + 1] \div PowerOf2(7 - (i % 8))) % 2 = 1

BitsetNodes(b, maxNodes) == {i \in 0 .. maxNodes - 1 : BitIsSet(b, i)}

\* TopologyElement, [id, neighbors, weak], with or without the weak neighbors.
TopologySize(maxNodes, weakTop) == 1 + (IF weakTop THEN 2 ELSE 1) * (maxNodes \div 8)

TopologyBytes(t, maxNodes, weakTop) ==
    [k \in 1 .. TopologySize(maxNodes, weakTop) |->
        IF k = 1 THEN t.id
        ELSE IF k <= 1 + maxNodes \div 8 THEN BitsetBytes(t.neighbors, maxNodes)[k - 1]
        ELSE BitsetBytes(t.weak, maxNodes)[k - 1 - maxNodes \div 8]]

TopologyFromBytes(b, maxNodes, weakTop) ==
    LET size == maxNodes \div 8
    IN  [id |-> b[1],
         neighbors |-> BitsetNodes([k \in 1 .. size |-> b[k + 1]], maxNodes),
         weak |-> IF weakTop THEN BitsetNodes([k \in 1 .. size |-> b[k + 1 + size]], maxNodes)
                  ELSE {}]

ValidTopology(b, maxNodes) == b[1] < maxNodes

-----------------------------------------------------------------------------
(***************************************************************************)
(* The first packet of an uplink message, after the network's header: what *)
(* follows it, and the sender's own topology, of which only the id is not  *)
(* sent.                                                                   *)
(***************************************************************************)
UplinkHeaders ==
    [hop : 0 .. 127, badAssignee : BOOLEAN, assignee : Byte, numTopology : Byte, numSME : Byte]

\* What does not fit in the seven bits of the hop is lost.
UplinkHeader(hop, badFlag, assignee, topologies, smes) ==
    [hop |-> hop % 128, badAssignee |-> badFlag, assignee |-> assignee,
     numTopology |-> topologies, numSME |-> smes]

FirstUplinkBytes(h, t, maxNodes, weakTop) ==
    [k \in 1 .. 3 + TopologySize(maxNodes, weakTop) |->
        CASE k = 1 -> h.hop + (IF h.badAssignee THEN 128 ELSE 0)
          [] k = 2 -> h.assignee
          [] k = 3 -> h.numTopology
          [] k = 4 -> h.numSME
          [] OTHER -> TopologyBytes(t, maxNodes, weakTop)[k - 3]]

UplinkHeaderOf(b) ==
    [hop |-> b[1] % 128, badAssignee |-> b[1] \div 128 = 1, assignee |-> b[2],
     numTopology |-> b[3], numSME |-> b[4]]

\* getSenderTopology(): the id is that of the node whose turn it is.
SenderTopology(b, id, maxNodes, weakTop) ==
    LET size == TopologySize(maxNodes, weakTop)
    IN  TopologyFromBytes([k \in 1 .. size |-> IF k = 1 THEN id ELSE b[k + 3]], maxNodes, weakTop)

\* UplinkHeader::getHop() returns a bool: of the hop only whether it is 0 is checked.
CheckedHop(h) == IF h.hop = 0 THEN 0 ELSE 1

\* checkFirstPacket(), before topologies and SMEs are looked at.
AcceptsUplinkHeader(h, maxHops, maxNodes) ==
    CheckedHop(h) <= maxHops /\ h.assignee <= maxNodes

=============================================================================
