---------------------------- MODULE Packet_proofs ----------------------------
(***************************************************************************)
(* What one node writes into a packet is what another reads from it.       *)
(*                                                                         *)
(* WireFormat: ids and keys are unique, elements, packets and topologies   *)
(* survive their conversion to bytes, and what a node sends is accepted by *)
(* the checks of those that receive it.                                    *)
(*                                                                         *)
(* AesOcb: a packet that is encrypted and tagged by one node is verified   *)
(* and decrypted by every node with the same key, slotInfo and nonce,      *)
(* whatever the cipher, the content and the size; and no packet that has   *)
(* room for its tag exceeds the tables.                                    *)
(***************************************************************************)
EXTENDS WireFormat, AesOcb, TLAPS

-----------------------------------------------------------------------------
(***************************************************************************)
(* Fields.                                                                 *)
(***************************************************************************)
\* Two fields of a byte.
LEMMA Nibbles ==
    ASSUME NEW low \in 0 .. 15, NEW high \in 0 .. 15
    PROVE  /\ (low + high * 16) % 16 = low
           /\ (low + high * 16) \div 16 = high
           /\ low + high * 16 \in Byte
BY SMT DEF Byte

\* A byte and its two fields.
LEMMA NibblesOf ==
    ASSUME NEW b \in Byte
    PROVE  /\ b % 16 \in 0 .. 15 /\ b \div 16 \in 0 .. 15
           /\ (b % 16) + (b \div 16) * 16 = b
BY SMT DEF Byte

\* A half word and its two bytes.
LEMMA TwoBytes ==
    ASSUME NEW v \in Nat, v < 65536
    PROVE  /\ v % 256 \in Byte /\ v \div 256 \in Byte
           /\ (v % 256) + (v \div 256) * 256 = v
BY SMT DEF Byte

LEMMA OfTwoBytes ==
    ASSUME NEW a \in Byte, NEW b \in Byte
    PROVE  /\ a + b * 256 \in Nat /\ a + b * 256 < 65536
           /\ (a + b * 256) % 256 = a
           /\ (a + b * 256) \div 256 = b
BY SMT DEF Byte

\* A word of four bytes.
LEMMA FourBytes ==
    ASSUME NEW v \in Nat, v < 4294967296
    PROVE  /\ v % 256 \in Byte /\ (v \div 256) % 256 \in Byte
           /\ (v \div 65536) % 256 \in Byte /\ v \div 16777216 \in Byte
           /\ (v % 256) + ((v \div 256) % 256) * 256 + ((v \div 65536) % 256) * 65536
                + (v \div 16777216) * 16777216 = v
<1>. DEFINE a == v \div 256   b == v \div 65536   c == v \div 16777216
<1>1. a \in Nat /\ v = (v % 256) + a * 256 /\ v % 256 \in Byte
    BY SMT DEF Byte
<1>2. b \in Nat /\ b = a \div 256
    BY SMT
<1>3. c \in Nat /\ c < 256 /\ c = b \div 256
    BY SMT
<1>. HIDE DEF a, b, c
<1>4. a = (a % 256) + b * 256 /\ a % 256 \in Byte
    BY <1>1, <1>2, SMT DEF Byte
<1>5. b = (b % 256) + c * 256 /\ b % 256 \in Byte
    BY <1>2, <1>3, SMT DEF Byte
<1>6. v = (v % 256) + (a % 256) * 256 + (b % 256) * 65536 + c * 16777216
    BY <1>1, <1>2, <1>3, <1>4, <1>5, SMT DEF Byte
<1>. QED BY <1>1, <1>3, <1>4, <1>5, <1>6, SMT DEF a, b, c, Byte

\* The fields of the parameters' word.
LEMMA WordFields ==
    ASSUME NEW word \in Nat, word < 65536
    PROVE  /\ word % 8 \in 0 .. 7 /\ (word \div 8) % 16 \in 0 .. 15
           /\ (word \div 128) % 128 \in 0 .. 127 /\ word \div 16384 \in 0 .. 3
           /\ (word % 8) + ((word \div 8) % 16) * 8 + ((word \div 128) % 128) * 128
                + (word \div 16384) * 16384 = word
<1>. DEFINE a == word \div 8   b == word \div 128   c == word \div 16384
<1>1. a \in Nat /\ word = (word % 8) + a * 8 /\ word % 8 \in 0 .. 7
    BY SMT
<1>2. b \in Nat /\ b = a \div 16
    BY SMT
<1>3. c \in 0 .. 3 /\ c = b \div 128
    BY SMT
<1>. HIDE DEF a, b, c
<1>4. a = (a % 16) + b * 16 /\ a % 16 \in 0 .. 15
    BY <1>1, <1>2, SMT
<1>5. b = (b % 128) + c * 128 /\ b % 128 \in 0 .. 127
    <2>1. b % 128 \in 0 .. 127
        BY <1>2, Z3
    <2>2. b = (b % 128) + c * 128
        BY <1>2, <1>3, Z3
    <2>. QED BY <2>1, <2>2
<1>6. word = (word % 8) + (a % 16) * 8 + (b % 128) * 128 + c * 16384
    BY <1>1, <1>2, <1>3, <1>4, <1>5, SMT
<1>. QED BY <1>1, <1>3, <1>4, <1>5, <1>6, SMT DEF a, b, c

LEMMA IdSurvives ==
    ASSUME NEW id \in StreamIds
    PROVE  /\ IdFromBytes(IdBytes(id)) = id
           /\ \A k \in 1 .. 3 : IdBytes(id)[k] \in Byte
<1>. DEFINE b == id.srcPort + id.dstPort * 16
<1>1. /\ id.src \in Byte /\ id.dst \in Byte
      /\ id.srcPort \in 0 .. 15 /\ id.dstPort \in 0 .. 15
      /\ id = [src |-> id.src, dst |-> id.dst, srcPort |-> id.srcPort, dstPort |-> id.dstPort]
    BY DEF StreamIds, Byte
<1>2. b % 16 = id.srcPort /\ b \div 16 = id.dstPort /\ b \in Byte
    BY <1>1, Nibbles
<1>3. IdBytes(id) = <<id.src, id.dst, b>>
    BY DEF IdBytes
<1>. HIDE DEF b
<1>4. IdFromBytes(<<id.src, id.dst, b>>)
        = [src |-> id.src, dst |-> id.dst, srcPort |-> id.srcPort, dstPort |-> id.dstPort]
    BY <1>2 DEF IdFromBytes
<1>5. IdFromBytes(IdBytes(id)) = id
    BY <1>1, <1>3, <1>4
<1>6. ASSUME NEW k \in 1 .. 3 PROVE IdBytes(id)[k] \in Byte
    <2>1. k = 1 \/ k = 2 \/ k = 3
        OBVIOUS
    <2>. QED BY <2>1, <1>1, <1>2, <1>3
<1>. QED BY <1>5, <1>6

LEMMA ParametersSurvive ==
    ASSUME NEW q \in Parameters
    PROVE  /\ ParametersFromBytes(ParametersBytes(q)) = q
           /\ \A k \in 1 .. 2 : ParametersBytes(q)[k] \in Byte
<1>. DEFINE word == q.redundancy + q.period * 8 + q.payloadSize * 128 + q.direction * 16384
<1>1. /\ q.redundancy \in 0 .. 7 /\ q.period \in 0 .. 15
      /\ q.payloadSize \in 0 .. 127 /\ q.direction \in 0 .. 3
    BY DEF Parameters
<1>2. /\ word \in Nat /\ word < 65536
      /\ word % 8 = q.redundancy /\ (word \div 8) % 16 = q.period
      /\ (word \div 128) % 128 = q.payloadSize /\ word \div 16384 = q.direction
    <2>. DEFINE r == q.redundancy   p == q.period   s == q.payloadSize   e == q.direction
    <2>1. r \in 0 .. 7 /\ p \in 0 .. 15 /\ s \in 0 .. 127 /\ e \in 0 .. 3
        BY <1>1
    <2>2. word = r + p * 8 + s * 128 + e * 16384
        OBVIOUS
    <2>. HIDE DEF r, p, s, e, word
    <2>3. word \in Nat /\ word < 65536
        BY <2>1, <2>2, SMT
    <2>4. word % 8 = r /\ word \div 8 = p + s * 16 + e * 2048
        BY <2>1, <2>2, SMT
    <2>5. (p + s * 16 + e * 2048) % 16 = p
        BY <2>1, SMT
    <2>6. word \div 128 = s + e * 128
        BY <2>1, <2>2, SMT
    <2>7. (s + e * 128) % 128 = s
        BY <2>1, SMT
    <2>8. word \div 16384 = e
        BY <2>1, <2>2, SMT
    <2>. QED BY <2>3, <2>4, <2>5, <2>6, <2>7, <2>8, SMT DEF r, p, s, e
<1>3. ParametersBytes(q) = <<word % 256, word \div 256>>
    BY DEF ParametersBytes
<1>. HIDE DEF word
<1>4. /\ word % 256 \in Byte /\ word \div 256 \in Byte
      /\ (word % 256) + (word \div 256) * 256 = word
    BY <1>2, TwoBytes
<1>5. ParametersFromBytes(<<word % 256, word \div 256>>)
        = [redundancy |-> word % 8, period |-> (word \div 8) % 16,
           payloadSize |-> (word \div 128) % 128, direction |-> word \div 16384]
    BY <1>4 DEF ParametersFromBytes
<1>6. q = [redundancy |-> q.redundancy, period |-> q.period,
           payloadSize |-> q.payloadSize, direction |-> q.direction]
    BY DEF Parameters
<1>7. ASSUME NEW k \in 1 .. 2 PROVE ParametersBytes(q)[k] \in Byte
    <2>1. k = 1 \/ k = 2
        OBVIOUS
    <2>. QED BY <2>1, <1>3, <1>4
<1>. QED BY <1>2, <1>3, <1>5, <1>6, <1>7

LEMMA BytesOfParametersSurvive ==
    ASSUME NEW a \in Byte, NEW b \in Byte
    PROVE  /\ ParametersFromBytes(<<a, b>>) \in Parameters
           /\ ParametersBytes(ParametersFromBytes(<<a, b>>)) = <<a, b>>
<1>. DEFINE word == a + b * 256
            q == ParametersFromBytes(<<a, b>>)
<1>1. word \in Nat /\ word < 65536 /\ word % 256 = a /\ word \div 256 = b
    BY OfTwoBytes
<1>2. q = [redundancy |-> word % 8, period |-> (word \div 8) % 16,
           payloadSize |-> (word \div 128) % 128, direction |-> word \div 16384]
    BY DEF ParametersFromBytes
<1>. HIDE DEF word, q
<1>3. /\ word % 8 \in 0 .. 7 /\ (word \div 8) % 16 \in 0 .. 15
      /\ (word \div 128) % 128 \in 0 .. 127 /\ word \div 16384 \in 0 .. 3
      /\ (word % 8) + ((word \div 8) % 16) * 8 + ((word \div 128) % 128) * 128
           + (word \div 16384) * 16384 = word
    BY <1>1, WordFields
<1>4. q \in Parameters
    BY <1>2, <1>3 DEF Parameters
<1>5. ParametersBytes(q) = <<word % 256, word \div 256>>
    BY <1>2, <1>3 DEF ParametersBytes
<1>. QED BY <1>1, <1>4, <1>5 DEF q

-----------------------------------------------------------------------------
(***************************************************************************)
(* Keys.                                                                   *)
(***************************************************************************)
LEMMA KeyHasFields ==
    ASSUME NEW id \in StreamIds
    PROVE  /\ Key(id) \in Nat /\ Key(id) < 16777216
           /\ Key(id) % 256 = id.src
           /\ (Key(id) \div 256) % 256 = id.dst
           /\ (Key(id) \div 65536) % 16 = id.srcPort
           /\ Key(id) \div 1048576 = id.dstPort
<1>. DEFINE a == id.src   b == id.dst   c == id.srcPort   d == id.dstPort   key == Key(id)
<1>1. a \in 0 .. 255 /\ b \in 0 .. 255 /\ c \in 0 .. 15 /\ d \in 0 .. 15
    BY DEF StreamIds
<1>2. key = a + b * 256 + c * 65536 + d * 1048576
    BY SMT DEF Key
<1>. HIDE DEF a, b, c, d, key
<1>3. key \in Nat /\ key < 16777216
    BY <1>1, <1>2, SMT
<1>4. key % 256 = a /\ key \div 256 = b + c * 256 + d * 4096
    BY <1>1, <1>2, SMT
<1>5. (b + c * 256 + d * 4096) % 256 = b
    BY <1>1, SMT
<1>6. key \div 65536 = c + d * 16
    BY <1>1, <1>2, SMT
<1>7. (c + d * 16) % 16 = c
    BY <1>1, SMT
<1>8. key \div 1048576 = d
    BY <1>1, <1>2, SMT
<1>. QED BY <1>3, <1>4, <1>5, <1>6, <1>7, <1>8, SMT DEF a, b, c, d, key

\* StreamId::getKey(): streams with the same key, which the maps and queues take
\* for the same, are the same.
THEOREM KeysAreUnique ==
    ASSUME NEW a \in StreamIds, NEW b \in StreamIds, Key(a) = Key(b)
    PROVE  a = b
<1>1. a.src = b.src /\ a.dst = b.dst /\ a.srcPort = b.srcPort /\ a.dstPort = b.dstPort
    BY KeyHasFields, SMT
<1>. QED BY <1>1 DEF StreamIds

\* SMEKey::getKey(): in an updatable queue an SME replaces only one of the same
\* stream or server and of the same class.
THEOREM SmeKeysAreUnique ==
    ASSUME NEW a \in Smes, NEW b \in Smes, SmeKey(a) = SmeKey(b)
    PROVE  a.id = b.id /\ SmeClass(a.type) = SmeClass(b.type)
<1>. DEFINE i == Key(a.id)   j == Key(b.id)   c == SmeClass(a.type)   d == SmeClass(b.type)
<1>1. a.id \in StreamIds /\ b.id \in StreamIds
    BY DEF Smes
<1>2. c \in 0 .. 255 /\ d \in 0 .. 255
    BY DEF SmeClass
<1>3. i \in Nat /\ j \in Nat /\ i < 16777216 /\ j < 16777216
    BY <1>1, KeyHasFields, SMT
<1>4. i + c * 16777216 = j + d * 16777216
    BY SMT DEF SmeKey
<1>. HIDE DEF i, j, c, d
<1>5. i = j /\ c = d
    BY <1>2, <1>3, <1>4, SMT
<1>6. a.id = b.id
    BY <1>1, <1>5, KeysAreUnique DEF i, j
<1>. QED BY <1>5, <1>6 DEF c, d

-----------------------------------------------------------------------------
(***************************************************************************)
(* Stream management elements.                                             *)
(***************************************************************************)
\* serialize() and deserialize() of StreamManagementElement.
THEOREM SmesSurvive ==
    ASSUME NEW sme \in Smes
    PROVE  SmeFromBytes(SmeBytes(sme)) = sme
<1>. DEFINE i == IdBytes(sme.id)   q == ParametersBytes(sme.params)
            lo == sme.seqNo % 256   hi == sme.seqNo \div 256
<1>1. /\ sme.id \in StreamIds /\ sme.params \in Parameters
      /\ sme.seqNo \in Nat /\ sme.seqNo < 65536
      /\ sme = [id |-> sme.id, params |-> sme.params, type |-> sme.type, seqNo |-> sme.seqNo]
    BY SMT DEF Smes, Below
<1>2. i = <<i[1], i[2], i[3]>> /\ IdFromBytes(i) = sme.id
    BY <1>1, IdSurvives DEF IdBytes
<1>3. q = <<q[1], q[2]>> /\ ParametersFromBytes(q) = sme.params
    BY <1>1, ParametersSurvive DEF ParametersBytes
<1>4. lo + hi * 256 = sme.seqNo
    BY <1>1, TwoBytes, SMT
<1>5. SmeBytes(sme) = <<i[1], i[2], i[3], q[1], q[2], sme.type, lo, hi>>
    BY SMT DEF SmeBytes
<1>. HIDE DEF i, q, lo, hi
<1>6. SmeFromBytes(<<i[1], i[2], i[3], q[1], q[2], sme.type, lo, hi>>)
        = [id |-> IdFromBytes(<<i[1], i[2], i[3]>>), params |-> ParametersFromBytes(<<q[1], q[2]>>),
           type |-> sme.type, seqNo |-> lo + hi * 256]
    BY SMT DEF SmeFromBytes
<1>. QED BY <1>1, <1>2, <1>3, <1>4, <1>5, <1>6

\* The SMEs that nodes make of their own streams and servers, and those that ask
\* for the schedule or challenge the master.
OwnSmes(node, maxNodes) ==
    {s \in Smes :
        \/ s.type \in {CONNECT, CLOSED} /\ s.id.src = node /\ s.id.dst < maxNodes
        \/ s.type \in {LISTEN, CLOSED} /\ s.id.src = node /\ IsServer(s.id)
        \/ s = MakeResendSme(node, s.seqNo)
        \/ \E chal \in [1 .. 4 -> Byte] : s = MakeChallengeSme(node, chal, s.seqNo)}

\* validateInPacket(): an SME that a dynamic node makes is let through by every
\* node on its way; otherwise the whole packet, and the others' SMEs in it,
\* would be refused each time.
THEOREM OwnSmesAreValid ==
    ASSUME NEW maxNodes \in Nat, NEW node \in 1 .. 255, node < maxNodes,
           NEW sme \in OwnSmes(node, maxNodes)
    PROVE  ValidSme(SmeBytes(sme), maxNodes)
<1>. DEFINE i == IdBytes(sme.id)
            b == SmeBytes(sme)
<1>1. sme \in Smes /\ sme.id \in StreamIds /\ sme.type \in SmeTypes
    BY DEF OwnSmes, Smes
<1>2. i = <<i[1], i[2], i[3]>> /\ IdFromBytes(i) = sme.id
    BY <1>1, IdSurvives DEF IdBytes
<1>3. b[1] = i[1] /\ b[2] = i[2] /\ b[3] = i[3] /\ b[6] = sme.type
    BY SMT DEF SmeBytes
<1>. HIDE DEF i, b
<1>4. IdFromBytes(<<b[1], b[2], b[3]>>) = sme.id
    BY <1>2, <1>3
<1>5. SUFFICES
        /\ sme.id.src < maxNodes
        /\ sme.type \in {LISTEN, CONNECT, CLOSED} => sme.id.dst < maxNodes
        /\ sme.type = LISTEN => IsServer(sme.id)
        /\ sme.type = RESEND_SCHEDULE =>
              sme.id.src # 0 /\ sme.id.dst = 0 /\ sme.id.srcPort = 0 /\ sme.id.dstPort = 0
        /\ sme.type = CHALLENGE => sme.id.src # 0
    BY <1>1, <1>3, <1>4 DEF ValidSme, b
<1>. USE DEF CONNECT, LISTEN, CLOSED, RESEND_SCHEDULE, CHALLENGE
<1>6. CASE sme.type \in {CONNECT, CLOSED} /\ sme.id.src = node /\ sme.id.dst < maxNodes
    BY <1>6
<1>7. CASE sme.type \in {LISTEN, CLOSED} /\ sme.id.src = node /\ IsServer(sme.id)
    BY <1>7 DEF IsServer
<1>8. CASE sme = MakeResendSme(node, sme.seqNo)
    <2>1. /\ sme.id = [src |-> node, dst |-> 0, srcPort |-> 0, dstPort |-> 0]
          /\ sme.type = RESEND_SCHEDULE
        BY <1>8 DEF MakeResendSme
    <2>. QED BY <2>1
<1>9. CASE \E chal \in [1 .. 4 -> Byte] : sme = MakeChallengeSme(node, chal, sme.seqNo)
    <2>1. PICK chal \in [1 .. 4 -> Byte] : sme = MakeChallengeSme(node, chal, sme.seqNo)
        BY <1>9
    <2>2. /\ sme.id = [src |-> node, dst |-> chal[1],
                       srcPort |-> chal[2] % 16, dstPort |-> chal[2] \div 16]
          /\ sme.type = CHALLENGE
        BY <2>1 DEF MakeChallengeSme
    <2>. QED BY <2>2
<1>. QED BY <1>6, <1>7, <1>8, <1>9 DEF OwnSmes

\* sendChallenge(), enqueueChallenge(): what the master encrypts is what the node
\* encrypts to verify the response, the four bytes of its challenge and zeros.
THEOREM ChallengeReachesMaster ==
    ASSUME NEW node \in Byte, NEW chal \in [1 .. 4 -> Byte], NEW seqNo \in Below(65536)
    PROVE  LET sme == SmeFromBytes(SmeBytes(MakeChallengeSme(node, chal, seqNo)))
           IN  /\ sme.type = CHALLENGE
               /\ sme.id.src = node
               /\ ChallengeOf(sme) = [k \in 1 .. 16 |-> IF k \in 1 .. 4 THEN chal[k] ELSE 0]
<1>. DEFINE sme == MakeChallengeSme(node, chal, seqNo)
            q == ParametersFromBytes(<<chal[3], chal[4]>>)
            id == [src |-> node, dst |-> chal[1],
                   srcPort |-> chal[2] % 16, dstPort |-> chal[2] \div 16]
<1>1. chal[1] \in Byte /\ chal[2] \in Byte /\ chal[3] \in Byte /\ chal[4] \in Byte
    OBVIOUS
<1>2. /\ chal[2] % 16 \in 0 .. 15 /\ chal[2] \div 16 \in 0 .. 15
      /\ (chal[2] % 16) + (chal[2] \div 16) * 16 = chal[2]
    BY <1>1, NibblesOf
<1>3. id \in StreamIds
    BY <1>1, <1>2 DEF StreamIds, Byte
<1>4. q \in Parameters /\ ParametersBytes(q) = <<chal[3], chal[4]>>
    BY <1>1, BytesOfParametersSurvive
<1>5. sme = [id |-> id, params |-> q, type |-> CHALLENGE, seqNo |-> seqNo]
    BY DEF MakeChallengeSme
<1>. HIDE DEF q, sme
<1>6. sme \in Smes
    BY <1>3, <1>4, <1>5 DEF Smes, SmeTypes
<1>7. SmeFromBytes(SmeBytes(sme)) = sme
    BY <1>6, SmesSurvive
<1>8. /\ sme.id.dst = chal[1] /\ sme.id.srcPort + sme.id.dstPort * 16 = chal[2]
      /\ sme.params = q /\ sme.type = CHALLENGE /\ sme.id.src = node
    BY <1>2, <1>5
<1>9. ChallengeOf(sme) = [k \in 1 .. 16 |-> IF k \in 1 .. 4 THEN chal[k] ELSE 0]
    <2>. DEFINE params == <<chal[3], chal[4]>>
    <2>1. ChallengeOf(sme) = [k \in 1 .. 16 |->
                                CASE k = 1 -> chal[1] [] k = 2 -> chal[2]
                                  [] k \in {3, 4} -> params[k - 2] [] OTHER -> 0]
        BY <1>4, <1>8 DEF ChallengeOf
    <2>2. ASSUME NEW k \in 1 .. 16
          PROVE (CASE k = 1 -> chal[1] [] k = 2 -> chal[2]
                   [] k \in {3, 4} -> params[k - 2] [] OTHER -> 0)
                = IF k \in 1 .. 4 THEN chal[k] ELSE 0
        <3>1. k = 1 \/ k = 2 \/ k = 3 \/ k = 4 \/ k \notin 1 .. 4
            OBVIOUS
        <3>. QED BY <3>1
    <2>. HIDE DEF params
    <2>. QED BY <2>1, <2>2
<1>. QED BY <1>7, <1>8, <1>9 DEF sme

-----------------------------------------------------------------------------
(***************************************************************************)
(* Elements and packets of the downlink.                                   *)
(***************************************************************************)
\* The offset of an element and the type above it.
LEMMA OffsetFields ==
    ASSUME NEW v \in Nat, v < 1048576, NEW type \in 0 .. 2
    PROVE  /\ v % 256 \in Byte /\ (v \div 256) % 256 \in Byte
           /\ (v \div 65536) + type * 16 \in Byte
           /\ ((v \div 65536) + type * 16) \div 16 = type
           /\ (v % 256) + ((v \div 256) % 256) * 256
                + (((v \div 65536) + type * 16) % 16) * 65536 = v
<1>. DEFINE a == v \div 256   b == v \div 65536
<1>1. a \in Nat /\ v = (v % 256) + a * 256 /\ v % 256 \in Byte
    BY SMT DEF Byte
<1>2. b \in 0 .. 15 /\ b = a \div 256
    BY SMT
<1>. HIDE DEF a, b
<1>3. a = (a % 256) + b * 256 /\ a % 256 \in Byte
    BY <1>1, <1>2, SMT DEF Byte
<1>4. (b + type * 16) % 16 = b /\ (b + type * 16) \div 16 = type /\ b + type * 16 \in Byte
    BY <1>2, SMT DEF Byte
<1>5. v = (v % 256) + (a % 256) * 256 + b * 65536
    BY <1>1, <1>2, <1>3, SMT DEF Byte
<1>. QED BY <1>1, <1>3, <1>4, <1>5, SMT DEF a, b

\* ScheduleElement::serialize() and deserialize(): an element of any type is
\* recognised by its last byte, and is read as it was written.
THEOREM ElementsSurvive ==
    ASSUME NEW e \in StreamElements \cup ResponseElements
    PROVE  /\ CanParseElement(ElementBytes(e))
           /\ ElementFromBytes(ElementBytes(e)) = e
<1>. USE DEF SCHEDULE_ELEMENT, INFO_ELEMENT, RESPONSE
<1>1. CASE e \in ResponseElements
    <2>1. /\ e.type = 2 /\ e.node \in Byte /\ e.response \in [1 .. 8 -> Byte]
          /\ e = [type |-> 2, node |-> e.node, response |-> e.response]
        BY <1>1 DEF ResponseElements
    <2>. DEFINE b == ElementBytes(e)
    <2>2. b = [k \in 1 .. 10 |-> CASE k = 1 -> e.node [] k = 10 -> 2 * 16
                                   [] OTHER -> e.response[k - 1]]
        BY <2>1 DEF ElementBytes
    <2>. HIDE DEF b
    <2>3. b[1] = e.node /\ b[10] = 32 /\ \A k \in 1 .. 8 : b[k + 1] = e.response[k]
        BY <2>2
    <2>4. b[10] \div 16 = 2
        BY <2>3
    <2>5. [k \in 1 .. 8 |-> b[k + 1]] = e.response
        BY <2>1, <2>3
    <2>6. ElementFromBytes(b) = [type |-> 2, node |-> b[1], response |-> [k \in 1 .. 8 |-> b[k + 1]]]
        BY <2>4 DEF ElementFromBytes
    <2>. QED BY <2>1, <2>3, <2>4, <2>5, <2>6 DEF CanParseElement, b
<1>2. CASE e \in StreamElements
    <2>1. /\ e.type \in {0, 1} /\ e.id \in StreamIds /\ e.params \in Parameters
          /\ e.tx \in Byte /\ e.rx \in Byte /\ e.offset \in Nat /\ e.offset < 1048576
          /\ e = [type |-> e.type, id |-> e.id, params |-> e.params,
                  tx |-> e.tx, rx |-> e.rx, offset |-> e.offset]
        BY <1>2, SMT DEF StreamElements, Below
    <2>. DEFINE i == IdBytes(e.id)   q == ParametersBytes(e.params)
                x == e.offset % 256   y == (e.offset \div 256) % 256
                z == (e.offset \div 65536) + e.type * 16
                b == <<i[1], i[2], i[3], q[1], q[2], e.tx, e.rx, x, y, z>>
    <2>2. i = <<i[1], i[2], i[3]>> /\ IdFromBytes(i) = e.id
        BY <2>1, IdSurvives DEF IdBytes
    <2>3. q = <<q[1], q[2]>> /\ ParametersFromBytes(q) = e.params
        BY <2>1, ParametersSurvive DEF ParametersBytes
    <2>4. z \div 16 = e.type /\ x + y * 256 + (z % 16) * 65536 = e.offset
        <3>. DEFINE v == e.offset   t == e.type
        <3>1. v \in Nat /\ v < 1048576 /\ t \in 0 .. 2
            BY <2>1, SMT
        <3>. HIDE DEF v, t
        <3>2. /\ ((v \div 65536) + t * 16) \div 16 = t
              /\ (v % 256) + ((v \div 256) % 256) * 256
                    + (((v \div 65536) + t * 16) % 16) * 65536 = v
            BY <3>1, OffsetFields, SMT
        <3>. QED BY <3>2, SMT DEF v, t
    <2>5. ElementBytes(e) = b
        BY <2>1, SMT DEF ElementBytes
    <2>. HIDE DEF i, q, x, y, z
    <2>6. b[10] \div 16 = e.type /\ e.type # 2
        BY <2>1, <2>4
    <2>7. ElementFromBytes(b)
            = [type |-> e.type, id |-> IdFromBytes(<<i[1], i[2], i[3]>>),
               params |-> ParametersFromBytes(<<q[1], q[2]>>), tx |-> e.tx, rx |-> e.rx,
               offset |-> x + y * 256 + (z % 16) * 65536]
        BY <2>6, SMT DEF ElementFromBytes
    <2>8. ElementFromBytes(b) = e
        BY <2>1, <2>2, <2>3, <2>4, <2>7, SMT
    <2>9. CanParseElement(b)
        BY <2>1, <2>6, SMT DEF CanParseElement
    <2>. HIDE DEF b
    <2>. QED BY <2>5, <2>8, <2>9
<1>. QED BY <1>1, <1>2

LEMMA HeaderSurvives ==
    ASSUME NEW h \in ScheduleHeaders
    PROVE  HeaderFromBytes(HeaderBytes(h)) = h
<1>1. /\ h.totalPacket \in Nat /\ h.totalPacket < 65536
      /\ h.currentPacket \in Nat /\ h.currentPacket < 65536
      /\ h.scheduleTiles \in Nat /\ h.scheduleTiles < 65536
    BY SMT DEF ScheduleHeaders, Below
<1>2. /\ h.scheduleID \in Nat /\ h.scheduleID < 4294967296
      /\ h.activationTile \in Nat /\ h.activationTile < 4294967296
    BY SMT DEF ScheduleHeaders, Below
<1>3. h = [totalPacket |-> h.totalPacket, currentPacket |-> h.currentPacket,
           scheduleID |-> h.scheduleID, activationTile |-> h.activationTile,
           scheduleTiles |-> h.scheduleTiles, repetition |-> h.repetition]
    BY SMT DEF ScheduleHeaders
<1>4. /\ (h.totalPacket % 256) + (h.totalPacket \div 256) * 256 = h.totalPacket
      /\ (h.currentPacket % 256) + (h.currentPacket \div 256) * 256 = h.currentPacket
      /\ (h.scheduleTiles % 256) + (h.scheduleTiles \div 256) * 256 = h.scheduleTiles
    <2>1. (h.totalPacket % 256) + (h.totalPacket \div 256) * 256 = h.totalPacket
        BY <1>1, TwoBytes, SMT
    <2>2. (h.currentPacket % 256) + (h.currentPacket \div 256) * 256 = h.currentPacket
        BY <1>1, TwoBytes, SMT
    <2>3. (h.scheduleTiles % 256) + (h.scheduleTiles \div 256) * 256 = h.scheduleTiles
        BY <1>1, TwoBytes, SMT
    <2>. QED BY <2>1, <2>2, <2>3
<1>5. /\ (h.scheduleID % 256) + ((h.scheduleID \div 256) % 256) * 256
            + ((h.scheduleID \div 65536) % 256) * 65536
            + (h.scheduleID \div 16777216) * 16777216 = h.scheduleID
      /\ (h.activationTile % 256) + ((h.activationTile \div 256) % 256) * 256
            + ((h.activationTile \div 65536) % 256) * 65536
            + (h.activationTile \div 16777216) * 16777216 = h.activationTile
    BY <1>2, FourBytes, SMT
<1>6. HeaderFromBytes(HeaderBytes(h))
        = [totalPacket |-> (h.totalPacket % 256) + (h.totalPacket \div 256) * 256,
           currentPacket |-> (h.currentPacket % 256) + (h.currentPacket \div 256) * 256,
           scheduleID |-> (h.scheduleID % 256) + ((h.scheduleID \div 256) % 256) * 256
                            + ((h.scheduleID \div 65536) % 256) * 65536
                            + (h.scheduleID \div 16777216) * 16777216,
           activationTile |-> (h.activationTile % 256) + ((h.activationTile \div 256) % 256) * 256
                            + ((h.activationTile \div 65536) % 256) * 65536
                            + (h.activationTile \div 16777216) * 16777216,
           scheduleTiles |-> (h.scheduleTiles % 256) + (h.scheduleTiles \div 256) * 256,
           repetition |-> h.repetition]
    BY SMT DEF HeaderFromBytes, HeaderBytes
<1>. QED BY <1>3, <1>4, <1>5, <1>6, SMT

LEMMA TenBytes ==
    ASSUME NEW e
    PROVE  ElementBytes(e) = [k \in 1 .. 10 |-> ElementBytes(e)[k]]
<1>1. CASE e.type = RESPONSE
    BY <1>1 DEF ElementBytes
<1>2. CASE e.type # RESPONSE
    <2>1. ASSUME NEW a, NEW b, NEW c, NEW d, NEW f, NEW g, NEW h, NEW i, NEW j, NEW l
          PROVE  <<a, b, c, d, f, g, h, i, j, l>>
                   = [k \in 1 .. 10 |-> <<a, b, c, d, f, g, h, i, j, l>>[k]]
        OBVIOUS
    <2>. DEFINE i == IdBytes(e.id)   q == ParametersBytes(e.params)
                x == e.offset % 256   y == (e.offset \div 256) % 256
                z == (e.offset \div 65536) + e.type * 16
    <2>2. ElementBytes(e) = <<i[1], i[2], i[3], q[1], q[2], e.tx, e.rx, x, y, z>>
        BY <1>2, SMT DEF ElementBytes
    <2>. HIDE DEF i, q, x, y, z
    <2>. QED BY <2>1, <2>2
<1>. QED BY <1>1, <1>2

\* SchedulePacket::serialize() and deserialize(): the header and all elements of
\* a packet are read as they were written, and no more elements than those.
THEOREM SchedulePacketsSurvive ==
    ASSUME NEW panId, NEW header \in ScheduleHeaders,
           NEW elements \in Seq(StreamElements \cup ResponseElements)
    PROVE  LET b == SchedulePacketBytes(panId, header, elements)
               n == ElementAt(Len(elements) + 1)
           IN  ParsedHeader(b) = header /\ ParsedElements(b, n) = elements
<1>. DEFINE b == SchedulePacketBytes(panId, header, elements)
            len == Len(elements)
            n == ElementAt(len + 1)
            element(j) == ElementBytes(elements[(j \div 10) + 1])[(j % 10) + 1]
<1>1. /\ len \in Nat /\ n = 20 + 10 * len
      /\ elements = [i \in 1 .. len |-> elements[i]]
      /\ \A i \in 1 .. len : elements[i] \in StreamElements \cup ResponseElements
    BY DEF ElementAt, PanHeaderSize, HeaderSize, ElementSize
<1>2. b = [k \in 1 .. n |-> IF k <= 5 THEN PanHeader(panId)[k]
                            ELSE IF k <= 20 THEN HeaderBytes(header)[k - 5]
                            ELSE element(k - 1 - 5 - 15)]
    BY DEF SchedulePacketBytes, PanHeaderSize, HeaderSize, ElementSize
<1>. HIDE DEF b, n, len
<1>3. ParsedHeader(b) = header
    <2>. DEFINE h == HeaderBytes(header)
    <2>1. h = [k \in 1 .. 15 |-> h[k]]
        BY DEF HeaderBytes
    <2>2. ASSUME NEW k \in 1 .. 15 PROVE b[5 + k] = h[k]
        <3>. HIDE DEF h, element
        <3>1. 5 + k \in 1 .. n /\ ~ (5 + k <= 5) /\ 5 + k <= 20 /\ (5 + k) - 5 = k
            <4>1. len \in Nat /\ n = 20 + 10 * len
                BY <1>1
            <4>. QED BY <4>1
        <3>. QED BY <1>2, <3>1 DEF h
    <2>. HIDE DEF h
    <2>3. [k \in 1 .. 15 |-> b[5 + k]] = h
        BY <2>1, <2>2
    <2>4. ParsedHeader(b) = HeaderFromBytes(h)
        BY <2>3 DEF ParsedHeader, HeaderSize, PanHeaderSize
    <2>. QED BY <2>4, HeaderSurvives DEF h
<1>4. ASSUME NEW i \in 1 .. len
      PROVE  ElementFromBytes([k \in 1 .. 10 |-> b[ElementAt(i) + k]]) = elements[i]
    <2>. DEFINE e == ElementBytes(elements[i])
    <2>1. e = [k \in 1 .. 10 |-> e[k]]
        BY TenBytes
    <2>2. ASSUME NEW k \in 1 .. 10 PROVE b[ElementAt(i) + k] = e[k]
        <3>. DEFINE at == ElementAt(i) + k   j == at - 1 - 5 - 15
        <3>1. at = 20 + 10 * (i - 1) + k
            BY DEF ElementAt, PanHeaderSize, HeaderSize, ElementSize
        <3>2. at \in 1 .. n /\ ~ (at <= 5) /\ ~ (at <= 20) /\ j = 10 * (i - 1) + (k - 1)
            <4>1. len \in Nat /\ n = 20 + 10 * len
                BY <1>1
            <4>2. at = 10 * (i - 1) + k + 20
                BY <3>1
            <4>. HIDE DEF at, element, e
            <4>3. at \in Int /\ at >= 21 /\ at <= n
                BY <4>1, <4>2
            <4>4. j = 10 * (i - 1) + (k - 1)
                BY <4>1, <4>2
            <4>. QED BY <4>1, <4>3, <4>4
        <3>3. j \div 10 = i - 1 /\ j % 10 = k - 1
            <4>. HIDE DEF j
            <4>. QED BY <3>2
        <3>4. (j \div 10) + 1 = i /\ (j % 10) + 1 = k
            BY <3>3
        <3>5. b[at] = element(j)
            <4>. HIDE DEF element, at
            <4>. QED BY <1>2, <3>2
        <3>. HIDE DEF j, at
        <3>6. element(j) = e[k]
            BY <3>4
        <3>. QED BY <3>5, <3>6 DEF at
    <2>. HIDE DEF e
    <2>3. [k \in 1 .. 10 |-> b[ElementAt(i) + k]] = e
        BY <2>1, <2>2
    <2>. QED BY <1>1, <2>3, ElementsSurvive DEF e
<1>5. (n - 20) \div 10 = len
    <2>1. len \in Nat /\ n = 20 + 10 * len
        BY <1>1
    <2>. QED BY <2>1
<1>6. ParsedElements(b, n) = [i \in 1 .. len |-> elements[i]]
    <2>1. ParsedElements(b, n)
            = [i \in 1 .. len |-> ElementFromBytes([k \in 1 .. 10 |-> b[ElementAt(i) + k]])]
        <3>1. n - PanHeaderSize - HeaderSize = n - 20
            BY <1>1 DEF PanHeaderSize, HeaderSize
        <3>. QED BY <1>5, <3>1 DEF ParsedElements, ElementSize
    <2>. QED BY <2>1, <1>4
<1>. QED BY <1>1, <1>3, <1>6 DEF b, n, len

\* A packet with as many elements as its capacity has room for the tag.
LEMMA FullPacketFits == ElementAt(PacketCapacity + 1) + TagSize <= MaxPktSize
BY DEF ElementAt, PacketCapacity, PanHeaderSize, HeaderSize, ElementSize, TagSize, MaxPktSize

-----------------------------------------------------------------------------
(***************************************************************************)
(* A node takes the elements of a packet apart.                            *)
(***************************************************************************)
\* Transmissions, then responses, then infos, as the master serializes them.
InOrder(elements, schedule, responses) ==
    /\ schedule \in 0 .. Len(elements) /\ responses \in 0 .. Len(elements) - schedule
    /\ \A i \in 1 .. Len(elements) :
          elements[i].type = IF i <= schedule THEN SCHEDULE_ELEMENT
                             ELSE IF i <= schedule + responses THEN RESPONSE
                             ELSE INFO_ELEMENT

LEMMA FirstIs ==
    ASSUME NEW T, NEW elements \in Seq(T), NEW type, NEW i \in 1 .. Len(elements) + 1,
           i <= Len(elements) => elements[i].type = type,
           \A j \in 1 .. i - 1 : elements[j].type # type
    PROVE  FirstOf(elements, type) = i
<1>. DEFINE P(f) == /\ f <= Len(elements) => elements[f].type = type
                    /\ \A j \in 1 .. f - 1 : elements[j].type # type
            f == FirstOf(elements, type)
<1>1. f \in 1 .. Len(elements) + 1 /\ P(f)
    <2>1. \E g \in 1 .. Len(elements) + 1 : P(g)
        OBVIOUS
    <2>2. f = CHOOSE g \in 1 .. Len(elements) + 1 : P(g)
        BY DEF FirstOf
    <2>. HIDE DEF P, f
    <2>. QED BY <2>1, <2>2
<1>. HIDE DEF f
<1>2. ~ (f < i)
    BY <1>1
<1>3. ~ (i < f)
    BY <1>1
<1>4. f = i
    BY <1>1, <1>2, <1>3
<1>. QED BY <1>4 DEF f

\* applyInfoElements(): of the packets of a schedule, which have no responses, the
\* infos are taken and the transmissions are left.
THEOREM InfosAreTakenApart ==
    ASSUME NEW elements \in Seq(StreamElements \cup ResponseElements),
           NEW schedule, InOrder(elements, schedule, 0)
    PROVE  /\ Infos(elements) = SubSeq(elements, schedule + 1, Len(elements))
           /\ Responses(elements) = << >>
           /\ LeftInPacket(elements) = SubSeq(elements, 1, schedule)
<1>. DEFINE n == Len(elements)
<1>. USE DEF SCHEDULE_ELEMENT, INFO_ELEMENT, RESPONSE
<1>1. /\ n \in Nat /\ schedule \in 0 .. n
      /\ \A i \in 1 .. n : elements[i].type = IF i <= schedule THEN 0 ELSE 1
    BY DEF InOrder
<1>2. FirstOf(elements, INFO_ELEMENT) = schedule + 1
    BY <1>1, FirstIs
<1>3. FirstOf(elements, RESPONSE) = n + 1
    BY <1>1, FirstIs
<1>4. Infos(elements) = SubSeq(elements, schedule + 1, n) /\ Len(Infos(elements)) = n - schedule
    BY <1>1, <1>2 DEF Infos
<1>5. Responses(elements) = << >> /\ Len(Responses(elements)) = 0
    BY <1>1, <1>3 DEF Responses
<1>6. n - Popped(elements) = schedule
    BY <1>1, <1>4, <1>5 DEF Popped
<1>. QED BY <1>4, <1>5, <1>6 DEF LeftInPacket

\* The same function, on the packets that carry responses and no transmissions:
\* as many elements are removed as there are only when no info follows the
\* responses.  With an info, pop_back() is called on an empty vector.
THEOREM ResponsesAreTakenApart ==
    ASSUME NEW elements \in Seq(StreamElements \cup ResponseElements),
           NEW responses \in Nat \ {0}, InOrder(elements, 0, responses)
    PROVE  /\ Popped(elements) = Len(elements) + (Len(elements) - responses)
           /\ Popped(elements) <= Len(elements) <=> Infos(elements) = << >>
<1>. DEFINE n == Len(elements)
<1>. USE DEF SCHEDULE_ELEMENT, INFO_ELEMENT, RESPONSE
<1>1. /\ n \in Nat /\ responses \in 1 .. n
      /\ \A i \in 1 .. n : elements[i].type = IF i <= responses THEN 2 ELSE 1
    BY DEF InOrder
<1>2. FirstOf(elements, INFO_ELEMENT) = responses + 1
    BY <1>1, FirstIs
<1>3. FirstOf(elements, RESPONSE) = 1
    BY <1>1, FirstIs
<1>4. /\ Infos(elements) = SubSeq(elements, responses + 1, n)
      /\ Len(Infos(elements)) = n - responses
    BY <1>1, <1>2 DEF Infos
<1>5. Len(Responses(elements)) = n
    BY <1>1, <1>3 DEF Responses
<1>6. Popped(elements) = n + (n - responses)
    BY <1>1, <1>4, <1>5 DEF Popped
<1>7. Infos(elements) = << >> <=> n = responses
    <2>1. n = responses => SubSeq(elements, responses + 1, n) = << >>
        BY <1>1
    <2>2. Infos(elements) = << >> => Len(Infos(elements)) = 0
        OBVIOUS
    <2>. QED BY <1>1, <1>4, <2>1, <2>2
<1>. QED BY <1>1, <1>6, <1>7

-----------------------------------------------------------------------------
(***************************************************************************)
(* Topologies.                                                             *)
(***************************************************************************)
LEMMA BitOfByte ==
    ASSUME NEW nodes, NEW first \in Nat, NEW k \in 0 .. 7
    PROVE  /\ BitsetByte(nodes, first) \in Byte
           /\ (BitsetByte(nodes, first) \div PowerOf2(7 - k)) % 2 = 1 <=> first + k \in nodes
<1>. DEFINE bit(j) == IF first + j \in nodes THEN 1 ELSE 0
            a == bit(0)   b == bit(1)   c == bit(2)   d == bit(3)
            e == bit(4)   f == bit(5)   g == bit(6)   h == bit(7)
            w == a * 128 + b * 64 + c * 32 + d * 16 + e * 8 + f * 4 + g * 2 + h
<1>1. /\ a \in 0 .. 1 /\ b \in 0 .. 1 /\ c \in 0 .. 1 /\ d \in 0 .. 1
      /\ e \in 0 .. 1 /\ f \in 0 .. 1 /\ g \in 0 .. 1 /\ h \in 0 .. 1
    OBVIOUS
<1>2. BitsetByte(nodes, first) = w
    BY SMT DEF BitsetByte, PowerOf2
<1>3. \A j \in 0 .. 7 : bit(j) = 1 <=> first + j \in nodes
    OBVIOUS
<1>4. /\ PowerOf2(0) = 1 /\ PowerOf2(1) = 2 /\ PowerOf2(2) = 4 /\ PowerOf2(3) = 8
      /\ PowerOf2(4) = 16 /\ PowerOf2(5) = 32 /\ PowerOf2(6) = 64 /\ PowerOf2(7) = 128
    BY DEF PowerOf2
<1>5. (w \div PowerOf2(7 - k)) % 2 = bit(k)
    <2>. HIDE DEF a, b, c, d, e, f, g, h
    <2>1. /\ w \div 128 = a
          /\ w \div 64 = a * 2 + b
          /\ w \div 32 = a * 4 + b * 2 + c
          /\ w \div 16 = a * 8 + b * 4 + c * 2 + d
          /\ w \div 8 = a * 16 + b * 8 + c * 4 + d * 2 + e
          /\ w \div 4 = a * 32 + b * 16 + c * 8 + d * 4 + e * 2 + f
          /\ w \div 2 = a * 64 + b * 32 + c * 16 + d * 8 + e * 4 + f * 2 + g
          /\ w \div 1 = w
        BY <1>1
    <2>. HIDE DEF w
    <2>2. /\ a % 2 = a
          /\ (a * 2 + b) % 2 = b
          /\ (a * 4 + b * 2 + c) % 2 = c
          /\ (a * 8 + b * 4 + c * 2 + d) % 2 = d
          /\ (a * 16 + b * 8 + c * 4 + d * 2 + e) % 2 = e
          /\ (a * 32 + b * 16 + c * 8 + d * 4 + e * 2 + f) % 2 = f
          /\ (a * 64 + b * 32 + c * 16 + d * 8 + e * 4 + f * 2 + g) % 2 = g
        BY <1>1
    <2>3. w % 2 = h
        BY <1>1 DEF w
    <2>4. /\ (w \div 128) % 2 = a /\ (w \div 64) % 2 = b /\ (w \div 32) % 2 = c
          /\ (w \div 16) % 2 = d /\ (w \div 8) % 2 = e /\ (w \div 4) % 2 = f
          /\ (w \div 2) % 2 = g /\ (w \div 1) % 2 = h
        BY <2>1, <2>2, <2>3
    <2>5. k = 0 \/ k = 1 \/ k = 2 \/ k = 3 \/ k = 4 \/ k = 5 \/ k = 6 \/ k = 7
        OBVIOUS
    <2>. HIDE DEF bit
    <2>. QED BY <1>4, <2>4, <2>5 DEF a, b, c, d, e, f, g, h
<1>6. w \in Byte
    <2>. HIDE DEF a, b, c, d, e, f, g, h
    <2>. QED BY <1>1 DEF Byte
<1>. HIDE DEF w, bit
<1>. QED BY <1>2, <1>3, <1>5, <1>6

LEMMA BitsetsSurvive ==
    ASSUME NEW size \in Nat, NEW nodes \in SUBSET (0 .. 8 * size - 1)
    PROVE  BitsetNodes(BitsetBytes(nodes, 8 * size), 8 * size) = nodes
<1>. DEFINE b == BitsetBytes(nodes, 8 * size)
<1>1. b = [k \in 1 .. size |-> BitsetByte(nodes, 8 * (k - 1))]
    <2>1. (8 * size) \div 8 = size
        OBVIOUS
    <2>. QED BY <2>1 DEF BitsetBytes
<1>. HIDE DEF b
<1>2. ASSUME NEW i \in 0 .. 8 * size - 1
      PROVE  BitIsSet(b, i) <=> i \in nodes
    <2>. DEFINE q == i \div 8   r == i % 8
    <2>1. q \in Nat /\ q < size /\ r \in 0 .. 7 /\ i = 8 * q + r
        OBVIOUS
    <2>2. BitIsSet(b, i) <=> (b[q + 1] \div PowerOf2(7 - r)) % 2 = 1
        BY DEF BitIsSet
    <2>. HIDE DEF q, r
    <2>3. b[q + 1] = BitsetByte(nodes, 8 * q)
        BY <1>1, <2>1
    <2>. QED BY <2>1, <2>2, <2>3, BitOfByte
<1>. QED BY <1>2 DEF BitsetNodes, b

\* TopologyElement::serialize() and deserialize(): the master reads the neighbors
\* a node has, and the weak ones when the network uses them.
THEOREM TopologiesSurvive ==
    ASSUME NEW size \in Nat, NEW weakTop \in BOOLEAN,
           NEW id \in Byte, NEW neighbors \in SUBSET (0 .. 8 * size - 1),
           NEW weak \in SUBSET (0 .. 8 * size - 1)
    PROVE  LET t == [id |-> id, neighbors |-> neighbors, weak |-> weak]
           IN  TopologyFromBytes(TopologyBytes(t, 8 * size, weakTop), 8 * size, weakTop)
                 = [t EXCEPT !.weak = IF weakTop THEN weak ELSE {}]
<1>. DEFINE t == [id |-> id, neighbors |-> neighbors, weak |-> weak]
            b == TopologyBytes(t, 8 * size, weakTop)
            n == BitsetBytes(neighbors, 8 * size)
            w == BitsetBytes(weak, 8 * size)
            total == 1 + (IF weakTop THEN 2 ELSE 1) * size
<1>1. (8 * size) \div 8 = size
    OBVIOUS
<1>2. b = [k \in 1 .. total |-> IF k = 1 THEN id ELSE IF k <= 1 + size THEN n[k - 1]
                               ELSE w[k - 1 - size]]
    BY <1>1 DEF TopologyBytes, TopologySize
<1>3. n = [k \in 1 .. size |-> n[k]] /\ w = [k \in 1 .. size |-> w[k]]
    BY <1>1 DEF BitsetBytes
<1>. HIDE DEF b, n, w
<1>4. b[1] = id
    BY <1>2
<1>5. [k \in 1 .. size |-> b[k + 1]] = n
    <2>1. ASSUME NEW k \in 1 .. size PROVE b[k + 1] = n[k]
        BY <1>2
    <2>. QED BY <1>3, <2>1
<1>6. ASSUME weakTop PROVE [k \in 1 .. size |-> b[k + 1 + size]] = w
    <2>1. ASSUME NEW k \in 1 .. size PROVE b[k + 1 + size] = w[k]
        BY <1>2, <1>6
    <2>. QED BY <1>3, <2>1
<1>7. BitsetNodes(n, 8 * size) = neighbors /\ BitsetNodes(w, 8 * size) = weak
    BY BitsetsSurvive DEF n, w
<1>8. TopologyFromBytes(b, 8 * size, weakTop)
        = [id |-> id, neighbors |-> neighbors, weak |-> IF weakTop THEN weak ELSE {}]
    BY <1>1, <1>4, <1>5, <1>6, <1>7 DEF TopologyFromBytes
<1>9. [t EXCEPT !.weak = IF weakTop THEN weak ELSE {}]
        = [id |-> id, neighbors |-> neighbors, weak |-> IF weakTop THEN weak ELSE {}]
    <2>. DEFINE v == IF weakTop THEN weak ELSE {}
    <2>. HIDE DEF v
    <2>1. [t EXCEPT !.weak = v] = [id |-> id, neighbors |-> neighbors, weak |-> v]
        OBVIOUS
    <2>. QED BY <2>1 DEF v
<1>. HIDE DEF t
<1>. QED BY <1>8, <1>9 DEF b, t

\* SendUplinkMessage() and checkFirstPacket(): the flag does not disturb the hop, the
\* sender's topology is read as it is, and the header is accepted when the hop is
\* positive and the assignee a node, however small the network's limit on the hops.
THEOREM FirstUplinkPacketSurvives ==
    ASSUME NEW size \in Nat, NEW weakTop \in BOOLEAN,
           NEW h \in UplinkHeaders, NEW id \in Byte,
           NEW neighbors \in SUBSET (0 .. 8 * size - 1),
           NEW weak \in SUBSET (0 .. 8 * size - 1),
           NEW maxHops \in Nat \ {0}
    PROVE  LET t == [id |-> id, neighbors |-> neighbors, weak |-> weak]
               b == FirstUplinkBytes(h, t, 8 * size, weakTop)
           IN  /\ UplinkHeaderOf(b) = h
               /\ SenderTopology(b, id, 8 * size, weakTop)
                    = [t EXCEPT !.weak = IF weakTop THEN weak ELSE {}]
               /\ h.assignee < 8 * size => AcceptsUplinkHeader(UplinkHeaderOf(b), maxHops, 8 * size)
<1>. DEFINE t == [id |-> id, neighbors |-> neighbors, weak |-> weak]
            total == TopologySize(8 * size, weakTop)
            sent == TopologyBytes(t, 8 * size, weakTop)
            b == FirstUplinkBytes(h, t, 8 * size, weakTop)
            first == h.hop + (IF h.badAssignee THEN 128 ELSE 0)
<1>1. /\ h.hop \in 0 .. 127 /\ h.badAssignee \in BOOLEAN /\ h.assignee \in Byte
      /\ h = [hop |-> h.hop, badAssignee |-> h.badAssignee, assignee |-> h.assignee,
              numTopology |-> h.numTopology, numSME |-> h.numSME]
    BY DEF UplinkHeaders
<1>2. total \in Nat /\ total >= 1
    BY DEF TopologySize
<1>3. sent = [k \in 1 .. total |-> sent[k]]
    BY DEF TopologyBytes
<1>4. sent[1] = id
    BY <1>2 DEF TopologyBytes
<1>5. b = [k \in 1 .. 3 + total |->
            CASE k = 1 -> first [] k = 2 -> h.assignee [] k = 3 -> h.numTopology
              [] k = 4 -> h.numSME [] OTHER -> sent[k - 3]]
    BY DEF FirstUplinkBytes
<1>. HIDE DEF total, sent, b, first
<1>6. b[1] = first /\ b[2] = h.assignee /\ b[3] = h.numTopology /\ b[4] = h.numSME
    BY <1>2, <1>5
<1>7. first % 128 = h.hop /\ (first \div 128 = 1 <=> h.badAssignee)
    <2>1. CASE h.badAssignee
        <3>1. first = h.hop + 128
            BY <2>1 DEF first
        <3>2. first % 128 = h.hop /\ first \div 128 = 1
            BY <1>1, <3>1
        <3>. QED BY <2>1, <3>2
    <2>2. CASE ~h.badAssignee
        <3>1. first = h.hop
            BY <1>1, <2>2 DEF first
        <3>2. first % 128 = h.hop /\ first \div 128 = 0
            BY <1>1, <3>1
        <3>. QED BY <2>2, <3>2
    <2>. QED BY <2>1, <2>2
<1>8. UplinkHeaderOf(b) = h
    <2>1. (first \div 128 = 1) = h.badAssignee
        BY <1>1, <1>7
    <2>. QED BY <1>1, <1>6, <1>7, <2>1 DEF UplinkHeaderOf
<1>9. [k \in 1 .. total |-> IF k = 1 THEN id ELSE b[k + 3]] = sent
    <2>1. ASSUME NEW k \in 1 .. total PROVE (IF k = 1 THEN id ELSE b[k + 3]) = sent[k]
        <3>1. CASE k = 1
            BY <1>4, <3>1
        <3>2. CASE k # 1
            BY <1>2, <1>5, <3>2
        <3>. QED BY <3>1, <3>2
    <2>. QED BY <1>3, <2>1
<1>10. SenderTopology(b, id, 8 * size, weakTop) = [t EXCEPT !.weak = IF weakTop THEN weak ELSE {}]
    <2>1. TopologyFromBytes(sent, 8 * size, weakTop)
            = [t EXCEPT !.weak = IF weakTop THEN weak ELSE {}]
        BY TopologiesSurvive DEF sent
    <2>2. SenderTopology(b, id, 8 * size, weakTop) = TopologyFromBytes(sent, 8 * size, weakTop)
        BY <1>9 DEF SenderTopology, total
    <2>. QED BY <2>1, <2>2
<1>11. h.assignee < 8 * size => AcceptsUplinkHeader(h, maxHops, 8 * size)
    <2>1. CheckedHop(h) \in 0 .. 1
        BY DEF CheckedHop
    <2>. QED BY <1>1, <2>1 DEF AcceptsUplinkHeader, Byte
<1>. QED BY <1>8, <1>10, <1>11 DEF b

-----------------------------------------------------------------------------
(***************************************************************************)
(* The buffer.                                                             *)
(***************************************************************************)
LEMMA Room ==
    ASSUME NEW p \in Packets, WellFormed(p)
    PROVE  /\ p.size \in Nat /\ p.start \in Nat /\ p.reserved \in Nat
           /\ p.start <= p.size /\ p.size + p.reserved <= MaxPktSize
           /\ Available(p) = MaxPktSize - p.size - p.reserved
<1>. DEFINE s == p.size   t == p.reserved
<1>1. s \in Nat /\ p.start \in Nat /\ t \in Nat
    BY DEF Packets
<1>2. p.start <= s /\ s + t <= MaxPktSize
    BY DEF WellFormed
<1>3. Available(p) = (MaxPktSize - s - t) % 4294967296
    BY SMT DEF Available
<1>. HIDE DEF s, t
<1>4. (MaxPktSize - s - t) % 4294967296 = MaxPktSize - s - t
    <2>1. MaxPktSize - s - t \in Nat /\ MaxPktSize - s - t < 4294967296
        BY <1>1, <1>2, SMT DEF MaxPktSize
    <2>. DEFINE x == MaxPktSize - s - t
    <2>. HIDE DEF x
    <2>2. x \in Nat /\ x < 4294967296
        BY <2>1, SMT DEF x
    <2>3. x % 4294967296 = x
        BY <2>2, SMT
    <2>. QED BY <2>3, SMT DEF x
<1>. QED BY <1>1, <1>2, <1>3, <1>4, SMT DEF s, t

\* The members of a packet in which n bytes have been put.
LEMMA PutIs ==
    ASSUME NEW p \in Packets, NEW n, NEW data
    PROVE  LET r == Put(p, data, n)
           IN  /\ r = [bytes |-> [k \in 1 .. MaxPktSize |->
                                    IF k \in p.size + 1 .. p.size + n THEN data[k - p.size]
                                    ELSE p.bytes[k]],
                       size |-> p.size + n, start |-> p.start, reserved |-> p.reserved]
<1>. DEFINE bytes == [k \in 1 .. MaxPktSize |->
                        IF k \in p.size + 1 .. p.size + n THEN data[k - p.size] ELSE p.bytes[k]]
            size == p.size + n
            max == MaxPktSize
<1>1. Put(p, data, n) = [p EXCEPT !.bytes = bytes, !.size = size]
    BY Zenon DEF Put
<1>2. p = [bytes |-> p.bytes, size |-> p.size, start |-> p.start, reserved |-> p.reserved]
    <2>1. p \in [bytes : [1 .. max -> Byte], size : Nat, start : Nat, reserved : Nat]
        BY DEF Packets
    <2>. HIDE DEF max
    <2>. QED BY <2>1
<1>. HIDE DEF bytes, size
<1>3. [p EXCEPT !.bytes = bytes, !.size = size]
        = [bytes |-> bytes, size |-> size, start |-> p.start, reserved |-> p.reserved]
    <2>. DEFINE b == p.bytes   s == p.size   t == p.start   r == p.reserved
    <2>1. p = [bytes |-> b, size |-> s, start |-> t, reserved |-> r]
        BY <1>2
    <2>. HIDE DEF b, s, t, r
    <2>2. [[bytes |-> b, size |-> s, start |-> t, reserved |-> r] EXCEPT !.bytes = bytes]
            = [bytes |-> bytes, size |-> s, start |-> t, reserved |-> r]
        OBVIOUS
    <2>3. [[bytes |-> bytes, size |-> s, start |-> t, reserved |-> r] EXCEPT !.size = size]
            = [bytes |-> bytes, size |-> size, start |-> t, reserved |-> r]
        OBVIOUS
    <2>. DEFINE q == [p EXCEPT !.bytes = bytes]
    <2>4. [p EXCEPT !.bytes = bytes, !.size = size] = [q EXCEPT !.size = size]
        BY Zenon
    <2>5. q = [bytes |-> bytes, size |-> s, start |-> t, reserved |-> r]
        BY <2>1, <2>2, Zenon DEF q
    <2>. HIDE DEF q
    <2>6. [q EXCEPT !.size = size]
            = [bytes |-> bytes, size |-> size, start |-> t, reserved |-> r]
        BY <2>3, <2>5, Zenon
    <2>. QED BY <2>4, <2>6, Zenon DEF s, t, r
<1>. QED BY <1>1, <1>3 DEF bytes, size

\* reserveTag(), put(), putTag(): whatever is put after the room for the tag has
\* been reserved leaves that room, so that the tag can always be put.
THEOREM TagAlwaysFits ==
    ASSUME NEW p \in Packets, WellFormed(p), p.reserved = TagSize,
           NEW n \in Nat, NEW data \in [1 .. n -> Byte], CanPut(p, n)
    PROVE  WellFormed(Put(p, data, n)) /\ CanPutTag(Put(p, data, n))
<1>. DEFINE s == p.size   t == p.start   max == MaxPktSize   old == p.bytes
            byte(k) == IF k \in s + 1 .. s + n THEN data[k - s] ELSE old[k]
            bytes == [k \in 1 .. max |-> byte(k)]
            r == Put(p, data, n)
<1>1. /\ s \in Nat /\ t \in Nat /\ t <= s /\ max \in Nat
      /\ s + TagSize <= max /\ n <= max - s - TagSize
    BY Room DEF CanPut, MaxPktSize
<1>2. r = [bytes |-> bytes, size |-> s + n, start |-> t, reserved |-> TagSize]
    BY PutIs
<1>3. old \in [1 .. max -> Byte]
    BY DEF Packets
<1>. HIDE DEF s, t, max, old, r
<1>4. ASSUME NEW k \in 1 .. max PROVE byte(k) \in Byte
    <2>1. CASE k \in s + 1 .. s + n
        <3>1. k - s \in 1 .. n
            BY <1>1, <2>1
        <3>. QED BY <2>1, <3>1
    <2>2. CASE k \notin s + 1 .. s + n
        BY <1>3, <2>2
    <2>. QED BY <2>1, <2>2
<1>. HIDE DEF byte
<1>5. bytes \in [1 .. max -> Byte]
    BY <1>4
<1>. HIDE DEF bytes
<1>6. TagSize \in Nat
    BY DEF TagSize
<1>7. s + n \in Nat /\ t <= s + n /\ (s + n) + TagSize <= max /\ max - (s + n) >= TagSize
    BY <1>1, <1>6
<1>8. r \in Packets
    BY <1>1, <1>2, <1>5, <1>6, <1>7 DEF Packets, max
<1>. QED BY <1>2, <1>6, <1>7, <1>8 DEF WellFormed, CanPutTag, max, r

\* put() and get(): what is put in a packet from which all has been read is what
\* is read next.
THEOREM PutIsGot ==
    ASSUME NEW p \in Packets, WellFormed(p), Size(p) = 0,
           NEW n \in Nat, NEW data \in [1 .. n -> Byte], CanPut(p, n)
    PROVE  LET r == Put(p, data, n) IN CanGet(r, n) /\ Got(r, n) = data
<1>. DEFINE s == p.size   max == MaxPktSize   old == p.bytes
            r == Put(p, data, n)
            bytes == [k \in 1 .. max |-> IF k \in s + 1 .. s + n THEN data[k - s] ELSE old[k]]
<1>1. s \in Nat /\ p.start = s /\ max \in Nat /\ s + n <= max
    BY Room DEF CanPut, Size, MaxPktSize
<1>2. r = [bytes |-> bytes, size |-> s + n, start |-> s, reserved |-> p.reserved]
    BY <1>1, PutIs
<1>. HIDE DEF s, max, old, r
<1>3. ASSUME NEW k \in 1 .. n PROVE bytes[s + k] = data[k]
    <2>1. s + k \in 1 .. max /\ s + k \in s + 1 .. s + n /\ (s + k) - s = k
        BY <1>1
    <2>. QED BY <2>1
<1>. HIDE DEF bytes
<1>4. Got(r, n) = [k \in 1 .. n |-> data[k]]
    BY <1>2, <1>3 DEF Got
<1>. QED BY <1>1, <1>2, <1>4 DEF CanGet, Size, r

-----------------------------------------------------------------------------
(***************************************************************************)
(* Bits.                                                                   *)
(***************************************************************************)
Bits == [1 .. 8 -> {0, 1}]

\* A byte made of bits has these bits.
LEMMA BitsOfByteOf ==
    ASSUME NEW f \in Bits
    PROVE  /\ ByteOf(f) \in Byte
           /\ \A k \in 1 .. 8 : BitOf(ByteOf(f), k) = f[k]
<1>. /\ f[1] \in 0 .. 1 /\ f[2] \in 0 .. 1 /\ f[3] \in 0 .. 1 /\ f[4] \in 0 .. 1
     /\ f[5] \in 0 .. 1 /\ f[6] \in 0 .. 1 /\ f[7] \in 0 .. 1 /\ f[8] \in 0 .. 1
    BY SMT DEF Bits
<1>. DEFINE b == ByteOf(f)
<1>1. b \in Byte
    BY SMT DEF ByteOf, Byte
<1>2. BitOf(b, 1) = f[1]
    BY SMT DEF ByteOf, BitOf, Weight
<1>3. BitOf(b, 2) = f[2]
    BY SMT DEF ByteOf, BitOf, Weight
<1>4. BitOf(b, 3) = f[3]
    BY SMT DEF ByteOf, BitOf, Weight
<1>5. BitOf(b, 4) = f[4]
    BY SMT DEF ByteOf, BitOf, Weight
<1>6. BitOf(b, 5) = f[5]
    BY SMT DEF ByteOf, BitOf, Weight
<1>7. BitOf(b, 6) = f[6]
    BY SMT DEF ByteOf, BitOf, Weight
<1>8. BitOf(b, 7) = f[7]
    BY SMT DEF ByteOf, BitOf, Weight
<1>9. BitOf(b, 8) = f[8]
    BY SMT DEF ByteOf, BitOf, Weight
<1>. QED BY <1>1, <1>2, <1>3, <1>4, <1>5, <1>6, <1>7, <1>8, <1>9, SMT

\* A byte is made of its bits.
LEMMA ByteOfItsBits ==
    ASSUME NEW b \in Byte
    PROVE  ByteOf([k \in 1 .. 8 |-> BitOf(b, k)]) = b
<1>. DEFINE r2 == b \div 2     r3 == b \div 4     r4 == b \div 8     r5 == b \div 16
            r6 == b \div 32    r7 == b \div 64    r8 == b \div 128
<1>1. b \in Nat /\ b < 256
    BY SMT DEF Byte
<1>2. /\ r2 \in Nat /\ r3 \in Nat /\ r4 \in Nat /\ r5 \in Nat /\ r6 \in Nat /\ r7 \in Nat
      /\ r8 \in 0 .. 1
    BY <1>1, SMT
<1>3. r3 = r2 \div 2 /\ r4 = r3 \div 2 /\ r5 = r4 \div 2
    BY <1>1, SMT
<1>4. r6 = r5 \div 2 /\ r7 = r6 \div 2 /\ r8 = r7 \div 2
    BY <1>1, SMT
<1>5. b = (b % 2) + 2 * r2
    BY <1>1, SMT
<1>. HIDE DEF r2, r3, r4, r5, r6, r7, r8
<1>6. /\ r2 = (r2 % 2) + 2 * r3 /\ r3 = (r3 % 2) + 2 * r4 /\ r4 = (r4 % 2) + 2 * r5
      /\ r5 = (r5 % 2) + 2 * r6 /\ r6 = (r6 % 2) + 2 * r7 /\ r7 = (r7 % 2) + 2 * r8
      /\ r8 = r8 % 2
    BY <1>2, <1>3, <1>4, SMT
<1>7. /\ b % 2 \in 0 .. 1 /\ r2 % 2 \in 0 .. 1 /\ r3 % 2 \in 0 .. 1 /\ r4 % 2 \in 0 .. 1
      /\ r5 % 2 \in 0 .. 1 /\ r6 % 2 \in 0 .. 1 /\ r7 % 2 \in 0 .. 1 /\ r8 % 2 \in 0 .. 1
    BY <1>1, <1>2, SMT
<1>8. b = (b % 2) + 2 * (r2 % 2) + 4 * (r3 % 2) + 8 * (r4 % 2) + 16 * (r5 % 2)
            + 32 * (r6 % 2) + 64 * (r7 % 2) + 128 * (r8 % 2)
    BY <1>1, <1>2, <1>5, <1>6, <1>7, SMT
<1>9. /\ BitOf(b, 1) = b % 2 /\ BitOf(b, 2) = r2 % 2 /\ BitOf(b, 3) = r3 % 2
      /\ BitOf(b, 4) = r4 % 2 /\ BitOf(b, 5) = r5 % 2 /\ BitOf(b, 6) = r6 % 2
      /\ BitOf(b, 7) = r7 % 2 /\ BitOf(b, 8) = r8 % 2
    BY <1>1, SMT DEF BitOf, Weight, r2, r3, r4, r5, r6, r7, r8
<1>. QED BY <1>8, <1>9, SMT DEF ByteOf

\* Whatever is xored, the result is a byte.
LEMMA XorIsByte ==
    ASSUME NEW a, NEW b
    PROVE  XorByte(a, b) \in Byte
<1>. [k \in 1 .. 8 |-> IF BitOf(a, k) = BitOf(b, k) THEN 0 ELSE 1] \in Bits
    BY Zenon DEF Bits
<1>. QED BY BitsOfByteOf, Zenon DEF XorByte

\* What is xored twice is gone.
LEMMA XorCancels ==
    ASSUME NEW a \in Byte, NEW b \in Byte
    PROVE  XorByte(XorByte(a, b), b) = a
<1>. DEFINE f == [k \in 1 .. 8 |-> IF BitOf(a, k) = BitOf(b, k) THEN 0 ELSE 1]
<1>1. f \in Bits
    BY Zenon DEF Bits
<1>2. \A k \in 1 .. 8 : BitOf(XorByte(a, b), k) = f[k]
    BY <1>1, BitsOfByteOf, Zenon DEF XorByte
<1>3. \A k \in 1 .. 8 : BitOf(a, k) \in {0, 1} /\ BitOf(b, k) \in {0, 1}
    <2>1. \A k \in 1 .. 8 : Weight[k] \in Nat \ {0}
        BY SMT DEF Weight
    <2>2. \A c \in Byte, w \in Nat \ {0} : (c \div w) \in Nat
        BY SMT DEF Byte
    <2>3. \A c \in Nat : c % 2 \in {0, 1}
        BY SMT
    <2>. QED BY <2>1, <2>2, <2>3, Zenon DEF BitOf
<1>4. \A k \in 1 .. 8 :
          (IF BitOf(XorByte(a, b), k) = BitOf(b, k) THEN 0 ELSE 1) = BitOf(a, k)
    BY <1>2, <1>3, SMT
<1>5. XorByte(XorByte(a, b), b) = ByteOf([k \in 1 .. 8 |-> BitOf(a, k)])
    <2>. [k \in 1 .. 8 |-> IF BitOf(XorByte(a, b), k) = BitOf(b, k) THEN 0 ELSE 1]
           = [k \in 1 .. 8 |-> BitOf(a, k)]
        BY <1>4, Zenon
    <2>. QED BY Zenon DEF XorByte
<1>. QED BY <1>5, ByteOfItsBits, Zenon

LEMMA XorIsBlock ==
    ASSUME NEW a, NEW b
    PROVE  Xor(a, b) \in Block
BY XorIsByte, Zenon DEF Xor, Block

LEMMA BlocksCancel ==
    ASSUME NEW a \in Block, NEW b \in Block
    PROVE  Xor(Xor(a, b), b) = a
<1>1. \A j \in 1 .. BlockSize : a[j] \in Byte /\ b[j] \in Byte
    BY Zenon DEF Block
<1>2. \A j \in 1 .. BlockSize : XorByte(Xor(a, b)[j], b[j]) = a[j]
    BY <1>1, XorCancels, Zenon DEF Xor
<1>3. Xor(Xor(a, b), b) = [j \in 1 .. BlockSize |-> a[j]]
    <2>. [j \in 1 .. BlockSize |-> XorByte(Xor(a, b)[j], b[j])] = [j \in 1 .. BlockSize |-> a[j]]
        BY <1>2, Zenon
    <2>. QED BY Zenon DEF Xor
<1>. QED BY <1>3, Zenon DEF Block

-----------------------------------------------------------------------------
(***************************************************************************)
(* Positions in blocks.                                                    *)
(***************************************************************************)
\* A position is an index in a block.
LEMMA PositionInBlock ==
    ASSUME NEW k \in Nat \ {0}
    PROVE  /\ BlockOf(k) \in Nat \ {0} /\ IndexIn(k) \in 1 .. BlockSize
           /\ k = BlockSize * (BlockOf(k) - 1) + IndexIn(k)
BY SMT DEF BlockOf, IndexIn, BlockSize

\* An index in a block is a position.
LEMMA BlockOfPosition ==
    ASSUME NEW i \in Nat \ {0}, NEW j \in 1 .. BlockSize
    PROVE  LET k == BlockSize * (i - 1) + j
           IN  k \in Nat \ {0} /\ BlockOf(k) = i /\ IndexIn(k) = j
<1>. DEFINE m == i - 1     l == j - 1     k == BlockSize * (i - 1) + j
<1>1. m \in Nat /\ l \in 0 .. 15 /\ k - 1 = 16 * m + l
    BY SMT DEF BlockSize
<1>2. k \in Nat \ {0}
    BY SMT DEF BlockSize
<1>. HIDE DEF m, l, k
<1>3. (k - 1) \div 16 = m /\ (k - 1) % 16 = l
    BY <1>1, SMT
<1>4. BlockOf(k) = m + 1 /\ IndexIn(k) = l + 1
    BY <1>3, SMT DEF BlockOf, IndexIn, BlockSize
<1>. QED BY <1>2, <1>4, SMT DEF m, l, k

\* The blocks of n bytes.
LEMMA BlocksOfData ==
    ASSUME NEW n \in Nat
    PROVE  /\ FullBlocks(n) \in Nat /\ Blocks(n) \in Nat
           /\ FullBlocks(n) <= Blocks(n)
           /\ BlockSize * FullBlocks(n) <= n
           /\ n <= BlockSize * Blocks(n)
           /\ Blocks(n) <= FullBlocks(n) + 1
BY SMT DEF FullBlocks, Blocks, BlockSize

\* Every position is in one of the blocks.
LEMMA PositionInData ==
    ASSUME NEW n \in Nat, NEW k \in 1 .. n
    PROVE  BlockOf(k) \in 1 .. Blocks(n)
<1>. DEFINE i == BlockOf(k)    j == IndexIn(k)    b == Blocks(n)
<1>1. i \in Nat \ {0} /\ j \in 1 .. 16 /\ k = 16 * (i - 1) + j
    BY PositionInBlock, SMT DEF BlockSize
<1>2. b \in Nat /\ n <= 16 * b
    BY BlocksOfData, SMT DEF BlockSize
<1>. HIDE DEF i, j, b
<1>3. i <= b
    BY <1>1, <1>2, SMT
<1>. QED BY <1>1, <1>2, <1>3, SMT DEF i, b

-----------------------------------------------------------------------------
(***************************************************************************)
(* The mode.                                                               *)
(***************************************************************************)
Ocbs == [key : Block, slotInfo : Block, nonce : Block]

\* The blocks of data.
LEMMA FullBlockOfData ==
    ASSUME NEW n \in Nat, NEW i \in 1 .. FullBlocks(n), NEW data
    PROVE  /\ i \in 1 .. Blocks(n)
           /\ \A j \in 1 .. BlockSize :
                /\ BlockSize * (i - 1) + j \in 1 .. n
                /\ Padded(data, n)[i][j] = data[BlockSize * (i - 1) + j]
<1>1. i \in Nat \ {0} /\ i <= FullBlocks(n) /\ i \in 1 .. Blocks(n)
    BY BlocksOfData, SMT
<1>2. ASSUME NEW j \in 1 .. BlockSize
      PROVE  BlockSize * (i - 1) + j \in 1 .. n
    <2>1. 16 * FullBlocks(n) <= n /\ FullBlocks(n) \in Nat
        BY BlocksOfData, SMT DEF BlockSize
    <2>2. 16 * i <= 16 * FullBlocks(n)
        BY <1>1, <2>1, SMT
    <2>. QED BY <1>1, <2>1, <2>2, SMT DEF BlockSize
<1>3. ASSUME NEW j \in 1 .. BlockSize
      PROVE  Padded(data, n)[i][j] = data[BlockSize * (i - 1) + j]
    <2>1. BlockSize * (i - 1) + j <= n
        BY <1>2, SMT
    <2>. QED BY <1>1, <2>1, Zenon DEF Padded
<1>. QED BY <1>1, <1>2, <1>3

LEMMA PaddedIsBlock ==
    ASSUME NEW n \in Nat, NEW data \in [1 .. n -> Byte], NEW i \in 1 .. FullBlocks(n)
    PROVE  Padded(data, n)[i] \in Block
<1>1. ASSUME NEW j \in 1 .. BlockSize
      PROVE  Padded(data, n)[i][j] \in Byte
    <2>. DEFINE k == BlockSize * (i - 1) + j
    <2>1. k \in 1 .. n /\ Padded(data, n)[i][j] = data[k]
        BY FullBlockOfData
    <2>. HIDE DEF k
    <2>. QED BY <2>1
<1>2. i \in 1 .. Blocks(n)
    BY FullBlockOfData, Zenon
<1>3. Padded(data, n)[i] = [j \in 1 .. BlockSize |-> Padded(data, n)[i][j]]
    BY <1>2, Zenon DEF Padded
<1>. QED BY <1>1, <1>3, Zenon DEF Block

\* Decryption inverts encryption, with a last block of any size.
THEOREM DecryptionInverts ==
    ASSUME CipherInverts,
           NEW ocb \in Ocbs, NEW n \in Nat, NEW plain \in [1 .. n -> Byte]
    PROVE  Decrypted(ocb, Encrypted(ocb, plain, n), n) = plain
<1>. DEFINE full == FullBlocks(n)
            text == Encrypted(ocb, plain, n)
            ClearText(i) == Padded(plain, n)[i]
            Crypt(i) == Cipher(ocb.key, Xor(ClearText(i), Offset(ocb, i)))
            pad == Cipher(ocb.key, StarOffset(ocb, n))
<1>1. ocb.key \in Block
    BY Zenon DEF Ocbs
<1>2. \A i : Offset(ocb, i) \in Block
    BY XorIsBlock, Zenon DEF Offset
<1>3. pad \in Block
    <2>. StarOffset(ocb, n) \in Block
        BY XorIsBlock, Zenon DEF StarOffset
    <2>. QED BY <1>1, Zenon DEF CipherInverts
<1>4. full \in Nat
    BY BlocksOfData
<1>5. ASSUME NEW k \in 1 .. n
      PROVE  /\ BlockOf(k) <= full =>
                  text[k] = XorByte(Crypt(BlockOf(k))[IndexIn(k)],
                                    Offset(ocb, BlockOf(k))[IndexIn(k)])
             /\ ~ BlockOf(k) <= full => text[k] = XorByte(plain[k], pad[IndexIn(k)])
    <2>1. BlockOf(k) \in 1 .. Blocks(n)
        BY PositionInData
    <2>. QED BY <2>1, Zenon DEF Encrypted, EcbEncrypt
<1>6. ASSUME NEW i \in 1 .. full
      PROVE  /\ ClearText(i) \in Block /\ Crypt(i) \in Block
             /\ Decipher(ocb.key, Crypt(i)) = Xor(ClearText(i), Offset(ocb, i))
    <2>1. ClearText(i) \in Block
        BY PaddedIsBlock
    <2>2. Xor(ClearText(i), Offset(ocb, i)) \in Block
        BY XorIsBlock
    <2>. QED BY <1>1, <2>1, <2>2, Zenon DEF CipherInverts
<1>7. ASSUME NEW i \in 1 .. full
      PROVE  Padded(text, n)[i] = Xor(Crypt(i), Offset(ocb, i))
    <2>1. i \in Nat \ {0} /\ i <= full /\ i \in 1 .. Blocks(n)
        BY <1>4, FullBlockOfData, SMT
    <2>2. ASSUME NEW j \in 1 .. BlockSize
          PROVE  Padded(text, n)[i][j] = XorByte(Crypt(i)[j], Offset(ocb, i)[j])
        <3>. DEFINE k == BlockSize * (i - 1) + j
        <3>1. k \in 1 .. n /\ Padded(text, n)[i][j] = text[k]
            BY FullBlockOfData
        <3>2. BlockOf(k) = i /\ IndexIn(k) = j
            BY <2>1, BlockOfPosition
        <3>. HIDE DEF k
        <3>3. text[k] = XorByte(Crypt(BlockOf(k))[IndexIn(k)],
                                Offset(ocb, BlockOf(k))[IndexIn(k)])
            BY <1>5, <2>1, <3>1, <3>2
        <3>. QED BY <3>1, <3>2, <3>3
    <2>3. Padded(text, n)[i] = [j \in 1 .. BlockSize |-> Padded(text, n)[i][j]]
        BY <2>1, Zenon DEF Padded
    <2>4. [j \in 1 .. BlockSize |-> Padded(text, n)[i][j]] = Xor(Crypt(i), Offset(ocb, i))
        BY <2>2, Zenon DEF Xor
    <2>. QED BY <2>3, <2>4
<1>8. ASSUME NEW i \in 1 .. full
      PROVE  Decipher(ocb.key, Xor(Padded(text, n)[i], Offset(ocb, i)))
               = Xor(ClearText(i), Offset(ocb, i))
    BY <1>2, <1>6, <1>7, BlocksCancel
<1>9. ASSUME NEW k \in 1 .. n
      PROVE  Decrypted(ocb, text, n)[k] = plain[k]
    <2>. DEFINE i == BlockOf(k)    j == IndexIn(k)
    <2>1. i \in Nat \ {0} /\ j \in 1 .. BlockSize /\ k = BlockSize * (i - 1) + j
        <3>. k \in Nat \ {0}
            BY SMT
        <3>. QED BY PositionInBlock
    <2>2. CASE i <= full
        <3>1. i \in 1 .. full
            BY <1>4, <2>1, <2>2, SMT
        <3>2. Decrypted(ocb, text, n)[k]
                = XorByte(Xor(ClearText(i), Offset(ocb, i))[j], Offset(ocb, i)[j])
            <4>. Decrypted(ocb, text, n)[k]
                   = XorByte(Decipher(ocb.key, Xor(Padded(text, n)[i], Offset(ocb, i)))[j],
                             Offset(ocb, i)[j])
                BY <2>2, <3>1, Zenon DEF Decrypted, EcbDecrypt
            <4>. QED BY <1>8, <3>1
        <3>3. Xor(ClearText(i), Offset(ocb, i))[j] = XorByte(ClearText(i)[j], Offset(ocb, i)[j])
            BY <2>1, Zenon DEF Xor
        <3>4. ClearText(i)[j] = plain[k] /\ plain[k] \in Byte /\ Offset(ocb, i)[j] \in Byte
            <4>1. ClearText(i)[j] = plain[k]
                BY <2>1, <3>1, FullBlockOfData
            <4>2. Offset(ocb, i)[j] \in Byte
                BY <1>2, <2>1, Zenon DEF Block
            <4>. QED BY <4>1, <4>2
        <3>. QED BY <3>2, <3>3, <3>4, XorCancels, Zenon
    <2>3. CASE ~ i <= full
        <3>1. Decrypted(ocb, text, n)[k] = XorByte(text[k], pad[j])
            BY <2>3, Zenon DEF Decrypted
        <3>2. text[k] = XorByte(plain[k], pad[j])
            BY <1>5, <2>3
        <3>3. pad[j] \in Byte /\ plain[k] \in Byte
            BY <1>3, <2>1, Zenon DEF Block
        <3>. QED BY <3>1, <3>2, <3>3, XorCancels, Zenon
    <2>. QED BY <2>2, <2>3
<1>. QED
    <2>1. Decrypted(ocb, text, n) = [k \in 1 .. n |-> Decrypted(ocb, text, n)[k]]
        BY Zenon DEF Decrypted
    <2>2. [k \in 1 .. n |-> Decrypted(ocb, text, n)[k]] = [k \in 1 .. n |-> plain[k]]
        BY <1>9, Zenon
    <2>. QED BY <2>1, <2>2, Zenon

-----------------------------------------------------------------------------
(***************************************************************************)
(* Packets.                                                                *)
(***************************************************************************)
\* A packet that has room for its tag never exceeds the buffers of the mode,
\* nor the table of which the eighth entry is missing.
THEOREM TablesSuffice ==
    ASSUME NEW p \in Packets, CanPutTag(p), PanHeaderSize <= p.size
    PROVE  /\ Fits(p.size - PanHeaderSize, PanHeaderSize)
           /\ TableSuffices(p.size - PanHeaderSize, PanHeaderSize)
           /\ Fits(0, p.size) /\ TableSuffices(0, p.size)
<1>1. p.size \in 5 .. 109
    BY SMT DEF Packets, CanPutTag, PanHeaderSize, MaxPktSize, TagSize
<1>2. \A i \in 1 .. 7 : i <= MaxBlocks /\ Ntz[i] < MaxCachedL
    BY SMT DEF MaxBlocks, MaxCachedL, Ntz
<1>3. \A n \in 0 .. 125 : /\ FullBlocks(n) \in 0 .. 7
                         /\ Blocks(n) \in 0 .. MaxBlocks
    BY SMT DEF FullBlocks, Blocks, BlockSize, MaxBlocks
<1>4. /\ p.size - PanHeaderSize \in 0 .. 125 /\ BlockSize + PanHeaderSize \in 0 .. 125
      /\ BlockSize + p.size \in 0 .. 125 /\ 0 \in 0 .. 125
    BY <1>1, SMT DEF PanHeaderSize, BlockSize
<1>5. ASSUME NEW n \in 0 .. 125, NEW i \in 1 .. FullBlocks(n)
      PROVE  i \in 1 .. 7
    BY <1>3, SMT
<1>6. \A m \in 0 .. 125 : Blocks(m) <= MaxBlocks
    BY <1>3, SMT DEF MaxBlocks
<1>. QED BY <1>2, <1>4, <1>5, <1>6, Zenon DEF Fits, TableSuffices

\* What is in a packet once its tag is put.
LEMMA TagIsPut ==
    ASSUME NEW p \in Packets, p.reserved = TagSize, CanPutTag(p),
           NEW tag \in Block, NEW q \in Packets, q.size = PutTag(p, tag).size,
           \A k \in 1 .. q.size : q.bytes[k] = PutTag(p, tag).bytes[k]
    PROVE  /\ CanVerify(q) /\ q.size = p.size + TagSize
           /\ \A k \in 1 .. p.size : q.bytes[k] = p.bytes[k]
           /\ Tag(q) = tag
<1>1. p.size \in Nat /\ p.size + TagSize <= MaxPktSize
    BY SMT DEF Packets, CanPutTag, MaxPktSize, TagSize
<1>2. /\ p = [bytes |-> p.bytes, size |-> p.size, start |-> p.start, reserved |-> p.reserved]
      /\ p.bytes \in [1 .. MaxPktSize -> Byte]
    BY DEF Packets
<1>3. /\ PutTag(p, tag).size = p.size + TagSize
      /\ PutTag(p, tag).bytes
           = [k \in 1 .. MaxPktSize |->
                 IF k \in p.size + 1 .. p.size + TagSize THEN tag[k - p.size] ELSE p.bytes[k]]
    BY <1>2, Zenon DEF PutTag, Put, Packets
<1>. q.size = p.size + 16 /\ p.size \in Nat /\ p.size + 16 <= 125
    BY <1>1, <1>3, Zenon DEF TagSize, MaxPktSize
<1>4. \A k \in 1 .. p.size : q.bytes[k] = p.bytes[k]
    <2>. TAKE k \in 1 .. p.size
    <2>1. k \in 1 .. MaxPktSize /\ k \in 1 .. q.size /\ k \notin p.size + 1 .. p.size + TagSize
        BY SMT DEF TagSize, MaxPktSize
    <2>. QED BY <1>3, <2>1
<1>5. Tag(q) = tag
    <2>1. ASSUME NEW k \in 1 .. TagSize
          PROVE  q.bytes[q.size - TagSize + k] = tag[k]
        <3>. DEFINE l == p.size + k
        <3>1. /\ l \in 1 .. MaxPktSize /\ l \in 1 .. q.size /\ l \in p.size + 1 .. p.size + TagSize
              /\ q.size - TagSize + k = l /\ l - p.size = k
            BY SMT DEF TagSize, MaxPktSize
        <3>. HIDE DEF l
        <3>. QED BY <1>3, <3>1
    <2>2. Tag(q) = [k \in 1 .. TagSize |-> tag[k]]
        BY <2>1, Zenon DEF Tag
    <2>3. TagSize = BlockSize
        BY DEF TagSize, BlockSize
    <2>. QED BY <2>2, <2>3, Zenon DEF Block
<1>. QED BY <1>1, <1>3, <1>4, <1>5, SMT DEF CanVerify, TagSize

\* Only the bytes that are there are authenticated.
LEMMA AuthSumOfSame ==
    ASSUME NEW ocb, NEW m \in Nat, NEW a, NEW b, \A k \in 1 .. m : a[k] = b[k]
    PROVE  AuthSum(ocb, a, m) = AuthSum(ocb, b, m)
<1>1. \A k \in 1 .. BlockSize + m : ~ k <= BlockSize => k - BlockSize \in 1 .. m
    BY SMT DEF BlockSize
<1>2. [k \in 1 .. BlockSize + m |-> IF k <= BlockSize THEN ocb.slotInfo[k] ELSE a[k - BlockSize]]
        = [k \in 1 .. BlockSize + m |->
              IF k <= BlockSize THEN ocb.slotInfo[k] ELSE b[k - BlockSize]]
    BY <1>1, Zenon
<1>. QED BY <1>2, Zenon DEF AuthSum

\* A packet with a tag is accepted, and is what was sent.
THEOREM TaggedPacketsSurvive ==
    ASSUME NEW ocb \in Ocbs, NEW p \in Packets, p.reserved = TagSize, CanPutTag(p),
           NEW q \in Packets, q.size = PutTagOnly(ocb, p).size,
           \A k \in 1 .. q.size : q.bytes[k] = PutTagOnly(ocb, p).bytes[k]
    PROVE  /\ CanVerify(q) /\ Verify(ocb, q).valid
           /\ Verify(ocb, q).packet.size = p.size
           /\ \A k \in 1 .. p.size : Verify(ocb, q).packet.bytes[k] = p.bytes[k]
<1>. DEFINE tag == ComputedTag(ocb, <<>>, 0, p.bytes, p.size)
<1>1. tag \in Block
    BY XorIsBlock, Zenon DEF ComputedTag
<1>2. PutTagOnly(ocb, p) = PutTag(p, tag)
    BY DEF PutTagOnly
<1>. HIDE DEF tag
<1>3. /\ CanVerify(q) /\ q.size = p.size + TagSize
      /\ \A k \in 1 .. p.size : q.bytes[k] = p.bytes[k]
      /\ Tag(q) = tag
    BY <1>1, <1>2, TagIsPut
<1>4. p.size \in Nat /\ q.size - TagSize = p.size
    BY <1>3, SMT DEF Packets, TagSize
<1>5. ComputedTag(ocb, <<>>, 0, q.bytes, p.size) = tag
    <2>. AuthSum(ocb, q.bytes, p.size) = AuthSum(ocb, p.bytes, p.size)
        BY <1>3, <1>4, AuthSumOfSame
    <2>. QED BY Zenon DEF ComputedTag, tag
<1>6. DiscardTag(q).size = p.size /\ DiscardTag(q).bytes = q.bytes
    BY <1>4, Zenon DEF DiscardTag, Packets
<1>. QED BY <1>3, <1>4, <1>5, <1>6, Zenon DEF Verify

\* An encrypted packet is accepted, and is what was sent.
THEOREM EncryptedPacketsSurvive ==
    ASSUME CipherInverts,
           NEW ocb \in Ocbs, NEW p \in Packets, p.reserved = TagSize, CanPutTag(p),
           PanHeaderSize <= p.size,
           NEW q \in Packets, q.size = EncryptAndPutTag(ocb, p).size,
           \A k \in 1 .. q.size : q.bytes[k] = EncryptAndPutTag(ocb, p).bytes[k]
    PROVE  /\ CanVerify(q) /\ VerifyAndDecrypt(ocb, q).valid
           /\ VerifyAndDecrypt(ocb, q).packet.size = p.size
           /\ \A k \in 1 .. p.size : VerifyAndDecrypt(ocb, q).packet.bytes[k] = p.bytes[k]
<1>. DEFINE n == p.size - PanHeaderSize
            plain == Body(p, n)
            text == Encrypted(ocb, plain, n)
            r == WithBody(p, text, n)
            tag == ComputedTag(ocb, plain, n, Header(p), PanHeaderSize)
<1>1. /\ n \in Nat /\ p.size = PanHeaderSize + n /\ p.size \in Nat
      /\ \A k \in 1 .. n : PanHeaderSize + k \in 1 .. MaxPktSize
      /\ \A k \in 1 .. PanHeaderSize : k \in 1 .. MaxPktSize
    BY SMT DEF Packets, CanPutTag, PanHeaderSize, MaxPktSize, TagSize
<1>2. plain \in [1 .. n -> Byte]
    BY <1>1, Zenon DEF Body, Packets
<1>3. Decrypted(ocb, text, n) = plain
    BY <1>1, <1>2, DecryptionInverts
<1>4. tag \in Block
    BY XorIsBlock, Zenon DEF ComputedTag
<1>5. EncryptAndPutTag(ocb, p) = PutTag(r, tag)
    BY Zenon DEF EncryptAndPutTag
<1>6. text \in [1 .. n -> Byte] /\ text = [k \in 1 .. n |-> text[k]]
    <2>1. \A k \in 1 .. n : text[k] \in Byte
        BY XorIsByte, Zenon DEF Encrypted
    <2>2. text = [k \in 1 .. n |-> text[k]]
        BY Zenon DEF Encrypted
    <2>. QED BY <2>1, <2>2, Zenon
<1>. HIDE DEF tag, text, plain
<1>7. /\ r \in Packets /\ r.size = p.size /\ r.reserved = TagSize /\ CanPutTag(r)
      /\ r.bytes = [k \in 1 .. MaxPktSize |->
                       IF k \in PanHeaderSize + 1 .. PanHeaderSize + n
                       THEN text[k - PanHeaderSize] ELSE p.bytes[k]]
    <2>1. /\ r = [p EXCEPT !.bytes = r.bytes]
          /\ r.bytes = [k \in 1 .. MaxPktSize |->
                           IF k \in PanHeaderSize + 1 .. PanHeaderSize + n
                           THEN text[k - PanHeaderSize] ELSE p.bytes[k]]
        BY Zenon DEF WithBody, Packets
    <2>2. \A k \in PanHeaderSize + 1 .. PanHeaderSize + n : k - PanHeaderSize \in 1 .. n
        BY <1>1, SMT DEF PanHeaderSize
    <2>3. r.bytes \in [1 .. MaxPktSize -> Byte]
        <3>1. p.bytes \in [1 .. MaxPktSize -> Byte]
            BY Zenon DEF Packets
        <3>2. \A k \in 1 .. MaxPktSize :
                (IF k \in PanHeaderSize + 1 .. PanHeaderSize + n
                 THEN text[k - PanHeaderSize] ELSE p.bytes[k]) \in Byte
            BY <1>6, <2>2, <3>1, Zenon
        <3>. QED BY <2>1, <3>2, Zenon
    <2>4. r \in Packets /\ r.size = p.size /\ r.reserved = p.reserved
        BY <2>1, <2>3, Zenon DEF Packets
    <2>. QED BY <2>1, <2>4, Zenon DEF CanPutTag
<1>. HIDE DEF r
<1>8. /\ CanVerify(q) /\ q.size = p.size + TagSize
      /\ \A k \in 1 .. p.size : q.bytes[k] = r.bytes[k]
      /\ Tag(q) = tag
    <2>. q.size = PutTag(r, tag).size /\ \A k \in 1 .. q.size : q.bytes[k] = PutTag(r, tag).bytes[k]
        BY <1>5, Zenon
    <2>1. r \in Packets /\ r.reserved = TagSize /\ CanPutTag(r) /\ r.size = p.size
        BY <1>7
    <2>2. /\ CanVerify(q) /\ q.size = r.size + TagSize
          /\ \A k \in 1 .. r.size : q.bytes[k] = r.bytes[k]
          /\ Tag(q) = tag
        BY <1>4, <2>1, TagIsPut
    <2>. QED BY <2>1, <2>2
<1>9. Body(q, n) = text
    <2>1. ASSUME NEW k \in 1 .. n
          PROVE  q.bytes[PanHeaderSize + k] = text[k]
        <3>. DEFINE l == PanHeaderSize + k
        <3>1. /\ l \in 1 .. p.size /\ l \in PanHeaderSize + 1 .. PanHeaderSize + n
              /\ l - PanHeaderSize = k /\ l \in 1 .. MaxPktSize
            BY <1>1, SMT DEF PanHeaderSize
        <3>. HIDE DEF l
        <3>. QED BY <1>7, <1>8, <3>1 DEF l
    <2>. QED BY <1>6, <2>1, Zenon DEF Body
<1>10. \A k \in 1 .. PanHeaderSize : q.bytes[k] = p.bytes[k]
    <2>. TAKE k \in 1 .. PanHeaderSize
    <2>1. k \in 1 .. p.size /\ k \in 1 .. MaxPktSize
          /\ k \notin PanHeaderSize + 1 .. PanHeaderSize + n
        BY <1>1, SMT DEF PanHeaderSize
    <2>. QED BY <1>7, <1>8, <2>1
<1>11. Header(q) = Header(p)
    BY <1>10, Zenon DEF Header
<1>12. q.size - TagSize = p.size /\ q.size - TagSize - PanHeaderSize = n
    BY <1>1, <1>8, SMT DEF TagSize, PanHeaderSize
<1>13. VerifyAndDecrypt(ocb, q) = [packet |-> DiscardTag(WithBody(q, plain, n)), valid |-> TRUE]
    <2>1. VerifyAndDecrypt(ocb, q)
            = [packet |-> DiscardTag(WithBody(q, plain, n)),
               valid  |-> ComputedTag(ocb, plain, n, Header(q), PanHeaderSize) = Tag(q)]
        BY <1>3, <1>9, <1>12 DEF VerifyAndDecrypt
    <2>2. ComputedTag(ocb, plain, n, Header(q), PanHeaderSize) = Tag(q)
        BY <1>8, <1>11 DEF tag
    <2>. QED BY <2>1, <2>2
<1>14. /\ DiscardTag(WithBody(q, plain, n)).size = p.size
       /\ DiscardTag(WithBody(q, plain, n)).bytes
             = [k \in 1 .. MaxPktSize |->
                   IF k \in PanHeaderSize + 1 .. PanHeaderSize + n
                   THEN plain[k - PanHeaderSize] ELSE q.bytes[k]]
    BY <1>12, Zenon DEF DiscardTag, WithBody, Packets
<1>15. ASSUME NEW k \in 1 .. p.size
       PROVE  DiscardTag(WithBody(q, plain, n)).bytes[k] = p.bytes[k]
    <2>1. k \in 1 .. MaxPktSize
        BY SMT DEF Packets, CanPutTag, MaxPktSize, TagSize
    <2>2. CASE k \in PanHeaderSize + 1 .. PanHeaderSize + n
        <3>1. k - PanHeaderSize \in 1 .. n /\ PanHeaderSize + (k - PanHeaderSize) = k
            BY <1>1, <2>2, SMT DEF PanHeaderSize
        <3>2. plain[k - PanHeaderSize] = p.bytes[PanHeaderSize + (k - PanHeaderSize)]
            BY <3>1, Zenon DEF plain, Body
        <3>. QED BY <1>14, <2>1, <2>2, <3>1, <3>2
    <2>3. CASE k \notin PanHeaderSize + 1 .. PanHeaderSize + n
        <3>1. k \in 1 .. PanHeaderSize
            BY <1>1, <2>3, SMT DEF PanHeaderSize
        <3>. QED BY <1>10, <1>14, <2>1, <2>3, <3>1
    <2>. QED BY <2>2, <2>3
<1>. QED BY <1>8, <1>13, <1>14, <1>15

==============================================================================
