-------------------------- MODULE DataPhase_proofs ---------------------------
(***************************************************************************)
(* Proofs about the data phase, for every set of schedules whose streams   *)
(* are whole, whatever is lost and whoever cannot operate: both ends of a  *)
(* stream end each of its periods in step, what it does between its        *)
(* applications is what PeriodicChannel promises, and, where the copies of *)
(* a stream stay apart at its relays, one that is not lost on its way      *)
(* suffices.                                                               *)
(***************************************************************************)
EXTENDS DataPhase, FiniteSetTheorems, SequenceTheorems, WellFoundedInduction, TLAPS

-----------------------------------------------------------------------------
(***************************************************************************)
(* Least elements, division.                                               *)
(***************************************************************************)
\* A set of naturals has a least element.
LEMMA LeastOf ==
    ASSUME NEW T, T \subseteq Nat, T # {}
    PROVE  \E x \in T : \A y \in T : x <= y
  <1> DEFINE R == OpToRel(<, Nat)
  <1>1. IsWellFoundedOn(R, Nat)
    BY NatLessThanWellFounded
  <1>2. \A x, y \in Nat : x < y => <<x, y>> \in R
    BY DEF OpToRel
  <1> HIDE DEF R
  <1>3. PICK x \in T : \A y \in T : ~ (<<y, x>> \in R)
    BY <1>1, WFMin
  <1>4. ASSUME NEW y \in T PROVE x <= y
    <2>1. x \in Nat /\ y \in Nat /\ ~ (<<y, x>> \in R)
      BY <1>3
    <2>2. ~ (y < x)
      BY <1>2, <2>1
    <2> QED BY <2>1, <2>2
  <1> QED BY <1>4

LEMMA Division ==
    ASSUME NEW d \in Nat \ {0}, NEW n \in Nat
    PROVE  n % d \in 0 .. (d - 1) /\ n \div d \in Nat /\ n = d * (n \div d) + (n % d)
  BY SMT

LEMMA DivisionUnique ==
    ASSUME NEW d \in Nat \ {0}, NEW n \in Int, NEW q \in Int, NEW r \in 0 .. (d - 1),
           n = d * q + r
    PROVE  n \div d = q /\ n % d = r
  BY SMT

\* The next number is in the same period, or the first of the next one.
LEMMA NextNumber ==
    ASSUME NEW d \in Nat \ {0}, NEW n \in Nat
    PROVE  IF (n % d) + 1 = d THEN (n + 1) % d = 0 /\ (n + 1) \div d = (n \div d) + 1
                              ELSE (n + 1) % d = (n % d) + 1 /\ (n + 1) \div d = n \div d
  <1> DEFINE q == n \div d
             r == n % d
  <1>1. r \in 0 .. (d - 1) /\ q \in Nat /\ n = d * q + r
    BY Division
  <1> HIDE DEF q, r
  <1>2. CASE r + 1 = d
    <2>1. n + 1 = d * (q + 1) + 0
      BY <1>1, <1>2
    <2>2. (n + 1) \div d = q + 1 /\ (n + 1) % d = 0
      BY <1>1, <2>1, DivisionUnique
    <2> QED BY <1>2, <2>2 DEF q, r
  <1>3. CASE r + 1 # d
    <2>1. n + 1 = d * q + (r + 1) /\ r + 1 \in 0 .. (d - 1)
      BY <1>1, <1>3
    <2>2. (n + 1) \div d = q /\ (n + 1) % d = r + 1
      BY <1>1, <2>1, DivisionUnique
    <2> QED BY <1>3, <2>2 DEF q, r
  <1> QED BY <1>2, <1>3

LEMMA WholeTiles ==
    ASSUME NEW d \in Nat \ {0}, NEW p \in Nat, NEW m, m = p * d
    PROVE  m % d = 0
  <1>1. m = d * p + 0 /\ m \in Int /\ 0 \in 0 .. (d - 1)
    OBVIOUS
  <1> QED BY <1>1, DivisionUnique

\* Numbers of a tile that begins at n are in one tile and in one period, whose length is
\* a number of tiles.
LEMMA WithinTile ==
    ASSUME NEW d \in Nat \ {0}, NEW n \in Nat, n % d = 0, NEW m \in Nat \ {0}, m % d = 0,
           NEW k \in 0 .. (d - 1)
    PROVE  /\ (n + k) % d = k /\ (n + k) \div d = n \div d
           /\ (n % m) + d <= m
           /\ (n + k) % m = (n % m) + k /\ (n + k) \div m = n \div m
  <1> DEFINE a == n \div d
             p == m \div d
             q == n \div m
             r == n % m
  <1>1. a \in Nat /\ n = d * a + 0
    BY Division
  <1>2. m \in Nat \ {0} /\ p \in Nat \ {0} /\ m = d * p
    <2>1. p \in Nat /\ m = d * p + 0
      BY Division
    <2> HIDE DEF p
    <2>2. p # 0
      BY <2>1
    <2> QED BY <2>1, <2>2
  <1> HIDE DEF a, p
  <1>3. r \in 0 .. (m - 1) /\ q \in Nat /\ n = m * q + r
    BY <1>2, Division
  <1> HIDE DEF q, r
  <1>4. n + k = d * a + k
    BY <1>1
  <1>5. (n + k) % d = k /\ (n + k) \div d = a
    BY <1>1, <1>4, DivisionUnique
  <1>6. m * q = d * (p * q) /\ p * q \in Int
    BY <1>2, <1>3
  <1> DEFINE b == a - p * q
  <1>7. b \in Int /\ d * b = d * a - d * (p * q)
    BY <1>1, <1>2, <1>3
  <1>8. r = d * b
    BY <1>1, <1>3, <1>6, <1>7
  <1> HIDE DEF b
  <1>9. b < p
    <2> SUFFICES ASSUME b >= p PROVE FALSE
      BY <1>2, <1>7
    <2>1. d * b >= d * p /\ d * p = m
      BY <1>2, <1>7
    <2> QED BY <1>3, <1>8, <2>1
  <1>10. r + d <= m
    <2> DEFINE g == p - b - 1
    <2>1. g \in Nat /\ p = b + 1 + g
      BY <1>2, <1>7, <1>9
    <2> HIDE DEF g
    <2>2. d * p = d * b + d + d * g /\ d * g \in Nat
      BY <1>7, <2>1
    <2>3. d * p = m
      BY <1>2
    <2>4. m = r + d + d * g
      BY <1>8, <2>2, <2>3
    <2> QED BY <1>2, <1>3, <2>2, <2>4
  <1>11. n + k = m * q + (r + k) /\ r + k \in 0 .. (m - 1)
    BY <1>2, <1>3, <1>10
  <1>12. (n + k) % m = r + k /\ (n + k) \div m = q
    <2> DEFINE x == n + k
               y == r + k
    <2>1. x \in Int /\ q \in Int /\ y \in 0 .. (m - 1) /\ x = m * q + y
      BY <1>2, <1>3, <1>11
    <2> HIDE DEF x, y
    <2>2. x \div m = q /\ x % m = y
      BY <2>1, DivisionUnique
    <2> QED BY <2>2 DEF x, y
  <1> QED BY <1>2, <1>5, <1>10, <1>12 DEF a, q, r

-----------------------------------------------------------------------------
(***************************************************************************)
(* The schedule of a scenario.                                             *)
(***************************************************************************)
Elems(c) == c.schedule.elements
Places(c, s) == {i \in DOMAIN Elems(c) : Elems(c)[i].stream.id = s}
Firsts(c, s) == {i \in Places(c, s) : Elems(c)[i].tx = Elems(c)[i].stream.src}
Lasts(c, s) == {i \in Places(c, s) : Elems(c)[i].rx = Elems(c)[i].stream.dst}
Fills(c, n, s) == {i \in Places(c, s) : ActionOf(Elems(c)[i], n) = "RECVBUFFER"}
Forwards(c, n, s) == {i \in Places(c, s) : ActionOf(Elems(c)[i], n) = "SENDBUFFER"}

StreamsIn(c) == {e.stream : e \in ToSet(Elems(c))}
Ids(c) == {st.id : st \in StreamsIn(c)}
StreamIn(c, s) == CHOOSE st \in StreamsIn(c) : st.id = s
PeriodOf(c, s) == StreamIn(c, s).period * SlotsPerTile
SlotsOf(c) == ScheduleSlots(c.schedule)

\* What is gone when x slots of the period have passed, and how much of it has been
\* counted since the counter was reset.
Gone(c, T, x) == {i \in T : Elems(c)[i].offset < x}
Counted(c, T, x) == IF Gone(c, T, x) = T THEN 0 ELSE Cardinality(Gone(c, T, x))

LEMMA SizeFacts ==
    /\ SlotsPerTile \in Nat \ {0}
    /\ Superframe \in Seq({"downlink", "uplink"}) /\ Len(Superframe) \in Nat \ {0}
    /\ \A slot \in Nat : KindOf(slot) \in {"downlink", "uplink"}
    /\ \A slot \in Nat : ReservedSlots[KindOf(slot)] \in 1 .. (SlotsPerTile - 1)
  <1>1. /\ SlotsPerTile \in Nat \ {0}
        /\ Superframe \in Seq({"downlink", "uplink"}) /\ Len(Superframe) \in Nat \ {0}
    BY ExpansionAssumption
  <1>2. ASSUME NEW slot \in Nat PROVE KindOf(slot) \in {"downlink", "uplink"}
    <2> DEFINE t == slot \div SlotsPerTile
               l == Len(Superframe)
    <2>1. t \in Nat
      BY <1>1, Division
    <2>2. l \in Nat \ {0}
      BY <1>1
    <2> HIDE DEF t
    <2>3. t % l \in 0 .. (l - 1)
      BY <2>1, <2>2, Division
    <2>4. (t % l) + 1 \in 1 .. Len(Superframe)
      BY <2>2, <2>3
    <2>5. Superframe[(t % l) + 1] \in {"downlink", "uplink"}
      BY <1>1, <2>4, ElementOfSeq
    <2> QED BY <2>5 DEF KindOf, t
  <1>3. ReservedSlots \in [{"downlink", "uplink"} -> 1 .. (SlotsPerTile - 1)]
    BY DataAssumption
  <1> QED BY <1>1, <1>2, <1>3

\* The elements of the schedule.
LEMMA ElementFacts ==
    ASSUME NEW c \in ToSet(Scenarios), NEW i \in DOMAIN Elems(c)
    PROVE  /\ i \in Nat \ {0} /\ Elems(c)[i] \in ToSet(Elems(c))
           /\ Elems(c)[i].tx \in Nodes /\ Elems(c)[i].rx \in Nodes
           /\ Elems(c)[i].tx # Elems(c)[i].rx
           /\ Elems(c)[i].stream.id \in Streams /\ Elems(c)[i].stream \in StreamsIn(c)
           /\ Elems(c)[i].stream.period \in Nat \ {0}
           /\ Elems(c)[i].stream.redundancy \in DOMAIN Copies
           /\ Elems(c)[i].offset \in 0 .. (PeriodSlots(Elems(c)[i]) - 1)
           /\ c.schedule.tiles % Elems(c)[i].stream.period = 0
  <1>1. Elems(c)[i] \in ToSet(Elems(c))
    BY DEF ToSet
  <1>2. i \in Nat \ {0}
    <2>1. Elems(c) \in Seq(ToSet(Elems(c)))
      BY DataAssumption DEF Elems
    <2>2. i \in 1 .. Len(Elems(c)) /\ Len(Elems(c)) \in Nat
      BY <2>1, LenProperties
    <2> QED BY <2>2
  <1>3. Elems(c)[i].stream \in StreamsIn(c)
    BY <1>1 DEF StreamsIn
  <1> QED BY <1>1, <1>2, <1>3, DataAssumption DEF Elems

LEMMA PlacesFinite ==
    ASSUME NEW c \in ToSet(Scenarios)
    PROVE  /\ IsFiniteSet(DOMAIN Elems(c)) /\ DOMAIN Elems(c) = 1 .. Len(Elems(c))
           /\ \A s : IsFiniteSet(Places(c, s))
  <1>1. Elems(c) \in Seq(ToSet(Elems(c)))
    BY DataAssumption DEF Elems
  <1>2. DOMAIN Elems(c) = 1 .. Len(Elems(c)) /\ Len(Elems(c)) \in Nat
    BY <1>1, LenProperties
  <1>3. IsFiniteSet(DOMAIN Elems(c))
    BY <1>2, FS_Interval
  <1>4. \A s : Places(c, s) \subseteq DOMAIN Elems(c)
    BY DEF Places
  <1> QED BY <1>2, <1>3, <1>4, FS_Subset

\* The id tells the stream.
LEMMA PlaceFacts ==
    ASSUME NEW c \in ToSet(Scenarios), NEW s, NEW i \in Places(c, s)
    PROVE  /\ i \in DOMAIN Elems(c) /\ Elems(c)[i].stream.id = s /\ s \in Streams
           /\ Elems(c)[i].stream = StreamIn(c, s) /\ s \in Ids(c)
           /\ PeriodSlots(Elems(c)[i]) = PeriodOf(c, s)
           /\ PeriodOf(c, s) \in Nat \ {0}
           /\ Elems(c)[i].offset \in Nat /\ Elems(c)[i].offset < PeriodOf(c, s)
  <1> DEFINE e == Elems(c)[i]
  <1>1. i \in DOMAIN Elems(c) /\ e.stream.id = s
    BY DEF Places
  <1>2. /\ e.stream.id \in Streams /\ e.stream \in StreamsIn(c) /\ e.stream.period \in Nat \ {0}
        /\ e.offset \in 0 .. (PeriodSlots(e) - 1)
    BY <1>1, ElementFacts
  <1>3. StreamIn(c, s) \in StreamsIn(c) /\ StreamIn(c, s).id = s
    BY <1>1, <1>2 DEF StreamIn
  <1>4. PICK f \in ToSet(Elems(c)) : f.stream = StreamIn(c, s)
    BY <1>3 DEF StreamsIn
  <1>5. e.stream = f.stream
    <2>1. e \in ToSet(Elems(c)) /\ e.stream.id = f.stream.id
      BY <1>1, <1>3, <1>4, ElementFacts
    <2> QED BY <2>1, DataAssumption DEF Elems
  <1>6. PeriodSlots(e) = PeriodOf(c, s)
    BY <1>4, <1>5 DEF PeriodSlots, PeriodOf
  <1>7. PeriodSlots(e) \in Nat \ {0}
    BY <1>2, SizeFacts DEF PeriodSlots
  <1> QED BY <1>1, <1>2, <1>4, <1>5, <1>6, <1>7 DEF Ids

LEMMA IdFacts ==
    ASSUME NEW c \in ToSet(Scenarios), NEW s \in Ids(c)
    PROVE  /\ s \in Streams /\ Places(c, s) # {} /\ StreamIn(c, s) \in StreamsIn(c)
           /\ StreamIn(c, s).id = s
           /\ PeriodOf(c, s) \in Nat \ {0} /\ StreamIn(c, s).period \in Nat \ {0}
           /\ StreamIn(c, s).redundancy \in DOMAIN Copies
           /\ \E m \in Nat \ {0} : SlotsOf(c) = PeriodOf(c, s) * m
  <1>1. PICK e \in ToSet(Elems(c)) : e.stream.id = s
    BY DEF Ids, StreamsIn
  <1>2. PICK i \in DOMAIN Elems(c) : e = Elems(c)[i]
    BY <1>1 DEF ToSet
  <1>3. i \in Places(c, s)
    BY <1>1, <1>2 DEF Places
  <1>4. e.stream = StreamIn(c, s) /\ s \in Streams /\ PeriodOf(c, s) \in Nat \ {0}
    BY <1>2, <1>3, PlaceFacts
  <1> DEFINE p == StreamIn(c, s).period
             t == c.schedule.tiles
  <1>5. /\ p \in Nat \ {0} /\ StreamIn(c, s).redundancy \in DOMAIN Copies
        /\ StreamIn(c, s) \in StreamsIn(c) /\ t % p = 0
    BY <1>2, <1>4, ElementFacts
  <1>6. t \in Nat \ {0}
    BY DataAssumption
  <1>7. SlotsOf(c) = t * SlotsPerTile /\ PeriodOf(c, s) = p * SlotsPerTile
    BY DEF SlotsOf, ScheduleSlots, PeriodOf
  <1> HIDE DEF p, t
  <1> DEFINE m == t \div p
  <1>8. m \in Nat /\ t = p * m + 0
    BY <1>5, <1>6, Division
  <1> HIDE DEF m
  <1>9. m # 0 /\ t * SlotsPerTile = (p * SlotsPerTile) * m
    BY <1>5, <1>6, <1>8, SizeFacts
  <1>10. SlotsOf(c) = PeriodOf(c, s) * m /\ m \in Nat \ {0}
    BY <1>7, <1>8, <1>9
  <1> QED BY <1>1, <1>3, <1>4, <1>5, <1>10 DEF p

\* An element takes its slot in every period.
LEMMA OccursAt ==
    ASSUME NEW c \in ToSet(Scenarios), NEW s, NEW i \in Places(c, s), NEW slot \in Nat
    PROVE  Occurs(Elems(c)[i], slot) <=> slot % PeriodOf(c, s) = Elems(c)[i].offset
  <1> DEFINE o == Elems(c)[i].offset
             d == PeriodOf(c, s)
  <1>1. d \in Nat \ {0} /\ o \in 0 .. (d - 1) /\ PeriodSlots(Elems(c)[i]) = d
    BY PlaceFacts
  <1>2. Occurs(Elems(c)[i], slot) <=> slot >= o /\ (slot - o) % d = 0
    BY <1>1 DEF Occurs
  <1> HIDE DEF o, d
  <1>3. ASSUME slot >= o, (slot - o) % d = 0 PROVE slot % d = o
    <2> DEFINE q == (slot - o) \div d
    <2>1. slot - o \in Nat
      BY <1>1, <1>3
    <2>2. q \in Nat /\ slot - o = d * q + 0
      BY <1>1, <1>3, <2>1, Division
    <2> HIDE DEF q
    <2>3. slot = d * q + o
      BY <1>1, <2>1, <2>2
    <2> QED BY <1>1, <2>2, <2>3, DivisionUnique
  <1>4. ASSUME slot % d = o PROVE slot >= o /\ (slot - o) % d = 0
    <2> DEFINE q == slot \div d
    <2>1. q \in Nat /\ slot = d * q + o
      BY <1>1, <1>4, Division
    <2> HIDE DEF q
    <2>2. d * q \in Nat /\ slot - o = d * q + 0 /\ slot - o \in Int
      BY <1>1, <2>1
    <2>3. (slot - o) % d = 0
      BY <1>1, <2>1, <2>2, DivisionUnique
    <2> QED BY <1>1, <2>1, <2>2, <2>3
  <1> QED BY <1>2, <1>3, <1>4 DEF o, d

-----------------------------------------------------------------------------
(***************************************************************************)
(* What a node has to do.                                                  *)
(***************************************************************************)
LEMMA ActionFacts ==
    ASSUME NEW c \in ToSet(Scenarios), NEW i \in DOMAIN Elems(c), NEW n
    PROVE  /\ ActionOf(Elems(c)[i], n) = "SLEEP" <=> n \notin {Elems(c)[i].tx, Elems(c)[i].rx}
           /\ ActionOf(Elems(c)[i], n) = "SENDSTREAM"
                <=> Elems(c)[i].tx = n /\ Elems(c)[i].stream.src = n
           /\ ActionOf(Elems(c)[i], n) = "RECVSTREAM"
                <=> Elems(c)[i].rx = n /\ Elems(c)[i].stream.dst = n
           /\ ActionOf(Elems(c)[i], n) = "SENDBUFFER"
                <=> Elems(c)[i].tx = n /\ Elems(c)[i].stream.src # n
           /\ ActionOf(Elems(c)[i], n) = "RECVBUFFER"
                <=> Elems(c)[i].rx = n /\ Elems(c)[i].stream.dst # n
  <1>1. Elems(c)[i].tx # Elems(c)[i].rx
    BY ElementFacts
  <1> QED BY <1>1 DEF ActionOf

\* A node takes part in one element in a slot.
LEMMA NodeIsFree ==
    ASSUME SchedulesAreWhole, NEW c \in ToSet(Scenarios),
           NEW i \in DOMAIN Elems(c), NEW j \in DOMAIN Elems(c),
           NEW slot \in 0 .. (SlotsOf(c) - 1),
           Occurs(Elems(c)[i], slot), Occurs(Elems(c)[j], slot),
           NEW n \in {Elems(c)[i].tx, Elems(c)[i].rx}, n \in {Elems(c)[j].tx, Elems(c)[j].rx}
    PROVE  i = j
  BY DEF SchedulesAreWhole, NodesAreFree, Elems, SlotsOf

LEMMA NodeIsFreeAt ==
    ASSUME SchedulesAreWhole, NEW c \in ToSet(Scenarios), NEW s,
           NEW i \in Places(c, s), NEW j \in Places(c, s),
           Elems(c)[i].offset = Elems(c)[j].offset,
           NEW n \in {Elems(c)[i].tx, Elems(c)[i].rx}, n \in {Elems(c)[j].tx, Elems(c)[j].rx}
    PROVE  i = j
  <1> DEFINE o == Elems(c)[i].offset
             d == PeriodOf(c, s)
  <1>1. o \in Nat /\ d \in Nat \ {0} /\ o < d /\ s \in Ids(c)
        /\ i \in DOMAIN Elems(c) /\ j \in DOMAIN Elems(c)
    BY PlaceFacts
  <1>2. PICK m \in Nat \ {0} : SlotsOf(c) = d * m
    BY <1>1, IdFacts
  <1>3. o = d * 0 + o /\ o \in 0 .. (d - 1)
    BY <1>1
  <1>4. o % d = o
    BY <1>1, <1>3, DivisionUnique
  <1>5. Occurs(Elems(c)[i], o) /\ Occurs(Elems(c)[j], o)
    BY <1>1, <1>4, OccursAt
  <1>6. o \in 0 .. (SlotsOf(c) - 1)
    <2> HIDE DEF o, d
    <2>1. d * m = d + d * (m - 1) /\ d * (m - 1) \in Nat
      BY <1>1
    <2> QED BY <1>1, <1>2, <2>1
  <1> QED BY <1>1, <1>5, <1>6, NodeIsFree

\* A hop is neither before the source has sent nor after the destination has received.
LEMMA SourceIsFirst ==
    ASSUME SchedulesAreWhole, NEW c \in ToSet(Scenarios), NEW s, NEW i \in Places(c, s)
    PROVE  \E j \in Firsts(c, s) : Elems(c)[j].offset <= Elems(c)[i].offset
  <1> DEFINE T == {o \in Nat : \E j \in Places(c, s) : /\ Elems(c)[j].offset = o
                                                       /\ o <= Elems(c)[i].offset}
  <1>1. Elems(c)[i].offset \in T
    BY PlaceFacts
  <1>2. PICK o \in T : \A y \in T : o <= y
    BY <1>1, LeastOf
  <1>3. PICK j \in Places(c, s) : Elems(c)[j].offset = o /\ o <= Elems(c)[i].offset
    BY <1>2
  <1>4. Elems(c)[j].tx = Elems(c)[j].stream.src
    <2> SUFFICES ASSUME Elems(c)[j].tx # Elems(c)[j].stream.src PROVE FALSE
      OBVIOUS
    <2>1. j \in DOMAIN Elems(c) /\ HopAfterHop(c.schedule)
      BY PlaceFacts DEF SchedulesAreWhole
    <2>2. PICK k \in DOMAIN Elems(c) : /\ Elems(c)[k].stream = Elems(c)[j].stream
                                       /\ Elems(c)[k].offset < Elems(c)[j].offset
      BY <2>1 DEF HopAfterHop, Elems
    <2>3. k \in Places(c, s)
      BY <2>2 DEF Places
    <2>4. Elems(c)[k].offset \in Nat /\ Elems(c)[i].offset \in Nat
      BY <2>3, PlaceFacts
    <2>5. Elems(c)[k].offset \in T
      BY <1>3, <2>2, <2>3, <2>4
    <2> QED BY <1>2, <1>3, <2>2, <2>4, <2>5
  <1> QED BY <1>3, <1>4 DEF Firsts

LEMMA DestinationIsLast ==
    ASSUME SchedulesAreWhole, NEW c \in ToSet(Scenarios), NEW s, NEW i \in Places(c, s)
    PROVE  \E j \in Lasts(c, s) : Elems(c)[j].offset >= Elems(c)[i].offset
  <1> DEFINE d == PeriodOf(c, s)
             T == {o \in Nat : \E j \in Places(c, s) : /\ d - Elems(c)[j].offset = o
                                                       /\ Elems(c)[j].offset >= Elems(c)[i].offset}
  <1>1. d - Elems(c)[i].offset \in T
    BY PlaceFacts
  <1>2. PICK o \in T : \A y \in T : o <= y
    BY <1>1, LeastOf
  <1>3. PICK j \in Places(c, s) : /\ d - Elems(c)[j].offset = o
                                  /\ Elems(c)[j].offset >= Elems(c)[i].offset
    BY <1>2
  <1>4. Elems(c)[j].rx = Elems(c)[j].stream.dst
    <2> SUFFICES ASSUME Elems(c)[j].rx # Elems(c)[j].stream.dst PROVE FALSE
      OBVIOUS
    <2>1. j \in DOMAIN Elems(c) /\ HopAfterHop(c.schedule)
      BY PlaceFacts DEF SchedulesAreWhole
    <2>2. PICK k \in DOMAIN Elems(c) : /\ Elems(c)[k].stream = Elems(c)[j].stream
                                       /\ Elems(c)[k].offset > Elems(c)[j].offset
      BY <2>1 DEF HopAfterHop, Elems
    <2>3. k \in Places(c, s)
      BY <2>2 DEF Places
    <2>4. /\ Elems(c)[k].offset \in Nat /\ Elems(c)[i].offset \in Nat /\ Elems(c)[j].offset \in Nat
          /\ d \in Nat /\ Elems(c)[k].offset < d
      BY <2>3, PlaceFacts
    <2>5. d - Elems(c)[k].offset \in T
      BY <1>3, <2>2, <2>3, <2>4
    <2> QED BY <1>2, <1>3, <2>2, <2>4, <2>5
  <1> QED BY <1>3, <1>4 DEF Lasts

\* A relay forwards after it has received, and has a buffer.
LEMMA RelayIsBetween ==
    ASSUME SchedulesAreWhole, NEW c \in ToSet(Scenarios), NEW s, NEW n
    PROVE  /\ \A i \in Fills(c, n, s) :
                 \E j \in Forwards(c, n, s) : Elems(c)[j].offset > Elems(c)[i].offset
           /\ \A i \in Forwards(c, n, s) : \E j \in Fills(c, n, s) : j <= i
  <1>0. HopAfterHop(c.schedule)
    BY DEF SchedulesAreWhole
  <1>1. ASSUME NEW i \in Fills(c, n, s)
        PROVE  \E j \in Forwards(c, n, s) : Elems(c)[j].offset > Elems(c)[i].offset
    <2>1. i \in DOMAIN Elems(c) /\ i \in Places(c, s)
      BY PlaceFacts DEF Fills
    <2>2. Elems(c)[i].rx = n /\ Elems(c)[i].stream.dst # n
      BY <2>1, ActionFacts DEF Fills
    <2>3. Elems(c)[i].rx # Elems(c)[i].stream.src
      BY <1>0, <2>1 DEF HopAfterHop, Elems
    <2>4. PICK j \in DOMAIN Elems(c) : /\ Elems(c)[j].stream = Elems(c)[i].stream
                                       /\ Elems(c)[j].tx = n
                                       /\ Elems(c)[j].offset > Elems(c)[i].offset
      BY <1>0, <2>1, <2>2 DEF HopAfterHop, Elems
    <2>5. ActionOf(Elems(c)[j], n) = "SENDBUFFER"
      BY <2>2, <2>3, <2>4, ActionFacts
    <2>6. j \in Places(c, s)
      BY <2>1, <2>4 DEF Places
    <2> QED BY <2>4, <2>5, <2>6 DEF Forwards
  <1>2. ASSUME NEW i \in Forwards(c, n, s) PROVE \E j \in Fills(c, n, s) : j <= i
    <2>1. i \in DOMAIN Elems(c) /\ i \in Places(c, s)
      BY PlaceFacts DEF Forwards
    <2>2. Elems(c)[i].tx = n /\ Elems(c)[i].stream.src # n
      BY <2>1, ActionFacts DEF Forwards
    <2>3. Elems(c)[i].tx # Elems(c)[i].stream.dst
      BY <1>0, <2>1 DEF HopAfterHop, Elems
    <2>4. PICK j \in DOMAIN Elems(c) : /\ Elems(c)[j].stream = Elems(c)[i].stream
                                       /\ Elems(c)[j].rx = n /\ j < i
      BY <1>0, <2>1, <2>2 DEF HopAfterHop, Elems
    <2>5. ActionOf(Elems(c)[j], n) = "RECVBUFFER"
      BY <2>2, <2>3, <2>4, ActionFacts
    <2>6. j \in Places(c, s)
      BY <2>1, <2>4 DEF Places
    <2>7. j <= i
      BY <2>1, <2>4, ElementFacts
    <2> QED BY <2>5, <2>6, <2>7 DEF Fills
  <1> QED BY <1>1, <1>2

\* As many first and last hops as the redundancy says.
LEMMA CopyFacts ==
    ASSUME SchedulesAreWhole, NEW c \in ToSet(Scenarios), NEW s \in Ids(c)
    PROVE  /\ Copies[StreamIn(c, s).redundancy] \in 1 .. 3
           /\ Firsts(c, s) # {} /\ Lasts(c, s) # {}
           /\ Cardinality(Firsts(c, s)) = Copies[StreamIn(c, s).redundancy]
           /\ Cardinality(Lasts(c, s)) = Copies[StreamIn(c, s).redundancy]
  <1> DEFINE st == StreamIn(c, s)
  <1>1. /\ st \in StreamsIn(c) /\ st.id = s /\ st.redundancy \in DOMAIN Copies
        /\ Places(c, s) # {}
    BY IdFacts
  <1>2. \A i \in DOMAIN Elems(c) : Elems(c)[i].stream = st <=> i \in Places(c, s)
    BY <1>1, PlaceFacts DEF Places
  <1>3. Firsts(c, s) = FirstHops(c.schedule, st) /\ Lasts(c, s) = LastHops(c.schedule, st)
    BY <1>2, PlaceFacts DEF Firsts, Lasts, FirstHops, LastHops, Elems
  <1>4. /\ Cardinality(FirstHops(c.schedule, st)) = Copies[st.redundancy]
        /\ Cardinality(LastHops(c.schedule, st)) = Copies[st.redundancy]
    BY <1>1 DEF SchedulesAreWhole, CopiesAreSent, StreamsIn, Elems
  <1>5. Copies[st.redundancy] \in 1 .. 3
    BY <1>1 DEF Copies
  <1>6. Firsts(c, s) # {} /\ Lasts(c, s) # {}
    BY <1>1, SourceIsFirst, DestinationIsLast
  <1> QED BY <1>3, <1>4, <1>5, <1>6

-----------------------------------------------------------------------------
(***************************************************************************)
(* Counting.                                                               *)
(***************************************************************************)
\* Nothing is gone at the beginning of a period, and everything at its end.
LEMMA GoneFacts ==
    ASSUME NEW c \in ToSet(Scenarios), NEW s, NEW T \in SUBSET Places(c, s), NEW x \in Nat
    PROVE  /\ Gone(c, T, x) \subseteq T /\ IsFiniteSet(T) /\ IsFiniteSet(Gone(c, T, x))
           /\ Cardinality(T) \in Nat /\ Cardinality(Gone(c, T, x)) \in Nat
           /\ Gone(c, T, 0) = {}
           /\ x >= PeriodOf(c, s) => Gone(c, T, x) = T
           /\ Counted(c, T, x) \in Nat
           /\ Gone(c, T, x) # T => (Counted(c, T, x) = 0 <=> Gone(c, T, x) = {})
  <1>1. \A i \in T : /\ Elems(c)[i].offset \in Nat /\ PeriodOf(c, s) \in Nat
                     /\ Elems(c)[i].offset < PeriodOf(c, s)
    BY PlaceFacts
  <1>2. Gone(c, T, x) \subseteq T /\ Gone(c, T, 0) = {} /\ (x >= PeriodOf(c, s) => Gone(c, T, x) = T)
    BY <1>1 DEF Gone
  <1>3. IsFiniteSet(T) /\ IsFiniteSet(Gone(c, T, x))
    BY <1>2, PlacesFinite, FS_Subset
  <1>4. Cardinality(T) \in Nat /\ Cardinality(Gone(c, T, x)) \in Nat
    BY <1>3, FS_CardinalityType
  <1>5. Cardinality(Gone(c, T, x)) = 0 <=> Gone(c, T, x) = {}
    BY <1>3, FS_EmptySet
  <1> QED BY <1>2, <1>3, <1>4, <1>5 DEF Counted

\* One that is due is counted, the last one resets the counter.
LEMMA CountOne ==
    ASSUME NEW c \in ToSet(Scenarios), NEW s, NEW T \in SUBSET Places(c, s), NEW x \in Nat,
           NEW i \in T, Elems(c)[i].offset = x,
           \A j \in T : Elems(c)[j].offset = x => j = i
    PROVE  /\ Gone(c, T, x) # T /\ Gone(c, T, x + 1) = Gone(c, T, x) \cup {i}
           /\ Counted(c, T, x) + 1 >= Cardinality(T) <=> Gone(c, T, x + 1) = T
           /\ Counted(c, T, x + 1)
                = IF Counted(c, T, x) + 1 >= Cardinality(T) THEN 0 ELSE Counted(c, T, x) + 1
  <1> DEFINE A == Gone(c, T, x)
             B == Gone(c, T, x + 1)
  <1>1. \A j \in T : Elems(c)[j].offset \in Nat
    BY PlaceFacts
  <1>2. i \notin A /\ B = A \cup {i}
    <2>1. i \notin A
      BY DEF Gone
    <2>2. \A j \in T : Elems(c)[j].offset < x + 1 <=> Elems(c)[j].offset < x \/ j = i
      BY <1>1
    <2> QED BY <2>1, <2>2 DEF Gone
  <1>3. /\ IsFiniteSet(A) /\ IsFiniteSet(B) /\ IsFiniteSet(T) /\ A \subseteq T /\ B \subseteq T
        /\ Cardinality(A) \in Nat /\ Cardinality(B) \in Nat /\ Cardinality(T) \in Nat
    <2>1. \A y \in Nat : /\ Gone(c, T, y) \subseteq T /\ IsFiniteSet(Gone(c, T, y))
                         /\ Cardinality(Gone(c, T, y)) \in Nat
      BY GoneFacts
    <2>2. IsFiniteSet(T) /\ Cardinality(T) \in Nat
      BY GoneFacts
    <2>3. x + 1 \in Nat
      OBVIOUS
    <2> QED BY <2>1, <2>2, <2>3
  <1> HIDE DEF A, B
  <1>4. Cardinality(B) = Cardinality(A) + 1
    BY <1>2, <1>3, FS_AddElement
  <1>5. Cardinality(B) <= Cardinality(T) /\ (Cardinality(B) = Cardinality(T) => B = T)
    BY <1>3, FS_Subset
  <1>6. Counted(c, T, x) = Cardinality(A)
    BY <1>2 DEF Counted, A
  <1>7. Counted(c, T, x + 1) = IF B = T THEN 0 ELSE Cardinality(B)
    BY DEF Counted, B
  <1>8. Cardinality(A) + 1 >= Cardinality(T) <=> B = T
    BY <1>3, <1>4, <1>5
  <1>9. A # T
    BY <1>2
  <1>10. Counted(c, T, x + 1) = IF B = T THEN 0 ELSE Cardinality(A) + 1
    BY <1>4, <1>7
  <1> QED BY <1>2, <1>6, <1>8, <1>9, <1>10 DEF A, B

LEMMA CountNone ==
    ASSUME NEW c \in ToSet(Scenarios), NEW s, NEW T \in SUBSET Places(c, s), NEW x \in Nat,
           \A j \in T : Elems(c)[j].offset # x
    PROVE  Gone(c, T, x + 1) = Gone(c, T, x) /\ Counted(c, T, x + 1) = Counted(c, T, x)
  <1>1. \A j \in T : Elems(c)[j].offset \in Nat
    BY PlaceFacts
  <1>2. Gone(c, T, x + 1) = Gone(c, T, x)
    BY <1>1 DEF Gone
  <1> QED BY <1>2 DEF Counted

\* The counter at the end of a period is that at the beginning.
LEMMA CountRound ==
    ASSUME NEW c \in ToSet(Scenarios), NEW s, NEW T \in SUBSET Places(c, s)
    PROVE  Counted(c, T, 0) = 0 /\ Counted(c, T, PeriodOf(c, s)) = 0
  <1>1. Counted(c, T, 0) = 0
    <2>1. Gone(c, T, 0) = {}
      BY GoneFacts
    <2>2. Cardinality({}) = 0
      BY FS_EmptySet
    <2> QED BY <2>1, <2>2 DEF Counted
  <1>2. CASE T = {}
    <2>1. Gone(c, T, PeriodOf(c, s)) = T
      BY <1>2 DEF Gone
    <2> QED BY <1>1, <2>1 DEF Counted
  <1>3. CASE T # {}
    <2>1. PeriodOf(c, s) \in Nat
      BY <1>3, PlaceFacts
    <2>2. \A x \in Nat : x >= PeriodOf(c, s) => Gone(c, T, x) = T
      BY GoneFacts
    <2>3. Gone(c, T, PeriodOf(c, s)) = T
      BY <2>1, <2>2
    <2> QED BY <1>1, <2>3 DEF Counted
  <1> QED BY <1>2, <1>3

-----------------------------------------------------------------------------
(***************************************************************************)
(* The explicit schedule of some of the streams.                           *)
(***************************************************************************)
Some(c, ids) ==
    [elements |-> Restrict(Elems(c), {i \in DOMAIN Elems(c) : Elems(c)[i].stream.id \in ids}),
     tiles |-> c.schedule.tiles]

LEMMA SlotFacts ==
    ASSUME SchedulesAreWhole, NEW c \in ToSet(Scenarios), NEW ids, NEW n,
           NEW slot \in 0 .. (SlotsOf(c) - 1)
    PROVE  /\ (\A i \in DOMAIN Elems(c) :
                  Elems(c)[i].stream.id \in ids /\ Occurs(Elems(c)[i], slot)
                    => n \notin {Elems(c)[i].tx, Elems(c)[i].rx})
              => ExplicitSchedule(Some(c, ids), n)[slot] = [action |-> "SLEEP"]
           /\ \A i \in DOMAIN Elems(c) :
                 /\ Elems(c)[i].stream.id \in ids /\ Occurs(Elems(c)[i], slot)
                 /\ n \in {Elems(c)[i].tx, Elems(c)[i].rx}
                 => ExplicitSchedule(Some(c, ids), n)[slot]
                      = [action |-> ActionOf(Elems(c)[i], n), stream |-> Elems(c)[i].stream.id,
                         buffer |-> HasBuffer(Some(c, ids).elements, i, n)]
  <1> DEFINE D == {i \in DOMAIN Elems(c) : Elems(c)[i].stream.id \in ids}
             F == Some(c, ids).elements
             At == {i \in D : ActionOf(F[i], n) # "SLEEP" /\ Occurs(F[i], slot)}
             X == ExplicitSchedule(Some(c, ids), n)[slot]
  <1>1. F = [i \in D |-> Elems(c)[i]] /\ DOMAIN F = D /\ \A i \in D : F[i] = Elems(c)[i]
    BY DEF Some, Restrict
  <1>2. ScheduleSlots(Some(c, ids)) = SlotsOf(c)
    BY DEF ScheduleSlots, Some, SlotsOf
  <1>3. X = IF At = {} THEN [action |-> "SLEEP"]
            ELSE [action |-> ActionOf(F[Max(At)], n), stream |-> F[Max(At)].stream.id,
                  buffer |-> HasBuffer(F, Max(At), n)]
    <2> HIDE DEF F, D
    <2>1. At = {i \in DOMAIN F : ActionOf(F[i], n) # "SLEEP" /\ Occurs(F[i], slot)}
      BY <1>1
    <2> QED BY <1>2, <2>1 DEF ExplicitSchedule, F
  <1>4. At = {i \in D : /\ n \in {Elems(c)[i].tx, Elems(c)[i].rx}
                        /\ Occurs(Elems(c)[i], slot)}
    BY <1>1, ActionFacts
  <1> HIDE DEF F, At, X
  <1>5. ASSUME \A i \in DOMAIN Elems(c) :
                  Elems(c)[i].stream.id \in ids /\ Occurs(Elems(c)[i], slot)
                    => n \notin {Elems(c)[i].tx, Elems(c)[i].rx}
        PROVE  X = [action |-> "SLEEP"]
    BY <1>3, <1>4, <1>5
  <1>6. ASSUME NEW i \in DOMAIN Elems(c), Elems(c)[i].stream.id \in ids, Occurs(Elems(c)[i], slot),
               n \in {Elems(c)[i].tx, Elems(c)[i].rx}
        PROVE  X = [action |-> ActionOf(Elems(c)[i], n), stream |-> Elems(c)[i].stream.id,
                    buffer |-> HasBuffer(F, i, n)]
    <2>1. i \in At
      BY <1>4, <1>6
    <2>2. \A j \in At : j = i
      BY <1>4, <1>6, NodeIsFree
    <2>3. At = {i} /\ i \in Nat
      BY <2>1, <2>2, ElementFacts
    <2>4. Max(At) = i
      BY <2>3 DEF Max
    <2>5. F[i] = Elems(c)[i]
      BY <1>1, <1>6
    <2> QED BY <1>3, <2>1, <2>4, <2>5
  <1> QED BY <1>5, <1>6 DEF X, F

\* A relay that forwards a stream has a buffer for it.
LEMMA BufferFacts ==
    ASSUME SchedulesAreWhole, NEW c \in ToSet(Scenarios), NEW ids, NEW s \in ids, NEW n,
           NEW i \in Forwards(c, n, s)
    PROVE  HasBuffer(Some(c, ids).elements, i, n) = TRUE
  <1> DEFINE D == {j \in DOMAIN Elems(c) : Elems(c)[j].stream.id \in ids}
             F == Some(c, ids).elements
  <1>1. DOMAIN F = D /\ \A j \in D : F[j] = Elems(c)[j]
    BY DEF Some, Restrict
  <1>2. PICK j \in Fills(c, n, s) : j <= i
    BY RelayIsBetween
  <1>3. /\ i \in DOMAIN Elems(c) /\ Elems(c)[i].stream.id = s
        /\ j \in DOMAIN Elems(c) /\ Elems(c)[j].stream.id = s
        /\ ActionOf(Elems(c)[j], n) = "RECVBUFFER"
    BY <1>2, PlaceFacts DEF Forwards, Fills
  <1> HIDE DEF F
  <1>4. /\ j \in DOMAIN F /\ j <= i /\ ActionOf(F[j], n) = "RECVBUFFER"
        /\ F[j].stream.id = F[i].stream.id
    BY <1>1, <1>2, <1>3
  <1> QED BY <1>4 DEF HasBuffer, F

-----------------------------------------------------------------------------
(***************************************************************************)
(* The state.                                                              *)
(***************************************************************************)
Maybe == Packets \cup {NoPacket}
Buffers == {EmptyBuffer} \cup [data : Packets, current : BOOLEAN, seqNo : Nat]

Typed ==
    /\ scenario \in DOMAIN Scenarios
    /\ played \subseteq Ids(Scenario)
    /\ currentSchedule = Expanded(Schedule(played))
    /\ slotIndex \in 0 .. (Slots - 1)
    /\ operating \subseteq Nodes /\ Nodes \ operating \subseteq Scenario.mayFail
    /\ bufCtr \in [Nodes -> [Streams -> Nat]]
    /\ buffer \in [Nodes -> [Streams -> Buffers]]
    /\ tx \in [Streams -> [next : Maybe, packet : Maybe, count : Nat, seqNo : Nat]]
    /\ rx \in [Streams -> [packet : Maybe, count : Nat, seqNo : Nat, shared : Maybe,
                           already : BOOLEAN]]
    /\ sendCallback \in [Streams -> Maybe]
    /\ called \in [Streams -> Maybe]
    /\ recvCallback \subseteq Streams /\ \A s \in Streams \ recvCallback : called[s] = NoPacket

\* The slots of the period that have passed, and the number of the period.
Phase(s) == slotIndex % PeriodOf(Scenario, s)
Round(s) == (slotIndex \div PeriodOf(Scenario, s)) + 1

LEMMA ScenarioFacts ==
    ASSUME scenario \in DOMAIN Scenarios
    PROVE  /\ Scenario \in ToSet(Scenarios) /\ Slots = SlotsOf(Scenario) /\ Slots \in Nat \ {0}
           /\ \A ids : Schedule(ids) = Some(Scenario, ids)
           /\ \A s : StreamInfo(s) = StreamIn(Scenario, s)
           /\ StreamsOf = StreamsIn(Scenario)
           /\ Scenario.authenticated \in BOOLEAN
  <1>1. Scenario \in ToSet(Scenarios)
    BY DEF Scenario, ToSet
  <1>2. Slots = SlotsOf(Scenario)
    BY DEF Slots, SlotsOf
  <1>3. SlotsOf(Scenario) \in Nat \ {0}
    <2>1. Scenario.schedule.tiles \in Nat \ {0}
      BY <1>1, DataAssumption
    <2> QED BY <2>1, SizeFacts DEF SlotsOf, ScheduleSlots
  <1>4. \A ids : Schedule(ids) = Some(Scenario, ids)
    BY DEF Schedule, Some, Elems
  <1>5. StreamsOf = StreamsIn(Scenario)
    BY DEF StreamsOf, StreamsIn, Elems
  <1>6. \A s : StreamInfo(s) = StreamIn(Scenario, s)
    BY <1>5 DEF StreamInfo, StreamIn
  <1>7. Scenario.authenticated \in BOOLEAN
    BY <1>1, DataAssumption
  <1> QED BY <1>1, <1>2, <1>3, <1>4, <1>5, <1>6, <1>7

LEMMA PhaseFacts ==
    ASSUME Typed, NEW s \in Ids(Scenario)
    PROVE  /\ s \in Streams /\ PeriodOf(Scenario, s) \in Nat \ {0}
           /\ Phase(s) \in Nat /\ Phase(s) < PeriodOf(Scenario, s)
           /\ Round(s) \in Nat \ {0}
           /\ slotIndex \in Nat
  <1>1. Scenario \in ToSet(Scenarios) /\ slotIndex \in Nat
    BY ScenarioFacts DEF Typed
  <1>2. s \in Streams /\ PeriodOf(Scenario, s) \in Nat \ {0}
    BY <1>1, IdFacts
  <1> QED BY <1>1, <1>2, Division DEF Phase, Round

\* What a node does is what its element says, if the stream is played.
LEMMA DoesFacts ==
    ASSUME SchedulesAreWhole, Typed, NEW n \in Nodes, NEW s,
           NEW a \in {"SENDSTREAM", "RECVSTREAM", "SENDBUFFER", "RECVBUFFER"}
    PROVE  /\ Does(n, a, s) <=> s \in played /\ \E i \in Places(Scenario, s) :
                                    /\ ActionOf(Elems(Scenario)[i], n) = a
                                    /\ Elems(Scenario)[i].offset = Phase(s)
           /\ Does(n, "SENDBUFFER", s) => Slot(n).buffer = TRUE
  <1> DEFINE c == Scenario
             X == ExplicitSchedule(Some(c, played), n)[slotIndex]
  <1>1. /\ c \in ToSet(Scenarios) /\ slotIndex \in 0 .. (SlotsOf(c) - 1) /\ slotIndex \in Nat
        /\ Schedule(played) = Some(c, played) /\ played \subseteq Ids(c)
    BY ScenarioFacts DEF Typed
  <1>2. Slot(n) = X
    BY <1>1 DEF Slot, Expanded, Typed
  <1>3. ASSUME NEW b, Does(n, b, s), b # "SLEEP"
        PROVE  s \in played /\ \E i \in Places(c, s) : /\ ActionOf(Elems(c)[i], n) = b
                                                       /\ Elems(c)[i].offset = Phase(s)
                                                       /\ Slot(n).buffer = HasBuffer(Some(c, played).elements, i, n)
    <2>1. X.action # "SLEEP"
      BY <1>2, <1>3 DEF Does
    <2>2. PICK i \in DOMAIN Elems(c) :
             /\ Elems(c)[i].stream.id \in played /\ Occurs(Elems(c)[i], slotIndex)
             /\ n \in {Elems(c)[i].tx, Elems(c)[i].rx}
      <3>1. X # [action |-> "SLEEP"]
        BY <2>1
      <3> HIDE DEF X
      <3> QED BY <1>1, <3>1, SlotFacts DEF X
    <2>3. X = [action |-> ActionOf(Elems(c)[i], n), stream |-> Elems(c)[i].stream.id,
               buffer |-> HasBuffer(Some(c, played).elements, i, n)]
      BY <1>1, <2>2, SlotFacts
    <2>4. ActionOf(Elems(c)[i], n) = b /\ Elems(c)[i].stream.id = s
          /\ Slot(n).buffer = HasBuffer(Some(c, played).elements, i, n)
      BY <1>2, <1>3, <2>3 DEF Does
    <2>5. i \in Places(c, s)
      BY <2>4 DEF Places
    <2>6. Elems(c)[i].offset = Phase(s)
      BY <1>1, <2>2, <2>5, OccursAt DEF Phase
    <2> QED BY <2>2, <2>4, <2>5, <2>6
  <1>4. ASSUME s \in played, NEW i \in Places(c, s), ActionOf(Elems(c)[i], n) = a,
               Elems(c)[i].offset = Phase(s)
        PROVE  Does(n, a, s)
    <2>1. i \in DOMAIN Elems(c) /\ Elems(c)[i].stream.id = s
      BY <1>1, PlaceFacts
    <2>2. Occurs(Elems(c)[i], slotIndex)
      BY <1>1, <1>4, OccursAt DEF Phase
    <2>3. n \in {Elems(c)[i].tx, Elems(c)[i].rx}
      BY <1>1, <1>4, <2>1, ActionFacts
    <2>4. X = [action |-> ActionOf(Elems(c)[i], n), stream |-> Elems(c)[i].stream.id,
               buffer |-> HasBuffer(Some(c, played).elements, i, n)]
      BY <1>1, <1>4, <2>1, <2>2, <2>3, SlotFacts
    <2> QED BY <1>2, <1>4, <2>1, <2>4 DEF Does
  <1>5. ASSUME Does(n, "SENDBUFFER", s) PROVE Slot(n).buffer = TRUE
    <2>1. PICK i \in Places(c, s) : /\ ActionOf(Elems(c)[i], n) = "SENDBUFFER"
                                    /\ Slot(n).buffer = HasBuffer(Some(c, played).elements, i, n)
      BY <1>3, <1>5
    <2>2. s \in played /\ i \in Forwards(c, n, s)
      BY <1>3, <1>5, <2>1 DEF Forwards
    <2> QED BY <1>1, <2>1, <2>2, BufferFacts
  <1> QED BY <1>3, <1>4, <1>5

\* The source sends and the destination receives what is due.
LEMMA EndFacts ==
    ASSUME SchedulesAreWhole, Typed, NEW s
    PROVE  /\ Sends(s) <=> s \in played /\ \E i \in Firsts(Scenario, s) :
                                              Elems(Scenario)[i].offset = Phase(s)
           /\ Ends(s) <=> s \in played /\ \E i \in Lasts(Scenario, s) :
                                              Elems(Scenario)[i].offset = Phase(s)
  <1> DEFINE c == Scenario
  <1>1. c \in ToSet(Scenarios)
    BY ScenarioFacts DEF Typed
  <1>2. \A i \in Places(c, s) : i \in DOMAIN Elems(c) /\ Elems(c)[i].tx \in Nodes /\ Elems(c)[i].rx \in Nodes
    BY <1>1, PlaceFacts, ElementFacts
  <1>3. \A n \in Nodes : Does(n, "SENDSTREAM", s) <=> s \in played /\ \E i \in Places(c, s) :
                                    /\ ActionOf(Elems(c)[i], n) = "SENDSTREAM"
                                    /\ Elems(c)[i].offset = Phase(s)
    BY DoesFacts
  <1>4. \A n \in Nodes : Does(n, "RECVSTREAM", s) <=> s \in played /\ \E i \in Places(c, s) :
                                    /\ ActionOf(Elems(c)[i], n) = "RECVSTREAM"
                                    /\ Elems(c)[i].offset = Phase(s)
    BY DoesFacts
  <1>5. \A i \in Places(c, s) : \A n \in Nodes :
                                   /\ ActionOf(Elems(c)[i], n) = "SENDSTREAM"
                                       <=> Elems(c)[i].tx = n /\ Elems(c)[i].stream.src = n
                                   /\ ActionOf(Elems(c)[i], n) = "RECVSTREAM"
                                       <=> Elems(c)[i].rx = n /\ Elems(c)[i].stream.dst = n
    BY <1>1, <1>2, ActionFacts
  <1> HIDE DEF c
  <1>6. Sends(s) <=> s \in played /\ \E i \in Firsts(c, s) : Elems(c)[i].offset = Phase(s)
    <2>1. ASSUME Sends(s) PROVE s \in played /\ \E i \in Firsts(c, s) : Elems(c)[i].offset = Phase(s)
      <3>1. PICK n \in Nodes : Does(n, "SENDSTREAM", s)
        BY <2>1 DEF Sends
      <3>2. PICK i \in Places(c, s) : /\ ActionOf(Elems(c)[i], n) = "SENDSTREAM"
                                      /\ Elems(c)[i].offset = Phase(s)
        BY <1>3, <3>1
      <3> QED BY <1>3, <1>5, <3>1, <3>2 DEF Firsts
    <2>2. ASSUME s \in played, NEW i \in Firsts(c, s), Elems(c)[i].offset = Phase(s) PROVE Sends(s)
      <3>1. i \in Places(c, s) /\ Elems(c)[i].tx \in Nodes
        BY <1>2 DEF Firsts
      <3>2. ActionOf(Elems(c)[i], Elems(c)[i].tx) = "SENDSTREAM"
        BY <1>5, <3>1 DEF Firsts
      <3>3. Does(Elems(c)[i].tx, "SENDSTREAM", s)
        BY <1>3, <2>2, <3>1, <3>2
      <3> QED BY <3>1, <3>3 DEF Sends
    <2> QED BY <2>1, <2>2
  <1>7. Ends(s) <=> s \in played /\ \E i \in Lasts(c, s) : Elems(c)[i].offset = Phase(s)
    <2>1. ASSUME Ends(s) PROVE s \in played /\ \E i \in Lasts(c, s) : Elems(c)[i].offset = Phase(s)
      <3>1. PICK n \in Nodes : Does(n, "RECVSTREAM", s)
        BY <2>1 DEF Ends
      <3>2. PICK i \in Places(c, s) : /\ ActionOf(Elems(c)[i], n) = "RECVSTREAM"
                                      /\ Elems(c)[i].offset = Phase(s)
        BY <1>4, <3>1
      <3> QED BY <1>4, <1>5, <3>1, <3>2 DEF Lasts
    <2>2. ASSUME s \in played, NEW i \in Lasts(c, s), Elems(c)[i].offset = Phase(s) PROVE Ends(s)
      <3>1. i \in Places(c, s) /\ Elems(c)[i].rx \in Nodes
        BY <1>2 DEF Lasts
      <3>2. ActionOf(Elems(c)[i], Elems(c)[i].rx) = "RECVSTREAM"
        BY <1>5, <3>1 DEF Lasts
      <3>3. Does(Elems(c)[i].rx, "RECVSTREAM", s)
        BY <1>4, <2>2, <3>1, <3>2
      <3> QED BY <3>1, <3>3 DEF Ends
    <2> QED BY <2>1, <2>2
  <1> QED BY <1>6, <1>7 DEF c

\* The node that receives in the slot hears the element's transmitter, or nothing.
LEMMA HeardHop ==
    ASSUME SchedulesAreWhole, Typed, NEW s \in played, NEW lost, NEW i \in Places(Scenario, s),
           Elems(Scenario)[i].offset = Phase(s)
    PROVE  LET e == Elems(Scenario)[i]
           IN /\ e \in Hops /\ e.tx \in Nodes /\ e.rx \in Nodes
              /\ Heard(e.rx, lost) = IF e.rx \in lost \/ e.rx \notin operating THEN EmptyBuffer
                                     ELSE OnAir(e.tx)
  <1> DEFINE c == Scenario
             e == Elems(c)[i]
             n == e.rx
             H == {f \in Hops : f.rx = n}
             from == {f.tx : f \in H}
  <1>1. /\ c \in ToSet(Scenarios) /\ slotIndex \in 0 .. (SlotsOf(c) - 1) /\ slotIndex \in Nat
    BY ScenarioFacts DEF Typed
  <1>2. i \in DOMAIN Elems(c) /\ e.stream.id = s
    BY <1>1, PlaceFacts
  <1>3. Occurs(e, slotIndex)
    BY <1>1, <1>2, OccursAt DEF Phase
  <1>4. e \in ToSet(Elems(c)) /\ e.tx \in Nodes /\ e.rx \in Nodes
    BY <1>1, <1>2, ElementFacts
  <1>5. e \in Hops
    BY <1>2, <1>3, <1>4 DEF Hops, Elems
  <1>6. H = {e}
    <2>1. ASSUME NEW f \in H PROVE f = e
      <3>1. f \in ToSet(Elems(c)) /\ f.stream.id \in played /\ Occurs(f, slotIndex) /\ f.rx = n
        BY DEF Hops, Elems
      <3>2. PICK j \in DOMAIN Elems(c) : f = Elems(c)[j]
        BY <3>1 DEF ToSet
      <3>3. j = i
        BY <1>1, <1>2, <1>3, <3>1, <3>2, NodeIsFree
      <3> QED BY <3>2, <3>3
    <2> HIDE DEF e
    <2> QED BY <1>5, <2>1
  <1>7. from = {e.tx}
    BY <1>6
  <1>8. Heard(n, lost) = IF n \in lost \/ n \notin operating \/ from = {} THEN EmptyBuffer
                         ELSE OnAir(CHOOSE m \in from : TRUE)
    BY DEF Heard
  <1>9. (CHOOSE m \in from : TRUE) = e.tx
    BY <1>7
  <1> QED BY <1>4, <1>5, <1>7, <1>8, <1>9

\* What is heard is what the element's transmitter sends of the same stream.
LEMMA HeardFacts ==
    ASSUME SchedulesAreWhole, Typed, NEW n \in Nodes, NEW s, NEW lost,
           NEW a \in {"RECVSTREAM", "RECVBUFFER"}, Does(n, a, s)
    PROVE  \/ Heard(n, lost) = EmptyBuffer
           \/ Sends(s) /\ Heard(n, lost) = Transmission(s)
           \/ \E m \in Nodes : Does(m, "SENDBUFFER", s) /\ Heard(n, lost) = buffer[m][s]
  <1> DEFINE c == Scenario
  <1>1. c \in ToSet(Scenarios)
    BY ScenarioFacts DEF Typed
  <1>2. s \in played /\ \E i \in Places(c, s) : /\ ActionOf(Elems(c)[i], n) = a
                                               /\ Elems(c)[i].offset = Phase(s)
    <2>1. CASE a = "RECVSTREAM"
      BY <2>1, DoesFacts
    <2>2. CASE a = "RECVBUFFER"
      BY <2>2, DoesFacts
    <2> QED BY <2>1, <2>2
  <1>3. PICK i \in Places(c, s) : /\ ActionOf(Elems(c)[i], n) = a
                                  /\ Elems(c)[i].offset = Phase(s)
    BY <1>2
  <1> DEFINE e == Elems(c)[i]
             t == e.tx
  <1>4. i \in DOMAIN Elems(c)
    BY <1>1, PlaceFacts
  <1>5. e.rx = n /\ t \in Nodes
    BY <1>1, <1>3, <1>4, ActionFacts, ElementFacts
  <1>6. Heard(n, lost) = EmptyBuffer \/ Heard(n, lost) = OnAir(t)
    BY <1>2, <1>3, <1>5, HeardHop
  <1>7. CASE e.stream.src = t
    <2>1. ActionOf(e, t) = "SENDSTREAM"
      BY <1>1, <1>4, <1>7, ActionFacts
    <2>2. Does(t, "SENDSTREAM", s)
      BY <1>2, <1>3, <1>5, <2>1, DoesFacts
    <2>3. OnAir(t) = EmptyBuffer \/ OnAir(t) = Transmission(s)
      BY <2>2 DEF OnAir, Does
    <2>4. Sends(s)
      BY <1>5, <2>2 DEF Sends
    <2> QED BY <1>6, <2>3, <2>4
  <1>8. CASE e.stream.src # t
    <2>1. ActionOf(e, t) = "SENDBUFFER"
      BY <1>1, <1>4, <1>8, ActionFacts
    <2>2. Does(t, "SENDBUFFER", s)
      BY <1>2, <1>3, <1>5, <2>1, DoesFacts
    <2>3. OnAir(t) = EmptyBuffer \/ OnAir(t) = buffer[t][s]
      BY <2>2 DEF OnAir, Does
    <2> QED BY <1>5, <1>6, <2>2, <2>3
  <1> QED BY <1>7, <1>8

-----------------------------------------------------------------------------
(***************************************************************************)
(* Types.                                                                  *)
(***************************************************************************)
LEMMA OfferedTyped ==
    ASSUME Typed, NEW s \in Streams
    PROVE  /\ Offered(s) \in Maybe /\ Taken(s) \in Maybe /\ Transmission(s) \in Buffers
           /\ tx[s] \in [next : Maybe, packet : Maybe, count : Nat, seqNo : Nat]
           /\ rx[s] \in [packet : Maybe, count : Nat, seqNo : Nat, shared : Maybe,
                         already : BOOLEAN]
  <1>1. /\ tx[s] \in [next : Maybe, packet : Maybe, count : Nat, seqNo : Nat]
        /\ rx[s] \in [packet : Maybe, count : Nat, seqNo : Nat, shared : Maybe,
                      already : BOOLEAN]
        /\ sendCallback[s] \in Maybe
    BY DEF Typed
  <1>2. Offered(s) \in Maybe
    BY <1>1 DEF Offered
  <1>3. Taken(s) \in Maybe
    BY <1>1, <1>2 DEF Taken
  <1>4. Scenario.authenticated \in BOOLEAN
    BY ScenarioFacts DEF Typed
  <1>5. Transmission(s) \in Buffers
    BY <1>1, <1>3, <1>4 DEF Transmission, Buffers, Maybe
  <1> QED BY <1>1, <1>2, <1>3, <1>5

LEMMA HeardTyped ==
    ASSUME SchedulesAreWhole, Typed, NEW n \in Nodes, NEW s \in Streams, NEW lost,
           NEW a \in {"RECVSTREAM", "RECVBUFFER"}, Does(n, a, s)
    PROVE  Heard(n, lost) \in Buffers
  <1>1. EmptyBuffer \in Buffers /\ Transmission(s) \in Buffers
    BY OfferedTyped DEF Buffers
  <1>2. \A m \in Nodes : buffer[m][s] \in Buffers
    BY DEF Typed
  <1> QED BY <1>1, <1>2, HeardFacts

LEMMA CountedOn ==
    ASSUME NEW e \in [packet : Maybe, count : Nat, seqNo : Nat, shared : Maybe,
                      already : BOOLEAN], NEW p
    PROVE  [e EXCEPT !.packet = p, !.count = @ + 1]
             = [packet |-> p, count |-> e.count + 1, seqNo |-> e.seqNo, shared |-> e.shared,
                already |-> e.already]
  <1> DEFINE y == [e EXCEPT !.packet = p]
  <1>1. y = [packet |-> p, count |-> e.count, seqNo |-> e.seqNo, shared |-> e.shared,
             already |-> e.already]
    OBVIOUS
  <1>2. [e EXCEPT !.packet = p, !.count = @ + 1] = [y EXCEPT !.count = @ + 1]
    OBVIOUS
  <1> HIDE DEF y
  <1> QED BY <1>1, <1>2

\* What a packet brings the receiving end, and what it leaves of the counter.
LEMMA ReceivePacketFacts ==
    ASSUME Typed, NEW s \in Streams, NEW b \in Buffers
    PROVE  LET last == rx[s].count + 1 >= RedundancyCount(s)
               received == IF Valid(s, b) THEN b.data ELSE rx[s].packet
           IN /\ received \in Maybe
              /\ ReceivePacket(s, b) \in [packet : Maybe, count : Nat, seqNo : Nat,
                                          shared : Maybe, already : BOOLEAN]
              /\ ReceivePacket(s, b).count = IF last THEN 0 ELSE rx[s].count + 1
              /\ ReceivePacket(s, b).seqNo = IF last THEN rx[s].seqNo + 1 ELSE rx[s].seqNo
              /\ ReceivePacket(s, b).packet = IF last THEN NoPacket ELSE received
              /\ ReceivePacket(s, b).shared = IF last THEN received ELSE rx[s].shared
  <1> DEFINE last == rx[s].count + 1 >= RedundancyCount(s)
             received == IF Valid(s, b) THEN b.data ELSE rx[s].packet
  <1>1. rx[s] \in [packet : Maybe, count : Nat, seqNo : Nat, shared : Maybe, already : BOOLEAN]
    BY DEF Typed
  <1>2. received \in Maybe
    <2>1. CASE Valid(s, b)
      <3>1. b # EmptyBuffer
        BY <2>1 DEF Valid
      <3>2. b.data \in Packets
        BY <3>1 DEF Buffers
      <3> QED BY <2>1, <3>2 DEF Maybe
    <2>2. CASE ~Valid(s, b)
      BY <1>1, <2>2
    <2> QED BY <2>1, <2>2
  <1>3. ReceivePacket(s, b) = IF last
            THEN [packet |-> NoPacket, count |-> 0, seqNo |-> rx[s].seqNo + 1,
                  shared |-> received, already |-> FALSE]
            ELSE [rx[s] EXCEPT !.packet = received, !.count = @ + 1]
    BY DEF ReceivePacket
  <1> HIDE DEF received, last
  <1>4. NoPacket \in Maybe
    BY DEF Maybe
  <1>5. CASE last
    <2> DEFINE z == [packet |-> NoPacket, count |-> 0, seqNo |-> rx[s].seqNo + 1,
                     shared |-> received, already |-> FALSE]
    <2>1. ReceivePacket(s, b) = z
      BY <1>3, <1>5
    <2>2. z \in [packet : Maybe, count : Nat, seqNo : Nat, shared : Maybe, already : BOOLEAN]
      BY <1>1, <1>2, <1>4
    <2>3. z.count = 0 /\ z.seqNo = rx[s].seqNo + 1 /\ z.packet = NoPacket /\ z.shared = received
      OBVIOUS
    <2> HIDE DEF z
    <2> QED BY <1>2, <1>5, <2>1, <2>2, <2>3 DEF received, last
  <1>6. CASE ~last
    <2> DEFINE z == [rx[s] EXCEPT !.packet = received, !.count = @ + 1]
    <2>1. ReceivePacket(s, b) = z
      BY <1>3, <1>6
    <2>0. z = [packet |-> received, count |-> rx[s].count + 1, seqNo |-> rx[s].seqNo,
               shared |-> rx[s].shared, already |-> rx[s].already]
      BY <1>1, CountedOn
    <2>2. z \in [packet : Maybe, count : Nat, seqNo : Nat, shared : Maybe, already : BOOLEAN]
      <3>1. rx[s].count + 1 \in Nat /\ rx[s].seqNo \in Nat /\ rx[s].shared \in Maybe
            /\ rx[s].already \in BOOLEAN
        BY <1>1
      <3> QED BY <1>2, <2>0, <3>1
    <2>3. /\ z.count = rx[s].count + 1 /\ z.seqNo = rx[s].seqNo /\ z.packet = received
          /\ z.shared = rx[s].shared
      BY <1>1
    <2> HIDE DEF z
    <2> QED BY <1>2, <1>6, <2>1, <2>2, <2>3 DEF received, last
  <1> QED BY <1>5, <1>6

\* A stream that ends in the slot takes what its destination has heard.
LEMMA ReceiveStreamFacts ==
    ASSUME SchedulesAreWhole, Typed, NEW s \in Streams, NEW lost
    PROVE  /\ ~Ends(s) => ReceiveStream(s, lost) = rx[s]
           /\ Ends(s) => \E n \in Nodes :
                 /\ Does(n, "RECVSTREAM", s) /\ Heard(n, lost) \in Buffers
                 /\ ReceiveStream(s, lost) = ReceivePacket(s, Heard(n, lost))
           /\ ReceiveStream(s, lost) \in [packet : Maybe, count : Nat, seqNo : Nat,
                                          shared : Maybe, already : BOOLEAN]
  <1>1. CASE ~Ends(s)
    BY <1>1, OfferedTyped DEF ReceiveStream
  <1>2. CASE Ends(s)
    <2> DEFINE n == CHOOSE m \in Nodes : Does(m, "RECVSTREAM", s)
    <2>1. n \in Nodes /\ Does(n, "RECVSTREAM", s)
      BY <1>2 DEF Ends
    <2>2. ReceiveStream(s, lost) = ReceivePacket(s, Heard(n, lost))
      BY <1>2 DEF ReceiveStream
    <2> HIDE DEF n
    <2>3. Heard(n, lost) \in Buffers
      BY <2>1, HeardTyped
    <2> QED BY <1>2, <2>1, <2>2, <2>3, ReceivePacketFacts
  <1> QED BY <1>1, <1>2

LEMMA SendPacketFacts ==
    ASSUME Typed, NEW s \in Streams
    PROVE  LET last == tx[s].count + 1 >= RedundancyCount(s)
           IN /\ SendPacket(s) \in [next : Maybe, packet : Maybe, count : Nat, seqNo : Nat]
              /\ ~Sends(s) => SendPacket(s) = tx[s]
              /\ Sends(s) =>
                   /\ SendPacket(s).next = IF tx[s].count = 0 THEN NoPacket ELSE tx[s].next
                   /\ SendPacket(s).packet = Taken(s)
                   /\ SendPacket(s).count = IF last THEN 0 ELSE tx[s].count + 1
                   /\ SendPacket(s).seqNo = IF last THEN tx[s].seqNo + 1 ELSE tx[s].seqNo
  <1>1. tx[s] \in [next : Maybe, packet : Maybe, count : Nat, seqNo : Nat] /\ Taken(s) \in Maybe
    BY OfferedTyped
  <1>2. NoPacket \in Maybe
    BY DEF Maybe
  <1>3. CASE ~Sends(s)
    BY <1>1, <1>3 DEF SendPacket
  <1>4. CASE Sends(s)
    BY <1>1, <1>2, <1>4 DEF SendPacket
  <1> QED BY <1>3, <1>4

LEMMA UseBufferTyped ==
    ASSUME SchedulesAreWhole, Typed, NEW n \in Nodes, NEW s \in Streams, NEW lost
    PROVE  UseBuffer(n, s, lost) \in Buffers
  <1>1. EmptyBuffer \in Buffers /\ buffer[n][s] \in Buffers
    BY DEF Buffers, Typed
  <1>2. Executes(n, "RECVBUFFER", s) => Heard(n, lost) \in Buffers
    BY HeardTyped DEF Executes
  <1> QED BY <1>1, <1>2 DEF UseBuffer

LEMMA InitTyped == Init => Typed
  <1> SUFFICES ASSUME Init PROVE Typed
    OBVIOUS
  <1>1. scenario \in DOMAIN Scenarios
    BY DEF Init
  <1>2. played \subseteq Ids(Scenario)
    BY <1>1, ScenarioFacts DEF Init, Ids
  <1>3. slotIndex \in 0 .. (Slots - 1)
    BY <1>1, ScenarioFacts DEF Init
  <1>4. NoPacket \in Maybe /\ EmptyBuffer \in Buffers
    BY DEF Maybe, Buffers
  <1> QED BY <1>1, <1>2, <1>3, <1>4 DEF Init, Typed

\* The slots go round.
LEMMA SlotIndexTyped ==
    ASSUME Typed, NEW k \in Nat
    PROVE  AfterSlot(k) \in 0 .. (Slots - 1)
  <1>1. Slots \in Nat \ {0} /\ slotIndex + k \in Nat
    BY ScenarioFacts DEF Typed
  <1> QED BY <1>1, Division DEF AfterSlot

LEMMA SameScenario ==
    ASSUME scenario' = scenario
    PROVE  Scenario' = Scenario /\ Slots' = Slots /\ \A s : StreamInfo(s)' = StreamInfo(s)
  BY DEF Scenario, Slots, StreamInfo, StreamsOf

-----------------------------------------------------------------------------
(***************************************************************************)
(* What the actions do to the two ends of a stream and to the buffers.     *)
(***************************************************************************)
SendingEnds == [next : Maybe, packet : Maybe, count : Nat, seqNo : Nat]
ReceivingEnds == [packet : Maybe, count : Nat, seqNo : Nat, shared : Maybe, already : BOOLEAN]

LEMMA PlaySlotEffects ==
    ASSUME SchedulesAreWhole, Typed, NEW lost, PlaySlot(lost)
    PROVE  /\ tx' \in [Streams -> SendingEnds] /\ rx' \in [Streams -> ReceivingEnds]
           /\ buffer' \in [Nodes -> [Streams -> Buffers]]
           /\ \A s \in Streams :
                 /\ tx'[s].next = SendPacket(s).next /\ tx'[s].packet = SendPacket(s).packet
                 /\ tx'[s].count = SendPacket(s).count
                 /\ tx'[s].seqNo = IF Wraps(1) THEN 1 ELSE SendPacket(s).seqNo
                 /\ rx'[s].packet = ReceiveStream(s, lost).packet
                 /\ rx'[s].count = ReceiveStream(s, lost).count
                 /\ rx'[s].seqNo = IF Wraps(1) THEN 1 ELSE ReceiveStream(s, lost).seqNo
                 /\ rx'[s].shared = IF EndsPeriod(s) /\ s \in recvCallback THEN NoPacket
                                    ELSE ReceiveStream(s, lost).shared
                 /\ called'[s] = IF EndsPeriod(s) /\ s \in recvCallback
                                 THEN ReceiveStream(s, lost).shared ELSE called[s]
           /\ \A n \in Nodes, s \in Streams :
                 /\ buffer'[n][s].data = UseBuffer(n, s, lost).data
                 /\ buffer'[n][s].current
                      = IF Wraps(1) THEN FALSE ELSE UseBuffer(n, s, lost).current
                 /\ buffer'[n][s].seqNo = UseBuffer(n, s, lost).seqNo
                 /\ ~Wraps(1) => buffer'[n][s] = UseBuffer(n, s, lost)
                 /\ UseBuffer(n, s, lost) = EmptyBuffer => buffer'[n][s] = EmptyBuffer
  <1> DEFINE sent == [s \in Streams |-> SendPacket(s)]
             kept == [s \in Streams |-> IF EndsPeriod(s) THEN ToCallback(s, ReceiveStream(s, lost))
                                                         ELSE ReceiveStream(s, lost)]
             held == [n \in Nodes |-> [s \in Streams |-> UseBuffer(n, s, lost)]]
  <1>1. tx' = IF Wraps(1) THEN Renumbered(sent) ELSE sent
    BY DEF PlaySlot
  <1>2. rx' = IF Wraps(1) THEN Renumbered(kept) ELSE kept
    <2> DEFINE got == [s \in Streams |-> ReceiveStream(s, lost)]
    <2>1. rx' = IF Wraps(1)
                THEN Renumbered([s \in Streams |-> IF EndsPeriod(s) THEN ToCallback(s, got[s])
                                                                    ELSE got[s]])
                ELSE [s \in Streams |-> IF EndsPeriod(s) THEN ToCallback(s, got[s]) ELSE got[s]]
      BY DEF PlaySlot
    <2>2. kept = [s \in Streams |-> IF EndsPeriod(s) THEN ToCallback(s, got[s]) ELSE got[s]]
      BY DEF ToCallback
    <2> HIDE DEF kept, got
    <2> QED BY <2>1, <2>2
  <1>3. buffer' = IF Wraps(1) THEN Aged(held) ELSE held
    BY DEF PlaySlot
  <1>4. \A s \in Streams : SendPacket(s) \in SendingEnds
    BY SendPacketFacts DEF SendingEnds
  <1>5. \A s \in Streams : ReceiveStream(s, lost) \in ReceivingEnds
    BY ReceiveStreamFacts DEF ReceivingEnds
  <1>6. \A n \in Nodes, s \in Streams : UseBuffer(n, s, lost) \in Buffers
    BY UseBufferTyped
  <1>7. ASSUME NEW s \in Streams
        PROVE  /\ kept[s] \in ReceivingEnds /\ kept[s].packet = ReceiveStream(s, lost).packet
               /\ kept[s].count = ReceiveStream(s, lost).count
               /\ kept[s].seqNo = ReceiveStream(s, lost).seqNo
               /\ kept[s].shared = IF EndsPeriod(s) /\ s \in recvCallback THEN NoPacket
                                   ELSE ReceiveStream(s, lost).shared
    <2> DEFINE e == ReceiveStream(s, lost)
    <2>1. e \in ReceivingEnds
      BY <1>5
    <2>2. NoPacket \in Maybe
      BY DEF Maybe
    <2>3. kept[s] = IF EndsPeriod(s) /\ s \in recvCallback
                    THEN [e EXCEPT !.shared = NoPacket] ELSE e
      BY DEF ToCallback
    <2> HIDE DEF kept, e
    <2>4. [e EXCEPT !.shared = NoPacket]
            = [packet |-> e.packet, count |-> e.count, seqNo |-> e.seqNo, shared |-> NoPacket,
               already |-> e.already]
      BY <2>1 DEF ReceivingEnds
    <2>5. CASE EndsPeriod(s) /\ s \in recvCallback
      BY <2>1, <2>2, <2>3, <2>4, <2>5 DEF ReceivingEnds, e
    <2>6. CASE ~(EndsPeriod(s) /\ s \in recvCallback)
      BY <2>1, <2>3, <2>6 DEF e
    <2> QED BY <2>5, <2>6
  <1>8. ASSUME NEW s \in Streams
        PROVE  /\ tx'[s] \in SendingEnds
               /\ tx'[s].next = SendPacket(s).next /\ tx'[s].packet = SendPacket(s).packet
               /\ tx'[s].count = SendPacket(s).count
               /\ tx'[s].seqNo = IF Wraps(1) THEN 1 ELSE SendPacket(s).seqNo
    <2> DEFINE e == SendPacket(s)
    <2>1. e \in SendingEnds
      BY <1>4
    <2>2. tx'[s] = IF Wraps(1) THEN [e EXCEPT !.seqNo = 1] ELSE e
      BY <1>1 DEF Renumbered
    <2> HIDE DEF e
    <2>3. [e EXCEPT !.seqNo = 1] = [next |-> e.next, packet |-> e.packet, count |-> e.count, seqNo |-> 1]
      BY <2>1 DEF SendingEnds
    <2>4. CASE Wraps(1)
      BY <2>1, <2>2, <2>3, <2>4 DEF SendingEnds, e
    <2>5. CASE ~Wraps(1)
      BY <2>1, <2>2, <2>5 DEF e
    <2> QED BY <2>4, <2>5
  <1>9. ASSUME NEW s \in Streams
        PROVE  /\ rx'[s] \in ReceivingEnds
               /\ rx'[s].packet = kept[s].packet /\ rx'[s].count = kept[s].count
               /\ rx'[s].seqNo = IF Wraps(1) THEN 1 ELSE kept[s].seqNo
               /\ rx'[s].shared = kept[s].shared
    <2> DEFINE e == kept[s]
    <2>1. e \in ReceivingEnds
      BY <1>7
    <2>2. rx'[s] = IF Wraps(1) THEN [e EXCEPT !.seqNo = 1] ELSE e
      <3> HIDE DEF kept
      <3>1. CASE Wraps(1)
        BY <1>2, <3>1 DEF Renumbered
      <3>2. CASE ~Wraps(1)
        BY <1>2, <3>2
      <3> QED BY <3>1, <3>2
    <2> HIDE DEF e, kept
    <2>3. [e EXCEPT !.seqNo = 1]
            = [packet |-> e.packet, count |-> e.count, seqNo |-> 1, shared |-> e.shared,
               already |-> e.already]
      BY <2>1 DEF ReceivingEnds
    <2>4. CASE Wraps(1)
      BY <2>1, <2>2, <2>3, <2>4 DEF ReceivingEnds, e
    <2>5. CASE ~Wraps(1)
      BY <2>1, <2>2, <2>5 DEF e
    <2> QED BY <2>4, <2>5
  <1>10. ASSUME NEW n \in Nodes, NEW s \in Streams
         PROVE  /\ buffer'[n][s] \in Buffers
                /\ buffer'[n][s].data = UseBuffer(n, s, lost).data
                /\ buffer'[n][s].current
                      = IF Wraps(1) THEN FALSE ELSE UseBuffer(n, s, lost).current
                /\ buffer'[n][s].seqNo = UseBuffer(n, s, lost).seqNo
                /\ ~Wraps(1) => buffer'[n][s] = UseBuffer(n, s, lost)
                /\ UseBuffer(n, s, lost) = EmptyBuffer => buffer'[n][s] = EmptyBuffer
    <2> DEFINE e == UseBuffer(n, s, lost)
    <2>1. e \in Buffers
      BY <1>6
    <2>2. buffer'[n][s] = IF Wraps(1) THEN [e EXCEPT !.current = FALSE] ELSE e
      BY <1>3 DEF Aged
    <2> HIDE DEF e
    <2> DEFINE z == [e EXCEPT !.current = FALSE]
    <2>3. ASSUME e = EmptyBuffer
          PROVE /\ z \in Buffers /\ z.data = e.data /\ z.current = FALSE /\ z.seqNo = e.seqNo
                /\ e = EmptyBuffer => z = EmptyBuffer
      <3>1. e \in [data : Maybe, current : BOOLEAN, seqNo : Nat] /\ e.current = FALSE
        BY <2>3 DEF EmptyBuffer, Maybe
      <3>2. z = e
        BY <3>1
      <3> HIDE DEF z
      <3> QED BY <2>3, <3>1, <3>2 DEF Buffers
    <2>4. ASSUME e # EmptyBuffer
          PROVE /\ z \in Buffers /\ z.data = e.data /\ z.current = FALSE /\ z.seqNo = e.seqNo
                /\ e = EmptyBuffer => z = EmptyBuffer
      <3>1. e \in [data : Packets, current : BOOLEAN, seqNo : Nat]
        BY <2>1, <2>4 DEF Buffers
      <3>2. z \in [data : Packets, current : BOOLEAN, seqNo : Nat]
        BY <3>1
      <3>3. z.data = e.data /\ z.current = FALSE /\ z.seqNo = e.seqNo
        BY <3>1
      <3> HIDE DEF z
      <3> QED BY <2>4, <3>2, <3>3 DEF Buffers
    <2>5. /\ z \in Buffers /\ z.data = e.data /\ z.current = FALSE /\ z.seqNo = e.seqNo
          /\ e = EmptyBuffer => z = EmptyBuffer
      <3> HIDE DEF z
      <3> QED BY <2>3, <2>4
    <2> HIDE DEF z
    <2>6. CASE Wraps(1)
      <3>1. buffer'[n][s] = z
        BY <2>2, <2>6 DEF z
      <3> QED BY <2>5, <2>6, <3>1 DEF e
    <2>7. CASE ~Wraps(1)
      BY <2>1, <2>2, <2>7 DEF e
    <2> QED BY <2>6, <2>7
  <1>11. \A s \in Streams : called'[s] = IF EndsPeriod(s) /\ s \in recvCallback
                                         THEN ReceiveStream(s, lost).shared ELSE called[s]
    BY DEF PlaySlot
  <1>12. tx' \in [Streams -> SendingEnds]
    <2>1. DOMAIN tx' = Streams /\ tx' = [s \in Streams |-> tx'[s]]
      BY <1>1 DEF Renumbered
    <2> HIDE DEF sent
    <2> QED BY <1>8, <2>1
  <1>13. rx' \in [Streams -> ReceivingEnds]
    <2>1. DOMAIN rx' = Streams /\ rx' = [s \in Streams |-> rx'[s]]
      <3>1. CASE Wraps(1)
        <4> HIDE DEF kept
        <4> QED BY <1>2, <3>1 DEF Renumbered
      <3>2. CASE ~Wraps(1)
        BY <1>2, <3>2
      <3> QED BY <3>1, <3>2
    <2> HIDE DEF kept
    <2> QED BY <1>9, <2>1
  <1>14. buffer' \in [Nodes -> [Streams -> Buffers]]
    <2>1. buffer' = [n \in Nodes |-> [s \in Streams |-> buffer'[n][s]]]
      <3>1. CASE Wraps(1)
        <4> DEFINE h == held
        <4>1. buffer' = [n \in Nodes |-> [s \in Streams |-> [h[n][s] EXCEPT !.current = FALSE]]]
          BY <1>3, <3>1 DEF Aged
        <4> HIDE DEF h
        <4> QED BY <4>1
      <3>2. CASE ~Wraps(1)
        <4>1. buffer' = [n \in Nodes |-> [s \in Streams |-> UseBuffer(n, s, lost)]]
          BY <1>3, <3>2
        <4> QED BY <4>1
      <3> QED BY <3>1, <3>2
    <2> HIDE DEF held
    <2> QED BY <1>10, <2>1
  <1> HIDE DEF sent, kept, held
  <1> QED BY <1>7, <1>8, <1>9, <1>10, <1>11, <1>12, <1>13, <1>14

LEMMA PlaySlotTyped ==
    ASSUME SchedulesAreWhole, Typed, NEW lost, PlaySlot(lost)
    PROVE  Typed'
  <1>1. /\ tx' \in [Streams -> SendingEnds] /\ rx' \in [Streams -> ReceivingEnds]
        /\ buffer' \in [Nodes -> [Streams -> Buffers]]
        /\ \A s \in Streams :
              called'[s] = IF EndsPeriod(s) /\ s \in recvCallback
                           THEN ReceiveStream(s, lost).shared ELSE called[s]
    BY PlaySlotEffects
  <1>2. /\ scenario' = scenario /\ played' = played /\ currentSchedule' = currentSchedule
        /\ operating' = operating /\ recvCallback' = recvCallback
    BY DEF PlaySlot
  <1>3. slotIndex' \in 0 .. (Slots - 1)
    BY SlotIndexTyped DEF PlaySlot
  <1>4. bufCtr' \in [Nodes -> [Streams -> Nat]]
    <2>1. \A n \in Nodes, s \in Streams : CountTransmission(n, s) \in Nat
      BY DEF CountTransmission, Typed
    <2> QED BY <2>1 DEF PlaySlot
  <1>5. sendCallback' \in [Streams -> Maybe]
    BY DEF PlaySlot, NextAnswers, Maybe
  <1>6. called' \in [Streams -> Maybe] /\ \A s \in Streams \ recvCallback : called'[s] = NoPacket
    <2>1. called' = [s \in Streams |-> called'[s]]
      BY DEF PlaySlot
    <2>2. \A s \in Streams : ReceiveStream(s, lost).shared \in Maybe
      BY ReceiveStreamFacts
    <2>3. /\ called \in [Streams -> Maybe]
          /\ \A s \in Streams \ recvCallback : called[s] = NoPacket
      BY DEF Typed
    <2> QED BY <1>1, <2>1, <2>2, <2>3
  <1>7. /\ scenario \in DOMAIN Scenarios /\ played \subseteq Ids(Scenario)
        /\ currentSchedule = Expanded(Schedule(played))
        /\ operating \subseteq Nodes /\ Nodes \ operating \subseteq Scenario.mayFail
        /\ recvCallback \subseteq Streams
    BY DEF Typed
  <1>8. Scenario' = Scenario /\ Slots' = Slots
    BY <1>2, SameScenario
  <1>9. Schedule(played)' = Schedule(played)
    BY <1>2, <1>8 DEF Schedule
  <1> QED BY <1>1, <1>2, <1>3, <1>4, <1>5, <1>6, <1>7, <1>8, <1>9
          DEF Typed, SendingEnds, ReceivingEnds, Expanded

LEMMA AdvanceTyped ==
    ASSUME Typed, NEW able \in SUBSET Nodes, AdvanceByControl(able)
    PROVE  Typed'
  <1>1. slotIndex \in Nat
    BY ScenarioFacts DEF Typed
  <1>2. ReservedSlots[KindOf(slotIndex)] \in Nat
    BY <1>1, SizeFacts
  <1>3. slotIndex' \in 0 .. (Slots - 1)
    BY <1>2, SlotIndexTyped DEF AdvanceByControl
  <1>4. /\ scenario' = scenario /\ played' = played /\ currentSchedule' = currentSchedule
        /\ bufCtr' = bufCtr /\ buffer' = buffer /\ tx' = tx /\ rx' = rx
        /\ sendCallback' = sendCallback /\ recvCallback' = recvCallback /\ called' = called
        /\ operating' \subseteq Nodes /\ Nodes \ operating' \subseteq Scenario.mayFail
    BY DEF AdvanceByControl, endVars, appVars, callbackVars
  <1>5. Scenario' = Scenario /\ Slots' = Slots
    BY <1>4, SameScenario
  <1>6. Schedule(played)' = Schedule(played)
    BY <1>4, <1>5 DEF Schedule
  <1> QED BY <1>3, <1>4, <1>5, <1>6 DEF Typed, Expanded

\* What the applications do leaves the network as it is.
LEMMA SameNetwork ==
    ASSUME UNCHANGED <<scenario, dataVars>>
    PROVE  /\ scenario' = scenario /\ played' = played /\ currentSchedule' = currentSchedule
           /\ slotIndex' = slotIndex /\ operating' = operating /\ bufCtr' = bufCtr
           /\ buffer' = buffer /\ Scenario' = Scenario /\ Slots' = Slots
           /\ Expanded(Schedule(played))' = Expanded(Schedule(played))
  <1>1. /\ scenario' = scenario /\ played' = played /\ currentSchedule' = currentSchedule
        /\ slotIndex' = slotIndex /\ operating' = operating /\ bufCtr' = bufCtr
        /\ buffer' = buffer
    BY DEF dataVars
  <1>2. Scenario' = Scenario /\ Slots' = Slots
    BY <1>1, SameScenario
  <1>3. Schedule(played)' = Schedule(played)
    BY <1>1, <1>2 DEF Schedule
  <1> QED BY <1>1, <1>2, <1>3 DEF Expanded

LEMMA NetworkKept ==
    ASSUME Typed, UNCHANGED <<scenario, dataVars>>,
           tx' \in [Streams -> SendingEnds], rx' \in [Streams -> ReceivingEnds],
           sendCallback' \in [Streams -> Maybe], called' \in [Streams -> Maybe],
           recvCallback' \subseteq Streams,
           \A s \in Streams \ recvCallback' : called'[s] = NoPacket
    PROVE  Typed'
  BY SameNetwork DEF Typed, SendingEnds, ReceivingEnds

\* Written into the packet of the next period.
LEMMA WriteEffects ==
    ASSUME Typed, NEW s \in Streams, NEW p \in Packets, Write(s, p)
    PROVE  /\ UNCHANGED <<scenario, dataVars, rx, sendCallback, recvCallback, called, flying>>
           /\ tx' \in [Streams -> SendingEnds]
           /\ \A r \in Streams : /\ tx'[r].packet = tx[r].packet /\ tx'[r].count = tx[r].count
                                 /\ tx'[r].seqNo = tx[r].seqNo
           /\ \/ tx' = tx
              \/ /\ tx[s].next = NoPacket /\ tx'[s].next = p /\ sendCallback[s] = NoPacket
                 /\ \A r \in Streams \ {s} : tx'[r] = tx[r]
  <1>1. UNCHANGED <<scenario, dataVars, rx, sendCallback, recvCallback, called, flying>>
    BY DEF Write, callbackVars
  <1>2. tx \in [Streams -> SendingEnds]
    BY DEF Typed, SendingEnds
  <1>3. CASE tx' = tx
    BY <1>1, <1>2, <1>3
  <1>4. CASE tx' # tx
    <2>1. /\ tx[s].next = NoPacket /\ sendCallback[s] = NoPacket
          /\ tx' = [tx EXCEPT ![s].next = p]
      BY <1>4 DEF Write
    <2> DEFINE e == tx[s]
    <2>2. e \in SendingEnds /\ p \in Maybe
      BY <1>2 DEF Maybe
    <2>3. tx' = [tx EXCEPT ![s] = [e EXCEPT !.next = p]]
      BY <2>1
    <2>4. tx'[s] = [e EXCEPT !.next = p] /\ \A r \in Streams \ {s} : tx'[r] = tx[r]
      BY <1>2, <2>3
    <2>5. [e EXCEPT !.next = p] = [next |-> p, packet |-> e.packet, count |-> e.count, seqNo |-> e.seqNo]
      BY <2>2 DEF SendingEnds
    <2>6. [e EXCEPT !.next = p] \in SendingEnds
      BY <2>2, <2>5 DEF SendingEnds
    <2>7. tx' \in [Streams -> SendingEnds]
      BY <1>2, <2>3, <2>6
    <2>8. tx'[s].next = p /\ tx'[s].packet = e.packet /\ tx'[s].count = e.count /\ tx'[s].seqNo = e.seqNo
      BY <2>4, <2>5
    <2> QED BY <1>1, <2>1, <2>4, <2>7, <2>8
  <1> QED BY <1>3, <1>4

\* Read off the shelf.
LEMMA ReadEffects ==
    ASSUME Typed, NEW s \in Streams, Read(s)
    PROVE  /\ UNCHANGED <<scenario, dataVars, tx, sendCallback, recvCallback, called, flying>>
           /\ rx' \in [Streams -> ReceivingEnds] /\ s \notin recvCallback
           /\ \A r \in Streams : /\ rx'[r].packet = rx[r].packet /\ rx'[r].count = rx[r].count
                                 /\ rx'[r].seqNo = rx[r].seqNo
                                 /\ rx'[r].shared = rx[r].shared
                                    \/ (r = s /\ rx'[r].shared = NoPacket)
  <1>1. UNCHANGED <<scenario, dataVars, tx, sendCallback, recvCallback, called, flying>>
        /\ s \notin recvCallback
    BY DEF Read, callbackVars
  <1>2. rx \in [Streams -> ReceivingEnds]
    BY DEF Typed, ReceivingEnds
  <1>3. CASE rx' = rx
    BY <1>1, <1>2, <1>3
  <1>4. CASE rx' # rx
    <2>1. rx' = [rx EXCEPT ![s].already = TRUE, ![s].shared = NoPacket]
      BY <1>4 DEF Read
    <2> DEFINE e == rx[s]
               f == [e EXCEPT !.already = TRUE, !.shared = NoPacket]
    <2>2. e \in ReceivingEnds /\ NoPacket \in Maybe
      BY <1>2 DEF Maybe
    <2>3. rx' = [rx EXCEPT ![s] = f]
      BY <1>2, <2>1
    <2>4. /\ f.packet = e.packet /\ f.count = e.count /\ f.seqNo = e.seqNo /\ f.shared = NoPacket
          /\ f \in ReceivingEnds
      BY <2>2 DEF ReceivingEnds
    <2> HIDE DEF f
    <2>5. rx'[s] = f /\ \A r \in Streams \ {s} : rx'[r] = rx[r]
      BY <1>2, <2>3
    <2>6. rx' \in [Streams -> ReceivingEnds]
      BY <1>2, <2>3, <2>4
    <2> QED BY <1>1, <2>4, <2>5, <2>6
  <1> QED BY <1>3, <1>4

\* A stream leaves the schedule when the slots begin again.
LEMMA RemoveEffects ==
    ASSUME Typed, NEW s \in Streams, RemoveStream(s)
    PROVE  /\ UNCHANGED <<scenario, slotIndex, operating, sendCallback, recvCallback, flying>>
           /\ slotIndex = 0 /\ s \in played /\ played' = played \ {s}
           /\ currentSchedule' = Expanded(Schedule(played))'
           /\ bufCtr' \in [Nodes -> [Streams -> Nat]]
           /\ \A n \in Nodes, r \in Streams : bufCtr'[n][r] = 0
           /\ buffer' \in [Nodes -> [Streams -> Buffers]]
           /\ \A n \in Nodes, r \in Streams : buffer'[n][r] = EmptyBuffer
           /\ tx' \in [Streams -> SendingEnds] /\ rx' \in [Streams -> ReceivingEnds]
           /\ \A r \in Streams :
                 /\ tx'[r].count = 0 /\ tx'[r].next = tx[r].next /\ tx'[r].packet = tx[r].packet
                 /\ tx'[r].seqNo = tx[r].seqNo
                 /\ rx'[r].count = 0 /\ rx'[r].packet = rx[r].packet /\ rx'[r].seqNo = rx[r].seqNo
                 /\ rx'[r].shared = rx[r].shared
           /\ called' = [called EXCEPT ![s] = NoPacket]
  <1>1. /\ UNCHANGED <<scenario, slotIndex, operating, sendCallback, recvCallback, flying>>
        /\ slotIndex = 0 /\ s \in played /\ played' = played \ {s}
        /\ currentSchedule' = Expanded(Schedule(played'))
        /\ bufCtr' = [n \in Nodes |-> [r \in Streams |-> 0]]
        /\ buffer' = [n \in Nodes |-> [r \in Streams |-> EmptyBuffer]]
        /\ tx' = [r \in Streams |-> [tx[r] EXCEPT !.count = 0]]
        /\ rx' = [r \in Streams |-> [rx[r] EXCEPT !.count = 0]]
        /\ called' = [called EXCEPT ![s] = NoPacket]
    BY DEF RemoveStream, CallsWithNothing
  <1>2. Schedule(played') = Schedule(played)'
    BY <1>1, SameScenario DEF Schedule
  <1>3. currentSchedule' = Expanded(Schedule(played))'
    BY <1>1, <1>2 DEF Expanded
  <1>4. EmptyBuffer \in Buffers
    BY DEF Buffers
  <1>5. ASSUME NEW r \in Streams
        PROVE  /\ tx'[r] \in SendingEnds
               /\ tx'[r].count = 0 /\ tx'[r].next = tx[r].next /\ tx'[r].packet = tx[r].packet
               /\ tx'[r].seqNo = tx[r].seqNo
    <2> DEFINE e == tx[r]
               f == [e EXCEPT !.count = 0]
    <2>1. e \in SendingEnds
      BY DEF Typed, SendingEnds
    <2>2. tx'[r] = f
      BY <1>1
    <2>3. /\ f \in SendingEnds /\ f.count = 0 /\ f.next = e.next /\ f.packet = e.packet
          /\ f.seqNo = e.seqNo
      BY <2>1 DEF SendingEnds
    <2> HIDE DEF f
    <2> QED BY <2>2, <2>3
  <1>6. ASSUME NEW r \in Streams
        PROVE  /\ rx'[r] \in ReceivingEnds
               /\ rx'[r].count = 0 /\ rx'[r].packet = rx[r].packet /\ rx'[r].seqNo = rx[r].seqNo
               /\ rx'[r].shared = rx[r].shared
    <2> DEFINE e == rx[r]
               f == [e EXCEPT !.count = 0]
    <2>1. e \in ReceivingEnds
      BY DEF Typed, ReceivingEnds
    <2>2. rx'[r] = f
      BY <1>1
    <2>3. /\ f \in ReceivingEnds /\ f.count = 0 /\ f.packet = e.packet /\ f.seqNo = e.seqNo
          /\ f.shared = e.shared
      BY <2>1 DEF ReceivingEnds
    <2> HIDE DEF f
    <2> QED BY <2>2, <2>3
  <1>7. tx' \in [Streams -> SendingEnds]
    <2>1. tx' = [r \in Streams |-> tx'[r]]
      BY <1>1
    <2> QED BY <1>5, <2>1
  <1>8. rx' \in [Streams -> ReceivingEnds]
    <2>1. rx' = [r \in Streams |-> rx'[r]]
      BY <1>1
    <2> QED BY <1>6, <2>1
  <1>9. bufCtr' \in [Nodes -> [Streams -> Nat]] /\ buffer' \in [Nodes -> [Streams -> Buffers]]
    BY <1>1, <1>4
  <1>10. \A n \in Nodes, r \in Streams : bufCtr'[n][r] = 0 /\ buffer'[n][r] = EmptyBuffer
    BY <1>1
  <1> QED BY <1>1, <1>3, <1>5, <1>6, <1>7, <1>8, <1>9, <1>10

-----------------------------------------------------------------------------
(***************************************************************************)
(* Every step keeps the types.                                             *)
(***************************************************************************)
\* A step of an application.
Calm ==
    /\ UNCHANGED <<scenario, dataVars, flying>>
    /\ tx' \in [Streams -> SendingEnds] /\ rx' \in [Streams -> ReceivingEnds]
    /\ \A r \in Streams :
          /\ tx'[r].packet = tx[r].packet /\ tx'[r].count = tx[r].count /\ tx'[r].seqNo = tx[r].seqNo
          /\ rx'[r].packet = rx[r].packet /\ rx'[r].count = rx[r].count /\ rx'[r].seqNo = rx[r].seqNo
    /\ sendCallback' \in [Streams -> Maybe] /\ called' \in [Streams -> Maybe]
    /\ recvCallback' \subseteq Streams
    /\ \A s \in Streams \ recvCallback' : called'[s] = NoPacket

LEMMA CallbackFacts ==
    ASSUME Typed
    PROVE  /\ tx \in [Streams -> SendingEnds] /\ rx \in [Streams -> ReceivingEnds]
           /\ sendCallback \in [Streams -> Maybe] /\ called \in [Streams -> Maybe]
           /\ recvCallback \subseteq Streams /\ \A s \in Streams \ recvCallback : called[s] = NoPacket
  BY DEF Typed, SendingEnds, ReceivingEnds

LEMMA CalmSteps ==
    ASSUME Typed, NEW s \in Streams
    PROVE  /\ \A p \in Packets : Write(s, p) \/ SetSendCallback(s, p) => Calm
           /\ Read(s) \/ SetReceiveCallback(s) => Calm
           /\ \A end \in {"tx", "rx"} : Close(s, end) => Calm
           /\ UNCHANGED vars => Calm
  <1>1. ASSUME NEW p \in Packets, Write(s, p) PROVE Calm
    BY <1>1, WriteEffects, CallbackFacts DEF Calm
  <1>2. ASSUME NEW p \in Packets, SetSendCallback(s, p) PROVE Calm
    <2>1. /\ UNCHANGED <<scenario, dataVars, tx, rx, flying, recvCallback, called>>
          /\ sendCallback' = [sendCallback EXCEPT ![s] = p]
      BY <1>2 DEF SetSendCallback, endVars
    <2>2. sendCallback' \in [Streams -> Maybe]
      BY <2>1, CallbackFacts DEF Maybe
    <2> QED BY <2>1, <2>2, CallbackFacts DEF Calm
  <1>3. ASSUME Read(s) PROVE Calm
    BY <1>3, ReadEffects, CallbackFacts DEF Calm
  <1>4. ASSUME SetReceiveCallback(s) PROVE Calm
    <2>1. /\ UNCHANGED <<scenario, dataVars, tx, rx, flying, sendCallback, called>>
          /\ recvCallback' = recvCallback \cup {s}
      BY <1>4 DEF SetReceiveCallback, endVars
    <2> QED BY <2>1, CallbackFacts DEF Calm
  <1>5. ASSUME NEW end \in {"tx", "rx"}, Close(s, end) PROVE Calm
    <2>1. /\ UNCHANGED <<scenario, dataVars, tx, rx, flying, sendCallback, recvCallback>>
          /\ called' = called \/ called' = [called EXCEPT ![s] = NoPacket]
      BY <1>5 DEF Close, endVars, CallsWithNothing
    <2>2. /\ called' \in [Streams -> Maybe]
          /\ \A r \in Streams : called'[r] = called[r] \/ called'[r] = NoPacket
      BY <2>1, CallbackFacts DEF Maybe
    <2> QED BY <2>1, <2>2, CallbackFacts DEF Calm
  <1>6. ASSUME UNCHANGED vars PROVE Calm
    BY <1>6, CallbackFacts DEF Calm, vars, endVars, appVars, callbackVars
  <1> QED BY <1>1, <1>2, <1>3, <1>4, <1>5, <1>6

LEMMA StepCases ==
    ASSUME Typed, [Next]_vars
    PROVE  \/ \E lost \in SUBSET {e.rx : e \in Hops} : PlaySlot(lost)
           \/ \E able \in SUBSET Nodes : AdvanceByControl(able)
           \/ \E s \in Streams : RemoveStream(s)
           \/ Calm
  <1>1. CASE UNCHANGED vars
    <2>1. Calm
      BY <1>1, CallbackFacts DEF Calm, vars, endVars, appVars, callbackVars
    <2> QED BY <2>1
  <1>2. CASE NetworkStep
    BY <1>2 DEF NetworkStep
  <1>3. CASE \E s \in Streams, p \in Packets : Write(s, p) \/ SetSendCallback(s, p)
    BY <1>3, CalmSteps
  <1>4. CASE \E s \in Streams : Read(s) \/ SetReceiveCallback(s) \/ RemoveStream(s)
    BY <1>4, CalmSteps
  <1>5. CASE \E s \in Streams, end \in {"tx", "rx"} : Close(s, end)
    BY <1>5, CalmSteps
  <1> QED BY <1>1, <1>2, <1>3, <1>4, <1>5 DEF Next

LEMMA TypedStep ==
    ASSUME SchedulesAreWhole, Typed, [Next]_vars
    PROVE  Typed'
  <1>1. CASE \E lost \in SUBSET {e.rx : e \in Hops} : PlaySlot(lost)
    BY <1>1, PlaySlotTyped
  <1>2. CASE \E able \in SUBSET Nodes : AdvanceByControl(able)
    BY <1>2, AdvanceTyped
  <1>3. CASE \E s \in Streams : RemoveStream(s)
    <2> PICK s \in Streams : RemoveStream(s)
      BY <1>3
    <2>1. /\ UNCHANGED <<scenario, slotIndex, operating, sendCallback, recvCallback, flying>>
          /\ s \in played /\ played' = played \ {s}
          /\ currentSchedule' = Expanded(Schedule(played))'
          /\ bufCtr' \in [Nodes -> [Streams -> Nat]]
          /\ buffer' \in [Nodes -> [Streams -> Buffers]]
          /\ tx' \in [Streams -> SendingEnds] /\ rx' \in [Streams -> ReceivingEnds]
          /\ called' = [called EXCEPT ![s] = NoPacket]
      BY RemoveEffects
    <2>2. Scenario' = Scenario /\ Slots' = Slots
      BY <2>1, SameScenario
    <2>3. /\ called' \in [Streams -> Maybe]
          /\ \A r \in Streams : called'[r] = called[r] \/ called'[r] = NoPacket
      BY <2>1, CallbackFacts DEF Maybe
    <2>4. played' \subseteq Ids(Scenario)
      BY <2>1 DEF Typed
    <2> QED BY <2>1, <2>2, <2>3, <2>4 DEF Typed, SendingEnds, ReceivingEnds
  <1>4. CASE Calm
    BY <1>4, NetworkKept DEF Calm
  <1> QED BY <1>1, <1>2, <1>3, <1>4, StepCases

-----------------------------------------------------------------------------
(***************************************************************************)
(* The slot and the period that come next.                                 *)
(***************************************************************************)
LEMMA SlotTurns ==
    ASSUME Typed, NEW s \in Ids(Scenario), scenario' = scenario, slotIndex' = AfterSlot(1)
    PROVE  IF Phase(s) + 1 = PeriodOf(Scenario, s)
           THEN Phase(s)' = 0 /\ Round(s)' = IF Wraps(1) THEN 1 ELSE Round(s) + 1
           ELSE Phase(s)' = Phase(s) + 1 /\ Round(s)' = Round(s) /\ ~Wraps(1)
  <1> DEFINE P == PeriodOf(Scenario, s)
             n == slotIndex
  <1>1. P \in Nat \ {0} /\ n \in Nat /\ Scenario \in ToSet(Scenarios)
    BY PhaseFacts, ScenarioFacts DEF Typed
  <1>2. Slots = SlotsOf(Scenario) /\ Slots \in Nat \ {0} /\ n < Slots
    BY ScenarioFacts DEF Typed
  <1>3. PICK m \in Nat \ {0} : Slots = P * m
    BY <1>1, <1>2, IdFacts
  <1>4. Phase(s) = n % P /\ Round(s) = (n \div P) + 1
    BY DEF Phase, Round
  <1>5. Phase(s)' = slotIndex' % P /\ Round(s)' = (slotIndex' \div P) + 1
    BY SameScenario DEF Phase, Round
  <1>6. IF (n % P) + 1 = P THEN (n + 1) % P = 0 /\ (n + 1) \div P = (n \div P) + 1
                           ELSE (n + 1) % P = (n % P) + 1 /\ (n + 1) \div P = n \div P
    BY <1>1, NextNumber
  <1>7. Wraps(1) <=> n + 1 >= Slots
    BY DEF Wraps
  <1>8. slotIndex' = (n + 1) % Slots
    BY DEF AfterSlot
  <1> HIDE DEF P, n
  <1>9. CASE Wraps(1)
    <2>1. n + 1 = Slots
      BY <1>1, <1>2, <1>7, <1>9
    <2>2. n + 1 = P * m + 0
      BY <1>1, <1>3, <2>1
    <2>3. (n + 1) % P = 0
      <3>1. n + 1 \in Int /\ m \in Int /\ 0 \in 0 .. (P - 1)
        BY <1>1
      <3> QED BY <1>1, <2>2, <3>1, DivisionUnique
    <2>4. n % P \in Nat
      BY <1>1, Division
    <2>5. (n % P) + 1 = P
      BY <1>6, <2>3, <2>4
    <2>6. n + 1 = Slots * 1 + 0 /\ 0 = P * 0 + 0
      BY <1>1, <1>2, <2>1
    <2>7. slotIndex' = 0
      BY <1>1, <1>2, <1>8, <2>6, DivisionUnique
    <2>8. slotIndex' % P = 0 /\ slotIndex' \div P = 0
      BY <1>1, <2>6, <2>7, DivisionUnique
    <2> QED BY <1>4, <1>5, <1>9, <2>5, <2>8 DEF P
  <1>10. CASE ~Wraps(1)
    <2>1. n + 1 = Slots * 0 + (n + 1) /\ n + 1 \in 0 .. (Slots - 1)
      BY <1>1, <1>2, <1>7, <1>10
    <2>2. slotIndex' = n + 1
      BY <1>1, <1>2, <1>8, <2>1, DivisionUnique
    <2>3. n \div P \in Nat
      BY <1>1, Division
    <2> QED BY <1>4, <1>5, <1>6, <1>10, <2>2, <2>3 DEF P
  <1> QED BY <1>9, <1>10

\* The control slots are of no period's concern.
LEMMA ControlTurns ==
    ASSUME SchedulesAreWhole, Typed, NEW s \in Ids(Scenario), NEW able, AdvanceByControl(able)
    PROVE  /\ Phase(s)' \in Nat /\ Round(s)' = Round(s)
           /\ \A T \in SUBSET Places(Scenario, s) :
                 Gone(Scenario, T, Phase(s)') = Gone(Scenario, T, Phase(s))
  <1> DEFINE c == Scenario
             P == PeriodOf(c, s)
             p == StreamIn(c, s).period
             d == SlotsPerTile
             n == slotIndex
             k == ReservedSlots[KindOf(slotIndex)]
  <1>1. /\ c \in ToSet(Scenarios) /\ n \in Nat /\ n \in 0 .. (Slots - 1) /\ Slots = SlotsOf(c)
        /\ Slots \in Nat \ {0}
    BY ScenarioFacts DEF Typed
  <1>2. d \in Nat \ {0} /\ p \in Nat \ {0} /\ P = p * d /\ P \in Nat \ {0}
    BY <1>1, SizeFacts, IdFacts DEF PeriodOf
  <1>3. k \in 1 .. (d - 1)
    BY <1>1, SizeFacts
  <1>4. n % d = 0 /\ slotIndex' = (n + k) % Slots /\ scenario' = scenario
    BY DEF AdvanceByControl, InDataSlot, AfterSlot
  <1>5. Slots = c.schedule.tiles * d /\ c.schedule.tiles \in Nat \ {0}
    BY <1>1, DataAssumption DEF SlotsOf, ScheduleSlots
  <1>6. Phase(s)' = slotIndex' % P /\ Round(s)' = (slotIndex' \div P) + 1
    BY <1>4, SameScenario DEF Phase, Round
  <1>7. Phase(s) = n % P /\ Round(s) = (n \div P) + 1
    BY DEF Phase, Round
  <1>8. KindOf(n) = Superframe[((n \div d) % Len(Superframe)) + 1]
        /\ \A j \in Nat : KindOf(n + j) = Superframe[(((n + j) \div d) % Len(Superframe)) + 1]
    BY DEF KindOf
  <1>9. ControlIsSpared(c.schedule)
    BY <1>1 DEF SchedulesAreWhole
  <1> DEFINE t == c.schedule.tiles
  <1>10. \A j \in 0 .. (d - 1) :
            /\ (n + j) % d = j /\ (n + j) \div d = n \div d
            /\ (n + j) % P = (n % P) + j /\ (n + j) \div P = n \div P
            /\ (n + j) % Slots = (n % Slots) + j /\ (n % Slots) + d <= Slots
    <2> HIDE DEF c, P, p, d, n, k, t
    <2> TAKE j \in 0 .. (d - 1)
    <2>0. d \in Nat \ {0} /\ p \in Nat \ {0} /\ n \in Nat /\ n % d = 0
      BY <1>1, <1>2, <1>4
    <2>1. P % d = 0 /\ P \in Nat \ {0}
      BY <1>2, WholeTiles
    <2>2. Slots % d = 0 /\ Slots \in Nat \ {0}
      <3>1. t \in Nat \ {0} /\ Slots = t * d
        BY <1>5 DEF c, d, t
      <3> QED BY <1>1, <2>0, <3>1, WholeTiles
    <2>3. PICK x \in Nat : x = n
      BY <2>0
    <2>4. PICK y \in Nat \ {0} : y = d
      BY <2>0
    <2>5. PICK z \in Nat \ {0} : z = P
      BY <2>1
    <2>6. PICK u \in Nat \ {0} : u = Slots
      BY <2>2
    <2>7. x % y = 0 /\ z % y = 0 /\ u % y = 0 /\ j \in 0 .. (y - 1)
      BY <2>0, <2>1, <2>2, <2>3, <2>4, <2>5, <2>6
    <2>8. PICK i \in 0 .. (y - 1) : i = j
      BY <2>7
    <2>9. /\ (x + i) % y = i /\ (x + i) \div y = x \div y
          /\ (x + i) % z = (x % z) + i /\ (x + i) \div z = x \div z
      <3>1. x % y = 0 /\ z % y = 0
        BY <2>7
      <3>2. (x + i) % z = (x % z) + i /\ (x + i) \div z = x \div z
        BY <3>1, WithinTile
      <3>3. (x + i) % y = i /\ (x + i) \div y = x \div y
        BY <3>1, WithinTile
      <3> QED BY <3>2, <3>3
    <2>10. (x % u) + y <= u /\ (x + i) % u = (x % u) + i
      BY <2>7, WithinTile
    <2> QED BY <2>3, <2>4, <2>5, <2>6, <2>8, <2>9, <2>10
  <1>11. n % Slots = n
    <2> HIDE DEF n
    <2>1. n = Slots * 0 + n
      BY <1>1
    <2> QED BY <1>1, <2>1, DivisionUnique
  <1>12. n + d <= Slots /\ slotIndex' = n + k
    <2>1. k \in 0 .. (d - 1) /\ 0 \in 0 .. (d - 1)
      BY <1>2, <1>3
    <2> HIDE DEF c, P, p, d, n, k, t
    <2> QED BY <1>4, <1>10, <1>11, <2>1
  <1>13. ASSUME NEW T \in SUBSET Places(c, s)
         PROVE  Gone(c, T, Phase(s) + k) = Gone(c, T, Phase(s))
    <2>1. ASSUME NEW i \in T PROVE Elems(c)[i].offset < Phase(s) + k => Elems(c)[i].offset < Phase(s)
      <3> DEFINE o == Elems(c)[i].offset
                 j == o - Phase(s)
      <3>1. i \in Places(c, s) /\ i \in DOMAIN Elems(c) /\ o \in Nat
        BY <1>1, PlaceFacts
      <3>2. Phase(s) \in Nat
        BY PhaseFacts
      <3> SUFFICES ASSUME o < Phase(s) + k, ~ (o < Phase(s)) PROVE FALSE
        OBVIOUS
      <3>3. j \in 0 .. (d - 1) /\ j < k
        BY <1>2, <1>3, <3>1, <3>2
      <3>4. (n + j) % P = o
        <4>1. (n + j) % P = (n % P) + j
          BY <1>10, <3>3
        <4> QED BY <1>7, <3>1, <3>2, <4>1
      <3>5. n + j \in 0 .. (Slots - 1) /\ n + j \in Nat
        BY <1>1, <1>2, <1>3, <1>12, <3>3
      <3>6. Occurs(Elems(c)[i], n + j)
        BY <1>1, <3>1, <3>4, <3>5, OccursAt
      <3>7. KindOf(n + j) = KindOf(n)
        <4>1. j \in Nat /\ (n + j) \div d = n \div d
          BY <1>10, <3>3
        <4> HIDE DEF j, n, d
        <4> QED BY <1>8, <4>1
      <3>8. (n + j) % d = j
        BY <1>10, <3>3
      <3>9. (n + j) % SlotsPerTile >= ReservedSlots[KindOf(n + j)]
        <4>1. Elems(c)[i] \in ToSet(c.schedule.elements)
          BY <1>1, <3>1, ElementFacts DEF Elems
        <4>2. n + j \in 0 .. (ScheduleSlots(c.schedule) - 1)
          BY <1>1, <3>5 DEF SlotsOf
        <4> HIDE DEF c, n, j
        <4> QED BY <1>9, <3>6, <4>1, <4>2 DEF ControlIsSpared
      <3>10. j >= k
        BY <3>7, <3>8, <3>9
      <3> QED BY <1>3, <3>3, <3>10
    <2>2. \A i \in T : Elems(c)[i].offset < Phase(s) => Elems(c)[i].offset < Phase(s) + k
      <3>1. Phase(s) \in Nat /\ \A i \in T : Elems(c)[i].offset \in Nat
        BY <1>1, PhaseFacts, PlaceFacts
      <3> QED BY <1>3, <3>1
    <2> HIDE DEF k
    <2> QED BY <2>1, <2>2 DEF Gone
  <1>14. Phase(s)' = Phase(s) + k /\ Round(s)' = Round(s)
    <2>1. k \in 0 .. (d - 1)
      BY <1>3
    <2> HIDE DEF c, P, p, d, n, k, t
    <2> QED BY <1>6, <1>7, <1>10, <1>12, <2>1
  <1>15. Phase(s) + k \in Nat
    BY <1>3, PhaseFacts
  <1> HIDE DEF k
  <1> QED BY <1>13, <1>14, <1>15

-----------------------------------------------------------------------------
(***************************************************************************)
(* Both ends count the copies of every period.                             *)
(***************************************************************************)
\* An end of the stream, whose hops are at the places T, has counted those that are gone.
InCount(T, s, count, seqNo) ==
    /\ count = Counted(Scenario, T, Phase(s))
    /\ seqNo = IF Gone(Scenario, T, Phase(s)) = T THEN Round(s) + 1 ELSE Round(s)

InStep ==
    \A s \in played : /\ InCount(Firsts(Scenario, s), s, tx[s].count, tx[s].seqNo)
                      /\ InCount(Lasts(Scenario, s), s, rx[s].count, rx[s].seqNo)

\* The hops of an end take different slots, as many as the redundancy says.
LEMMA HopsOfEnds ==
    ASSUME SchedulesAreWhole, Typed, NEW s \in played
    PROVE  /\ s \in Ids(Scenario) /\ Scenario \in ToSet(Scenarios)
           /\ \A T \in {Firsts(Scenario, s), Lasts(Scenario, s)} :
                 /\ T \in SUBSET Places(Scenario, s) /\ T # {}
                 /\ Cardinality(T) = RedundancyCount(s)
                 /\ \A i, j \in T : Elems(Scenario)[i].offset = Elems(Scenario)[j].offset => j = i
  <1> DEFINE c == Scenario
  <1>1. c \in ToSet(Scenarios) /\ s \in Ids(c) /\ StreamInfo(s) = StreamIn(c, s)
    BY ScenarioFacts DEF Typed
  <1>2. RedundancyCount(s) = Copies[StreamIn(c, s).redundancy]
    BY <1>1 DEF RedundancyCount
  <1>3. /\ Firsts(c, s) # {} /\ Cardinality(Firsts(c, s)) = RedundancyCount(s)
        /\ Lasts(c, s) # {} /\ Cardinality(Lasts(c, s)) = RedundancyCount(s)
    BY <1>1, <1>2, CopyFacts
  <1>4. Firsts(c, s) \in SUBSET Places(c, s) /\ Lasts(c, s) \in SUBSET Places(c, s)
    BY DEF Firsts, Lasts
  <1>5. ASSUME NEW i \in Firsts(c, s), NEW j \in Firsts(c, s), Elems(c)[i].offset = Elems(c)[j].offset
        PROVE  j = i
    <2>1. /\ i \in Places(c, s) /\ j \in Places(c, s) /\ Elems(c)[i].tx = Elems(c)[i].stream.src
          /\ Elems(c)[j].tx = Elems(c)[j].stream.src
      BY DEF Firsts
    <2>2. Elems(c)[i].stream = Elems(c)[j].stream
      BY <1>1, <2>1, PlaceFacts
    <2>3. Elems(c)[i].tx \in {Elems(c)[i].tx, Elems(c)[i].rx}
          /\ Elems(c)[i].tx \in {Elems(c)[j].tx, Elems(c)[j].rx}
      BY <2>1, <2>2
    <2> QED BY <1>1, <1>5, <2>1, <2>3, NodeIsFreeAt
  <1>6. ASSUME NEW i \in Lasts(c, s), NEW j \in Lasts(c, s), Elems(c)[i].offset = Elems(c)[j].offset
        PROVE  j = i
    <2>1. /\ i \in Places(c, s) /\ j \in Places(c, s) /\ Elems(c)[i].rx = Elems(c)[i].stream.dst
          /\ Elems(c)[j].rx = Elems(c)[j].stream.dst
      BY DEF Lasts
    <2>2. Elems(c)[i].stream = Elems(c)[j].stream
      BY <1>1, <2>1, PlaceFacts
    <2>3. Elems(c)[i].rx \in {Elems(c)[i].tx, Elems(c)[i].rx}
          /\ Elems(c)[i].rx \in {Elems(c)[j].tx, Elems(c)[j].rx}
      BY <2>1, <2>2
    <2> QED BY <1>1, <1>6, <2>1, <2>3, NodeIsFreeAt
  <1> QED BY <1>1, <1>3, <1>4, <1>5, <1>6

\* The end counts the copy of this slot, if there is one.
Due(T, s) == \E i \in T : Elems(Scenario)[i].offset = Phase(s)

LEMMA EndCounts ==
    ASSUME SchedulesAreWhole, Typed, NEW s \in played,
           NEW T \in {Firsts(Scenario, s), Lasts(Scenario, s)},
           NEW count, NEW seqNo, InCount(T, s, count, seqNo),
           NEW count2, NEW seqNo2,
           Due(T, s) => /\ count2 = IF count + 1 >= RedundancyCount(s) THEN 0 ELSE count + 1
                        /\ seqNo2 = IF count + 1 >= RedundancyCount(s) THEN seqNo + 1 ELSE seqNo,
           ~Due(T, s) => count2 = count /\ seqNo2 = seqNo
    PROVE  /\ count2 = Counted(Scenario, T, Phase(s) + 1)
           /\ seqNo2 = IF Gone(Scenario, T, Phase(s) + 1) = T THEN Round(s) + 1 ELSE Round(s)
           /\ Due(T, s) => Gone(Scenario, T, Phase(s)) # T
           /\ Due(T, s) => (count + 1 >= RedundancyCount(s) <=> Gone(Scenario, T, Phase(s) + 1) = T)
           /\ Gone(Scenario, T, Phase(s) + 1) # Gone(Scenario, T, Phase(s)) => Due(T, s)
  <1> DEFINE c == Scenario
             x == Phase(s)
  <1>1. c \in ToSet(Scenarios) /\ s \in Ids(c)
    BY HopsOfEnds
  <1>2. /\ T \in SUBSET Places(c, s) /\ Cardinality(T) = RedundancyCount(s)
        /\ \A i, j \in T : Elems(c)[i].offset = Elems(c)[j].offset => j = i
    BY HopsOfEnds
  <1>3. x \in Nat /\ Round(s) \in Nat
    BY <1>1, PhaseFacts
  <1>4. count = Counted(c, T, x) /\ seqNo = IF Gone(c, T, x) = T THEN Round(s) + 1 ELSE Round(s)
    BY DEF InCount
  <1>5. CASE Due(T, s)
    <2>1. PICK i \in T : Elems(c)[i].offset = x
      BY <1>5 DEF Due
    <2>2. \A j \in T : Elems(c)[j].offset = x => j = i
      BY <1>2, <2>1
    <2> HIDE DEF c, x
    <2>3. /\ Gone(c, T, x) # T /\ Gone(c, T, x + 1) = Gone(c, T, x) \cup {i}
          /\ Counted(c, T, x) + 1 >= Cardinality(T) <=> Gone(c, T, x + 1) = T
          /\ Counted(c, T, x + 1)
               = IF Counted(c, T, x) + 1 >= Cardinality(T) THEN 0 ELSE Counted(c, T, x) + 1
      BY <1>1, <1>2, <1>3, <2>1, <2>2, CountOne
    <2> QED BY <1>2, <1>4, <1>5, <2>3 DEF c, x
  <1>6. CASE ~Due(T, s)
    <2>1. \A j \in T : Elems(c)[j].offset # x
      BY <1>6 DEF Due
    <2> HIDE DEF c, x
    <2>2. Gone(c, T, x + 1) = Gone(c, T, x) /\ Counted(c, T, x + 1) = Counted(c, T, x)
      BY <1>1, <1>2, <1>3, <2>1, CountNone
    <2> QED BY <1>4, <1>6, <2>2 DEF c, x
  <1> QED BY <1>5, <1>6

\* The copies that have been counted when the next slot begins.
LEMMA CountTurns ==
    ASSUME SchedulesAreWhole, Typed, NEW s \in played, scenario' = scenario, slotIndex' = AfterSlot(1),
           NEW T \in {Firsts(Scenario, s), Lasts(Scenario, s)}, NEW count, NEW seqNo,
           count = Counted(Scenario, T, Phase(s) + 1),
           seqNo = IF Gone(Scenario, T, Phase(s) + 1) = T THEN Round(s) + 1 ELSE Round(s)
    PROVE  /\ count = Counted(Scenario, T, Phase(s)')
           /\ (IF Wraps(1) THEN 1 ELSE seqNo)
                = IF Gone(Scenario, T, Phase(s)') = T THEN Round(s)' + 1 ELSE Round(s)'
  <1> DEFINE c == Scenario
             x == Phase(s)
             P == PeriodOf(c, s)
  <1>1. c \in ToSet(Scenarios) /\ s \in Ids(c) /\ T \in SUBSET Places(c, s) /\ T # {}
    BY HopsOfEnds
  <1>2. x \in Nat /\ P \in Nat \ {0} /\ Round(s) \in Nat
    BY <1>1, PhaseFacts
  <1>3. CASE x + 1 = P
    <2>1. Phase(s)' = 0 /\ Round(s)' = IF Wraps(1) THEN 1 ELSE Round(s) + 1
      BY <1>1, <1>3, SlotTurns
    <2>2. Counted(c, T, 0) = 0 /\ Counted(c, T, P) = 0
      BY <1>1, CountRound
    <2>3. Gone(c, T, 0) = {} /\ Gone(c, T, P) = T
      <3> HIDE DEF c
      <3>1. Gone(c, T, 0) = {}
        BY <1>1, PlaceFacts DEF Gone
      <3>2. \A i \in T : Elems(c)[i].offset < P
        BY <1>1, PlaceFacts
      <3>3. Gone(c, T, P) = T
        BY <3>2 DEF Gone
      <3> QED BY <3>1, <3>3
    <2> HIDE DEF c, P
    <2> QED BY <1>1, <1>3, <2>1, <2>2, <2>3 DEF c
  <1>4. CASE x + 1 # P
    <2>1. Phase(s)' = x + 1 /\ Round(s)' = Round(s) /\ ~Wraps(1)
      BY <1>1, <1>4, SlotTurns
    <2> QED BY <2>1
  <1> QED BY <1>3, <1>4

\* What a slot brings both ends: which copy it is, and how far the ends have counted.
LEMMA SlotCounts ==
    ASSUME SchedulesAreWhole, Typed, InStep, NEW s \in played, NEW lost, PlaySlot(lost)
    PROVE  /\ \E count, seqNo :
                 /\ count = Counted(Scenario, Firsts(Scenario, s), Phase(s) + 1)
                 /\ seqNo = IF Gone(Scenario, Firsts(Scenario, s), Phase(s) + 1) = Firsts(Scenario, s)
                            THEN Round(s) + 1 ELSE Round(s)
                 /\ tx'[s].count = count /\ tx'[s].seqNo = IF Wraps(1) THEN 1 ELSE seqNo
           /\ \E count, seqNo :
                 /\ count = Counted(Scenario, Lasts(Scenario, s), Phase(s) + 1)
                 /\ seqNo = IF Gone(Scenario, Lasts(Scenario, s), Phase(s) + 1) = Lasts(Scenario, s)
                            THEN Round(s) + 1 ELSE Round(s)
                 /\ rx'[s].count = count /\ rx'[s].seqNo = IF Wraps(1) THEN 1 ELSE seqNo
           /\ Sends(s) => Gone(Scenario, Firsts(Scenario, s), Phase(s)) # Firsts(Scenario, s)
           /\ Ends(s) => Gone(Scenario, Lasts(Scenario, s), Phase(s)) # Lasts(Scenario, s)
           /\ Gone(Scenario, Firsts(Scenario, s), Phase(s) + 1)
                # Gone(Scenario, Firsts(Scenario, s), Phase(s)) => Sends(s)
           /\ Gone(Scenario, Lasts(Scenario, s), Phase(s) + 1)
                # Gone(Scenario, Lasts(Scenario, s), Phase(s)) => Ends(s)
           /\ EndsPeriod(s) <=>
                 Ends(s) /\ Gone(Scenario, Lasts(Scenario, s), Phase(s) + 1) = Lasts(Scenario, s)
  <1> DEFINE F == Firsts(Scenario, s)
             L == Lasts(Scenario, s)
  <1>1. s \in Streams
    BY HopsOfEnds, PhaseFacts
  <1>2. (Sends(s) <=> Due(F, s)) /\ (Ends(s) <=> Due(L, s))
    BY EndFacts DEF Due
  <1>3. InCount(F, s, tx[s].count, tx[s].seqNo) /\ InCount(L, s, rx[s].count, rx[s].seqNo)
    BY DEF InStep
  <1>4. /\ ~Sends(s) => SendPacket(s) = tx[s]
        /\ Sends(s) => /\ SendPacket(s).count = IF tx[s].count + 1 >= RedundancyCount(s) THEN 0 ELSE tx[s].count + 1
                       /\ SendPacket(s).seqNo = IF tx[s].count + 1 >= RedundancyCount(s)
                                                THEN tx[s].seqNo + 1 ELSE tx[s].seqNo
    BY <1>1, SendPacketFacts
  <1>5. /\ ~Ends(s) => ReceiveStream(s, lost) = rx[s]
        /\ Ends(s) => /\ ReceiveStream(s, lost).count = IF rx[s].count + 1 >= RedundancyCount(s) THEN 0 ELSE rx[s].count + 1
                      /\ ReceiveStream(s, lost).seqNo = IF rx[s].count + 1 >= RedundancyCount(s)
                                                THEN rx[s].seqNo + 1 ELSE rx[s].seqNo
    <2>1. ~Ends(s) => ReceiveStream(s, lost) = rx[s]
      BY <1>1, ReceiveStreamFacts
    <2>2. ASSUME Ends(s)
          PROVE  /\ ReceiveStream(s, lost).count = IF rx[s].count + 1 >= RedundancyCount(s) THEN 0 ELSE rx[s].count + 1
                 /\ ReceiveStream(s, lost).seqNo = IF rx[s].count + 1 >= RedundancyCount(s)
                                                THEN rx[s].seqNo + 1 ELSE rx[s].seqNo
      <3>1. PICK n \in Nodes : Heard(n, lost) \in Buffers /\ ReceiveStream(s, lost) = ReceivePacket(s, Heard(n, lost))
        BY <1>1, <2>2, ReceiveStreamFacts
      <3> QED BY <1>1, <3>1, ReceivePacketFacts
    <2> QED BY <2>1, <2>2
  <1>6. /\ tx'[s].count = SendPacket(s).count
        /\ tx'[s].seqNo = IF Wraps(1) THEN 1 ELSE SendPacket(s).seqNo
        /\ rx'[s].count = ReceiveStream(s, lost).count
        /\ rx'[s].seqNo = IF Wraps(1) THEN 1 ELSE ReceiveStream(s, lost).seqNo
    BY <1>1, PlaySlotEffects
  <1>7. /\ SendPacket(s).count = Counted(Scenario, F, Phase(s) + 1)
        /\ SendPacket(s).seqNo = IF Gone(Scenario, F, Phase(s) + 1) = F THEN Round(s) + 1 ELSE Round(s)
        /\ Sends(s) => Gone(Scenario, F, Phase(s)) # F
        /\ Gone(Scenario, F, Phase(s) + 1) # Gone(Scenario, F, Phase(s)) => Sends(s)
    BY <1>2, <1>3, <1>4, EndCounts
  <1>8. /\ ReceiveStream(s, lost).count = Counted(Scenario, L, Phase(s) + 1)
        /\ ReceiveStream(s, lost).seqNo = IF Gone(Scenario, L, Phase(s) + 1) = L THEN Round(s) + 1 ELSE Round(s)
        /\ Ends(s) => Gone(Scenario, L, Phase(s)) # L
        /\ Ends(s) => (rx[s].count + 1 >= RedundancyCount(s) <=> Gone(Scenario, L, Phase(s) + 1) = L)
        /\ Gone(Scenario, L, Phase(s) + 1) # Gone(Scenario, L, Phase(s)) => Ends(s)
    BY <1>2, <1>3, <1>5, EndCounts
  <1>9. EndsPeriod(s) <=> Ends(s) /\ rx[s].count + 1 >= RedundancyCount(s)
    BY DEF EndsPeriod
  <1> HIDE DEF F, L
  <1>10. EndsPeriod(s) <=> Ends(s) /\ Gone(Scenario, L, Phase(s) + 1) = L
    BY <1>8, <1>9
  <1> QED BY <1>6, <1>7, <1>8, <1>10 DEF F, L

LEMMA PlaySlotInStep ==
    ASSUME SchedulesAreWhole, Typed, InStep, NEW lost, PlaySlot(lost)
    PROVE  InStep'
  <1>1. played' = played /\ scenario' = scenario /\ slotIndex' = AfterSlot(1) /\ Scenario' = Scenario
    BY SameScenario DEF PlaySlot
  <1>2. ASSUME NEW s \in played
        PROVE  /\ InCount(Firsts(Scenario, s), s, tx[s].count, tx[s].seqNo)'
               /\ InCount(Lasts(Scenario, s), s, rx[s].count, rx[s].seqNo)'
    <2>1. PICK count, seqNo :
                 /\ count = Counted(Scenario, Firsts(Scenario, s), Phase(s) + 1)
                 /\ seqNo = IF Gone(Scenario, Firsts(Scenario, s), Phase(s) + 1) = Firsts(Scenario, s)
                            THEN Round(s) + 1 ELSE Round(s)
                 /\ tx'[s].count = count /\ tx'[s].seqNo = IF Wraps(1) THEN 1 ELSE seqNo
      BY SlotCounts
    <2>2. InCount(Firsts(Scenario, s), s, tx[s].count, tx[s].seqNo)'
      BY <1>1, <2>1, CountTurns DEF InCount
    <2>3. PICK count2, seqNo2 :
                 /\ count2 = Counted(Scenario, Lasts(Scenario, s), Phase(s) + 1)
                 /\ seqNo2 = IF Gone(Scenario, Lasts(Scenario, s), Phase(s) + 1) = Lasts(Scenario, s)
                            THEN Round(s) + 1 ELSE Round(s)
                 /\ rx'[s].count = count2 /\ rx'[s].seqNo = IF Wraps(1) THEN 1 ELSE seqNo2
      BY SlotCounts
    <2>4. InCount(Lasts(Scenario, s), s, rx[s].count, rx[s].seqNo)'
      BY <1>1, <2>3, CountTurns DEF InCount
    <2> QED BY <2>2, <2>4
  <1> QED BY <1>1, <1>2 DEF InStep

LEMMA AdvanceInStep ==
    ASSUME SchedulesAreWhole, Typed, InStep, NEW able, AdvanceByControl(able)
    PROVE  InStep'
  <1>1. played' = played /\ scenario' = scenario /\ tx' = tx /\ rx' = rx /\ Scenario' = Scenario
    BY SameScenario DEF AdvanceByControl, endVars
  <1>2. ASSUME NEW s \in played,
               NEW T \in {Firsts(Scenario, s), Lasts(Scenario, s)}, NEW count, NEW seqNo,
               InCount(T, s, count, seqNo)
        PROVE  /\ count = Counted(Scenario, T, Phase(s)')
               /\ seqNo = IF Gone(Scenario, T, Phase(s)') = T THEN Round(s)' + 1 ELSE Round(s)'
    <2>1. T \in SUBSET Places(Scenario, s) /\ s \in Ids(Scenario)
      BY HopsOfEnds
    <2>2. Gone(Scenario, T, Phase(s)') = Gone(Scenario, T, Phase(s)) /\ Round(s)' = Round(s)
      BY <2>1, ControlTurns
    <2> QED BY <1>2, <2>2 DEF InCount, Counted
  <1>3. ASSUME NEW s \in played
        PROVE  /\ InCount(Firsts(Scenario, s), s, tx[s].count, tx[s].seqNo)'
               /\ InCount(Lasts(Scenario, s), s, rx[s].count, rx[s].seqNo)'
    <2>1. InCount(Firsts(Scenario, s), s, tx[s].count, tx[s].seqNo)'
      BY <1>1, <1>2 DEF InStep, InCount
    <2>2. InCount(Lasts(Scenario, s), s, rx[s].count, rx[s].seqNo)'
      BY <1>1, <1>2 DEF InStep, InCount
    <2> QED BY <2>1, <2>2
  <1> QED BY <1>1, <1>3 DEF InStep

\* The first slot is the first of a period of every stream.
LEMMA FirstSlot ==
    ASSUME SchedulesAreWhole, Typed, slotIndex = 0, NEW s \in played
    PROVE  /\ Phase(s) = 0 /\ Round(s) = 1
           /\ \A T \in SUBSET Places(Scenario, s) : Gone(Scenario, T, 0) = {} /\ Counted(Scenario, T, 0) = 0
           /\ Firsts(Scenario, s) # {} /\ Lasts(Scenario, s) # {}
  <1>1. s \in Ids(Scenario) /\ Scenario \in ToSet(Scenarios) /\ Firsts(Scenario, s) # {} /\ Lasts(Scenario, s) # {}
    BY HopsOfEnds
  <1>2. PICK P \in Nat \ {0} : P = PeriodOf(Scenario, s)
    BY <1>1, PhaseFacts
  <1>3. 0 = P * 0 + 0 /\ 0 \in 0 .. (P - 1)
    BY <1>2
  <1>4. 0 % P = 0 /\ 0 \div P = 0
    BY <1>3, DivisionUnique
  <1>5. Phase(s) = 0 /\ Round(s) = 1
    BY <1>2, <1>4 DEF Phase, Round
  <1>6. \A T \in SUBSET Places(Scenario, s) : Gone(Scenario, T, 0) = {}
    BY <1>1, PlaceFacts DEF Gone
  <1>7. \A T \in SUBSET Places(Scenario, s) : Counted(Scenario, T, 0) = 0
    BY <1>1, CountRound
  <1> QED BY <1>1, <1>5, <1>6, <1>7

LEMMA RemoveInStep ==
    ASSUME SchedulesAreWhole, Typed, InStep, NEW r \in Streams, RemoveStream(r)
    PROVE  InStep'
  <1>1. /\ scenario' = scenario /\ slotIndex' = slotIndex /\ slotIndex = 0 /\ played' = played \ {r}
        /\ \A s \in Streams : /\ tx'[s].count = 0 /\ tx'[s].seqNo = tx[s].seqNo
                              /\ rx'[s].count = 0 /\ rx'[s].seqNo = rx[s].seqNo
    BY RemoveEffects
  <1>2. Scenario' = Scenario
    BY <1>1, SameScenario
  <1>3. ASSUME NEW s \in played
        PROVE  /\ InCount(Firsts(Scenario, s), s, tx[s].count, tx[s].seqNo)'
               /\ InCount(Lasts(Scenario, s), s, rx[s].count, rx[s].seqNo)'
    <2>1. s \in Streams /\ \A T \in {Firsts(Scenario, s), Lasts(Scenario, s)} : T \in SUBSET Places(Scenario, s)
      BY HopsOfEnds, PhaseFacts
    <2>2. Phase(s) = 0 /\ \A T \in {Firsts(Scenario, s), Lasts(Scenario, s)} : Counted(Scenario, T, 0) = 0
      BY <1>1, <2>1, FirstSlot
    <2>3. Phase(s)' = Phase(s) /\ Round(s)' = Round(s)
      BY <1>1, <1>2 DEF Phase, Round
    <2>4. /\ InCount(Firsts(Scenario, s), s, tx[s].count, tx[s].seqNo)
          /\ InCount(Lasts(Scenario, s), s, rx[s].count, rx[s].seqNo)
      BY DEF InStep
    <2>5. InCount(Firsts(Scenario, s), s, tx[s].count, tx[s].seqNo)'
      BY <1>1, <1>2, <2>1, <2>2, <2>3, <2>4 DEF InCount
    <2>6. InCount(Lasts(Scenario, s), s, rx[s].count, rx[s].seqNo)'
      BY <1>1, <1>2, <2>1, <2>2, <2>3, <2>4 DEF InCount
    <2> QED BY <2>5, <2>6
  <1> QED BY <1>1, <1>3 DEF InStep

LEMMA CalmInStep ==
    ASSUME Typed, InStep, Calm
    PROVE  InStep'
  <1>1. /\ played' = played /\ slotIndex' = slotIndex /\ Scenario' = Scenario
    BY SameNetwork DEF Calm
  <1>2. ASSUME NEW s \in played
        PROVE  /\ tx'[s].count = tx[s].count /\ tx'[s].seqNo = tx[s].seqNo
               /\ rx'[s].count = rx[s].count /\ rx'[s].seqNo = rx[s].seqNo
    <2>1. s \in Streams
      BY PhaseFacts DEF Typed
    <2> QED BY <2>1 DEF Calm
  <1> QED BY <1>1, <1>2 DEF InStep, InCount, Phase, Round

LEMMA InitInStep ==
    ASSUME SchedulesAreWhole, Init
    PROVE  InStep
  <1>1. Typed
    BY InitTyped
  <1>2. /\ slotIndex = 0
        /\ \A s \in Streams : /\ tx[s].count = 0 /\ tx[s].seqNo = 1
                              /\ rx[s].count = 0 /\ rx[s].seqNo = 1
    BY DEF Init
  <1>3. ASSUME NEW s \in played
        PROVE  /\ InCount(Firsts(Scenario, s), s, tx[s].count, tx[s].seqNo)
               /\ InCount(Lasts(Scenario, s), s, rx[s].count, rx[s].seqNo)
    <2>1. s \in Streams /\ \A T \in {Firsts(Scenario, s), Lasts(Scenario, s)} : T \in SUBSET Places(Scenario, s)
      BY <1>1, HopsOfEnds, PhaseFacts
    <2>2. /\ Phase(s) = 0 /\ Round(s) = 1
          /\ \A T \in {Firsts(Scenario, s), Lasts(Scenario, s)} :
                Counted(Scenario, T, 0) = 0 /\ Gone(Scenario, T, 0) = {} /\ T # {}
      BY <1>1, <1>2, <2>1, FirstSlot
    <2> QED BY <1>2, <2>1, <2>2 DEF InCount
  <1> QED BY <1>3 DEF InStep

LEMMA InStepStep ==
    ASSUME SchedulesAreWhole, Typed, InStep, [Next]_vars
    PROVE  InStep'
  BY StepCases, PlaySlotInStep, AdvanceInStep, RemoveInStep, CalmInStep

\* Both ends of a stream end each of its periods having counted all copies, and give the
\* next one the same number (sendPacket, receivePacket and missPacket of Stream).
THEOREM EndsInStepHolds ==
    ASSUME SchedulesAreWhole
    PROVE  Spec => []EndsInStep
  <1>1. Init => Typed /\ InStep
    BY InitTyped, InitInStep
  <1>2. Typed /\ InStep /\ [Next]_vars => (Typed /\ InStep)'
    BY TypedStep, InStepStep
  <1>3. Typed /\ InStep => EndsInStep
    <2> SUFFICES ASSUME Typed, InStep, NEW s \in played,
                        slotIndex % (StreamInfo(s).period * SlotsPerTile) = 0
                 PROVE  tx[s].count = 0 /\ rx[s].count = 0 /\ tx[s].seqNo = rx[s].seqNo
      BY DEF EndsInStep
    <2>1. /\ s \in Ids(Scenario) /\ Scenario \in ToSet(Scenarios)
          /\ \A T \in {Firsts(Scenario, s), Lasts(Scenario, s)} : T \in SUBSET Places(Scenario, s) /\ T # {}
      BY HopsOfEnds
    <2>2. Phase(s) = 0
      BY ScenarioFacts DEF Phase, PeriodOf, Typed
    <2>3. \A T \in {Firsts(Scenario, s), Lasts(Scenario, s)} :
             Counted(Scenario, T, 0) = 0 /\ Gone(Scenario, T, 0) = {}
      <3> TAKE T \in {Firsts(Scenario, s), Lasts(Scenario, s)}
      <3>1. Counted(Scenario, T, 0) = 0
        BY <2>1, CountRound
      <3>2. Gone(Scenario, T, 0) = {}
        BY <2>1, PlaceFacts DEF Gone
      <3> QED BY <3>1, <3>2
    <2>4. \A T \in {Firsts(Scenario, s), Lasts(Scenario, s)} : Gone(Scenario, T, 0) # T
      BY <2>1, <2>3
    <2>5. /\ InCount(Firsts(Scenario, s), s, tx[s].count, tx[s].seqNo)
          /\ InCount(Lasts(Scenario, s), s, rx[s].count, rx[s].seqNo)
      BY DEF InStep
    <2>6. tx[s].count = 0 /\ tx[s].seqNo = Round(s)
      BY <2>2, <2>3, <2>4, <2>5 DEF InCount
    <2>7. rx[s].count = 0 /\ rx[s].seqNo = Round(s)
      BY <2>2, <2>3, <2>4, <2>5 DEF InCount
    <2> QED BY <2>6, <2>7
  <1> QED BY <1>1, <1>2, <1>3, PTL DEF Spec

-----------------------------------------------------------------------------
(***************************************************************************)
(* What a period carries.                                                  *)
(***************************************************************************)
\* Between the first hop and the last of the last copy.
UnderWay(s, x) ==
    /\ Gone(Scenario, Firsts(Scenario, s), x) # {}
    /\ Gone(Scenario, Lasts(Scenario, s), x) # Lasts(Scenario, s)

\* A buffer that would pass for a packet of the period.
Fresh(round, b) ==
    b # EmptyBuffer /\ (Scenario.authenticated => b.current /\ b.seqNo = round)

\* Both ends have what flies, or the receiving one nothing yet.
Carries(s, x, fl, sent, got) ==
    IF UnderWay(s, x) THEN \E p \in Maybe : fl = <<p>> /\ sent = p /\ got \in {p, NoPacket}
                      ELSE fl = <<>> /\ got = NoPacket

\* What is in a buffer is what flies, unless the receiver will see that it is old.
Holds(n, s, x, round, fl, b, ctr) ==
    /\ Fresh(round, b) => /\ Gone(Scenario, Firsts(Scenario, s), x) # {}
                          /\ UnderWay(s, x) => b.data = fl[1]
    /\ b.current => Scenario.authenticated /\ b.seqNo <= round
    /\ ~Scenario.authenticated =>
          /\ ctr = Counted(Scenario, Forwards(Scenario, n, s), x)
          /\ \/ Gone(Scenario, Forwards(Scenario, n, s), x) = Forwards(Scenario, n, s)
             \/ Gone(Scenario, Fills(Scenario, n, s), x) = {}
             => b = EmptyBuffer

Carried ==
    /\ \A s \in Streams \ played : flying[s] = <<>>
    /\ \A s \in played : Carries(s, Phase(s), flying[s], tx[s].packet, rx[s].packet)
    /\ \A s \in played : \A n \in Nodes :
          Holds(n, s, Phase(s), Round(s), flying[s], buffer[n][s], bufCtr[n][s])

LEMMA GoneGrows ==
    ASSUME NEW c \in ToSet(Scenarios), NEW s, NEW T \in SUBSET Places(c, s), NEW x \in Nat
    PROVE  /\ Gone(c, T, x) \subseteq Gone(c, T, x + 1) /\ Gone(c, T, x + 1) \subseteq T
           /\ \A i \in T : Elems(c)[i].offset = x => i \in Gone(c, T, x + 1) /\ i \notin Gone(c, T, x)
  <1>1. \A i \in T : Elems(c)[i].offset \in Nat
    BY PlaceFacts
  <1> QED BY <1>1 DEF Gone

\* A hop is between the first and the last.
LEMMA AlongTheWay ==
    ASSUME SchedulesAreWhole, NEW c \in ToSet(Scenarios), NEW s, NEW i \in Places(c, s), NEW x \in Nat,
           Elems(c)[i].offset = x
    PROVE  Gone(c, Firsts(c, s), x + 1) # {} /\ Gone(c, Lasts(c, s), x) # Lasts(c, s)
  <1>1. PICK j \in Firsts(c, s) : Elems(c)[j].offset <= x
    BY SourceIsFirst
  <1>2. PICK k \in Lasts(c, s) : Elems(c)[k].offset >= x
    BY DestinationIsLast
  <1>3. Elems(c)[j].offset \in Nat /\ Elems(c)[k].offset \in Nat
    BY PlaceFacts DEF Firsts, Lasts
  <1>4. j \in Gone(c, Firsts(c, s), x + 1)
    BY <1>1, <1>3 DEF Gone
  <1>5. k \notin Gone(c, Lasts(c, s), x)
    BY <1>2, <1>3 DEF Gone
  <1> QED BY <1>2, <1>4, <1>5

\* The period is under way in the slot, or begins or ends in it.
During(s) ==
    /\ Gone(Scenario, Firsts(Scenario, s), Phase(s) + 1) # {}
    /\ Gone(Scenario, Lasts(Scenario, s), Phase(s)) # Lasts(Scenario, s)

Begun(s) == IF BeginsPeriod(s) THEN Append(flying[s], Offered(s)) ELSE flying[s]

Carrier(s) == IF BeginsPeriod(s) THEN Offered(s) ELSE flying[s][1]

LEMMA DuringFacts ==
    ASSUME SchedulesAreWhole, Typed, InStep, NEW s \in played
    PROVE  /\ \A n \in Nodes : \A a \in {"SENDSTREAM", "RECVSTREAM", "SENDBUFFER", "RECVBUFFER"} :
                 Does(n, a, s) => During(s)
           /\ Sends(s) => During(s) /\ tx[s].seqNo = Round(s)
           /\ Ends(s) => During(s) /\ rx[s].seqNo = Round(s)
           /\ BeginsPeriod(s) <=> Sends(s) /\ Gone(Scenario, Firsts(Scenario, s), Phase(s)) = {}
           /\ Sends(s) => (tx[s].count = 0 <=> BeginsPeriod(s))
           /\ Gone(Scenario, Firsts(Scenario, s), Phase(s) + 1) # {} =>
                 BeginsPeriod(s) \/ Gone(Scenario, Firsts(Scenario, s), Phase(s)) # {}
           /\ UnderWay(s, Phase(s)) => During(s)
           /\ UnderWay(s, Phase(s) + 1) => During(s)
  <1> DEFINE c == Scenario
             F == Firsts(c, s)
             L == Lasts(c, s)
             x == Phase(s)
  <1>1. c \in ToSet(Scenarios) /\ s \in Ids(c) /\ F \in SUBSET Places(c, s) /\ L \in SUBSET Places(c, s)
    BY HopsOfEnds
  <1>2. x \in Nat /\ x + 1 \in Nat
    BY <1>1, PhaseFacts
  <1>3. ASSUME NEW i \in Places(c, s), Elems(c)[i].offset = x PROVE During(s)
    BY <1>1, <1>2, <1>3, AlongTheWay DEF During
  <1>4. ASSUME NEW n \in Nodes, NEW a \in {"SENDSTREAM", "RECVSTREAM", "SENDBUFFER", "RECVBUFFER"},
               Does(n, a, s)
        PROVE  During(s)
    <2>1. \E i \in Places(c, s) : Elems(c)[i].offset = x
      <3>1. CASE a = "SENDSTREAM"
        BY <1>4, <3>1, DoesFacts
      <3>2. CASE a = "RECVSTREAM"
        BY <1>4, <3>2, DoesFacts
      <3>3. CASE a = "SENDBUFFER"
        BY <1>4, <3>3, DoesFacts
      <3>4. CASE a = "RECVBUFFER"
        BY <1>4, <3>4, DoesFacts
      <3> QED BY <3>1, <3>2, <3>3, <3>4
    <2> QED BY <1>3, <2>1
  <1>5. /\ Sends(s) <=> Due(F, s)
        /\ Ends(s) <=> Due(L, s)
    BY EndFacts DEF Due
  <1>6. /\ Sends(s) => During(s) /\ Gone(c, F, x) # F
        /\ Ends(s) => During(s) /\ Gone(c, L, x) # L
    <2>1. ASSUME Due(F, s) PROVE During(s) /\ Gone(c, F, x) # F
      <3>1. PICK i \in F : Elems(c)[i].offset = x
        BY <2>1 DEF Due
      <3>2. i \in Places(c, s) /\ i \notin Gone(c, F, x)
        BY <1>1, <1>2, <3>1 DEF Gone
      <3> QED BY <1>3, <3>1, <3>2
    <2>2. ASSUME Due(L, s) PROVE During(s) /\ Gone(c, L, x) # L
      <3>1. PICK i \in L : Elems(c)[i].offset = x
        BY <2>2 DEF Due
      <3>2. i \in Places(c, s) /\ i \notin Gone(c, L, x)
        BY <1>1, <1>2, <3>1 DEF Gone
      <3> QED BY <1>3, <3>1, <3>2
    <2> QED BY <1>5, <2>1, <2>2
  <1>7. InCount(F, s, tx[s].count, tx[s].seqNo) /\ InCount(L, s, rx[s].count, rx[s].seqNo)
    BY DEF InStep
  <1>8. /\ tx[s].count = Counted(c, F, x) /\ (Gone(c, F, x) # F => tx[s].seqNo = Round(s))
        /\ Gone(c, L, x) # L => rx[s].seqNo = Round(s)
    BY <1>7 DEF InCount
  <1>9. Gone(c, F, x) # F => (Counted(c, F, x) = 0 <=> Gone(c, F, x) = {})
    BY <1>1, <1>2, GoneFacts
  <1>10. BeginsPeriod(s) <=> Sends(s) /\ tx[s].count = 0
    BY DEF BeginsPeriod
  <1>11. Gone(c, F, x + 1) # {} /\ Gone(c, F, x) = {} => Sends(s)
    <2> SUFFICES ASSUME Gone(c, F, x + 1) # {}, Gone(c, F, x) = {}, ~Due(F, s) PROVE FALSE
      BY <1>5
    <2>1. \A j \in F : Elems(c)[j].offset # x
      BY DEF Due
    <2>2. Gone(c, F, x + 1) = Gone(c, F, x)
      BY <1>1, <1>2, <2>1, CountNone
    <2> QED BY <2>2
  <1>12. /\ Gone(c, F, x) \subseteq Gone(c, F, x + 1)
         /\ Gone(c, L, x) \subseteq Gone(c, L, x + 1) /\ Gone(c, L, x + 1) \subseteq L
    BY <1>1, <1>2, GoneGrows
  <1> HIDE DEF F, L, x
  <1>13. /\ UnderWay(s, x) => Gone(c, F, x) # {} /\ Gone(c, L, x) # L
         /\ UnderWay(s, x + 1) => Gone(c, F, x + 1) # {} /\ Gone(c, L, x + 1) # L
         /\ During(s) <=> Gone(c, F, x + 1) # {} /\ Gone(c, L, x) # L
    BY DEF UnderWay, During, F, L, x
  <1>14. (UnderWay(s, x) => During(s)) /\ (UnderWay(s, x + 1) => During(s))
    <2>1. Gone(c, F, x) # {} => Gone(c, F, x + 1) # {}
      BY <1>12
    <2>2. Gone(c, L, x + 1) # L => Gone(c, L, x) # L
      BY <1>12
    <2> QED BY <1>13, <2>1, <2>2
  <1>15. BeginsPeriod(s) <=> Sends(s) /\ Gone(c, F, x) = {}
    BY <1>6, <1>8, <1>9, <1>10
  <1> QED BY <1>4, <1>6, <1>8, <1>10, <1>11, <1>14, <1>15 DEF F, L, x

\* What the period carries in the slot.
LEMMA BegunFacts ==
    ASSUME SchedulesAreWhole, Typed, InStep, Carried, NEW s \in played
    PROVE  /\ s \in Streams
           /\ During(s) => /\ Begun(s) = <<Carrier(s)>> /\ Carrier(s) \in Maybe
                           /\ SendPacket(s).packet = Carrier(s)
                           /\ rx[s].packet \in {Carrier(s), NoPacket}
                           /\ Sends(s) => Taken(s) = Carrier(s)
           /\ ~During(s) => /\ Begun(s) = <<>> /\ flying[s] = <<>> /\ rx[s].packet = NoPacket
                            /\ ~Sends(s) /\ ~Ends(s)
           /\ UnderWay(s, Phase(s)) => flying[s] = <<Carrier(s)>> /\ ~BeginsPeriod(s)
           /\ BeginsPeriod(s) => flying[s] = <<>> /\ rx[s].packet = NoPacket
  <1>1. s \in Streams
    BY HopsOfEnds, PhaseFacts
  <1>2. Carries(s, Phase(s), flying[s], tx[s].packet, rx[s].packet)
    BY DEF Carried
  <1>3. /\ UnderWay(s, Phase(s)) <=> /\ Gone(Scenario, Firsts(Scenario, s), Phase(s)) # {}
                                     /\ Gone(Scenario, Lasts(Scenario, s), Phase(s)) # Lasts(Scenario, s)
        /\ During(s) <=> /\ Gone(Scenario, Firsts(Scenario, s), Phase(s) + 1) # {}
                         /\ Gone(Scenario, Lasts(Scenario, s), Phase(s)) # Lasts(Scenario, s)
    BY DEF UnderWay, During
  <1>4. /\ BeginsPeriod(s) <=> Sends(s) /\ Gone(Scenario, Firsts(Scenario, s), Phase(s)) = {}
        /\ Sends(s) => (tx[s].count = 0 <=> BeginsPeriod(s))
        /\ Gone(Scenario, Firsts(Scenario, s), Phase(s) + 1) # {} =>
              BeginsPeriod(s) \/ Gone(Scenario, Firsts(Scenario, s), Phase(s)) # {}
        /\ UnderWay(s, Phase(s)) => During(s)
        /\ Sends(s) => During(s)
        /\ Ends(s) => During(s)
    BY DuringFacts
  <1>5. Offered(s) \in Maybe
    BY <1>1, OfferedTyped
  <1>6. SendPacket(s).packet = IF Sends(s) THEN Taken(s) ELSE tx[s].packet
    BY <1>1, SendPacketFacts
  <1>7. CASE BeginsPeriod(s)
    <2>1. ~UnderWay(s, Phase(s)) /\ Sends(s) /\ tx[s].count = 0 /\ During(s)
      BY <1>3, <1>4, <1>7
    <2>2. flying[s] = <<>> /\ rx[s].packet = NoPacket
      BY <1>2, <2>1 DEF Carries
    <2>3. Begun(s) = <<Offered(s)>> /\ Carrier(s) = Offered(s) /\ Taken(s) = Offered(s)
      BY <1>7, <2>1, <2>2 DEF Begun, Carrier, Taken
    <2> QED BY <1>1, <1>5, <1>6, <1>7, <2>1, <2>2, <2>3
  <1>8. CASE ~BeginsPeriod(s)
    <2>1. Begun(s) = flying[s] /\ Carrier(s) = flying[s][1]
      BY <1>8 DEF Begun, Carrier
    <2>2. During(s) <=> UnderWay(s, Phase(s))
      BY <1>3, <1>4, <1>8
    <2>3. Sends(s) => Taken(s) = tx[s].packet
      BY <1>4, <1>8 DEF Taken
    <2>4. CASE UnderWay(s, Phase(s))
      <3>1. PICK p \in Maybe : flying[s] = <<p>> /\ tx[s].packet = p /\ rx[s].packet \in {p, NoPacket}
        BY <1>2, <2>4 DEF Carries
      <3>2. flying[s][1] = p
        BY <3>1
      <3> QED BY <1>1, <1>6, <1>8, <2>1, <2>2, <2>3, <2>4, <3>1, <3>2
    <2>5. CASE ~UnderWay(s, Phase(s))
      <3>1. flying[s] = <<>> /\ rx[s].packet = NoPacket
        BY <1>2, <2>5 DEF Carries
      <3> QED BY <1>1, <1>4, <1>8, <2>1, <2>2, <2>5, <3>1
    <2> QED BY <2>4, <2>5
  <1> QED BY <1>7, <1>8

\* What is heard and would pass for a packet of the period is what the period carries.
LEMMA HeardIsCarried ==
    ASSUME SchedulesAreWhole, Typed, InStep, Carried, NEW s \in played, NEW n \in Nodes, NEW lost,
           NEW a \in {"RECVSTREAM", "RECVBUFFER"}, Does(n, a, s)
    PROVE  /\ During(s) /\ Heard(n, lost) \in Buffers
           /\ Fresh(Round(s), Heard(n, lost)) => Heard(n, lost).data = Carrier(s)
           /\ Heard(n, lost).current => Scenario.authenticated /\ Heard(n, lost).seqNo <= Round(s)
  <1> DEFINE h == Heard(n, lost)
             good(b) == /\ Fresh(Round(s), b) => b.data = Carrier(s)
                        /\ b.current => Scenario.authenticated /\ b.seqNo <= Round(s)
  <1>1. s \in Streams /\ Round(s) \in Nat
    BY HopsOfEnds, PhaseFacts
  <1>2. During(s)
    BY DuringFacts
  <1>3. h \in Buffers
    BY <1>1, HeardTyped
  <1>4. good(EmptyBuffer)
    BY DEF Fresh, EmptyBuffer
  <1>5. ASSUME Sends(s) PROVE good(Transmission(s))
    <2>1. Taken(s) = Carrier(s) /\ tx[s].seqNo = Round(s)
      BY <1>2, <1>5, BegunFacts, DuringFacts
    <2>2. CASE Taken(s) = NoPacket
      <3>1. Transmission(s) = EmptyBuffer
        BY <2>2 DEF Transmission
      <3> QED BY <1>4, <3>1
    <2>3. CASE Taken(s) # NoPacket
      <3> DEFINE b == [data |-> Taken(s), current |-> Scenario.authenticated,
                       seqNo |-> IF Scenario.authenticated THEN tx[s].seqNo ELSE 0]
      <3>1. Transmission(s) = b
        BY <2>3 DEF Transmission
      <3>2. /\ b.data = Taken(s) /\ (b.current <=> Scenario.authenticated)
            /\ Scenario.authenticated => b.seqNo = tx[s].seqNo
        OBVIOUS
      <3> HIDE DEF b
      <3>3. good(b)
        BY <1>1, <2>1, <3>2
      <3> QED BY <3>1, <3>3
    <2> QED BY <2>2, <2>3
  <1>6. ASSUME NEW m \in Nodes, Does(m, "SENDBUFFER", s) PROVE good(buffer[m][s])
    <2>1. Holds(m, s, Phase(s), Round(s), flying[s], buffer[m][s], bufCtr[m][s])
      BY DEF Carried
    <2>2. ASSUME Fresh(Round(s), buffer[m][s]) PROVE buffer[m][s].data = Carrier(s)
      <3>1. /\ Gone(Scenario, Firsts(Scenario, s), Phase(s)) # {}
            /\ UnderWay(s, Phase(s)) => buffer[m][s].data = flying[s][1]
        BY <2>1, <2>2 DEF Holds
      <3>2. UnderWay(s, Phase(s))
        BY <1>2, <3>1 DEF UnderWay, During
      <3>3. flying[s] = <<Carrier(s)>>
        BY <3>2, BegunFacts
      <3> QED BY <3>1, <3>2, <3>3
    <2>3. buffer[m][s].current => Scenario.authenticated /\ buffer[m][s].seqNo <= Round(s)
      BY <2>1 DEF Holds
    <2> QED BY <2>2, <2>3
  <1>7. \/ h = EmptyBuffer
        \/ Sends(s) /\ h = Transmission(s)
        \/ \E m \in Nodes : Does(m, "SENDBUFFER", s) /\ h = buffer[m][s]
    BY HeardFacts
  <1> HIDE DEF h, good
  <1>8. good(h)
    BY <1>4, <1>5, <1>6, <1>7
  <1> QED BY <1>2, <1>3, <1>8 DEF h, good

\* What the receiving end has after the slot.
LEMMA ReceivedIsCarried ==
    ASSUME SchedulesAreWhole, Typed, InStep, Carried, NEW s \in played, NEW lost
    PROVE  /\ ~EndsPeriod(s) => ReceiveStream(s, lost).shared = rx[s].shared
           /\ EndsPeriod(s) => /\ ReceiveStream(s, lost).shared \in {Carrier(s), NoPacket}
                               /\ ReceiveStream(s, lost).packet = NoPacket
           /\ ~During(s) => ReceiveStream(s, lost).packet = NoPacket
           /\ During(s) => ReceiveStream(s, lost).packet \in {Carrier(s), NoPacket}
  <1>1. s \in Streams /\ During(s) => rx[s].packet \in {Carrier(s), NoPacket}
    BY BegunFacts
  <1>2. CASE ~Ends(s)
    <2>1. ReceiveStream(s, lost) = rx[s]
      BY <1>2, BegunFacts, ReceiveStreamFacts
    <2>2. ~EndsPeriod(s)
      BY <1>2 DEF EndsPeriod
    <2> QED BY <1>1, <2>1, <2>2, BegunFacts
  <1>3. CASE Ends(s)
    <2>1. During(s) /\ rx[s].seqNo = Round(s) /\ s \in Streams
      BY <1>3, DuringFacts, BegunFacts
    <2>2. PICK n \in Nodes : /\ Does(n, "RECVSTREAM", s) /\ Heard(n, lost) \in Buffers
                             /\ ReceiveStream(s, lost) = ReceivePacket(s, Heard(n, lost))
      BY <1>3, <2>1, ReceiveStreamFacts
    <2> DEFINE h == Heard(n, lost)
               last == rx[s].count + 1 >= RedundancyCount(s)
               received == IF Valid(s, h) THEN h.data ELSE rx[s].packet
    <2>3. Fresh(Round(s), h) => h.data = Carrier(s)
      BY <2>2, HeardIsCarried
    <2>4. Valid(s, h) => Fresh(Round(s), h)
      BY <2>1 DEF Valid, Fresh
    <2>5. received \in {Carrier(s), NoPacket}
      BY <1>1, <2>1, <2>3, <2>4
    <2>6. /\ ReceiveStream(s, lost).packet = IF last THEN NoPacket ELSE received
          /\ ReceiveStream(s, lost).shared = IF last THEN received ELSE rx[s].shared
      BY <2>1, <2>2, ReceivePacketFacts
    <2>7. EndsPeriod(s) <=> last
      BY <1>3 DEF EndsPeriod
    <2> HIDE DEF h, last, received
    <2> QED BY <2>1, <2>5, <2>6, <2>7
  <1> QED BY <1>2, <1>3

\* Both ends after the slot.
LEMMA SlotCarries ==
    ASSUME SchedulesAreWhole, Typed, InStep, Carried, NEW s \in played, NEW lost, PlaySlot(lost)
    PROVE  /\ Carries(s, Phase(s) + 1, flying'[s], tx'[s].packet, rx'[s].packet)
           /\ EndsPeriod(s) => During(s) /\ flying'[s] = <<>>
           /\ ~EndsPeriod(s) => flying'[s] = Begun(s)
           /\ UnderWay(s, Phase(s) + 1) => ~EndsPeriod(s)
  <1> DEFINE F == Firsts(Scenario, s)
             L == Lasts(Scenario, s)
             x == Phase(s)
  <1>1. s \in Streams
    BY BegunFacts
  <1>2. flying'[s] = IF EndsPeriod(s) /\ Begun(s) # <<>> THEN Tail(Begun(s)) ELSE Begun(s)
    BY <1>1 DEF PlaySlot, Flying, Begun
  <1>3. tx'[s].packet = SendPacket(s).packet /\ rx'[s].packet = ReceiveStream(s, lost).packet
    BY <1>1, PlaySlotEffects
  <1>4. /\ EndsPeriod(s) <=> Ends(s) /\ Gone(Scenario, L, x + 1) = L
        /\ Gone(Scenario, L, x + 1) # Gone(Scenario, L, x) => Ends(s)
    BY SlotCounts
  <1>5. UnderWay(s, x + 1) <=> Gone(Scenario, F, x + 1) # {} /\ Gone(Scenario, L, x + 1) # L
    BY DEF UnderWay
  <1>6. During(s) <=> Gone(Scenario, F, x + 1) # {} /\ Gone(Scenario, L, x) # L
    BY DEF During
  <1>7. UnderWay(s, x + 1) => During(s)
    BY DuringFacts
  <1>8. /\ EndsPeriod(s) => ReceiveStream(s, lost).packet = NoPacket
        /\ ~During(s) => ReceiveStream(s, lost).packet = NoPacket
        /\ During(s) => ReceiveStream(s, lost).packet \in {Carrier(s), NoPacket}
    BY ReceivedIsCarried
  <1>9. Ends(s) => During(s)
    BY DuringFacts
  <1> HIDE DEF F, L, x
  <1>10. CASE During(s)
    <2>1. /\ Begun(s) = <<Carrier(s)>> /\ Carrier(s) \in Maybe /\ SendPacket(s).packet = Carrier(s)
      BY <1>10, BegunFacts
    <2>2. UnderWay(s, x + 1) <=> ~EndsPeriod(s)
      BY <1>4, <1>5, <1>6, <1>10
    <2>3. CASE EndsPeriod(s)
      <3>1. flying'[s] = <<>>
        BY <1>2, <2>1, <2>3
      <3>2. rx'[s].packet = NoPacket
        BY <1>3, <1>8, <2>3
      <3>3. Carries(s, x + 1, flying'[s], tx'[s].packet, rx'[s].packet)
        BY <2>2, <2>3, <3>1, <3>2 DEF Carries
      <3> QED BY <1>10, <2>2, <2>3, <3>1, <3>3 DEF x
    <2>4. CASE ~EndsPeriod(s)
      <3>1. flying'[s] = <<Carrier(s)>> /\ flying'[s] = Begun(s)
        BY <1>2, <2>1, <2>4
      <3>2. rx'[s].packet \in {Carrier(s), NoPacket} /\ tx'[s].packet = Carrier(s)
        BY <1>3, <1>8, <1>10, <2>1
      <3>3. Carries(s, x + 1, flying'[s], tx'[s].packet, rx'[s].packet)
        BY <2>1, <2>2, <2>4, <3>1, <3>2 DEF Carries
      <3> QED BY <2>4, <3>1, <3>3 DEF x
    <2> QED BY <2>3, <2>4
  <1>11. CASE ~During(s)
    <2>1. Begun(s) = <<>>
      BY <1>11, BegunFacts
    <2>2. ~UnderWay(s, x + 1) /\ ~EndsPeriod(s)
      BY <1>4, <1>7, <1>9, <1>11
    <2>3. flying'[s] = <<>> /\ flying'[s] = Begun(s) /\ rx'[s].packet = NoPacket
      BY <1>2, <1>3, <1>8, <1>11, <2>1, <2>2
    <2>4. Carries(s, x + 1, flying'[s], tx'[s].packet, rx'[s].packet)
      BY <2>2, <2>3 DEF Carries
    <2> QED BY <2>2, <2>3, <2>4 DEF x
  <1> QED BY <1>10, <1>11

\* How often the buffer is sent in a period is how often its node forwards the stream, each
\* time in another slot.
LEMMA ForwardFacts ==
    ASSUME SchedulesAreWhole, Typed, NEW s \in played, NEW n \in Nodes
    PROVE  /\ Forwards(Scenario, n, s) \in SUBSET Places(Scenario, s)
           /\ Fills(Scenario, n, s) \in SUBSET Places(Scenario, s)
           /\ ForwardedStreams(Scenario.schedule, n)[s] = Cardinality(Forwards(Scenario, n, s))
           /\ \A i, j \in Forwards(Scenario, n, s) :
                 Elems(Scenario)[i].offset = Elems(Scenario)[j].offset => j = i
           /\ Does(n, "SENDBUFFER", s) <=> Due(Forwards(Scenario, n, s), s)
           /\ Does(n, "RECVBUFFER", s) <=> Due(Fills(Scenario, n, s), s)
  <1> DEFINE c == Scenario
  <1>1. c \in ToSet(Scenarios) /\ s \in Ids(c)
    BY HopsOfEnds
  <1>2. Forwards(c, n, s) \in SUBSET Places(c, s) /\ Fills(c, n, s) \in SUBSET Places(c, s)
    BY DEF Forwards, Fills
  <1>3. ForwardedStreams(c.schedule, n)[s] = Cardinality(Forwards(c, n, s))
    <2> DEFINE sends(r) == {i \in DOMAIN Elems(c) : /\ ActionOf(Elems(c)[i], n) = "SENDBUFFER"
                                                    /\ Elems(c)[i].stream.id = r}
    <2>1. ForwardedStreams(c.schedule, n)
            = [r \in {Elems(c)[i].stream.id : i \in DOMAIN Elems(c)} |-> Cardinality(sends(r))]
      BY DEF ForwardedStreams, Elems
    <2>2. Places(c, s) # {}
      BY <1>1, IdFacts
    <2>3. s \in {Elems(c)[i].stream.id : i \in DOMAIN Elems(c)}
      BY <2>2 DEF Places
    <2>4. sends(s) = Forwards(c, n, s)
      BY DEF Forwards, Places
    <2> HIDE DEF sends
    <2> QED BY <2>1, <2>3, <2>4
  <1>4. ASSUME NEW i \in Forwards(c, n, s), NEW j \in Forwards(c, n, s), Elems(c)[i].offset = Elems(c)[j].offset
        PROVE  j = i
    <2>1. i \in Places(c, s) /\ j \in Places(c, s) /\ i \in DOMAIN Elems(c) /\ j \in DOMAIN Elems(c)
      BY <1>1, <1>2, PlaceFacts
    <2>2. Elems(c)[i].tx = n /\ Elems(c)[j].tx = n
      BY <1>1, <2>1, ActionFacts DEF Forwards
    <2>3. n \in {Elems(c)[i].tx, Elems(c)[i].rx} /\ n \in {Elems(c)[j].tx, Elems(c)[j].rx}
      BY <2>2
    <2> QED BY <1>1, <1>4, <2>1, <2>3, NodeIsFreeAt
  <1>5. Does(n, "SENDBUFFER", s) <=> Due(Forwards(c, n, s), s)
    <2>1. Does(n, "SENDBUFFER", s) <=> \E i \in Places(c, s) :
                                          /\ ActionOf(Elems(c)[i], n) = "SENDBUFFER"
                                          /\ Elems(c)[i].offset = Phase(s)
      BY DoesFacts
    <2> QED BY <2>1 DEF Due, Forwards
  <1>6. Does(n, "RECVBUFFER", s) <=> Due(Fills(c, n, s), s)
    <2>1. Does(n, "RECVBUFFER", s) <=> \E i \in Places(c, s) :
                                          /\ ActionOf(Elems(c)[i], n) = "RECVBUFFER"
                                          /\ Elems(c)[i].offset = Phase(s)
      BY DoesFacts
    <2> QED BY <2>1 DEF Due, Fills
  <1> QED BY <1>2, <1>3, <1>4, <1>5, <1>6

\* Without authentication a relay is never without having emptied its buffer in time.
LEMMA BufferIsEmptied ==
    ASSUME SchedulesAreWhole, FailuresAreDetected, Typed, Carried, ~Scenario.authenticated,
           NEW s \in played, NEW n \in Nodes, NEW lost
    PROVE  /\ CountTransmission(n, s) = Counted(Scenario, Forwards(Scenario, n, s), Phase(s) + 1)
           /\ \/ Gone(Scenario, Forwards(Scenario, n, s), Phase(s) + 1) = Forwards(Scenario, n, s)
              \/ Gone(Scenario, Fills(Scenario, n, s), Phase(s) + 1) = {}
              => UseBuffer(n, s, lost) = EmptyBuffer
  <1> DEFINE c == Scenario
             T == Forwards(c, n, s)
             G == Fills(c, n, s)
             x == Phase(s)
             b == buffer[n][s]
  <1>1. c \in ToSet(Scenarios) /\ s \in Ids(c) /\ s \in Streams /\ x \in Nat
    BY HopsOfEnds, PhaseFacts
  <1>2. /\ T \in SUBSET Places(c, s) /\ G \in SUBSET Places(c, s)
        /\ ForwardedStreams(c.schedule, n)[s] = Cardinality(T)
        /\ \A i, j \in T : Elems(c)[i].offset = Elems(c)[j].offset => j = i
        /\ Does(n, "SENDBUFFER", s) <=> Due(T, s)
        /\ Does(n, "RECVBUFFER", s) <=> Due(G, s)
    BY ForwardFacts
  <1>3. n \in operating
    <2>1. Scenario.mayFail = {}
      BY <1>1 DEF FailuresAreDetected
    <2> QED BY <2>1 DEF Typed
  <1>4. bufCtr[n][s] = Counted(c, T, x) /\ (Gone(c, T, x) = T \/ Gone(c, G, x) = {} => b = EmptyBuffer)
    BY DEF Carried, Holds
  <1>5. LastTransmission(n, s) <=> Counted(c, T, x) + 1 >= Cardinality(T)
    BY <1>2, <1>4 DEF LastTransmission
  <1>6. Gone(c, G, x) \subseteq Gone(c, G, x + 1)
    BY <1>1, <1>2, GoneGrows
  <1>7. CASE Does(n, "SENDBUFFER", s)
    <2>1. Slot(n).buffer = TRUE /\ Executes(n, "SENDBUFFER", s) /\ ~Executes(n, "RECVBUFFER", s)
      BY <1>3, <1>7, DoesFacts DEF Executes, Does
    <2>2. PICK i \in T : Elems(c)[i].offset = x
      BY <1>2, <1>7 DEF Due
    <2>3. \A j \in T : Elems(c)[j].offset = x => j = i
      BY <1>2, <2>2
    <2>4. /\ Counted(c, T, x) + 1 >= Cardinality(T) <=> Gone(c, T, x + 1) = T
          /\ Counted(c, T, x + 1)
               = IF Counted(c, T, x) + 1 >= Cardinality(T) THEN 0 ELSE Counted(c, T, x) + 1
      <3> HIDE DEF c, T, x
      <3> QED BY <1>1, <1>2, <2>2, <2>3, CountOne
    <2>5. CountTransmission(n, s) = IF LastTransmission(n, s) THEN 0 ELSE bufCtr[n][s] + 1
      BY <2>1 DEF CountTransmission
    <2>6. UseBuffer(n, s, lost) = IF LastTransmission(n, s) THEN EmptyBuffer ELSE b
      BY <2>1 DEF UseBuffer
    <2> HIDE DEF c, T, G, x, b
    <2> QED BY <1>4, <1>5, <1>6, <2>4, <2>5, <2>6 DEF c, T, G, x
  <1>8. CASE ~Does(n, "SENDBUFFER", s)
    <2>1. ~Executes(n, "SENDBUFFER", s)
      BY <1>8 DEF Executes
    <2>2. \A j \in T : Elems(c)[j].offset # x
      BY <1>2, <1>8 DEF Due
    <2>3. Gone(c, T, x + 1) = Gone(c, T, x) /\ Counted(c, T, x + 1) = Counted(c, T, x)
      <3> HIDE DEF c, T, x
      <3> QED BY <1>1, <1>2, <2>2, CountNone
    <2>4. CountTransmission(n, s) = bufCtr[n][s]
      BY <2>1 DEF CountTransmission
    <2>5. CASE Does(n, "RECVBUFFER", s)
      <3>1. PICK i \in G : Elems(c)[i].offset = x
        BY <1>2, <2>5 DEF Due
      <3>2. i \in Gone(c, G, x + 1)
        BY <1>1, <1>2, <3>1, GoneGrows
      <3>3. PICK j \in T : Elems(c)[j].offset > Elems(c)[i].offset
        BY <1>1, RelayIsBetween
      <3>4. Elems(c)[j].offset \in Nat
        BY <1>1, <1>2, PlaceFacts
      <3>5. j \notin Gone(c, T, x + 1)
        BY <1>1, <3>1, <3>3, <3>4 DEF Gone
      <3> HIDE DEF c, T, G, x
      <3> QED BY <1>4, <2>3, <2>4, <3>2, <3>3, <3>5 DEF c, T, G, x
    <2>6. CASE ~Does(n, "RECVBUFFER", s)
      <3>1. UseBuffer(n, s, lost) = b
        BY <2>1, <2>6 DEF UseBuffer, Executes
      <3> HIDE DEF c, T, G, x, b
      <3> QED BY <1>4, <1>6, <2>3, <2>4, <3>1 DEF c, T, G, x
    <2> QED BY <2>5, <2>6
  <1> QED BY <1>7, <1>8

\* The buffers after the slot.
LEMMA SlotHolds ==
    ASSUME SchedulesAreWhole, FailuresAreDetected, Typed, InStep, Carried, NEW s \in played,
           NEW n \in Nodes, NEW lost, PlaySlot(lost)
    PROVE  Holds(n, s, Phase(s) + 1, Round(s), flying'[s], UseBuffer(n, s, lost), CountTransmission(n, s))
  <1> DEFINE b == buffer[n][s]
             z == UseBuffer(n, s, lost)
             x == Phase(s)
             F == Firsts(Scenario, s)
             L == Lasts(Scenario, s)
  <1>1. /\ x \in Nat /\ Scenario \in ToSet(Scenarios) /\ F \in SUBSET Places(Scenario, s)
        /\ L \in SUBSET Places(Scenario, s)
    BY HopsOfEnds, PhaseFacts
  <1>2. Holds(n, s, x, Round(s), flying[s], b, bufCtr[n][s])
    BY DEF Carried
  <1>3. UnderWay(s, x + 1) => During(s) /\ flying'[s] = Begun(s) /\ Begun(s) = <<Carrier(s)>>
    BY DuringFacts, SlotCarries, BegunFacts
  <1>4. UnderWay(s, x + 1) => flying'[s][1] = Carrier(s)
    BY <1>3
  <1>5. UnderWay(s, x) => flying[s] = <<Carrier(s)>>
    BY BegunFacts
  <1>6. Gone(Scenario, F, x) \subseteq Gone(Scenario, F, x + 1)
        /\ Gone(Scenario, L, x) \subseteq Gone(Scenario, L, x + 1) /\ Gone(Scenario, L, x + 1) \subseteq L
    BY <1>1, GoneGrows
  <1>7. During(s) <=> Gone(Scenario, F, x + 1) # {} /\ Gone(Scenario, L, x) # L
    BY DEF During
  <1>8. /\ UnderWay(s, x) <=> Gone(Scenario, F, x) # {} /\ Gone(Scenario, L, x) # L
        /\ UnderWay(s, x + 1) <=> Gone(Scenario, F, x + 1) # {} /\ Gone(Scenario, L, x + 1) # L
    BY DEF UnderWay
  <1>9. /\ Fresh(Round(s), z) => /\ Gone(Scenario, F, x + 1) # {}
                                 /\ UnderWay(s, x + 1) => z.data = flying'[s][1]
        /\ z.current => Scenario.authenticated /\ z.seqNo <= Round(s)
    <2>1. CASE z = EmptyBuffer
      <3> HIDE DEF z
      <3> QED BY <2>1 DEF Fresh, EmptyBuffer
    <2>2. CASE z = b
      <3>1. Fresh(Round(s), b) => /\ Gone(Scenario, F, x) # {}
                                  /\ UnderWay(s, x) => b.data = flying[s][1]
        BY <1>2 DEF Holds
      <3>2. b.current => Scenario.authenticated /\ b.seqNo <= Round(s)
        BY <1>2 DEF Holds
      <3> HIDE DEF z, b, F, L, x
      <3>3. ASSUME Fresh(Round(s), b) PROVE Gone(Scenario, F, x + 1) # {}
        BY <1>6, <3>1, <3>3
      <3>4. ASSUME Fresh(Round(s), b), UnderWay(s, x + 1) PROVE b.data = flying'[s][1]
        <4>1. Gone(Scenario, F, x) # {} /\ During(s)
          BY <1>3, <3>1, <3>4
        <4>2. UnderWay(s, x)
          BY <1>7, <1>8, <4>1
        <4>3. b.data = flying[s][1] /\ flying[s] = <<Carrier(s)>>
          BY <1>5, <3>1, <3>4, <4>2
        <4> QED BY <1>4, <3>4, <4>3
      <3> QED BY <2>2, <3>2, <3>3, <3>4
    <2>3. CASE Executes(n, "RECVBUFFER", s) /\ z = Heard(n, lost)
      <3>1. Does(n, "RECVBUFFER", s)
        BY <2>3 DEF Executes
      <3>2. /\ During(s) /\ (Fresh(Round(s), z) => z.data = Carrier(s))
            /\ z.current => Scenario.authenticated /\ z.seqNo <= Round(s)
        BY <2>3, <3>1, HeardIsCarried
      <3> HIDE DEF z, F, L, x
      <3> QED BY <1>4, <1>7, <3>2
    <2>4. z = EmptyBuffer \/ z = b \/ (Executes(n, "RECVBUFFER", s) /\ z = Heard(n, lost))
      BY DEF UseBuffer
    <2> QED BY <2>1, <2>2, <2>3, <2>4
  <1>10. ASSUME ~Scenario.authenticated
         PROVE  /\ CountTransmission(n, s) = Counted(Scenario, Forwards(Scenario, n, s), x + 1)
                /\ \/ Gone(Scenario, Forwards(Scenario, n, s), x + 1) = Forwards(Scenario, n, s)
                   \/ Gone(Scenario, Fills(Scenario, n, s), x + 1) = {}
                   => z = EmptyBuffer
    BY <1>10, BufferIsEmptied
  <1> HIDE DEF z
  <1> QED BY <1>9, <1>10 DEF Holds, z

\* At the end of a period nothing is under way, and no buffer passes for one of the next.
LEMMA PeriodEnds ==
    ASSUME SchedulesAreWhole, Typed, NEW s \in played
    PROVE  /\ ~UnderWay(s, PeriodOf(Scenario, s)) /\ ~UnderWay(s, 0)
           /\ \A n \in Nodes :
                 /\ Gone(Scenario, Forwards(Scenario, n, s), PeriodOf(Scenario, s)) = Forwards(Scenario, n, s)
                 /\ Counted(Scenario, Forwards(Scenario, n, s), PeriodOf(Scenario, s)) = 0
                 /\ Counted(Scenario, Forwards(Scenario, n, s), 0) = 0
  <1> DEFINE c == Scenario
  <1>1. c \in ToSet(Scenarios)
    BY HopsOfEnds
  <1>2. \A i \in Places(c, s) : Elems(c)[i].offset < PeriodOf(c, s) /\ ~(Elems(c)[i].offset < 0)
    BY <1>1, PlaceFacts
  <1>3. Lasts(c, s) \subseteq Places(c, s) /\ Firsts(c, s) \subseteq Places(c, s)
        /\ \A n \in Nodes : Forwards(c, n, s) \in SUBSET Places(c, s)
    BY DEF Lasts, Firsts, Forwards
  <1>4. ~UnderWay(s, PeriodOf(c, s)) /\ ~UnderWay(s, 0)
    BY <1>2, <1>3 DEF UnderWay, Gone
  <1>5. \A n \in Nodes : Gone(c, Forwards(c, n, s), PeriodOf(c, s)) = Forwards(c, n, s)
    BY <1>2, <1>3 DEF Gone
  <1>6. \A n \in Nodes : /\ Counted(c, Forwards(c, n, s), PeriodOf(c, s)) = 0
                         /\ Counted(c, Forwards(c, n, s), 0) = 0
    BY <1>1, <1>3, CountRound
  <1> QED BY <1>4, <1>5, <1>6

LEMMA PlaySlotCarried ==
    ASSUME SchedulesAreWhole, FailuresAreDetected, Typed, InStep, Carried, NEW lost, PlaySlot(lost)
    PROVE  Carried'
  <1>1. /\ played' = played /\ scenario' = scenario /\ slotIndex' = AfterSlot(1) /\ Scenario' = Scenario
        /\ flying' = [s \in Streams |-> Flying(s)]
        /\ bufCtr' = [n \in Nodes |-> [s \in Streams |-> CountTransmission(n, s)]]
    BY SameScenario DEF PlaySlot
  <1>2. ASSUME NEW s \in Streams \ played PROVE flying'[s] = <<>>
    <2>1. flying[s] = <<>>
      BY DEF Carried
    <2>2. ~Sends(s) /\ ~Ends(s)
      BY EndFacts
    <2> QED BY <1>1, <2>1, <2>2 DEF Flying, BeginsPeriod, EndsPeriod
  <1>3. ASSUME NEW s \in played
        PROVE  /\ Carries(s, Phase(s), flying[s], tx[s].packet, rx[s].packet)'
               /\ \A n \in Nodes : Holds(n, s, Phase(s), Round(s), flying[s], buffer[n][s], bufCtr[n][s])'
    <2> DEFINE x == Phase(s)
               P == PeriodOf(Scenario, s)
    <2>1. s \in Ids(Scenario) /\ s \in Streams /\ x \in Nat /\ P \in Nat \ {0} /\ Round(s) \in Nat
      BY HopsOfEnds, PhaseFacts
    <2>2. IF x + 1 = P THEN Phase(s)' = 0 /\ Round(s)' = IF Wraps(1) THEN 1 ELSE Round(s) + 1
                       ELSE Phase(s)' = x + 1 /\ Round(s)' = Round(s) /\ ~Wraps(1)
      BY <1>1, <2>1, SlotTurns
    <2>3. Carries(s, x + 1, flying'[s], tx'[s].packet, rx'[s].packet)
      BY SlotCarries
    <2>4. \A n \in Nodes : Holds(n, s, x + 1, Round(s), flying'[s], UseBuffer(n, s, lost), bufCtr'[n][s])
      <3> TAKE n \in Nodes
      <3>1. bufCtr'[n][s] = CountTransmission(n, s)
        BY <1>1, <2>1
      <3> QED BY <3>1, SlotHolds
    <2>5. ~UnderWay(s, P) /\ ~UnderWay(s, 0)
      BY PeriodEnds
    <2>6. CASE x + 1 = P
      <3>1. Phase(s)' = 0 /\ Round(s)' = IF Wraps(1) THEN 1 ELSE Round(s) + 1
        BY <2>2, <2>6
      <3>2. flying'[s] = <<>> /\ rx'[s].packet = NoPacket
        BY <2>3, <2>5, <2>6 DEF Carries
      <3>3. ~ UnderWay(s, Phase(s))'
        BY <1>1, <2>5, <3>1 DEF UnderWay
      <3>4. Carries(s, Phase(s), flying[s], tx[s].packet, rx[s].packet)'
        BY <3>2, <3>3 DEF Carries
      <3>5. ASSUME NEW n \in Nodes
            PROVE  Holds(n, s, Phase(s), Round(s), flying[s], buffer[n][s], bufCtr[n][s])'
        <4> DEFINE z == UseBuffer(n, s, lost)
                   b == buffer'[n][s]
                   T == Forwards(Scenario, n, s)
        <4>1. /\ b.current = IF Wraps(1) THEN FALSE ELSE z.current
              /\ b.seqNo = z.seqNo
              /\ z = EmptyBuffer => b = EmptyBuffer
              /\ b \in Buffers
          BY <2>1, PlaySlotEffects
        <4>2. Holds(n, s, P, Round(s), flying'[s], z, bufCtr'[n][s])
          BY <2>4, <2>6
        <4>3. /\ z.current => Scenario.authenticated /\ z.seqNo <= Round(s)
              /\ ~Scenario.authenticated => bufCtr'[n][s] = Counted(Scenario, T, P)
              /\ ~Scenario.authenticated => (Gone(Scenario, T, P) = T => z = EmptyBuffer)
          BY <4>2 DEF Holds
        <4>4. Gone(Scenario, T, P) = T /\ Counted(Scenario, T, P) = 0 /\ Counted(Scenario, T, 0) = 0
          BY PeriodEnds
        <4>5. b.seqNo \in Nat
          BY <4>1 DEF Buffers, EmptyBuffer
        <4>6. Scenario.authenticated => (b.current => b.seqNo < Round(s)' /\ b.seqNo <= Round(s)')
          <5> SUFFICES ASSUME b.current PROVE Scenario.authenticated => b.seqNo < Round(s)' /\ b.seqNo <= Round(s)'
            OBVIOUS
          <5>1. ~Wraps(1) /\ z.current
            BY <4>1
          <5>2. b.seqNo <= Round(s) /\ Round(s)' = Round(s) + 1
            BY <3>1, <4>1, <4>3, <5>1
          <5> HIDE DEF b
          <5> QED BY <2>1, <4>5, <5>2
        <4>7. ~Scenario.authenticated => b = EmptyBuffer
          BY <4>1, <4>3, <4>4
        <4>8. ~ Fresh(Round(s)', b)
          <5> HIDE DEF b
          <5>1. Scenario.authenticated => ~(b.current /\ b.seqNo = Round(s)')
            BY <4>5, <4>6
          <5> QED BY <4>7, <5>1 DEF Fresh
        <4>9. b.current => Scenario.authenticated /\ b.seqNo <= Round(s)'
          <5> HIDE DEF b
          <5> QED BY <4>6, <4>7 DEF EmptyBuffer
        <4> HIDE DEF z, T
        <4> QED BY <1>1, <3>1, <4>3, <4>4, <4>7, <4>8, <4>9 DEF Holds, Fresh, EmptyBuffer, T
      <3> QED BY <3>4, <3>5
    <2>7. CASE x + 1 # P
      <3>1. Phase(s)' = x + 1 /\ Round(s)' = Round(s) /\ ~Wraps(1)
        BY <2>2, <2>7
      <3>2. Carries(s, Phase(s), flying[s], tx[s].packet, rx[s].packet)'
        BY <1>1, <2>3, <3>1 DEF Carries, UnderWay
      <3>3. ASSUME NEW n \in Nodes
            PROVE  Holds(n, s, Phase(s), Round(s), flying[s], buffer[n][s], bufCtr[n][s])'
        <4>1. buffer'[n][s] = UseBuffer(n, s, lost)
          BY <2>1, <3>1, PlaySlotEffects
        <4>2. Holds(n, s, x + 1, Round(s), flying'[s], buffer'[n][s], bufCtr'[n][s])
          BY <2>4, <4>1
        <4> QED BY <1>1, <3>1, <4>2 DEF Holds, Fresh, UnderWay, EmptyBuffer
      <3> QED BY <3>2, <3>3
    <2> QED BY <2>6, <2>7
  <1> QED BY <1>1, <1>2, <1>3 DEF Carried

LEMMA AdvanceCarried ==
    ASSUME SchedulesAreWhole, Typed, Carried, NEW able, AdvanceByControl(able)
    PROVE  Carried'
  <1>1. /\ played' = played /\ scenario' = scenario /\ Scenario' = Scenario /\ tx' = tx /\ rx' = rx
        /\ flying' = flying /\ buffer' = buffer /\ bufCtr' = bufCtr
    BY SameScenario DEF AdvanceByControl, endVars
  <1>2. ASSUME NEW s \in played
        PROVE  /\ Carries(s, Phase(s), flying[s], tx[s].packet, rx[s].packet)'
               /\ \A n \in Nodes : Holds(n, s, Phase(s), Round(s), flying[s], buffer[n][s], bufCtr[n][s])'
    <2>1. /\ s \in Ids(Scenario)
          /\ Firsts(Scenario, s) \in SUBSET Places(Scenario, s) /\ Lasts(Scenario, s) \in SUBSET Places(Scenario, s)
          /\ \A n : Forwards(Scenario, n, s) \in SUBSET Places(Scenario, s)
          /\ \A n : Fills(Scenario, n, s) \in SUBSET Places(Scenario, s)
      BY HopsOfEnds DEF Forwards, Fills
    <2>2. /\ Round(s)' = Round(s)
          /\ \A T \in SUBSET Places(Scenario, s) :
                 Gone(Scenario, T, Phase(s)') = Gone(Scenario, T, Phase(s))
      BY <2>1, ControlTurns
    <2>3. UnderWay(s, Phase(s))' <=> UnderWay(s, Phase(s))
      BY <1>1, <2>1, <2>2 DEF UnderWay
    <2>4. Carries(s, Phase(s), flying[s], tx[s].packet, rx[s].packet)
      BY DEF Carried
    <2>5. Carries(s, Phase(s), flying[s], tx[s].packet, rx[s].packet)'
      BY <1>1, <2>3, <2>4 DEF Carries
    <2>6. ASSUME NEW n \in Nodes
          PROVE  Holds(n, s, Phase(s), Round(s), flying[s], buffer[n][s], bufCtr[n][s])'
      <3>1. Holds(n, s, Phase(s), Round(s), flying[s], buffer[n][s], bufCtr[n][s])
        BY DEF Carried
      <3>2. /\ Gone(Scenario, Firsts(Scenario, s), Phase(s)') = Gone(Scenario, Firsts(Scenario, s), Phase(s))
            /\ Gone(Scenario, Forwards(Scenario, n, s), Phase(s)') = Gone(Scenario, Forwards(Scenario, n, s), Phase(s))
            /\ Gone(Scenario, Fills(Scenario, n, s), Phase(s)') = Gone(Scenario, Fills(Scenario, n, s), Phase(s))
        BY <2>1, <2>2
      <3>3. Counted(Scenario, Forwards(Scenario, n, s), Phase(s)') = Counted(Scenario, Forwards(Scenario, n, s), Phase(s))
        BY <3>2 DEF Counted
      <3> QED BY <1>1, <2>2, <2>3, <3>1, <3>2, <3>3 DEF Holds, Fresh, EmptyBuffer
    <2> QED BY <2>5, <2>6
  <1>3. \A s \in Streams \ played : flying[s] = <<>>
    BY DEF Carried
  <1> QED BY <1>1, <1>2, <1>3 DEF Carried

\* Nothing flies in the first slot.
LEMMA NothingFlies ==
    ASSUME SchedulesAreWhole, Typed, Carried, slotIndex = 0, NEW s \in Streams
    PROVE  /\ flying[s] = <<>>
           /\ s \in played => /\ rx[s].packet = NoPacket /\ Phase(s) = 0 /\ ~UnderWay(s, 0)
                              /\ \A n \in Nodes : Counted(Scenario, Forwards(Scenario, n, s), 0) = 0
  <1>1. CASE s \in played
    <2>1. Phase(s) = 0
      BY <1>1, FirstSlot
    <2>2. ~UnderWay(s, 0) /\ \A n \in Nodes : Counted(Scenario, Forwards(Scenario, n, s), 0) = 0
      BY <1>1, PeriodEnds
    <2>3. Carries(s, 0, flying[s], tx[s].packet, rx[s].packet)
      BY <1>1, <2>1 DEF Carried
    <2> QED BY <1>1, <2>1, <2>2, <2>3 DEF Carries
  <1>2. CASE s \notin played
    BY <1>2 DEF Carried
  <1> QED BY <1>1, <1>2

LEMMA RemoveCarried ==
    ASSUME SchedulesAreWhole, Typed, Carried, NEW r \in Streams, RemoveStream(r)
    PROVE  Carried'
  <1>1. /\ scenario' = scenario /\ slotIndex' = slotIndex /\ slotIndex = 0 /\ played' = played \ {r}
        /\ flying' = flying
        /\ \A n \in Nodes, s \in Streams : bufCtr'[n][s] = 0 /\ buffer'[n][s] = EmptyBuffer
        /\ \A s \in Streams : rx'[s].packet = rx[s].packet
    BY RemoveEffects
  <1>2. Scenario' = Scenario
    BY <1>1, SameScenario
  <1>3. ASSUME NEW s \in played
        PROVE  /\ Carries(s, Phase(s), flying[s], tx[s].packet, rx[s].packet)'
               /\ \A n \in Nodes : Holds(n, s, Phase(s), Round(s), flying[s], buffer[n][s], bufCtr[n][s])'
    <2>1. s \in Streams
      BY HopsOfEnds, PhaseFacts
    <2>2. /\ flying[s] = <<>> /\ rx[s].packet = NoPacket /\ Phase(s) = 0 /\ ~UnderWay(s, 0)
          /\ \A n \in Nodes : Counted(Scenario, Forwards(Scenario, n, s), 0) = 0
      BY <1>1, <2>1, NothingFlies
    <2>3. Phase(s)' = 0
      BY <1>1, <1>2, <2>2 DEF Phase
    <2>4. ~UnderWay(s, Phase(s))'
      BY <1>2, <2>2, <2>3 DEF UnderWay
    <2>5. Carries(s, Phase(s), flying[s], tx[s].packet, rx[s].packet)'
      BY <1>1, <2>1, <2>2, <2>4 DEF Carries
    <2>6. ASSUME NEW n \in Nodes
          PROVE  Holds(n, s, Phase(s), Round(s), flying[s], buffer[n][s], bufCtr[n][s])'
      <3>1. bufCtr'[n][s] = 0 /\ buffer'[n][s] = EmptyBuffer
        BY <1>1, <2>1
      <3> QED BY <1>2, <2>2, <2>3, <3>1 DEF Holds, Fresh, EmptyBuffer
    <2> QED BY <2>5, <2>6
  <1>4. \A s \in Streams : flying'[s] = <<>>
    BY <1>1, NothingFlies
  <1> QED BY <1>1, <1>3, <1>4 DEF Carried

LEMMA CalmCarried ==
    ASSUME Typed, Carried, Calm
    PROVE  Carried'
  <1>1. /\ played' = played /\ slotIndex' = slotIndex /\ Scenario' = Scenario /\ flying' = flying
        /\ buffer' = buffer /\ bufCtr' = bufCtr
    BY SameNetwork DEF Calm
  <1>2. \A s \in played : tx'[s].packet = tx[s].packet /\ rx'[s].packet = rx[s].packet
    <2>1. \A s \in played : s \in Streams
      BY PhaseFacts DEF Typed
    <2> QED BY <2>1 DEF Calm
  <1>3. \A s \in Streams \ played : flying[s] = <<>>
    BY DEF Carried
  <1>4. ASSUME NEW s \in played PROVE Phase(s)' = Phase(s) /\ Round(s)' = Round(s)
    BY <1>1 DEF Phase, Round
  <1>5. ASSUME NEW s \in played PROVE Carries(s, Phase(s), flying[s], tx[s].packet, rx[s].packet)'
    <2>1. Carries(s, Phase(s), flying[s], tx[s].packet, rx[s].packet)
      BY DEF Carried
    <2> QED BY <1>1, <1>2, <1>4, <2>1 DEF Carries, UnderWay
  <1>6. ASSUME NEW s \in played, NEW n \in Nodes
        PROVE  Holds(n, s, Phase(s), Round(s), flying[s], buffer[n][s], bufCtr[n][s])'
    <2>1. Holds(n, s, Phase(s), Round(s), flying[s], buffer[n][s], bufCtr[n][s])
      BY DEF Carried
    <2> QED BY <1>1, <1>4, <2>1 DEF Holds, Fresh, UnderWay, EmptyBuffer
  <1> QED BY <1>1, <1>3, <1>5, <1>6 DEF Carried

LEMMA InitCarried ==
    ASSUME SchedulesAreWhole, Init
    PROVE  Carried
  <1>1. Typed
    BY InitTyped
  <1>2. /\ slotIndex = 0 /\ flying = [s \in Streams |-> <<>>]
        /\ \A s \in Streams : rx[s].packet = NoPacket
        /\ \A n \in Nodes, s \in Streams : bufCtr[n][s] = 0 /\ buffer[n][s] = EmptyBuffer
    BY DEF Init
  <1>3. ASSUME NEW s \in played
        PROVE  /\ Carries(s, Phase(s), flying[s], tx[s].packet, rx[s].packet)
               /\ \A n \in Nodes : Holds(n, s, Phase(s), Round(s), flying[s], buffer[n][s], bufCtr[n][s])
    <2>1. s \in Streams /\ Phase(s) = 0
      BY <1>1, <1>2, HopsOfEnds, PhaseFacts, FirstSlot
    <2>2. ~UnderWay(s, 0) /\ \A n \in Nodes : Counted(Scenario, Forwards(Scenario, n, s), 0) = 0
      BY <1>1, PeriodEnds
    <2>3. Carries(s, Phase(s), flying[s], tx[s].packet, rx[s].packet)
      BY <1>2, <2>1, <2>2 DEF Carries
    <2>4. \A n \in Nodes : Holds(n, s, Phase(s), Round(s), flying[s], buffer[n][s], bufCtr[n][s])
      <3> TAKE n \in Nodes
      <3>1. bufCtr[n][s] = 0 /\ buffer[n][s] = EmptyBuffer
        BY <1>2, <2>1
      <3>2. Holds(n, s, 0, Round(s), flying[s], EmptyBuffer, 0)
        BY <2>2 DEF Holds, Fresh, EmptyBuffer
      <3> QED BY <2>1, <3>1, <3>2
    <2> QED BY <2>3, <2>4
  <1>4. \A s \in Streams \ played : flying[s] = <<>>
    BY <1>2
  <1> QED BY <1>3, <1>4 DEF Carried

LEMMA CarriedStep ==
    ASSUME SchedulesAreWhole, FailuresAreDetected, Typed, InStep, Carried, [Next]_vars
    PROVE  Carried'
  BY StepCases, PlaySlotCarried, AdvanceCarried, RemoveCarried, CalmCarried

-----------------------------------------------------------------------------
(***************************************************************************)
(* Each stream is a channel.                                               *)
(***************************************************************************)
ChannelStep(s) ==
    \/ Channel!Write(s) \/ Channel!Begin(s) \/ Channel!End(s)
    \/ Channel!BeginAndEnd(s) \/ Channel!Read(s) \/ Channel!Rests(s)

\* The state of the channel.
LEMMA ChannelFacts ==
    ASSUME NEW s \in Streams
    PROVE  /\ [r \in Streams |-> tx[r].next][s] = tx[s].next
           /\ [r \in Streams |-> Received(r)][s] = Received(s)
           /\ [r \in Streams |-> tx[r].next]'[s] = tx'[s].next
           /\ [r \in Streams |-> Received(r)]'[s] = Received(s)'
           /\ s \in {r \in Streams : sendCallback[r] # NoPacket} <=> sendCallback[s] # NoPacket
  OBVIOUS

\* Nothing happens, or the shelf is emptied.
LEMMA RestsOrReads ==
    ASSUME NEW s \in Streams, flying' = flying, tx'[s].next = tx[s].next,
           Received(s)' \in {Received(s), NoPacket}
    PROVE  ChannelStep(s)
  BY DEF ChannelStep, Channel!Read, Channel!Rests, Channel!KeepsOffered, Channel!KeepsFlying,
         Channel!KeepsShelf

LEMMA SlotIsChannelStep ==
    ASSUME SchedulesAreWhole, Typed, InStep, Carried, NEW lost, PlaySlot(lost), NEW s \in Streams
    PROVE  ChannelStep(s)
  <1>1. /\ tx'[s].next = SendPacket(s).next
        /\ rx'[s].shared = IF EndsPeriod(s) /\ s \in recvCallback THEN NoPacket
                           ELSE ReceiveStream(s, lost).shared
        /\ called'[s] = IF EndsPeriod(s) /\ s \in recvCallback
                        THEN ReceiveStream(s, lost).shared ELSE called[s]
    BY PlaySlotEffects
  <1>2. recvCallback' = recvCallback /\ flying'[s] = Flying(s)
    BY DEF PlaySlot
  <1>3. tx'[s].next = IF BeginsPeriod(s) THEN NoPacket ELSE tx[s].next
    <2>1. SendPacket(s).next = IF Sends(s) /\ tx[s].count = 0 THEN NoPacket ELSE tx[s].next
      BY SendPacketFacts
    <2> QED BY <1>1, <2>1 DEF BeginsPeriod
  <1>4. ~EndsPeriod(s) => ReceiveStream(s, lost).shared = rx[s].shared
    <2>1. CASE s \in played
      BY <2>1, ReceivedIsCarried
    <2>2. CASE s \notin played
      BY <2>2, EndFacts, ReceiveStreamFacts
    <2> QED BY <2>1, <2>2
  <1>5. Received(s)' = IF EndsPeriod(s) THEN ReceiveStream(s, lost).shared ELSE Received(s)
    BY <1>1, <1>2, <1>4 DEF Received
  <1>6. /\ sendCallback[s] # NoPacket => Offered(s) \in Packets
        /\ sendCallback[s] = NoPacket => Offered(s) = tx[s].next
    BY DEF Offered, Typed, Maybe
  <1>7. CASE s \notin played
    <2>1. ~BeginsPeriod(s) /\ ~EndsPeriod(s)
      BY <1>7, EndFacts DEF BeginsPeriod, EndsPeriod
    <2>2. flying'[s] = flying[s]
      BY <1>2, <2>1 DEF Flying
    <2> QED BY <1>3, <1>5, <2>1, <2>2
            DEF ChannelStep, Channel!Rests, Channel!KeepsOffered, Channel!KeepsFlying, Channel!KeepsShelf
  <1>8. CASE s \in played
    <2>1. /\ EndsPeriod(s) => During(s) /\ flying'[s] = <<>>
          /\ ~EndsPeriod(s) => flying'[s] = Begun(s)
      BY <1>8, SlotCarries
    <2>2. EndsPeriod(s) => Received(s)' \in {Carrier(s), NoPacket}
      BY <1>5, <1>8, ReceivedIsCarried
    <2>3. /\ During(s) => Begun(s) = <<Carrier(s)>>
          /\ BeginsPeriod(s) => flying[s] = <<>>
      BY <1>8, BegunFacts
    <2>4. BeginsPeriod(s) => During(s)
      BY <1>8, DuringFacts
    <2>5. CASE BeginsPeriod(s)
      <3>1. Carrier(s) = Offered(s) /\ tx'[s].next = NoPacket /\ flying[s] = <<>> /\ Begun(s) = <<Offered(s)>>
        BY <1>3, <2>3, <2>4, <2>5 DEF Carrier
      <3>2. CASE EndsPeriod(s)
        BY <1>6, <2>1, <2>2, <3>1, <3>2 DEF ChannelStep, Channel!BeginAndEnd, Channel!Taken
      <3>3. CASE ~EndsPeriod(s)
        BY <1>5, <1>6, <2>1, <3>1, <3>3 DEF ChannelStep, Channel!Begin, Channel!Taken, Channel!KeepsShelf
      <3> QED BY <3>2, <3>3
    <2>6. CASE ~BeginsPeriod(s)
      <3>1. Carrier(s) = flying[s][1] /\ tx'[s].next = tx[s].next /\ Begun(s) = flying[s]
        BY <1>3, <2>6 DEF Carrier, Begun
      <3>2. CASE EndsPeriod(s)
        <4>1. flying[s] = <<Carrier(s)>> /\ flying[s] # <<>> /\ flying'[s] = <<>>
          BY <2>1, <2>3, <3>1, <3>2
        <4> QED BY <2>2, <3>1, <3>2, <4>1 DEF ChannelStep, Channel!End, Channel!KeepsOffered
      <3>3. CASE ~EndsPeriod(s)
        BY <1>5, <2>1, <3>1, <3>3
           DEF ChannelStep, Channel!Rests, Channel!KeepsOffered, Channel!KeepsFlying, Channel!KeepsShelf
      <3> QED BY <3>2, <3>3
    <2> QED BY <2>5, <2>6
  <1> QED BY <1>7, <1>8

\* A writer that is asked goes on being asked.
LEMMA SlotKeepsAsked ==
    ASSUME NEW lost, PlaySlot(lost), NEW s \in Streams, sendCallback[s] # NoPacket
    PROVE  sendCallback'[s] # NoPacket
  <1>1. sendCallback' \in NextAnswers /\ NoPacket \notin Packets
    BY DataAssumption DEF PlaySlot
  <1> QED BY <1>1 DEF NextAnswers

\* A step that keeps what is offered and carried, and takes nothing but packets off the shelves.
QuietStep ==
    /\ flying' = flying
    /\ \A r \in Streams : tx'[r].next = tx[r].next /\ Received(r)' \in {Received(r), NoPacket}
    /\ \A r \in Streams : sendCallback[r] # NoPacket => sendCallback'[r] # NoPacket

LEMMA RemoveIsQuiet ==
    ASSUME Typed, NEW s \in Streams, RemoveStream(s)
    PROVE  QuietStep
  <1>1. /\ UNCHANGED <<sendCallback, recvCallback, flying>>
        /\ \A r \in Streams : tx'[r].next = tx[r].next /\ rx'[r].shared = rx[r].shared
    BY RemoveEffects
  <1>2. called' = [called EXCEPT ![s] = NoPacket]
    BY DEF RemoveStream, CallsWithNothing
  <1>3. called \in [Streams -> Maybe]
    BY CallbackFacts
  <1> QED BY <1>1, <1>2, <1>3 DEF QuietStep, Received

LEMMA QuietSteps ==
    ASSUME Typed, NEW s \in Streams
    PROVE  /\ \A p \in Packets : SetSendCallback(s, p) => QuietStep
           /\ Read(s) \/ SetReceiveCallback(s) => QuietStep
           /\ \A end \in {"tx", "rx"} : Close(s, end) => QuietStep
           /\ UNCHANGED vars => QuietStep
           /\ \A able : AdvanceByControl(able) => QuietStep
  <1>1. ASSUME NEW p \in Packets, SetSendCallback(s, p) PROVE QuietStep
    <2>1. /\ UNCHANGED <<tx, rx, flying, recvCallback, called>>
          /\ sendCallback' = [sendCallback EXCEPT ![s] = p] /\ p # NoPacket
      BY <1>1, DataAssumption DEF SetSendCallback, endVars
    <2> QED BY <2>1, CallbackFacts DEF QuietStep, Received
  <1>2. ASSUME Read(s) PROVE QuietStep
    <2>1. /\ UNCHANGED <<tx, sendCallback, recvCallback, called, flying>>
          /\ \A r \in Streams : rx'[r].shared \in {rx[r].shared, NoPacket}
      BY <1>2, ReadEffects DEF dataVars
    <2> QED BY <2>1 DEF QuietStep, Received
  <1>3. ASSUME SetReceiveCallback(s) PROVE QuietStep
    <2>1. /\ UNCHANGED <<tx, rx, sendCallback, called, flying>>
          /\ s \notin recvCallback /\ recvCallback' = recvCallback \cup {s}
      BY <1>3 DEF SetReceiveCallback, endVars
    <2>2. called[s] = NoPacket
      BY <2>1, CallbackFacts
    <2> QED BY <2>1, <2>2 DEF QuietStep, Received
  <1>4. ASSUME NEW end \in {"tx", "rx"}, Close(s, end) PROVE QuietStep
    <2>1. /\ UNCHANGED <<tx, rx, sendCallback, recvCallback, flying>>
          /\ called' = called \/ called' = [called EXCEPT ![s] = NoPacket]
      BY <1>4 DEF Close, CallsWithNothing, endVars
    <2> QED BY <2>1, CallbackFacts DEF QuietStep, Received
  <1>5. ASSUME UNCHANGED vars PROVE QuietStep
    BY <1>5 DEF QuietStep, Received, vars, endVars, appVars, callbackVars
  <1>6. ASSUME NEW able, AdvanceByControl(able) PROVE QuietStep
    BY <1>6 DEF QuietStep, Received, AdvanceByControl, endVars, appVars, callbackVars
  <1> QED BY <1>1, <1>2, <1>3, <1>4, <1>5, <1>6

\* What is written in the model is written in the channel.
LEMMA WriteIsChannelStep ==
    ASSUME Typed, NEW s \in Streams, NEW p \in Packets, Write(s, p), NEW r \in Streams
    PROVE  ChannelStep(r)
  <1>1. /\ UNCHANGED <<rx, sendCallback, recvCallback, called, flying>>
        /\ \/ tx' = tx
           \/ /\ tx[s].next = NoPacket /\ tx'[s].next = p /\ sendCallback[s] = NoPacket
              /\ \A q \in Streams \ {s} : tx'[q] = tx[q]
    BY WriteEffects
  <1>2. Received(r)' = Received(r)
    BY <1>1 DEF Received
  <1>3. CASE r = s /\ tx' # tx
    BY <1>1, <1>2, <1>3 DEF ChannelStep, Channel!Write, Channel!KeepsFlying, Channel!KeepsShelf
  <1>4. CASE ~(r = s /\ tx' # tx)
    <2>1. tx'[r].next = tx[r].next
      BY <1>1, <1>4
    <2> QED BY <1>1, <1>2, <2>1, RestsOrReads
  <1> QED BY <1>3, <1>4

LEMMA QuietIsChannelStep ==
    ASSUME QuietStep, NEW r \in Streams
    PROVE  ChannelStep(r)
  BY RestsOrReads DEF QuietStep

LEMMA ChannelStepCases ==
    ASSUME Typed, [Next]_vars
    PROVE  \/ \E lost \in SUBSET {e.rx : e \in Hops} : PlaySlot(lost)
           \/ \E s \in Streams, p \in Packets : Write(s, p)
           \/ QuietStep
  <1>1. CASE UNCHANGED vars
    BY <1>1 DEF QuietStep, Received, vars, endVars, appVars, callbackVars
  <1>2. CASE NetworkStep
    <2>1. ASSUME NEW able \in SUBSET Nodes, AdvanceByControl(able) PROVE QuietStep
      BY <2>1 DEF QuietStep, Received, AdvanceByControl, endVars, appVars, callbackVars
    <2> QED BY <1>2, <2>1 DEF NetworkStep
  <1>3. CASE \E s \in Streams, p \in Packets : Write(s, p) \/ SetSendCallback(s, p)
    BY <1>3, QuietSteps
  <1>4. CASE \E s \in Streams : Read(s) \/ SetReceiveCallback(s) \/ RemoveStream(s)
    BY <1>4, QuietSteps, RemoveIsQuiet
  <1>5. CASE \E s \in Streams, end \in {"tx", "rx"} : Close(s, end)
    BY <1>5, QuietSteps
  <1> QED BY <1>1, <1>2, <1>3, <1>4, <1>5 DEF Next

LEMMA NextIsChannelStep ==
    ASSUME SchedulesAreWhole, Typed, InStep, Carried, [Next]_vars
    PROVE  Channel!Next
  <1>1. ASSUME NEW r \in Streams PROVE ChannelStep(r)
    BY ChannelStepCases, SlotIsChannelStep, WriteIsChannelStep, QuietIsChannelStep
  <1>2. ASSUME NEW r \in Streams, sendCallback[r] # NoPacket PROVE sendCallback'[r] # NoPacket
    <2>1. CASE \E lost \in SUBSET {e.rx : e \in Hops} : PlaySlot(lost)
      BY <1>2, <2>1, SlotKeepsAsked
    <2>2. CASE \E s \in Streams, p \in Packets : Write(s, p)
      BY <1>2, <2>2, WriteEffects
    <2>3. CASE QuietStep
      BY <1>2, <2>3 DEF QuietStep
    <2> QED BY <2>1, <2>2, <2>3, ChannelStepCases
  <1> QED BY <1>1, <1>2 DEF Channel!Next, ChannelStep

LEMMA InitIsChannelInit ==
    ASSUME Init
    PROVE  Channel!Init
  <1>1. \A s \in Streams : tx[s].next = NoPacket /\ Received(s) = NoPacket /\ sendCallback[s] = NoPacket
    BY DEF Init, Received
  <1>2. flying = [s \in Streams |-> <<>>]
    BY DEF Init
  <1> QED BY <1>1, <1>2 DEF Channel!Init

\* Each stream is the channel of PeriodicChannel, whatever the relays, the copies and the losses
\* in between (sendPacket, receivePacket and missPacket of Stream; sendFromBuffer and
\* receiveToBuffer of DataPhase): the reader gets what was written for the period just ended, or
\* nothing.
THEOREM ChannelsImplementedHolds ==
    ASSUME SchedulesAreWhole, FailuresAreDetected
    PROVE  Spec => ChannelsImplemented
  <1>1. Init => Typed /\ InStep /\ Carried
    BY InitTyped, InitInStep, InitCarried
  <1>2. Typed /\ InStep /\ Carried /\ [Next]_vars => (Typed /\ InStep /\ Carried)'
    BY TypedStep, InStepStep, CarriedStep
  <1>3. Typed /\ InStep /\ Carried /\ [Next]_vars => [Channel!Next]_(Channel!vars)
    BY NextIsChannelStep
  <1>4. Init => Channel!Init
    BY InitIsChannelInit
  <1> QED BY <1>1, <1>2, <1>3, <1>4, PTL DEF Spec, ChannelsImplemented, Channel!Spec

-----------------------------------------------------------------------------
(***************************************************************************)
(* A copy that no hop has lost.                                            *)
(***************************************************************************)
\* The elements that a node has to do with.
Visits(c, n, s) == {i \in Places(c, s) : n \in {Elems(c)[i].tx, Elems(c)[i].rx}}

\* The destination has what flies when the last hop of such a copy is gone.
Delivered(s, x, fl, got, copies) ==
    \A i \in Gone(Scenario, Lasts(Scenario, s), x) : Elems(Scenario)[i].copy \in copies => got = fl[1]

\* A relay that has received such a copy last has a packet of the period.
Kept(n, s, x, round, fl, b, copies) ==
    \A i \in Gone(Scenario, Fills(Scenario, n, s), x) :
        /\ Elems(Scenario)[i].copy \in copies
        /\ \A j \in Gone(Scenario, Visits(Scenario, n, s), x) :
              Elems(Scenario)[j].offset <= Elems(Scenario)[i].offset
        /\ fl[1] # NoPacket
        => Fresh(round, b)

Intact ==
    \A s \in played : UnderWay(s, Phase(s)) =>
        /\ through[s] \subseteq 1 .. RedundancyCount(s)
        /\ Delivered(s, Phase(s), flying[s], rx[s].packet, through[s])
        /\ \A n \in Nodes : Kept(n, s, Phase(s), Round(s), flying[s], buffer[n][s], through[s])

\* What is forwarded is what was received last.
LEMMA CopyFollows ==
    ASSUME SchedulesAreWhole, CopiesStayApart, NEW c \in ToSet(Scenarios), NEW s,
           NEW i \in Places(c, s), Elems(c)[i].tx # Elems(c)[i].stream.src
    PROVE  \E j \in Fills(c, Elems(c)[i].tx, s) :
              /\ Elems(c)[j].copy = Elems(c)[i].copy
              /\ Elems(c)[j].offset < Elems(c)[i].offset
              /\ \A m \in Visits(c, Elems(c)[i].tx, s) :
                    Elems(c)[m].offset <= Elems(c)[j].offset \/ Elems(c)[m].offset >= Elems(c)[i].offset
  <1> DEFINE e == Elems(c)[i]
             n == e.tx
  <1>1. i \in DOMAIN Elems(c) /\ e.stream.id = s /\ e.stream = StreamIn(c, s)
    BY PlaceFacts
  <1>2. e \in ToSet(Elems(c))
    BY <1>1, ElementFacts
  <1>3. HopAfterHop(c.schedule) /\ CopyAfterCopy(c.schedule)
    BY DEF SchedulesAreWhole, CopiesStayApart
  <1>4. e.tx # e.stream.dst
    BY <1>1, <1>3 DEF HopAfterHop, Elems
  <1>5. PICK f \in ToSet(Elems(c)) :
            /\ f.stream = e.stream /\ f.copy = e.copy /\ f.rx = e.tx /\ f.offset < e.offset
            /\ \A g \in ToSet(Elems(c)) : g.stream = e.stream /\ e.tx \in {g.tx, g.rx} =>
                  g.offset <= f.offset \/ g.offset >= e.offset
    BY <1>2, <1>3 DEF CopyAfterCopy, Elems
  <1>6. PICK j \in DOMAIN Elems(c) : f = Elems(c)[j]
    BY DEF ToSet
  <1>7. j \in Fills(c, n, s)
    <2>1. j \in Places(c, s)
      BY <1>1, <1>5, <1>6 DEF Places
    <2>2. ActionOf(Elems(c)[j], n) = "RECVBUFFER"
      BY <1>4, <1>5, <1>6, ActionFacts
    <2> QED BY <2>1, <2>2 DEF Fills
  <1>8. ASSUME NEW m \in Visits(c, n, s)
        PROVE  Elems(c)[m].offset <= Elems(c)[j].offset \/ Elems(c)[m].offset >= e.offset
    <2>1. m \in Places(c, s) /\ n \in {Elems(c)[m].tx, Elems(c)[m].rx}
      BY DEF Visits
    <2>2. m \in DOMAIN Elems(c) /\ Elems(c)[m].stream = e.stream
      BY <1>1, <2>1, PlaceFacts
    <2>3. Elems(c)[m] \in ToSet(Elems(c))
      BY <2>2, ElementFacts
    <2> QED BY <1>5, <1>6, <2>1, <2>2, <2>3
  <1> QED BY <1>5, <1>6, <1>7, <1>8

\* Where such a copy is due, its hop does not fail.
LEMMA ThroughFacts ==
    ASSUME SchedulesAreWhole, Typed, NEW s \in played, NEW lost
    PROVE  /\ ~BeginsPeriod(s) => Through(s, lost) \subseteq through[s]
           /\ BeginsPeriod(s) => Through(s, lost) \subseteq 1 .. RedundancyCount(s)
           /\ \A i \in Places(Scenario, s) :
                 Elems(Scenario)[i].offset = Phase(s) /\ Elems(Scenario)[i].copy \in Through(s, lost) =>
                    /\ Elems(Scenario)[i].rx \notin lost
                    /\ Elems(Scenario)[i].tx \in operating /\ Elems(Scenario)[i].rx \in operating
  <1>1. ASSUME NEW i \in Places(Scenario, s), Elems(Scenario)[i].offset = Phase(s),
               Elems(Scenario)[i].copy \in Through(s, lost)
        PROVE  /\ Elems(Scenario)[i].rx \notin lost
               /\ Elems(Scenario)[i].tx \in operating /\ Elems(Scenario)[i].rx \in operating
    <2> DEFINE e == Elems(Scenario)[i]
    <2>1. e \in Hops /\ e.stream.id = s
      <3>1. e \in Hops
        BY <1>1, HeardHop
      <3>2. Scenario \in ToSet(Scenarios)
        BY ScenarioFacts DEF Typed
      <3> QED BY <3>1, <3>2, PlaceFacts
    <2>2. e.copy \notin {g.copy : g \in {f \in Hops : /\ f.stream.id = s
                                                      /\ \/ f.rx \in lost
                                                         \/ {f.tx, f.rx} \cap operating # {f.tx, f.rx}}}
      BY <1>1 DEF Through
    <2> HIDE DEF e
    <2>3. ~(e.rx \in lost \/ {e.tx, e.rx} \cap operating # {e.tx, e.rx})
      BY <2>1, <2>2
    <2> QED BY <2>3 DEF e
  <1> QED BY <1>1 DEF Through

\* What is heard of such a copy is a packet of the period.
LEMMA CopyIsHeard ==
    ASSUME SchedulesAreWhole, CopiesStayApart, Typed, InStep, Carried, Intact, NEW s \in played, NEW lost,
           NEW i \in Places(Scenario, s), Elems(Scenario)[i].offset = Phase(s),
           Elems(Scenario)[i].copy \in Through(s, lost), Carrier(s) # NoPacket
    PROVE  Fresh(Round(s), Heard(Elems(Scenario)[i].rx, lost))
  <1> DEFINE c == Scenario
             e == Elems(c)[i]
             t == e.tx
             x == Phase(s)
  <1>1. /\ c \in ToSet(Scenarios) /\ s \in Ids(c) /\ s \in Streams /\ x \in Nat
    BY HopsOfEnds, PhaseFacts
  <1>2. i \in DOMAIN Elems(c) /\ t \in Nodes /\ e.stream.id = s
    BY <1>1, PlaceFacts, ElementFacts
  <1>3. Heard(e.rx, lost) = OnAir(t) /\ t \in operating
    BY HeardHop, ThroughFacts
  <1>4. CASE t = e.stream.src
    <2>1. ActionOf(e, t) = "SENDSTREAM"
      BY <1>1, <1>2, <1>4, ActionFacts
    <2>2. Does(t, "SENDSTREAM", s)
      BY <1>2, <2>1, DoesFacts
    <2>3. OnAir(t) = Transmission(s) /\ Sends(s)
      BY <1>2, <1>3, <2>2 DEF OnAir, Does, Sends
    <2>4. Taken(s) = Carrier(s) /\ tx[s].seqNo = Round(s)
      BY <2>3, BegunFacts, DuringFacts
    <2> DEFINE b == [data |-> Taken(s), current |-> Scenario.authenticated,
                     seqNo |-> IF Scenario.authenticated THEN tx[s].seqNo ELSE 0]
    <2>5. Transmission(s) = b
      BY <2>4 DEF Transmission
    <2>6. b.data # EmptyBuffer.data
      BY <2>4 DEF EmptyBuffer
    <2>7. Scenario.authenticated => b.current /\ b.seqNo = Round(s)
      BY <2>4
    <2> HIDE DEF b
    <2> QED BY <1>3, <2>3, <2>5, <2>6, <2>7 DEF Fresh
  <1>5. CASE t # e.stream.src
    <2>1. ActionOf(e, t) = "SENDBUFFER"
      BY <1>1, <1>2, <1>5, ActionFacts
    <2>2. Does(t, "SENDBUFFER", s)
      BY <1>2, <2>1, DoesFacts
    <2>3. Slot(t).buffer = TRUE
      BY <1>2, <2>2, DoesFacts
    <2>4. OnAir(t) = buffer[t][s]
      BY <1>3, <2>2, <2>3 DEF OnAir, Does
    <2>5. PICK j \in Fills(c, t, s) :
              /\ Elems(c)[j].copy = e.copy /\ Elems(c)[j].offset < x
              /\ \A m \in Visits(c, t, s) : Elems(c)[m].offset <= Elems(c)[j].offset \/ Elems(c)[m].offset >= x
      BY <1>1, <1>5, CopyFollows
    <2>6. UnderWay(s, x)
      <3>1. PICK k \in Firsts(c, s) : Elems(c)[k].offset <= Elems(c)[j].offset
        BY <1>1, <2>5, SourceIsFirst DEF Fills
      <3>2. Elems(c)[k].offset \in Nat /\ Elems(c)[j].offset \in Nat
        BY <1>1, PlaceFacts DEF Firsts, Fills
      <3>3. k \in Gone(c, Firsts(c, s), x)
        BY <1>1, <2>5, <3>1, <3>2 DEF Gone
      <3>4. During(s)
        BY <1>2, <2>2, DuringFacts
      <3> QED BY <3>3, <3>4 DEF UnderWay, During
    <2>7. flying[s] = <<Carrier(s)>> /\ ~BeginsPeriod(s)
      BY <2>6, BegunFacts
    <2>8. e.copy \in through[s]
      BY <2>7, ThroughFacts
    <2>9. Kept(t, s, x, Round(s), flying[s], buffer[t][s], through[s])
      BY <1>2, <2>6 DEF Intact
    <2>10. j \in Gone(c, Fills(c, t, s), x)
      BY <2>5 DEF Gone
    <2>11. ASSUME NEW m \in Gone(c, Visits(c, t, s), x) PROVE Elems(c)[m].offset <= Elems(c)[j].offset
      <3>1. m \in Visits(c, t, s) /\ Elems(c)[m].offset < x
        BY DEF Gone
      <3>2. Elems(c)[m].offset \in Nat
        BY <1>1, <3>1, PlaceFacts DEF Visits
      <3> QED BY <1>1, <2>5, <3>1, <3>2
    <2>12. flying[s][1] # NoPacket
      BY <2>7
    <2>13. Fresh(Round(s), buffer[t][s])
      <3> HIDE DEF c, e, t, x
      <3> QED BY <2>5, <2>8, <2>9, <2>10, <2>11, <2>12 DEF Kept, c
    <2> QED BY <1>3, <2>4, <2>13
  <1> QED BY <1>4, <1>5

\* When a hop is gone, the period has begun before.
LEMMA BegunBefore ==
    ASSUME SchedulesAreWhole, Typed, InStep, Carried, NEW s \in played, During(s),
           NEW i \in Places(Scenario, s), Elems(Scenario)[i].offset < Phase(s)
    PROVE  UnderWay(s, Phase(s)) /\ flying[s] = <<Carrier(s)>> /\ ~BeginsPeriod(s)
  <1> DEFINE c == Scenario
             x == Phase(s)
  <1>1. c \in ToSet(Scenarios) /\ s \in Ids(c) /\ x \in Nat
    BY HopsOfEnds, PhaseFacts
  <1>2. PICK k \in Firsts(c, s) : Elems(c)[k].offset <= Elems(c)[i].offset
    BY <1>1, SourceIsFirst
  <1>3. Elems(c)[k].offset \in Nat /\ Elems(c)[i].offset \in Nat
    BY <1>1, PlaceFacts DEF Firsts
  <1>4. k \in Gone(c, Firsts(c, s), x)
    BY <1>1, <1>2, <1>3 DEF Gone
  <1>5. UnderWay(s, x)
    BY <1>4 DEF UnderWay, During
  <1> QED BY <1>5, BegunFacts

\* The destination of such a copy.
LEMMA CopyDelivered ==
    ASSUME SchedulesAreWhole, CopiesStayApart, Typed, InStep, Carried, Intact, NEW s \in played, NEW lost,
           During(s), NEW i \in Lasts(Scenario, s), Elems(Scenario)[i].offset <= Phase(s),
           Elems(Scenario)[i].copy \in Through(s, lost)
    PROVE  IF EndsPeriod(s) THEN ReceiveStream(s, lost).shared = Carrier(s)
                            ELSE ReceiveStream(s, lost).packet = Carrier(s)
  <1> DEFINE c == Scenario
             e == Elems(c)[i]
             x == Phase(s)
  <1>1. /\ c \in ToSet(Scenarios) /\ s \in Ids(c) /\ s \in Streams /\ x \in Nat
        /\ i \in Places(c, s) /\ e.rx = e.stream.dst
    BY HopsOfEnds, PhaseFacts DEF Lasts
  <1>2. i \in DOMAIN Elems(c) /\ e.stream = StreamIn(c, s) /\ e.offset \in Nat
    BY <1>1, PlaceFacts
  <1>3. rx[s].packet \in {Carrier(s), NoPacket} /\ Carrier(s) \in Maybe
    BY BegunFacts
  <1>4. e.offset < x => rx[s].packet = Carrier(s)
    <2> SUFFICES ASSUME e.offset < x PROVE rx[s].packet = Carrier(s)
      OBVIOUS
    <2>1. UnderWay(s, x) /\ flying[s] = <<Carrier(s)>> /\ ~BeginsPeriod(s)
      BY <1>1, BegunBefore
    <2>2. e.copy \in through[s]
      BY <2>1, ThroughFacts
    <2>3. Delivered(s, x, flying[s], rx[s].packet, through[s])
      BY <2>1 DEF Intact
    <2>4. i \in Gone(c, Lasts(c, s), x)
      BY DEF Gone
    <2>5. rx[s].packet = flying[s][1]
      BY <2>2, <2>3, <2>4 DEF Delivered
    <2> QED BY <2>1, <2>5
  <1>5. CASE ~Ends(s)
    <2>1. e.offset # x
      BY <1>5, EndFacts
    <2>2. ReceiveStream(s, lost) = rx[s] /\ ~EndsPeriod(s)
      BY <1>1, <1>5, ReceiveStreamFacts DEF EndsPeriod
    <2> QED BY <1>1, <1>2, <1>4, <2>1, <2>2
  <1>6. CASE Ends(s)
    <2>1. rx[s].seqNo = Round(s)
      BY <1>6, DuringFacts
    <2>2. PICK n \in Nodes : /\ Does(n, "RECVSTREAM", s) /\ Heard(n, lost) \in Buffers
                             /\ ReceiveStream(s, lost) = ReceivePacket(s, Heard(n, lost))
      BY <1>1, <1>6, ReceiveStreamFacts
    <2>3. n = e.rx
      <3>1. PICK j \in Places(c, s) : ActionOf(Elems(c)[j], n) = "RECVSTREAM"
        BY <2>2, DoesFacts
      <3>2. j \in DOMAIN Elems(c) /\ Elems(c)[j].stream = StreamIn(c, s)
        BY <1>1, PlaceFacts
      <3>3. Elems(c)[j].stream.dst = n
        BY <1>1, <3>1, <3>2, ActionFacts
      <3> QED BY <1>1, <1>2, <3>2, <3>3
    <2> DEFINE h == Heard(n, lost)
               last == rx[s].count + 1 >= RedundancyCount(s)
               received == IF Valid(s, h) THEN h.data ELSE rx[s].packet
    <2>4. Valid(s, h) <=> Fresh(Round(s), h)
      BY <2>1 DEF Valid, Fresh
    <2>5. Fresh(Round(s), h) => h.data = Carrier(s)
      BY <2>2, HeardIsCarried
    <2>6. e.offset = x /\ Carrier(s) # NoPacket => Fresh(Round(s), h)
      BY <1>1, <2>3, CopyIsHeard
    <2>7. /\ ReceiveStream(s, lost).packet = IF last THEN NoPacket ELSE received
          /\ ReceiveStream(s, lost).shared = IF last THEN received ELSE rx[s].shared
      BY <1>1, <2>2, ReceivePacketFacts
    <2>8. EndsPeriod(s) <=> last
      BY <1>6 DEF EndsPeriod
    <2>9. received = Carrier(s)
      <3> HIDE DEF h
      <3>1. CASE e.offset < x
        BY <1>4, <2>4, <2>5, <3>1
      <3>2. CASE e.offset = x
        BY <1>3, <2>4, <2>5, <2>6, <3>2
      <3> QED BY <1>1, <1>2, <3>1, <3>2
    <2> HIDE DEF h, last, received
    <2> QED BY <2>7, <2>8, <2>9
  <1> QED BY <1>5, <1>6

\* The relays of such a copy.
LEMMA CopyKept ==
    ASSUME SchedulesAreWhole, CopiesStayApart, Typed, InStep, Carried, Intact, NEW s \in played, NEW lost,
           During(s), NEW n \in Nodes
    PROVE  Kept(n, s, Phase(s) + 1, Round(s), <<Carrier(s)>>, UseBuffer(n, s, lost), Through(s, lost))
  <1> DEFINE c == Scenario
             x == Phase(s)
  <1>1. /\ c \in ToSet(Scenarios) /\ s \in Ids(c) /\ s \in Streams /\ x \in Nat
    BY HopsOfEnds, PhaseFacts
  <1> SUFFICES ASSUME NEW i \in Gone(c, Fills(c, n, s), x + 1),
                      Elems(c)[i].copy \in Through(s, lost),
                      \A j \in Gone(c, Visits(c, n, s), x + 1) : Elems(c)[j].offset <= Elems(c)[i].offset,
                      Carrier(s) # NoPacket
               PROVE  Fresh(Round(s), UseBuffer(n, s, lost))
    BY DEF Kept
  <1> DEFINE e == Elems(c)[i]
  <1>2. i \in Fills(c, n, s) /\ i \in Places(c, s) /\ e.offset < x + 1
    BY DEF Gone, Fills
  <1>3. i \in DOMAIN Elems(c) /\ e.offset \in Nat
    BY <1>1, <1>2, PlaceFacts
  <1>4. e.rx = n /\ ActionOf(e, n) = "RECVBUFFER"
    BY <1>1, <1>2, <1>3, ActionFacts DEF Fills
  <1>5. CASE e.offset = x
    <2>1. n \in operating
      BY <1>2, <1>4, <1>5, ThroughFacts
    <2>2. Does(n, "RECVBUFFER", s)
      BY <1>2, <1>4, <1>5, DoesFacts
    <2>3. UseBuffer(n, s, lost) = Heard(n, lost)
      BY <2>1, <2>2 DEF UseBuffer, Executes, Does
    <2>4. Fresh(Round(s), Heard(n, lost))
      BY <1>2, <1>4, <1>5, CopyIsHeard
    <2> QED BY <2>3, <2>4
  <1>6. CASE e.offset < x
    <2>1. UnderWay(s, x) /\ flying[s] = <<Carrier(s)>> /\ ~BeginsPeriod(s)
      BY <1>2, <1>6, BegunBefore
    <2>2. ASSUME NEW a \in {"SENDBUFFER", "RECVBUFFER"}, Does(n, a, s) PROVE FALSE
      <3>1. PICK j \in Places(c, s) : ActionOf(Elems(c)[j], n) = a /\ Elems(c)[j].offset = x
        <4>1. CASE a = "SENDBUFFER"
          BY <2>2, <4>1, DoesFacts
        <4>2. CASE a = "RECVBUFFER"
          BY <2>2, <4>2, DoesFacts
        <4> QED BY <4>1, <4>2
      <3>2. n \in {Elems(c)[j].tx, Elems(c)[j].rx}
        BY <1>1, <3>1, PlaceFacts, ActionFacts
      <3>3. j \in Gone(c, Visits(c, n, s), x + 1)
        BY <1>1, <3>1, <3>2 DEF Gone, Visits
      <3> QED BY <1>1, <1>3, <1>6, <3>1, <3>3
    <2>3. UseBuffer(n, s, lost) = buffer[n][s]
      BY <2>2 DEF UseBuffer, Executes
    <2>4. Kept(n, s, x, Round(s), flying[s], buffer[n][s], through[s])
      BY <2>1 DEF Intact
    <2>5. i \in Gone(c, Fills(c, n, s), x)
      BY <1>2, <1>6 DEF Gone
    <2>6. e.copy \in through[s]
      BY <2>1, ThroughFacts
    <2>7. \A j \in Gone(c, Visits(c, n, s), x) : Elems(c)[j].offset <= e.offset
      <3>1. Visits(c, n, s) \in SUBSET Places(c, s)
        BY DEF Visits
      <3>2. Gone(c, Visits(c, n, s), x) \subseteq Gone(c, Visits(c, n, s), x + 1)
        BY <1>1, <3>1, GoneGrows
      <3> QED BY <3>2
    <2>8. flying[s][1] # NoPacket
      BY <2>1
    <2>9. Fresh(Round(s), buffer[n][s])
      <3> HIDE DEF c, x
      <3> QED BY <2>4, <2>5, <2>6, <2>7, <2>8 DEF Kept, c
    <2> QED BY <2>3, <2>9
  <1> QED BY <1>1, <1>2, <1>3, <1>5, <1>6

LEMMA PlaySlotIntact ==
    ASSUME SchedulesAreWhole, CopiesStayApart, Typed, InStep, Carried, Intact, NEW lost, PlaySlot(lost)
    PROVE  Intact'
  <1>1. scenario' = scenario /\ played' = played /\ slotIndex' = AfterSlot(1)
    BY DEF PlaySlot
  <1>2. Scenario' = Scenario /\ \A s : StreamInfo(s)' = StreamInfo(s)
    BY <1>1, SameScenario
  <1> SUFFICES ASSUME NEW s \in played, UnderWay(s, Phase(s))'
               PROVE  /\ through'[s] \subseteq 1 .. RedundancyCount(s)'
                      /\ Delivered(s, Phase(s), flying[s], rx[s].packet, through[s])'
                      /\ \A n \in Nodes : Kept(n, s, Phase(s), Round(s), flying[s], buffer[n][s], through[s])'
    BY <1>1 DEF Intact
  <1> DEFINE c == Scenario
             x == Phase(s)
  <1>3. /\ c \in ToSet(Scenarios) /\ s \in Ids(c) /\ s \in Streams /\ x \in Nat
    BY HopsOfEnds, PhaseFacts
  <1>4. Phase(s)' = x + 1 /\ Round(s)' = Round(s) /\ ~Wraps(1)
    <2>1. x + 1 # PeriodOf(c, s)
      <3> SUFFICES ASSUME x + 1 = PeriodOf(c, s) PROVE FALSE
        OBVIOUS
      <3>1. Phase(s)' = 0
        BY <1>1, <1>3, SlotTurns
      <3>2. ~UnderWay(s, 0)
        BY PeriodEnds
      <3> QED BY <1>2, <3>1, <3>2 DEF UnderWay
    <2> QED BY <1>1, <1>3, <2>1, SlotTurns
  <1>5. UnderWay(s, x + 1)
    BY <1>2, <1>4 DEF UnderWay
  <1>6. During(s) /\ ~EndsPeriod(s)
    BY <1>5, DuringFacts, SlotCarries
  <1>7. flying'[s] = <<Carrier(s)>>
    BY <1>6, SlotCarries, BegunFacts
  <1>8. through'[s] = Through(s, lost)
    BY <1>3 DEF PlaySlot
  <1>9. through'[s] \subseteq 1 .. RedundancyCount(s)'
    <2>1. RedundancyCount(s)' = RedundancyCount(s)
      BY <1>2 DEF RedundancyCount
    <2>2. ~BeginsPeriod(s) => UnderWay(s, x)
      BY <1>6, DuringFacts DEF During, UnderWay
    <2>3. ~BeginsPeriod(s) => through[s] \subseteq 1 .. RedundancyCount(s)
      BY <2>2 DEF Intact
    <2> QED BY <1>8, <2>1, <2>3, ThroughFacts
  <1>10. Delivered(s, x + 1, <<Carrier(s)>>, rx'[s].packet, Through(s, lost))
    <2> SUFFICES ASSUME NEW i \in Gone(c, Lasts(c, s), x + 1), Elems(c)[i].copy \in Through(s, lost)
                 PROVE  rx'[s].packet = Carrier(s)
      BY DEF Delivered
    <2>1. i \in Lasts(c, s) /\ Elems(c)[i].offset < x + 1
      BY DEF Gone
    <2>2. Elems(c)[i].offset <= x
      BY <1>3, <2>1, PlaceFacts DEF Lasts
    <2>3. ReceiveStream(s, lost).packet = Carrier(s)
      BY <1>6, <2>1, <2>2, CopyDelivered
    <2> QED BY <1>3, <2>3, PlaySlotEffects
  <1>11. ASSUME NEW n \in Nodes
         PROVE  Kept(n, s, x + 1, Round(s), <<Carrier(s)>>, buffer'[n][s], Through(s, lost))
    <2>1. buffer'[n][s] = UseBuffer(n, s, lost)
      BY <1>3, <1>4, PlaySlotEffects
    <2> QED BY <1>6, <2>1, CopyKept
  <1>12. Delivered(s, Phase(s), flying[s], rx[s].packet, through[s])'
    BY <1>2, <1>4, <1>7, <1>8, <1>10 DEF Delivered
  <1>13. \A n \in Nodes : Kept(n, s, Phase(s), Round(s), flying[s], buffer[n][s], through[s])'
    BY <1>2, <1>4, <1>7, <1>8, <1>11 DEF Kept, Fresh, EmptyBuffer
  <1> QED BY <1>9, <1>12, <1>13

LEMMA AdvanceIntact ==
    ASSUME SchedulesAreWhole, Typed, Intact, NEW able, AdvanceByControl(able)
    PROVE  Intact'
  <1>1. /\ played' = played /\ scenario' = scenario /\ Scenario' = Scenario /\ rx' = rx
        /\ flying' = flying /\ buffer' = buffer /\ through' = through
        /\ \A s : StreamInfo(s)' = StreamInfo(s)
    BY SameScenario DEF AdvanceByControl, endVars
  <1> SUFFICES ASSUME NEW s \in played, UnderWay(s, Phase(s))'
               PROVE  /\ through'[s] \subseteq 1 .. RedundancyCount(s)'
                      /\ Delivered(s, Phase(s), flying[s], rx[s].packet, through[s])'
                      /\ \A n \in Nodes : Kept(n, s, Phase(s), Round(s), flying[s], buffer[n][s], through[s])'
    BY <1>1 DEF Intact
  <1>2. /\ s \in Ids(Scenario)
        /\ Firsts(Scenario, s) \in SUBSET Places(Scenario, s) /\ Lasts(Scenario, s) \in SUBSET Places(Scenario, s)
        /\ \A n : Fills(Scenario, n, s) \in SUBSET Places(Scenario, s)
        /\ \A n : Visits(Scenario, n, s) \in SUBSET Places(Scenario, s)
    BY HopsOfEnds DEF Fills, Visits
  <1>3. /\ Round(s)' = Round(s)
        /\ \A T \in SUBSET Places(Scenario, s) :
               Gone(Scenario, T, Phase(s)') = Gone(Scenario, T, Phase(s))
    BY <1>2, ControlTurns
  <1>4. UnderWay(s, Phase(s))
    BY <1>1, <1>2, <1>3 DEF UnderWay
  <1>5. /\ through[s] \subseteq 1 .. RedundancyCount(s)
        /\ Delivered(s, Phase(s), flying[s], rx[s].packet, through[s])
        /\ \A n \in Nodes : Kept(n, s, Phase(s), Round(s), flying[s], buffer[n][s], through[s])
    BY <1>4 DEF Intact
  <1>6. through'[s] \subseteq 1 .. RedundancyCount(s)'
    BY <1>1, <1>5 DEF RedundancyCount
  <1>7. Delivered(s, Phase(s), flying[s], rx[s].packet, through[s])'
    BY <1>1, <1>2, <1>3, <1>5 DEF Delivered
  <1>8. ASSUME NEW n \in Nodes PROVE Kept(n, s, Phase(s), Round(s), flying[s], buffer[n][s], through[s])'
    <2>1. Kept(n, s, Phase(s), Round(s), flying[s], buffer[n][s], through[s])
      BY <1>5
    <2>2. /\ Gone(Scenario, Fills(Scenario, n, s), Phase(s)') = Gone(Scenario, Fills(Scenario, n, s), Phase(s))
          /\ Gone(Scenario, Visits(Scenario, n, s), Phase(s)') = Gone(Scenario, Visits(Scenario, n, s), Phase(s))
      BY <1>2, <1>3
    <2> QED BY <1>1, <1>3, <2>1, <2>2 DEF Kept, Fresh, EmptyBuffer
  <1> QED BY <1>6, <1>7, <1>8

LEMMA RemoveIntact ==
    ASSUME SchedulesAreWhole, Typed, Carried, NEW r \in Streams, RemoveStream(r)
    PROVE  Intact'
  <1>1. scenario' = scenario /\ slotIndex' = slotIndex /\ slotIndex = 0 /\ played' \subseteq played
    BY RemoveEffects
  <1>2. Scenario' = Scenario
    BY <1>1, SameScenario
  <1>3. ASSUME NEW s \in played PROVE ~UnderWay(s, Phase(s))'
    <2>1. s \in Streams
      BY HopsOfEnds, PhaseFacts
    <2>2. Phase(s) = 0 /\ ~UnderWay(s, 0)
      BY <1>1, <2>1, NothingFlies
    <2> QED BY <1>1, <1>2, <2>2 DEF UnderWay, Phase
  <1> QED BY <1>1, <1>3 DEF Intact

\* Only a slot says anything of the copies.
LEMMA ThroughKept ==
    ASSUME [Next]_vars
    PROVE  through' = through \/ \E lost \in SUBSET {e.rx : e \in Hops} : PlaySlot(lost)
  BY DEF Next, NetworkStep, AdvanceByControl, Write, SetSendCallback, Read, SetReceiveCallback,
         RemoveStream, Close, vars

LEMMA CalmIntact ==
    ASSUME Typed, Intact, Calm, through' = through
    PROVE  Intact'
  <1>1. /\ played' = played /\ slotIndex' = slotIndex /\ Scenario' = Scenario /\ flying' = flying
        /\ buffer' = buffer /\ \A s : StreamInfo(s)' = StreamInfo(s)
    BY SameNetwork, SameScenario DEF Calm
  <1>2. \A s \in played : rx'[s].packet = rx[s].packet
    <2>1. \A s \in played : s \in Streams
      BY PhaseFacts DEF Typed
    <2> QED BY <2>1 DEF Calm
  <1>3. ASSUME NEW s \in played PROVE Phase(s)' = Phase(s) /\ Round(s)' = Round(s)
    BY <1>1 DEF Phase, Round
  <1>4. ASSUME NEW s \in played, UnderWay(s, Phase(s))'
        PROVE  /\ through'[s] \subseteq 1 .. RedundancyCount(s)'
               /\ Delivered(s, Phase(s), flying[s], rx[s].packet, through[s])'
               /\ \A n \in Nodes : Kept(n, s, Phase(s), Round(s), flying[s], buffer[n][s], through[s])'
    <2>1. UnderWay(s, Phase(s))
      BY <1>1, <1>3, <1>4 DEF UnderWay
    <2>2. /\ through[s] \subseteq 1 .. RedundancyCount(s)
          /\ Delivered(s, Phase(s), flying[s], rx[s].packet, through[s])
          /\ \A n \in Nodes : Kept(n, s, Phase(s), Round(s), flying[s], buffer[n][s], through[s])
      BY <2>1 DEF Intact
    <2>3. through'[s] \subseteq 1 .. RedundancyCount(s)'
      BY <1>1, <2>2 DEF RedundancyCount
    <2>4. Delivered(s, Phase(s), flying[s], rx[s].packet, through[s])'
      BY <1>1, <1>2, <1>3, <2>2 DEF Delivered
    <2>5. \A n \in Nodes : Kept(n, s, Phase(s), Round(s), flying[s], buffer[n][s], through[s])'
      BY <1>1, <1>3, <2>2 DEF Kept, Fresh, EmptyBuffer
    <2> QED BY <2>3, <2>4, <2>5
  <1> QED BY <1>1, <1>4 DEF Intact

LEMMA InitIntact ==
    ASSUME SchedulesAreWhole, Init
    PROVE  Intact
  <1>1. Typed /\ slotIndex = 0
    BY InitTyped DEF Init
  <1>2. ASSUME NEW s \in played PROVE ~UnderWay(s, Phase(s))
    <2>1. Phase(s) = 0
      BY <1>1, HopsOfEnds, PhaseFacts, FirstSlot
    <2> QED BY <1>1, <2>1, PeriodEnds
  <1> QED BY <1>2 DEF Intact

LEMMA IntactStep ==
    ASSUME SchedulesAreWhole, CopiesStayApart, Typed, InStep, Carried, Intact, [Next]_vars
    PROVE  Intact'
  <1>1. CASE \E lost \in SUBSET {e.rx : e \in Hops} : PlaySlot(lost)
    BY <1>1, PlaySlotIntact
  <1>2. CASE ~ \E lost \in SUBSET {e.rx : e \in Hops} : PlaySlot(lost)
    <2>1. through' = through
      BY <1>2, ThroughKept
    <2> QED BY <1>2, <2>1, StepCases, AdvanceIntact, RemoveIntact, CalmIntact
  <1> QED BY <1>1, <1>2

\* At the end of the period the destination has counted each last hop.
LEMMA WholeCopyArrives ==
    ASSUME SchedulesAreWhole, CopiesStayApart, Typed, InStep, Carried, Intact, NEW lost, PlaySlot(lost),
           NEW s \in Streams, flying[s] # <<>>, flying'[s] = <<>>, through'[s] # {}
    PROVE  Received(s)' = flying[s][1]
  <1> DEFINE c == Scenario
             x == Phase(s)
  <1>1. s \in played /\ UnderWay(s, x)
    BY DEF Carried, Carries
  <1>2. c \in ToSet(Scenarios) /\ s \in Ids(c) /\ x \in Nat
    BY <1>1, HopsOfEnds, PhaseFacts
  <1>3. flying[s] = <<Carrier(s)>> /\ ~BeginsPeriod(s) /\ Begun(s) # <<>>
    <2>1. flying[s] = <<Carrier(s)>> /\ ~BeginsPeriod(s)
      BY <1>1, BegunFacts
    <2> QED BY <2>1 DEF Begun
  <1>4. EndsPeriod(s) /\ During(s)
    BY <1>1, <1>3, SlotCarries
  <1>5. Gone(c, Lasts(c, s), x + 1) = Lasts(c, s)
    BY <1>1, <1>4, SlotCounts
  <1>6. PICK k \in Through(s, lost) : TRUE
    BY DEF PlaySlot
  <1>7. k \in 1 .. RedundancyCount(s)
    BY <1>1, <1>3, ThroughFacts DEF Intact
  <1>8. PICK i \in Lasts(c, s) : Elems(c)[i].copy = k
    <2>1. PICK j \in Lasts(c, s) : TRUE
      BY <1>1, HopsOfEnds
    <2> DEFINE st == StreamIn(c, s)
    <2>2. j \in DOMAIN Elems(c) /\ Elems(c)[j].stream = st
      BY <1>2, PlaceFacts DEF Lasts
    <2>3. Elems(c)[j] \in ToSet(Elems(c))
      BY <1>2, <2>2, ElementFacts
    <2>4. st.id = s
      BY <1>2, <2>2, PlaceFacts DEF Lasts
    <2>5. RedundancyCount(s) = Copies[st.redundancy]
      BY ScenarioFacts DEF RedundancyCount, Typed
    <2>6. CopyAfterCopy(c.schedule)
      BY <1>2 DEF CopiesStayApart
    <2>7. st \in {e.stream : e \in ToSet(c.schedule.elements)}
      BY <2>2, <2>3 DEF Elems
    <2> HIDE DEF st
    <2>8. {Elems(c)[i].copy : i \in LastHops(c.schedule, st)} = 1 .. Copies[st.redundancy]
      BY <2>6, <2>7 DEF CopyAfterCopy, Elems
    <2>9. PICK i \in LastHops(c.schedule, st) : Elems(c)[i].copy = k
      BY <1>7, <2>5, <2>8
    <2>10. i \in Lasts(c, s)
      BY <2>4 DEF LastHops, Lasts, Places, Elems
    <2> QED BY <2>9, <2>10
  <1>9. Elems(c)[i].offset <= x
    <2>1. Elems(c)[i].offset < x + 1
      BY <1>5 DEF Gone
    <2> QED BY <1>2, <2>1, PlaceFacts DEF Lasts
  <1>10. ReceiveStream(s, lost).shared = Carrier(s)
    BY <1>1, <1>4, <1>6, <1>8, <1>9, CopyDelivered
  <1>11. Received(s)' = ReceiveStream(s, lost).shared
    <2>1. recvCallback' = recvCallback
      BY DEF PlaySlot
    <2> QED BY <1>4, <2>1, PlaySlotEffects DEF Received
  <1> QED BY <1>3, <1>10, <1>11

\* If one copy of a packet has met no loss on any of its hops, and no node that could not
\* operate, the reader gets the packet (receivePacket of Stream; sendFromBuffer and
\* receiveToBuffer of DataPhase).
THEOREM OneCopySufficesHolds ==
    ASSUME SchedulesAreWhole, CopiesStayApart, FailuresAreDetected
    PROVE  Spec => OneCopySuffices
  <1>1. Init => Typed /\ InStep /\ Carried /\ Intact
    BY InitTyped, InitInStep, InitCarried, InitIntact
  <1>2. Typed /\ InStep /\ Carried /\ Intact /\ [Next]_vars => (Typed /\ InStep /\ Carried /\ Intact)'
    BY TypedStep, InStepStep, CarriedStep, IntactStep
  <1>3. Typed /\ InStep /\ Carried /\ Intact /\ [Next]_vars
          => [\A s \in Streams : flying[s] # <<>> /\ flying'[s] = <<>> /\ through'[s] # {} =>
                                     Received(s)' = flying[s][1]]_vars
    <2> SUFFICES ASSUME Typed, InStep, Carried, Intact, [Next]_vars, NEW s \in Streams,
                        flying[s] # <<>>, flying'[s] = <<>>, through'[s] # {}
                 PROVE  Received(s)' = flying[s][1]
      OBVIOUS
    <2>1. CASE \E lost \in SUBSET {e.rx : e \in Hops} : PlaySlot(lost)
      BY <2>1, WholeCopyArrives
    <2>2. CASE ~ \E lost \in SUBSET {e.rx : e \in Hops} : PlaySlot(lost)
      <3>1. flying' = flying
        BY <2>2, ChannelStepCases, WriteEffects DEF QuietStep
      <3> QED BY <3>1
    <2> QED BY <2>1, <2>2
  <1> QED BY <1>1, <1>2, <1>3, PTL DEF Spec, OneCopySuffices

=============================================================================
