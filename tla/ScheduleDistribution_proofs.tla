-------------------- MODULE ScheduleDistribution_proofs ---------------------
(***************************************************************************)
(* Proofs about the distribution of schedules, for every network and every *)
(* size of the schedules, whatever is lost.                                *)
(***************************************************************************)
EXTENDS ScheduleDistribution, Integers, FiniteSetTheorems, WellFoundedInduction,
        NaturalsInduction, TLAPS

-----------------------------------------------------------------------------
(***************************************************************************)
(* Induction, division.                                                    *)
(***************************************************************************)
\* A set of naturals has a least element.
LEMMA LeastOf ==
    ASSUME NEW T, T \subseteq Nat, T # {}
    PROVE  \E x \in T : \A y \in T : x <= y
  <1> DEFINE R == OpToRel(<, Nat)
  <1>1. IsWellFoundedOn(R, Nat)
    BY NatLessThanWellFounded
  <1>2. \A x, y \in Nat : x < y => <<x, y>> \in R
    BY DEF OpToRel
  <1> HIDE DEF R
  <1>3. PICK x \in T : \A y \in T : ~ (<<y, x>> \in R)
    BY <1>1, WFMin
  <1>4. ASSUME NEW y \in T PROVE x <= y
    <2>1. x \in Nat /\ y \in Nat /\ ~ (<<y, x>> \in R)
      BY <1>3
    <2>2. ~ (y < x)
      BY <1>2, <2>1
    <2> QED BY <2>1, <2>2
  <1> QED BY <1>4

\* A set that has 0, and with each number the next, has them all.
LEMMA InductionOver ==
    ASSUME NEW S, 0 \in S, \A n \in Nat : n \in S => n + 1 \in S
    PROVE  Nat \subseteq S
  <1> SUFFICES ASSUME NEW m \in Nat, m \notin S PROVE FALSE
    OBVIOUS
  <1> DEFINE T == {n \in Nat : n \notin S}
  <1>1. PICK x \in T : \A y \in T : x <= y
    BY LeastOf
  <1>2. x - 1 \in Nat /\ x - 1 \in S
    BY <1>1
  <1> QED BY <1>1, <1>2

\* Division with remainder.
LEMMA Division ==
    ASSUME NEW d \in Nat \ {0}, NEW n \in Int
    PROVE  /\ n % d \in 0 .. (d - 1) /\ n \div d \in Int
           /\ n = d * (n \div d) + (n % d)
           /\ n \in Nat => n \div d \in Nat
  BY SMT

LEMMA DivisionNat ==
    ASSUME NEW d \in Nat \ {0}, NEW n \in Nat
    PROVE  n % d \in 0 .. (d - 1) /\ n \div d \in Nat /\ n = d * (n \div d) + (n % d)
  BY SMT

\* There is one quotient and one remainder.
LEMMA DivisionUnique ==
    ASSUME NEW d \in Nat \ {0}, NEW n \in Int, NEW q \in Int, NEW r \in 0 .. (d - 1),
           n = d * q + r
    PROVE  n \div d = q /\ n % d = r
  BY SMT

\* Whole multiples of the divisor add to the quotient only.
LEMMA AddMultiple ==
    ASSUME NEW d \in Nat \ {0}, NEW n \in Int, NEW k \in Int
    PROVE  (n + d * k) \div d = (n \div d) + k /\ (n + d * k) % d = n % d
  <1> DEFINE q == n \div d
             r == n % d
  <1>1. q \in Int /\ r \in 0 .. (d - 1) /\ n = d * q + r
    BY Division
  <1> HIDE DEF q, r
  <1>2. n + d * k = d * (q + k) + r /\ n + d * k \in Int
    BY <1>1
  <1>3. (n + d * k) \div d = q + k /\ (n + d * k) % d = r
    BY <1>1, <1>2, DivisionUnique
  <1> QED BY <1>3 DEF q, r

\* A multiple of a multiple is a multiple.
LEMMA ModTransitive ==
    ASSUME NEW d \in Nat \ {0}, NEW k \in Nat \ {0}, NEW n \in Int, n % (d * k) = 0
    PROVE  n % d = 0
  <1> DEFINE m == d * k
             q == n \div m
  <1>1. m \in Nat \ {0}
    OBVIOUS
  <1>2. m = d * k /\ n % m = 0
    OBVIOUS
  <1> HIDE DEF m
  <1>3. n = m * q + (n % m) /\ q \in Int
    BY <1>1, Division
  <1> HIDE DEF q
  <1>4. n = m * q
    BY <1>1, <1>2, <1>3
  <1>5. n = d * (k * q) + 0 /\ k * q \in Int
    BY <1>2, <1>3, <1>4
  <1> QED BY <1>5, DivisionUnique

-----------------------------------------------------------------------------
(***************************************************************************)
(* Downlinks and timesyncs before a tile.                                  *)
(***************************************************************************)
DownlinksBefore(cs, p) == {q \in cs.downlinks : q < p}

Downs(cs, t) ==
    (t \div cs.size) * CountDownlinks(cs) + Cardinality(DownlinksBefore(cs, t % cs.size))

\* The downlinks that no timesync takes.
Free(cs, t) == Downs(cs, t) - NumTimesyncs(cs, t)

LEMMA StructureFacts ==
    ASSUME NEW cs, ValidStructure(cs)
    PROVE  /\ cs.size \in Nat \ {0} /\ cs.superframesPerSync \in Nat \ {0}
           /\ IsFiniteSet(cs.downlinks)
           /\ CountDownlinks(cs) \in Nat \ {0}
           /\ TilesPerTimesync(cs) \in Nat \ {0}
           /\ \A t \in Nat : IsDownlink(cs, t) \in BOOLEAN /\ t % cs.size \in 0 .. cs.size - 1
  <1>1. cs.size \in Nat \ {0} /\ cs.superframesPerSync \in Nat \ {0}
    BY DEF ValidStructure
  <1>2. IsFiniteSet(cs.downlinks)
    <2>1. IsFiniteSet(0 .. cs.size - 1)
      BY <1>1, FS_Interval
    <2> QED BY <2>1, FS_Subset DEF ValidStructure
  <1>3. CountDownlinks(cs) \in Nat \ {0}
    <2>1. Cardinality(cs.downlinks) \in Nat
      BY <1>2, FS_CardinalityType
    <2>2. cs.downlinks # {}
      BY DEF ValidStructure
    <2>3. Cardinality(cs.downlinks) # 0
      BY <1>2, <2>2, FS_EmptySet
    <2> QED BY <2>1, <2>3 DEF CountDownlinks
  <1>4. TilesPerTimesync(cs) \in Nat \ {0}
    BY <1>1 DEF TilesPerTimesync
  <1>5. \A t \in Nat : IsDownlink(cs, t) \in BOOLEAN /\ t % cs.size \in 0 .. cs.size - 1
    <2> SUFFICES ASSUME NEW t \in Nat
                 PROVE  IsDownlink(cs, t) \in BOOLEAN /\ t % cs.size \in 0 .. cs.size - 1
      OBVIOUS
    <2>1. t % cs.size \in 0 .. cs.size - 1
      BY <1>1, Division
    <2>2. IsDownlink(cs, t) \in BOOLEAN
      BY DEF IsDownlink
    <2> QED BY <2>1, <2>2
  <1> QED BY <1>1, <1>2, <1>3, <1>4, <1>5

\* One position of the superframe more.
LEMMA BeforeNext ==
    ASSUME NEW cs, ValidStructure(cs)
    PROVE  /\ Cardinality(DownlinksBefore(cs, 0)) = 0
           /\ Cardinality(DownlinksBefore(cs, cs.size)) = CountDownlinks(cs)
           /\ \A p \in Nat :
                 /\ Cardinality(DownlinksBefore(cs, p)) \in Nat
                 /\ Cardinality(DownlinksBefore(cs, p + 1))
                      = Cardinality(DownlinksBefore(cs, p))
                        + (IF p \in cs.downlinks THEN 1 ELSE 0)
  <1>1. cs.downlinks \subseteq 0 .. cs.size - 1 /\ cs.size \in Nat \ {0}
    BY DEF ValidStructure
  <1>2. IsFiniteSet(cs.downlinks)
    BY StructureFacts
  <1>3. DownlinksBefore(cs, 0) = {} /\ DownlinksBefore(cs, cs.size) = cs.downlinks
    BY <1>1 DEF DownlinksBefore
  <1>4. ASSUME NEW p \in Nat
        PROVE  /\ Cardinality(DownlinksBefore(cs, p)) \in Nat
               /\ Cardinality(DownlinksBefore(cs, p + 1))
                    = Cardinality(DownlinksBefore(cs, p)) + (IF p \in cs.downlinks THEN 1 ELSE 0)
    <2> DEFINE B == DownlinksBefore(cs, p)
    <2>1. IsFiniteSet(B)
      <3>1. B \subseteq cs.downlinks
        BY DEF DownlinksBefore
      <3> QED BY <3>1, <1>2, FS_Subset
    <2>2. p \notin B
      BY DEF DownlinksBefore
    <2>3. CASE p \in cs.downlinks
      <3>1. DownlinksBefore(cs, p + 1) = B \cup {p}
        BY <1>1, <2>3 DEF DownlinksBefore
      <3>2. Cardinality(B \cup {p}) = Cardinality(B) + 1
        BY <2>1, <2>2, FS_AddElement
      <3> QED BY <2>1, <2>3, <3>1, <3>2, FS_CardinalityType
    <2>4. CASE p \notin cs.downlinks
      <3>1. DownlinksBefore(cs, p + 1) = B
        BY <1>1, <2>4 DEF DownlinksBefore
      <3>2. Cardinality(B) \in Nat
        BY <2>1, FS_CardinalityType
      <3> QED BY <2>4, <3>1, <3>2
    <2> QED BY <2>3, <2>4
  <1> QED BY <1>3, <1>4, FS_EmptySet DEF CountDownlinks

\* One tile more.
LEMMA DownsNext ==
    ASSUME NEW cs, ValidStructure(cs), NEW t \in Nat
    PROVE  /\ Downs(cs, t) \in Nat
           /\ Downs(cs, t + 1) = Downs(cs, t) + (IF IsDownlink(cs, t) THEN 1 ELSE 0)
  <1> DEFINE n == cs.size
             D == CountDownlinks(cs)
             q == t \div n
             r == t % n
             q2 == (t + 1) \div n
             r2 == (t + 1) % n
             B(p) == Cardinality(DownlinksBefore(cs, p))
             one == IF IsDownlink(cs, t) THEN 1 ELSE 0
  <1>1. n \in Nat \ {0} /\ D \in Nat
    BY StructureFacts
  <1>2. q \in Nat /\ r \in 0 .. n - 1 /\ t = n * q + r
    <2> HIDE DEF n
    <2>1. t % n \in 0 .. (n - 1) /\ t = n * (t \div n) + (t % n) /\ t \div n \in Nat
      <3>1. t \in Int /\ t \in Nat
        OBVIOUS
      <3> QED BY <1>1, <3>1, Division
    <2> QED BY <2>1
  <1>3. B(0) = 0 /\ B(n) = D /\ B(r) \in Nat /\ B(r + 1) = B(r) + one
    <2>1. r \in Nat
      BY <1>1, <1>2
    <2>2. r \in cs.downlinks <=> IsDownlink(cs, t)
      BY DEF IsDownlink
    <2> HIDE DEF r
    <2> QED BY <2>1, <2>2, BeforeNext
  <1>4. one \in {0, 1}
    OBVIOUS
  <1>5. Downs(cs, t) = q * D + B(r) /\ Downs(cs, t + 1) = q2 * D + B(r2)
    BY DEF Downs
  <1>6. \/ r + 1 < n /\ q2 = q /\ r2 = r + 1
        \/ r + 1 = n /\ q2 = q + 1 /\ r2 = 0
    <2>1. q2 = (t + 1) \div n /\ r2 = (t + 1) % n
      OBVIOUS
    <2> HIDE DEF n, q, r, q2, r2
    <2>2. CASE r + 1 < n
      <3>1. t + 1 = n * q + (r + 1) /\ r + 1 \in 0 .. n - 1
        BY <1>1, <1>2, <2>2
      <3>2. (t + 1) \div n = q /\ (t + 1) % n = r + 1
        <4> DEFINE u == t + 1 v == r + 1
        <4>1. u \in Int /\ v \in 0 .. n - 1 /\ u = n * q + v
          BY <3>1
        <4> HIDE DEF u, v
        <4>2. u \div n = q /\ u % n = v
          BY <1>1, <1>2, <4>1, DivisionUnique
        <4> QED BY <4>2 DEF u, v
      <3> QED BY <2>1, <2>2, <3>2
    <2>3. CASE r + 1 = n
      <3>1. n * (q + 1) = n * q + n
        BY <1>1, <1>2
      <3> DEFINE u == t + 1 v == q + 1
      <3>2. u \in Int /\ v \in Int /\ u = n * v + 0
        BY <1>1, <1>2, <2>3, <3>1
      <3> HIDE DEF u, v
      <3>3. u \div n = v /\ u % n = 0
        BY <1>1, <3>2, DivisionUnique
      <3> QED BY <2>1, <2>3, <3>3 DEF u, v
    <2> QED BY <1>1, <1>2, <2>2, <2>3
  <1> HIDE DEF n, D, q, r, q2, r2, B, one
  <1>7. q * D \in Nat /\ (q + 1) * D = q * D + D
    BY <1>1, <1>2
  <1>8. Downs(cs, t) \in Nat
    BY <1>3, <1>5, <1>7
  <1>9. Downs(cs, t + 1) = Downs(cs, t) + one
    <2>1. CASE r + 1 < n /\ q2 = q /\ r2 = r + 1
      BY <1>3, <1>4, <1>5, <1>7, <2>1
    <2>2. CASE r + 1 = n /\ q2 = q + 1 /\ r2 = 0
      BY <1>1, <1>3, <1>4, <1>5, <1>7, <2>2
    <2> QED BY <1>6, <2>1, <2>2
  <1> QED BY <1>8, <1>9 DEF one

\* The timesyncs are the multiples of their period.
LEMMA TimesyncsNext ==
    ASSUME NEW cs, ValidStructure(cs), NEW t \in Nat
    PROVE  /\ NumTimesyncs(cs, t) \in Nat
           /\ NumTimesyncs(cs, t + 1)
                = NumTimesyncs(cs, t) + (IF IsTimesync(cs, t) THEN 1 ELSE 0)
           /\ IsTimesync(cs, t) <=> t % TilesPerTimesync(cs) = 0
  <1> DEFINE P == TilesPerTimesync(cs)
             q == t \div P
             r == t % P
             a == t + P - 1
             b == t + 1 + P - 1
  <1>1. P \in Nat \ {0}
    BY StructureFacts
  <1>2. q \in Nat /\ r \in 0 .. P - 1 /\ t = P * q + r
    <2> HIDE DEF P
    <2>1. t % P \in 0 .. (P - 1) /\ t = P * (t \div P) + (t % P) /\ t \div P \in Nat
      <3>1. t \in Int /\ t \in Nat
        OBVIOUS
      <3> QED BY <1>1, <3>1, Division
    <2> QED BY <2>1
  <1>3. NumTimesyncs(cs, t) = a \div P /\ NumTimesyncs(cs, t + 1) = b \div P
    BY DEF NumTimesyncs
  <1>4. a \in Int /\ b \in Int /\ a = t + P - 1 /\ b = t + P
    BY <1>1
  <1>5. IsTimesync(cs, t) <=> NumTimesyncs(cs, t + 1) - NumTimesyncs(cs, t) = 1
    BY DEF IsTimesync
  <1>6. r = t % P /\ P = TilesPerTimesync(cs)
    OBVIOUS
  <1> HIDE DEF P, q, r, a, b
  <1>7. P * (q + 1) = P * q + P /\ q + 1 \in Nat
    BY <1>1, <1>2
  <1>8. CASE r = 0
    <2>1. a = P * q + (P - 1) /\ P - 1 \in 0 .. P - 1
      BY <1>1, <1>2, <1>4, <1>8
    <2>2. a \div P = q
      <3> DEFINE s == P - 1
      <3>1. s \in 0 .. P - 1 /\ a = P * q + s
        BY <2>1
      <3> HIDE DEF s
      <3> QED BY <1>1, <1>2, <1>4, <3>1, DivisionUnique
    <2>3. b \div P = q + 1
      <3> DEFINE s == q + 1
      <3>1. s \in Int /\ b = P * s + 0 /\ 0 \in 0 .. P - 1
        BY <1>1, <1>2, <1>4, <1>7, <1>8
      <3> HIDE DEF s
      <3>2. b \div P = s
        BY <1>1, <1>4, <3>1, DivisionUnique
      <3> QED BY <3>2 DEF s
    <2>4. NumTimesyncs(cs, t) = q /\ NumTimesyncs(cs, t + 1) = q + 1 /\ IsTimesync(cs, t)
      BY <1>2, <1>3, <1>5, <2>2, <2>3
    <2>5. t % TilesPerTimesync(cs) = 0
      BY <1>6, <1>8
    <2> QED BY <1>2, <2>4, <2>5
  <1>9. CASE r # 0
    <2> DEFINE s == q + 1
               u == r - 1
    <2>1. s \in Int /\ u \in 0 .. P - 1 /\ a = P * s + u /\ b = P * s + r
      BY <1>1, <1>2, <1>4, <1>7, <1>9
    <2> HIDE DEF s, u
    <2>2. a \div P = s
      BY <1>1, <1>4, <2>1, DivisionUnique
    <2>3. b \div P = s
      BY <1>1, <1>2, <1>4, <2>1, DivisionUnique
    <2>4. s \in Nat
      BY <1>7 DEF s
    <2> QED BY <1>3, <1>5, <1>6, <1>9, <2>2, <2>3, <2>4
  <1> QED BY <1>8, <1>9

\* A timesync is at the boundary of a superframe, hence in a downlink.
LEMMA TimesyncAtBoundary ==
    ASSUME NEW cs, ValidStructure(cs), NEW t \in Nat, IsTimesync(cs, t)
    PROVE  t % cs.size = 0
  <1>1. t % (cs.size * cs.superframesPerSync) = 0
    BY TimesyncsNext DEF TilesPerTimesync
  <1>2. cs.size \in Nat \ {0} /\ cs.superframesPerSync \in Nat \ {0}
    BY StructureFacts
  <1> QED BY <1>1, <1>2, ModTransitive

LEMMA BoundaryIsDownlink ==
    ASSUME NEW cs, ValidStructure(cs), NEW t \in Nat, t % cs.size = 0
    PROVE  IsDownlink(cs, t)
  BY DEF ValidStructure, IsDownlink

\* Every downlink that is not a timesync is free.
LEMMA FreeNext ==
    ASSUME NEW cs, ValidStructure(cs), NEW t \in Nat
    PROVE  /\ Free(cs, t) \in Int
           /\ Free(cs, t + 1) = Free(cs, t)
                + (IF IsDownlink(cs, t) /\ ~IsTimesync(cs, t) THEN 1 ELSE 0)
  <1>1. IsTimesync(cs, t) => IsDownlink(cs, t)
    BY TimesyncAtBoundary, BoundaryIsDownlink
  <1>2. /\ Downs(cs, t) \in Nat
        /\ Downs(cs, t + 1) = Downs(cs, t) + (IF IsDownlink(cs, t) THEN 1 ELSE 0)
    BY DownsNext
  <1>3. /\ NumTimesyncs(cs, t) \in Nat
        /\ NumTimesyncs(cs, t + 1) = NumTimesyncs(cs, t) + (IF IsTimesync(cs, t) THEN 1 ELSE 0)
    BY TimesyncsNext
  <1>4. CASE IsTimesync(cs, t)
    BY <1>1, <1>2, <1>3, <1>4 DEF Free
  <1>5. CASE ~IsTimesync(cs, t)
    BY <1>2, <1>3, <1>5 DEF Free
  <1> QED BY <1>4, <1>5

\* Later there are no fewer of them.
LEMMA FreeMonotone ==
    ASSUME NEW cs, ValidStructure(cs), NEW t \in Nat, NEW u \in Nat, t <= u
    PROVE  Free(cs, t) <= Free(cs, u) /\ NumTimesyncs(cs, t) <= NumTimesyncs(cs, u)
  <1> DEFINE S == {k \in Nat : /\ Free(cs, t) <= Free(cs, t + k)
                               /\ NumTimesyncs(cs, t) <= NumTimesyncs(cs, t + k)}
  <1>1. 0 \in S
    <2>1. t + 0 = t /\ Free(cs, t) \in Int /\ NumTimesyncs(cs, t) \in Nat
      BY FreeNext, TimesyncsNext
    <2> QED BY <2>1
  <1>2. ASSUME NEW n \in Nat, n \in S PROVE n + 1 \in S
    <2> DEFINE m == t + n
    <2>1. m \in Nat /\ t + (n + 1) = m + 1
      OBVIOUS
    <2>2. Free(cs, t) <= Free(cs, m) /\ NumTimesyncs(cs, t) <= NumTimesyncs(cs, m)
      BY <1>2
    <2>3. Free(cs, t) \in Int /\ NumTimesyncs(cs, t) \in Nat
      BY FreeNext, TimesyncsNext
    <2> HIDE DEF m
    <2>4. Free(cs, m) \in Int /\ Free(cs, m + 1) \in {Free(cs, m), Free(cs, m) + 1}
      BY <2>1, FreeNext
    <2>5. /\ NumTimesyncs(cs, m) \in Nat
          /\ NumTimesyncs(cs, m + 1) \in {NumTimesyncs(cs, m), NumTimesyncs(cs, m) + 1}
      BY <2>1, TimesyncsNext
    <2>6. Free(cs, t) <= Free(cs, m + 1) /\ NumTimesyncs(cs, t) <= NumTimesyncs(cs, m + 1)
      BY <2>2, <2>3, <2>4, <2>5
    <2> QED BY <2>1, <2>6
  <1> HIDE DEF S
  <1>3. u - t \in S
    <2>1. Nat \subseteq S
      BY <1>1, <1>2, InductionOver
    <2> QED BY <2>1
  <1>4. t + (u - t) = u
    OBVIOUS
  <1> QED BY <1>3, <1>4 DEF S

\* A whole number of superframes more.
LEMMA DownsWhole ==
    ASSUME NEW cs, ValidStructure(cs), NEW t \in Nat, NEW k \in Nat
    PROVE  /\ Downs(cs, t + cs.size * k) = Downs(cs, t) + k * CountDownlinks(cs)
           /\ (t + cs.size * k) % cs.size = t % cs.size
  <1> DEFINE n == cs.size
             D == CountDownlinks(cs)
             q == t \div n
             r == t % n
             B(p) == Cardinality(DownlinksBefore(cs, p))
  <1>1. n \in Nat \ {0} /\ D \in Nat
    BY StructureFacts
  <1>2. (t + n * k) \div n = q + k /\ (t + n * k) % n = r /\ q \in Nat /\ r \in Nat
    <2> HIDE DEF n
    <2>1. t \in Int /\ k \in Int
      OBVIOUS
    <2>2. (t + n * k) \div n = (t \div n) + k /\ (t + n * k) % n = t % n
      BY <1>1, <2>1, AddMultiple
    <2>3. t \div n \in Nat /\ t % n \in 0 .. (n - 1)
      BY <1>1, <2>1, Division
    <2> QED BY <2>2, <2>3
  <1>3. Downs(cs, t) = q * D + B(r) /\ Downs(cs, t + n * k) = ((t + n * k) \div n) * D + B((t + n * k) % n)
    BY DEF Downs
  <1>4. B(r) \in Nat
    BY <1>2, BeforeNext
  <1> HIDE DEF n, D, q, r, B
  <1>5. (q + k) * D = q * D + k * D /\ q * D \in Nat /\ k * D \in Nat
    BY <1>1, <1>2
  <1>6. Downs(cs, t + n * k) = Downs(cs, t) + k * D
    BY <1>2, <1>3, <1>4, <1>5
  <1> QED BY <1>2, <1>6 DEF n, D, r

\* After a timesync at least one superframe boundary is free.
LEMMA NextBoundaryFree ==
    ASSUME NEW cs, ValidStructure(cs), cs.superframesPerSync # 1, NEW t \in Nat,
           IsTimesync(cs, t)
    PROVE  ~IsTimesync(cs, t + cs.size)
  <1> DEFINE n == cs.size
             P == TilesPerTimesync(cs)
             q == t \div P
             u == t + n
  <1>1. n \in Nat \ {0} /\ P \in Nat \ {0} /\ u \in Nat
    BY StructureFacts
  <1>2. n < P
    <2> DEFINE m == cs.superframesPerSync
    <2>1. m \in Nat /\ m >= 2 /\ P = n * m
      BY StructureFacts DEF TilesPerTimesync
    <2> HIDE DEF m, n, P
    <2>2. n * m >= n * 2
      BY <1>1, <2>1
    <2> QED BY <1>1, <2>1, <2>2
  <1>3. t = P * q /\ q \in Int
    <2>1. t % P = 0
      BY TimesyncsNext
    <2> HIDE DEF P
    <2>2. t = P * q + (t % P) /\ q \in Nat
      BY <1>1, DivisionNat
    <2> HIDE DEF q
    <2> QED BY <1>1, <2>1, <2>2
  <1>4. u = t + n
    OBVIOUS
  <1> HIDE DEF n, P, q, u
  <1>5. u \in Int /\ n \in 0 .. (P - 1) /\ u = P * q + n
    BY <1>1, <1>2, <1>3, <1>4
  <1>6. u % P = n
    BY <1>1, <1>3, <1>5, DivisionUnique
  <1>7. ~IsTimesync(cs, u)
    <2>1. u % P # 0
      BY <1>1, <1>6
    <2> QED BY <1>1, <2>1, TimesyncsNext DEF P
  <1> QED BY <1>7 DEF u, n

\* What Align returns.
LEMMA AlignFacts ==
    ASSUME NEW v \in Int, NEW b \in Nat \ {0}
    PROVE  /\ Align(v, b) \in Int /\ Align(v, b) % b = 0
           /\ v <= Align(v, b) /\ Align(v, b) < v + b
  <1> DEFINE u == v + b - 1
             q == u \div b
             r == u % b
  <1>1. u \in Int /\ u = v + b - 1
    OBVIOUS
  <1> HIDE DEF u
  <1>2. q \in Int /\ r \in 0 .. (b - 1) /\ u = b * q + r
    BY <1>1, Division
  <1>3. Align(v, b) = q * b
    BY DEF Align, u
  <1> HIDE DEF q, r
  <1>4. q * b = b * q /\ b * q \in Int /\ b * q = b * q + 0
    BY <1>2
  <1>5. (b * q) % b = 0
    <2> DEFINE w == b * q
    <2>1. w \in Int /\ w = b * q + 0 /\ 0 \in 0 .. (b - 1)
      BY <1>4
    <2> HIDE DEF w
    <2>2. w % b = 0
      BY <1>2, <2>1, DivisionUnique
    <2> QED BY <2>2 DEF w
  <1>6. v <= b * q /\ b * q < v + b
    BY <1>1, <1>2, <1>4
  <1> QED BY <1>3, <1>4, <1>5, <1>6

\* What NextDownlink returns.
LEMMA NextDownlinkFacts ==
    ASSUME NEW cs, ValidStructure(cs), NEW t \in Nat, NEW n, n = NextDownlink(cs, t)
    PROVE  /\ n \in Nat /\ t < n /\ IsDownlink(cs, n)
           /\ \A u \in t + 1 .. n - 1 : ~IsDownlink(cs, u)
           /\ Free(cs, n) = Free(cs, t + 1)
  <1>0. cs.size \in Nat \ {0}
    BY StructureFacts
  <1> DEFINE T == {m \in t + 1 .. t + cs.size : IsDownlink(cs, m)}
             a == Align(t + 1, cs.size)
  <1>1. a \in T
    <2>1. a \in Int /\ a % cs.size = 0 /\ t + 1 <= a /\ a < t + 1 + cs.size
      <3> DEFINE v == t + 1
      <3>1. v \in Int
        OBVIOUS
      <3> HIDE DEF v
      <3>2. LET b == Align(v, cs.size)
            IN  b \in Int /\ b % cs.size = 0 /\ v <= b /\ b < v + cs.size
        BY <1>0, <3>1, AlignFacts
      <3> QED BY <3>2 DEF v
    <2> HIDE DEF a
    <2>2. IsDownlink(cs, a) /\ a \in t + 1 .. t + cs.size
      BY <1>0, <2>1, BoundaryIsDownlink
    <2> QED BY <2>2
  <1>2. PICK x \in T : \A y \in T : x <= y
    <2>1. T \subseteq Nat /\ T # {}
      BY <1>0, <1>1
    <2> HIDE DEF T
    <2> QED BY <2>1, LeastOf
  <1>3. \A u \in t + 1 .. x - 1 : ~IsDownlink(cs, u)
    <2> SUFFICES ASSUME NEW u \in t + 1 .. x - 1, IsDownlink(cs, u) PROVE FALSE
      OBVIOUS
    <2>1. u \in t + 1 .. t + cs.size /\ u < x
      BY <1>0
    <2> QED BY <1>2, <2>1
  <1> DEFINE Is(m) == IsDownlink(cs, m) /\ \A u \in t + 1 .. m - 1 : ~IsDownlink(cs, u)
  <1>4. n \in t + 1 .. t + cs.size /\ Is(n)
    <2>1. \E m \in t + 1 .. t + cs.size : Is(m)
      BY <1>2, <1>3
    <2>2. n = CHOOSE m \in t + 1 .. t + cs.size : Is(m)
      BY DEF NextDownlink
    <2> HIDE DEF Is
    <2> QED BY <2>1, <2>2
  <1>5. n \in Nat /\ t < n
    BY <1>0, <1>4
  <1> DEFINE S == {k \in Nat : t + 1 + k <= n => Free(cs, t + 1 + k) = Free(cs, t + 1)}
  <1>6. 0 \in S
    OBVIOUS
  <1>7. ASSUME NEW k \in Nat, k \in S PROVE k + 1 \in S
    <2> DEFINE m == t + 1 + k
    <2>1. m \in Nat /\ t + 1 + (k + 1) = m + 1 /\ t + 1 <= m
      OBVIOUS
    <2>2. m <= n => Free(cs, m) = Free(cs, t + 1)
      BY <1>7
    <2> HIDE DEF m
    <2> SUFFICES ASSUME m + 1 <= n PROVE Free(cs, m + 1) = Free(cs, t + 1)
      BY <2>1
    <2>3. ~IsDownlink(cs, m)
      BY <1>4, <1>5, <2>1
    <2>4. Free(cs, m + 1) = Free(cs, m) + 0 /\ Free(cs, m) \in Int
      BY <2>1, <2>3, FreeNext
    <2> QED BY <1>5, <2>1, <2>2, <2>4
  <1> HIDE DEF S
  <1>8. n - (t + 1) \in S
    <2>1. Nat \subseteq S
      BY <1>6, <1>7, InductionOver
    <2> QED BY <1>5, <2>1
  <1>9. t + 1 + (n - (t + 1)) = n
    BY <1>5
  <1>10. Free(cs, n) = Free(cs, t + 1)
    BY <1>5, <1>8, <1>9 DEF S
  <1> QED BY <1>4, <1>5, <1>10

-----------------------------------------------------------------------------
(***************************************************************************)
(* getActivationTile().  In the loop, the downlinks between the tile       *)
(* reached and the first, less the timesyncs that have been counted, are   *)
(* enough but for those still needed.                                      *)
(***************************************************************************)
RoundInv(cs, first, needed, r) ==
    /\ r \in [tile : Nat, need : Nat, begin : Nat, done : BOOLEAN]
    /\ r.tile % cs.size = 0
    /\ first <= r.begin /\ r.begin <= r.tile
    /\ ~r.done => (Downs(cs, r.tile) - Downs(cs, first))
                    - (NumTimesyncs(cs, r.begin) - NumTimesyncs(cs, first)) >= needed - r.need
    /\ r.done => /\ Free(cs, r.tile) - Free(cs, first) >= needed
                 /\ cs.superframesPerSync # 1 => ~IsTimesync(cs, r.tile)

\* The rest of the first superframe.
LEMMA ToBoundaryFacts ==
    ASSUME NEW cs, ValidStructure(cs), NEW first \in Nat, NEW needed \in Nat
    PROVE  RoundInv(cs, first, needed, ToBoundary(cs, first, needed))
  <1> DEFINE n == cs.size
             D == CountDownlinks(cs)
             phase == first % n
             q == first \div n
             reached == Align(first, n)
             B(p) == Cardinality(DownlinksBefore(cs, p))
             After == {p \in cs.downlinks : p >= phase}
             free == IF phase = 0 THEN 0 ELSE Cardinality(After)
             r == ToBoundary(cs, first, needed)
  <1>1. n \in Nat \ {0} /\ D \in Nat
    BY StructureFacts
  <1>2. q \in Nat /\ phase \in 0 .. (n - 1) /\ first = n * q + phase
    <2> HIDE DEF n
    <2> QED BY <1>1, DivisionNat
  <1>3. reached \in Nat /\ reached % n = 0 /\ first <= reached /\ reached < first + n
    <2> HIDE DEF n
    <2>1. reached \in Int /\ reached % n = 0 /\ first <= reached /\ reached < first + n
      BY <1>1, AlignFacts
    <2> HIDE DEF reached
    <2> QED BY <2>1
  <1>4. /\ r.tile = reached /\ r.begin = first /\ r.done = FALSE
        /\ r.need = IF free > needed THEN 0 ELSE needed - free
    BY DEF ToBoundary
  <1>0. r = [tile |-> r.tile, need |-> r.need, begin |-> r.begin, done |-> r.done]
    BY DEF ToBoundary
  <1>5. free \in Nat
    <2>1. IsFiniteSet(After)
      <3>1. After \subseteq cs.downlinks
        OBVIOUS
      <3> QED BY <3>1, StructureFacts, FS_Subset
    <2> QED BY <2>1, FS_CardinalityType
  <1>6. Downs(cs, reached) - Downs(cs, first) = free
    <2>1. CASE phase = 0
      <3>1. reached = first
        <4> DEFINE p == reached \div n
        <4> HIDE DEF n, q, phase, reached
        <4>1. reached = n * p + 0 /\ p \in Int
          <5>1. reached = n * p + (reached % n) /\ p \in Nat
            BY <1>1, <1>3, DivisionNat DEF p
          <5> HIDE DEF p
          <5> QED BY <1>1, <1>3, <5>1
        <4> HIDE DEF p
        <4>2. n * p - n * q = n * (p - q)
          BY <1>1, <1>2, <4>1
        <4>3. n * (p - q) >= 0 /\ n * (p - q) < n
          BY <1>1, <1>2, <1>3, <2>1, <4>1, <4>2
        <4>4. p - q = 0
          BY <1>1, <1>2, <4>1, <4>3, SMTT(30)
        <4> QED BY <1>1, <1>2, <2>1, <4>1, <4>4
      <3>2. Downs(cs, first) \in Nat /\ free = 0
        BY <2>1, DownsNext
      <3> QED BY <3>1, <3>2
    <2>2. CASE phase # 0
      <3>1. reached = n * (q + 1)
        <4> DEFINE u == first + n - 1
                   v == phase - 1
                   w == q + 1
        <4>1. reached = (u \div n) * n
          BY DEF Align
        <4> HIDE DEF n, q, phase, reached
        <4>2. n * w = n * q + n /\ w \in Int
          BY <1>1, <1>2
        <4>3. u \in Int /\ v \in 0 .. (n - 1) /\ u = n * w + v
          BY <1>1, <1>2, <2>2, <4>2
        <4> HIDE DEF u, v, w
        <4>4. u \div n = w
          BY <1>1, <4>2, <4>3, DivisionUnique
        <4>5. reached = w * n /\ w * n = n * w
          BY <1>1, <4>1, <4>2, <4>4
        <4> QED BY <4>5 DEF w
      <3>2. Downs(cs, reached) = (q + 1) * D
        <4> DEFINE z == 0
                   w == q + 1
        <4>1. z \in Nat /\ w \in Nat /\ reached = z + n * w
          BY <1>1, <1>2, <3>1
        <4>2. Downs(cs, z + n * w) = Downs(cs, z) + w * D
          <5> HIDE DEF z, w
          <5> QED BY <4>1, DownsWhole
        <4>3. Downs(cs, z) = 0
          <5>1. z \div n = 0 /\ z % n = 0
            <6> HIDE DEF n
            <6>1. z \in Int /\ z = n * 0 + 0 /\ 0 \in 0 .. (n - 1) /\ 0 \in Int
              BY <1>1
            <6> HIDE DEF z
            <6> QED BY <1>1, <6>1, DivisionUnique
          <5>2. Downs(cs, z) = (z \div n) * D + B(z % n) /\ B(0) = 0
            BY BeforeNext DEF Downs
          <5> HIDE DEF z, n, D, B
          <5> QED BY <1>1, <5>1, <5>2
        <4> HIDE DEF z, w, reached, n, D
        <4>4. Downs(cs, reached) = w * D /\ w * D \in Nat
          BY <1>1, <4>1, <4>2, <4>3
        <4> QED BY <4>4 DEF w
      <3>3. Downs(cs, first) = q * D + B(phase)
        BY DEF Downs
      <3>4. D = B(phase) + Cardinality(After) /\ B(phase) \in Nat
        <4>1. /\ IsFiniteSet(cs.downlinks)
              /\ DownlinksBefore(cs, phase) \subseteq cs.downlinks /\ After \subseteq cs.downlinks
          BY StructureFacts DEF DownlinksBefore
        <4>2. IsFiniteSet(DownlinksBefore(cs, phase)) /\ IsFiniteSet(After)
          BY <4>1, FS_Subset
        <4>3. cs.downlinks \subseteq Int
          BY <1>1 DEF ValidStructure
        <4>4. DownlinksBefore(cs, phase) \cap After = {}
          BY <1>2, <4>3 DEF DownlinksBefore
        <4>5. DownlinksBefore(cs, phase) \cup After = cs.downlinks
          BY <1>2, <4>3 DEF DownlinksBefore
        <4> HIDE DEF After
        <4>6. Cardinality(DownlinksBefore(cs, phase) \cup After)
                = Cardinality(DownlinksBefore(cs, phase)) + Cardinality(After)
                    - Cardinality(DownlinksBefore(cs, phase) \cap After)
          BY <4>2, FS_Union
        <4>7. Cardinality(DownlinksBefore(cs, phase)) \in Nat /\ Cardinality(After) \in Nat
          BY <4>2, FS_CardinalityType
        <4>8. Cardinality(DownlinksBefore(cs, phase) \cap After) = 0
          BY <4>4, FS_EmptySet
        <4>9. D = Cardinality(DownlinksBefore(cs, phase) \cup After)
          BY <4>5 DEF CountDownlinks
        <4> HIDE DEF D
        <4> QED BY <4>6, <4>7, <4>8, <4>9
      <3>5. free = Cardinality(After)
        BY <2>2
      <3> HIDE DEF free, After, B, D, n, q, phase, reached
      <3>6. (q + 1) * D = q * D + D /\ q * D \in Nat
        BY <1>1, <1>2
      <3> QED BY <1>1, <1>5, <3>2, <3>3, <3>4, <3>5, <3>6
    <2> QED BY <2>1, <2>2
  <1>7. NumTimesyncs(cs, first) \in Nat /\ Downs(cs, first) \in Nat /\ Downs(cs, reached) \in Nat
    BY <1>3, TimesyncsNext, DownsNext
  <1>8. reached % cs.size = 0
    BY <1>3
  <1> HIDE DEF n, D, phase, q, reached, B, After, free, r
  <1>9. r.need \in Nat /\ r.need >= needed - free
    BY <1>4, <1>5
  <1>10. Downs(cs, r.tile) - Downs(cs, first) = free
    BY <1>4, <1>6
  <1>11. NumTimesyncs(cs, r.begin) - NumTimesyncs(cs, first) = 0
    BY <1>4, <1>7
  <1>12. (Downs(cs, r.tile) - Downs(cs, first))
           - (NumTimesyncs(cs, r.begin) - NumTimesyncs(cs, first)) >= needed - r.need
    BY <1>5, <1>9, <1>10, <1>11
  <1>13. r.tile \in Nat /\ r.begin \in Nat /\ r.tile % cs.size = 0 /\ r.done = FALSE
         /\ first <= r.begin /\ r.begin <= r.tile
    BY <1>3, <1>4, <1>8
  <1>14. r \in [tile : Nat, need : Nat, begin : Nat, done : BOOLEAN]
    BY <1>0, <1>9, <1>13
  <1>15. RoundInv(cs, first, needed, r)
    BY <1>12, <1>13, <1>14 DEF RoundInv
  <1> QED BY <1>15 DEF r

\* Superframes for `need' downlinks, and the downlinks they have left.
LEMMA WholeSuperframes ==
    ASSUME NEW need \in Nat, NEW D \in Nat \ {0}, NEW k, k = (need + D - 1) \div D,
           NEW remaining, remaining = (D - (need % D)) % D
    PROVE  k \in Nat /\ remaining \in Nat /\ k * D = need + remaining
  <1> DEFINE a == need \div D
             b == need % D
             u == need + D - 1
             v == D - b
  <1>1. a \in Nat /\ b \in 0 .. (D - 1) /\ need = D * a + b
    BY DivisionNat
  <1>2. u \in Int /\ u = need + D - 1 /\ k = u \div D
    OBVIOUS
  <1>3. v = D - b /\ remaining = v % D
    OBVIOUS
  <1> HIDE DEF a, b, u, v
  <1>4. D * (a + 1) = D * a + D /\ (a + 1) * D = D * (a + 1) /\ a * D = D * a
    BY <1>1
  <1>5. CASE b = 0
    <2> DEFINE w == D - 1
    <2>1. w \in 0 .. (D - 1) /\ u = D * a + w
      BY <1>1, <1>2, <1>5
    <2> HIDE DEF w
    <2>2. u \div D = a
      BY <1>1, <1>2, <2>1, DivisionUnique
    <2>3. v % D = 0
      <3>1. v \in Int /\ v = D * 1 + 0 /\ 0 \in 0 .. (D - 1) /\ 1 \in Int
        BY <1>1, <1>3, <1>5
      <3> QED BY <3>1, DivisionUnique
    <2> QED BY <1>1, <1>2, <1>3, <1>4, <1>5, <2>2, <2>3
  <1>6. CASE b # 0
    <2> DEFINE w == b - 1
               c == a + 1
    <2>1. w \in 0 .. (D - 1) /\ c \in Int /\ c \in Nat /\ u = D * c + w
      BY <1>1, <1>2, <1>4, <1>6
    <2>2. c * D = D * a + D
      BY <1>4
    <2> HIDE DEF w, c
    <2>3. u \div D = c
      BY <1>2, <2>1, DivisionUnique
    <2>4. v % D = v
      <3>1. v \in Int /\ v = D * 0 + v /\ v \in 0 .. (D - 1) /\ 0 \in Int
        BY <1>1, <1>3, <1>6
      <3> QED BY <3>1, DivisionUnique
    <2> QED BY <1>1, <1>2, <1>3, <1>6, <2>1, <2>2, <2>3, <2>4
  <1> QED BY <1>5, <1>6

\* One round of the loop.
LEMMA RoundFacts ==
    ASSUME NEW cs, ValidStructure(cs), NEW first \in Nat, NEW needed \in Nat,
           NEW r, RoundInv(cs, first, needed, r), ~r.done
    PROVE  RoundInv(cs, first, needed, Round(cs, r))
  <1> DEFINE n == cs.size
             D == CountDownlinks(cs)
             k == (r.need + D - 1) \div D
             reached == r.tile + n * k
             remaining == (D - (r.need % D)) % D
             timesyncs == NumTimesyncs(cs, reached) - NumTimesyncs(cs, r.begin)
             s == Round(cs, r)
             last == IF IsTimesync(cs, reached) THEN reached + n ELSE reached
  <1>1. n \in Nat \ {0} /\ D \in Nat \ {0}
    BY StructureFacts
  <1>2. r.tile \in Nat /\ r.need \in Nat /\ r.begin \in Nat /\ r.done = FALSE
        /\ r.tile % n = 0 /\ first <= r.begin /\ r.begin <= r.tile
    BY DEF RoundInv
  <1>3. (Downs(cs, r.tile) - Downs(cs, first))
           - (NumTimesyncs(cs, r.begin) - NumTimesyncs(cs, first)) >= needed - r.need
    BY DEF RoundInv
  <1>4. k \in Nat /\ remaining \in Nat /\ k * D = r.need + remaining
    <2> DEFINE m == r.need
    <2>1. m \in Nat /\ k = (m + D - 1) \div D /\ remaining = (D - (m % D)) % D
      BY <1>2
    <2> HIDE DEF k, remaining, m, D
    <2>2. k \in Nat /\ remaining \in Nat /\ k * D = m + remaining
      BY <1>1, <2>1, WholeSuperframes
    <2> QED BY <2>2 DEF m
  <1>5. Downs(cs, reached) = Downs(cs, r.tile) + k * D /\ reached % n = 0
    <2> DEFINE m == r.tile
    <2>1. m \in Nat /\ m % n = 0 /\ reached = m + n * k
      BY <1>2
    <2> HIDE DEF k, m
    <2>2. Downs(cs, m + n * k) = Downs(cs, m) + k * D /\ (m + n * k) % n = m % n
      BY <1>4, <2>1, DownsWhole
    <2> HIDE DEF D, n, reached
    <2>3. Downs(cs, reached) = Downs(cs, m) + k * D /\ reached % n = 0
      BY <2>1, <2>2
    <2> QED BY <2>3 DEF m
  <1>6. reached \in Nat /\ r.tile <= reached
    <2>1. n * k \in Nat
      BY <1>1, <1>4
    <2> QED BY <1>2, <2>1
  <1>7. /\ Downs(cs, reached) \in Nat /\ Downs(cs, r.tile) \in Nat /\ Downs(cs, first) \in Nat
        /\ NumTimesyncs(cs, reached) \in Nat /\ NumTimesyncs(cs, r.begin) \in Nat
        /\ NumTimesyncs(cs, first) \in Nat
    <2> HIDE DEF reached
    <2> QED BY <1>2, <1>6, DownsNext, TimesyncsNext
  <1>8. CASE timesyncs > remaining
    <2>1. s = [tile |-> reached, need |-> timesyncs - remaining, begin |-> reached, done |-> FALSE]
      BY <1>8 DEF Round
    <2>2. s.tile = reached /\ s.need = timesyncs - remaining /\ s.begin = reached /\ s.done = FALSE
      BY <2>1
    <2>3. timesyncs = NumTimesyncs(cs, reached) - NumTimesyncs(cs, r.begin) /\ n = cs.size
      OBVIOUS
    <2> HIDE DEF n, D, k, reached, remaining, timesyncs, s
    <2>4. s.need \in Nat
      BY <1>4, <1>7, <1>8, <2>2, <2>3
    <2>5. (Downs(cs, s.tile) - Downs(cs, first))
             - (NumTimesyncs(cs, s.begin) - NumTimesyncs(cs, first)) >= needed - s.need
      BY <1>2, <1>3, <1>4, <1>5, <1>7, <2>2, <2>3
    <2>0. s \in [tile : Nat, need : Nat, begin : Nat, done : BOOLEAN]
      BY <1>6, <2>1, <2>2, <2>4
    <2>6. RoundInv(cs, first, needed, s)
      BY <1>2, <1>5, <1>6, <2>0, <2>2, <2>3, <2>4, <2>5 DEF RoundInv
    <2> QED BY <2>6 DEF s
  <1>9. CASE ~(timesyncs > remaining)
    <2>1. s = [r EXCEPT !.tile = last, !.done = TRUE]
      BY <1>9 DEF Round
    <2>2. s.tile = last /\ s.need = r.need /\ s.begin = r.begin /\ s.done = TRUE
      <3> HIDE DEF last, n, D, k, reached, remaining, timesyncs, s
      <3>1. r \in [tile : Nat, need : Nat, begin : Nat, done : BOOLEAN]
        BY DEF RoundInv
      <3> QED BY <2>1, <3>1
    <2>3. timesyncs = NumTimesyncs(cs, reached) - NumTimesyncs(cs, r.begin) /\ n = cs.size
      OBVIOUS
    <2>4. last = IF IsTimesync(cs, reached) THEN reached + n ELSE reached
      OBVIOUS
    <2> HIDE DEF n, D, k, reached, remaining, timesyncs, s, last
    <2>5. Free(cs, reached) - Free(cs, first) >= needed
      BY <1>1, <1>2, <1>3, <1>4, <1>5, <1>7, <1>9, <2>3 DEF Free
    <2>6. last \in Nat /\ reached <= last
      BY <1>1, <1>6, <2>4
    <2>7. Free(cs, last) - Free(cs, first) >= needed
      <3>1. Free(cs, reached) <= Free(cs, last)
        BY <1>6, <2>6, FreeMonotone
      <3>2. Free(cs, reached) \in Int /\ Free(cs, last) \in Int /\ Free(cs, first) \in Int
        BY <1>6, <2>6, FreeNext
      <3> QED BY <2>5, <3>1, <3>2
    <2>8. last % cs.size = 0
      <3>1. CASE last = reached
        BY <1>5, <2>3, <3>1
      <3>2. CASE last = reached + n
        <4>1. (reached + n * 1) % n = reached % n
          <5>1. reached \in Int /\ 1 \in Int
            BY <1>6
          <5> QED BY <1>1, <5>1, AddMultiple
        <4>2. reached + n = reached + n * 1
          BY <1>1
        <4> QED BY <1>5, <2>3, <3>2, <4>1, <4>2
      <3> QED BY <2>4, <3>1, <3>2
    <2>9. ASSUME cs.superframesPerSync # 1 PROVE ~IsTimesync(cs, last)
      <3> SUFFICES ASSUME IsTimesync(cs, reached) PROVE ~IsTimesync(cs, reached + n)
        BY <2>4
      <3> QED BY <1>6, <2>3, <2>9, NextBoundaryFree
    <2>0. s \in [tile : Nat, need : Nat, begin : Nat, done : BOOLEAN]
      <3>1. r \in [tile : Nat, need : Nat, begin : Nat, done : BOOLEAN]
        BY DEF RoundInv
      <3> QED BY <2>1, <2>6, <3>1
    <2>10. RoundInv(cs, first, needed, s)
      BY <1>2, <1>6, <2>0, <2>2, <2>6, <2>7, <2>8, <2>9 DEF RoundInv
    <2> QED BY <2>10 DEF s
  <1> QED BY <1>8, <1>9

\* The rounds up to the n-th, as a function.
RoundsUpTo(cs, current, needed, n, f) ==
    f = [i \in 0 .. n |->
            IF i = 0 THEN ToBoundary(cs, current + 1, needed)
            ELSE IF f[i - 1].done THEN f[i - 1]
            ELSE Round(cs, f[i - 1])]

LEMMA RoundsExist ==
    ASSUME NEW cs, NEW current, NEW needed, NEW m \in Nat
    PROVE  \E f : RoundsUpTo(cs, current, needed, m, f)
  <1> DEFINE Up(n, f) == RoundsUpTo(cs, current, needed, n, f)
             S == {n \in Nat : \E f : Up(n, f)}
             After(r) == IF r.done THEN r ELSE Round(cs, r)
             Zero == ToBoundary(cs, current + 1, needed)
  <1>1. \A n, f : Up(n, f) <=> f = [i \in 0 .. n |-> IF i = 0 THEN Zero ELSE After(f[i - 1])]
    BY DEF RoundsUpTo
  <1> HIDE DEF Up, After, Zero
  <1>2. 0 \in S
    <2> DEFINE g == [i \in 0 .. 0 |-> Zero]
    <2>1. g = [i \in 0 .. 0 |-> IF i = 0 THEN Zero ELSE After(g[i - 1])]
      OBVIOUS
    <2> QED BY <1>1, <2>1
  <1>3. ASSUME NEW n \in Nat, n \in S PROVE n + 1 \in S
    <2>1. PICK f : Up(n, f)
      BY <1>3
    <2>2. f = [i \in 0 .. n |-> IF i = 0 THEN Zero ELSE After(f[i - 1])]
      BY <1>1, <2>1
    <2> DEFINE g == [i \in 0 .. n + 1 |-> IF i \in 0 .. n THEN f[i] ELSE After(f[n])]
               h == [i \in 0 .. n + 1 |-> IF i = 0 THEN Zero ELSE After(g[i - 1])]
    <2>3. ASSUME NEW i \in 0 .. n + 1 PROVE g[i] = h[i]
      <3>1. CASE i = 0
        BY <2>2, <3>1
      <3>2. CASE i \in 1 .. n
        <4>1. f[i] = After(f[i - 1])
          BY <2>2, <3>2
        <4>2. g[i - 1] = f[i - 1] /\ g[i] = f[i] /\ h[i] = After(g[i - 1])
          BY <3>2
        <4> QED BY <4>1, <4>2
      <3>3. CASE i = n + 1
        <4>1. g[n] = f[n] /\ g[i] = After(f[n]) /\ h[i] = After(g[i - 1]) /\ i - 1 = n
          BY <3>3
        <4> QED BY <4>1
      <3> QED BY <3>1, <3>2, <3>3
    <2>4. g = h
      BY <2>3
    <2> HIDE DEF g
    <2>5. Up(n + 1, g)
      BY <1>1, <2>4
    <2> QED BY <2>5
  <1> HIDE DEF S
  <1>4. m \in S
    BY <1>2, <1>3, InductionOver
  <1> QED BY <1>4 DEF S, Up

\* The tile that getActivationTile() finds when its loop ends: a superframe
\* boundary before which the needed downlinks are free.
LEMMA ActivationTileFacts ==
    ASSUME NEW cs, ValidStructure(cs), NEW current \in Nat, NEW needed \in Nat,
           NEW r, r = GetActivationTile(cs, current, needed)
    PROVE  RoundInv(cs, current + 1, needed, r)
  <1> DEFINE Up(f) == RoundsUpTo(cs, current, needed, MaxRounds, f)
             g == CHOOSE f : Up(f)
             Inv(s) == RoundInv(cs, current + 1, needed, s)
  <1>1. Up(g)
    <2>1. \E f : Up(f)
      BY RoundsExist DEF MaxRounds
    <2> HIDE DEF Up
    <2> QED BY <2>1
  <1>2. r = g[MaxRounds]
    BY DEF GetActivationTile, RoundsUpTo
  <1>3. g = [i \in 0 .. MaxRounds |->
                IF i = 0 THEN ToBoundary(cs, current + 1, needed)
                ELSE IF g[i - 1].done THEN g[i - 1]
                ELSE Round(cs, g[i - 1])]
    <2> HIDE DEF g
    <2> QED BY <1>1 DEF RoundsUpTo
  <1> HIDE DEF g, Up
  <1> DEFINE S == {n \in Nat : n <= MaxRounds => Inv(g[n])}
  <1>4. 0 \in S
    <2>1. g[0] = ToBoundary(cs, current + 1, needed)
      BY <1>3 DEF MaxRounds
    <2>2. current + 1 \in Nat
      OBVIOUS
    <2>3. Inv(ToBoundary(cs, current + 1, needed))
      BY <2>2, ToBoundaryFacts
    <2> HIDE DEF Inv
    <2> QED BY <2>1, <2>3
  <1>5. ASSUME NEW n \in Nat, n \in S PROVE n + 1 \in S
    <2> SUFFICES ASSUME n + 1 <= MaxRounds PROVE Inv(g[n + 1])
      OBVIOUS
    <2> DEFINE s == g[n]
    <2>1. Inv(s)
      BY <1>5 DEF MaxRounds
    <2>2. g[n + 1] = IF s.done THEN s ELSE Round(cs, s)
      BY <1>3 DEF MaxRounds
    <2> HIDE DEF s
    <2>3. ~s.done => Inv(Round(cs, s))
      <3>1. current + 1 \in Nat
        OBVIOUS
      <3> QED BY <2>1, <3>1, RoundFacts
    <2> HIDE DEF Inv
    <2> QED BY <2>1, <2>2, <2>3
  <1> HIDE DEF S
  <1>6. MaxRounds \in S
    BY <1>4, <1>5, InductionOver DEF MaxRounds
  <1> QED BY <1>2, <1>6 DEF S, MaxRounds

\* AlignToSchedule keeps to the boundaries of the superframe and of the schedule
\* in use, and does not go back.
LEMMA AlignToScheduleFacts ==
    ASSUME NEW cs, ValidStructure(cs), NEW t \in Nat, t % cs.size = 0,
           NEW old, old.scheduleTiles \in Nat, old.activationTile \in Nat,
           old.scheduleTiles # 0 => /\ old.scheduleTiles % cs.size = 0
                                    /\ old.activationTile % cs.size = 0,
           NEW a, a = AlignToSchedule(cs, t, old)
    PROVE  /\ a \in Nat /\ a % cs.size = 0 /\ t <= a
           /\ old.scheduleTiles # 0 => (a - old.activationTile) % old.scheduleTiles = 0
           /\ /\ cs.superframesPerSync # 1
              /\ ~IsTimesync(cs, t)
              /\ old.scheduleTiles # 0 => ~IsTimesync(cs, old.activationTile)
              => ~IsTimesync(cs, a)
  <1>1. CASE old.scheduleTiles = 0
    BY <1>1 DEF AlignToSchedule
  <1>2. CASE old.scheduleTiles # 0
    <2> DEFINE n == cs.size
               T == old.scheduleTiles
               A == old.activationTile
               v == t - A
               w == Align(v, T)
               aligned == A + w
               k == w \div T
    <2>1. n \in Nat \ {0} /\ T \in Nat \ {0} /\ A \in Nat /\ v \in Int /\ v = t - A
          /\ T % n = 0 /\ A % n = 0
      BY <1>2, StructureFacts
    <2>2. a = IF IsTimesync(cs, aligned) THEN aligned + T ELSE aligned
      BY <1>2 DEF AlignToSchedule
    <2>3. w \in Int /\ w % T = 0 /\ v <= w
      <3> HIDE DEF v, T
      <3> QED BY <2>1, AlignFacts
    <2>4. aligned = A + w /\ k = w \div T /\ n = cs.size
      OBVIOUS
    <2> HIDE DEF n, T, A, v, w, aligned, k
    <2>5. w = T * k /\ k \in Int
      <3>1. w = T * (w \div T) + (w % T) /\ w \div T \in Int
        BY <2>1, <2>3, Division
      <3>2. w = T * k + 0 /\ k \in Int
        BY <2>3, <2>4, <3>1
      <3>3. T * k \in Int
        BY <2>1, <3>2
      <3> QED BY <3>2, <3>3
    <2>6. aligned \in Nat /\ t <= aligned
      BY <2>1, <2>3, <2>4
    <2>7. PICK j \in Int : a = A + T * j /\ t <= a /\ a \in Nat
      <3>1. CASE IsTimesync(cs, aligned)
        <4> DEFINE l == k + 1
        <4>1. l \in Int /\ T * l = T * k + T
          BY <2>1, <2>5
        <4> HIDE DEF l
        <4>2. a = A + T * l /\ t <= a /\ a \in Nat
          BY <2>1, <2>2, <2>4, <2>5, <2>6, <3>1, <4>1
        <4> QED BY <4>1, <4>2
      <3>2. CASE ~IsTimesync(cs, aligned)
        BY <2>2, <2>4, <2>5, <2>6, <3>2
      <3> QED BY <3>1, <3>2
    <2>8. (a - A) % T = 0
      <3> DEFINE d == a - A
      <3>1. d \in Int /\ d = T * j + 0 /\ 0 \in 0 .. (T - 1)
        BY <2>1, <2>7
      <3> HIDE DEF d
      <3>2. d % T = 0
        BY <2>1, <2>7, <3>1, DivisionUnique
      <3> QED BY <3>2 DEF d
    <2>9. PICK e \in Nat \ {0} : T = n * e
      <3>1. T = n * (T \div n) + (T % n) /\ T \div n \in Nat
        BY <2>1, DivisionNat
      <3> DEFINE f == T \div n
      <3> HIDE DEF f
      <3>2. T = n * f /\ f \in Nat
        BY <2>1, <3>1 DEF f
      <3>3. f # 0
        BY <2>1, <3>2
      <3> QED BY <3>2, <3>3
    <2>10. a % n = 0
      <3> DEFINE f == e * j
      <3>1. T * j = n * f /\ f \in Int
        BY <2>1, <2>7, <2>9
      <3> HIDE DEF f
      <3>2. (A + n * f) % n = A % n
        <4>1. A \in Int /\ f \in Int /\ n \in Nat \ {0}
          BY <2>1, <3>1
        <4> QED BY <4>1, AddMultiple
      <3> QED BY <2>1, <2>7, <3>1, <3>2
    <2>11. ASSUME cs.superframesPerSync # 1, ~IsTimesync(cs, A) PROVE ~IsTimesync(cs, a)
      <3> SUFFICES ASSUME IsTimesync(cs, aligned) PROVE ~IsTimesync(cs, aligned + T)
        BY <2>2
      <3> DEFINE P == TilesPerTimesync(cs)
                 u == aligned + T
      <3>1. P \in Nat \ {0} /\ aligned % P = 0 /\ u \in Nat /\ u = aligned + T
        BY <2>1, <2>6, StructureFacts, TimesyncsNext
      <3> HIDE DEF P, u
      <3> SUFFICES ASSUME u % P = 0 PROVE FALSE
        <4>1. ~IsTimesync(cs, u)
          BY <3>1, TimesyncsNext DEF P
        <4> QED BY <4>1 DEF u
      <3>2. PICK x \in Int, y \in Int : aligned = P * x /\ u = P * y
        <4> DEFINE x == aligned \div P
                   y == u \div P
        <4>1. aligned = P * x + (aligned % P) /\ x \in Nat
          BY <2>6, <3>1, DivisionNat
        <4>2. u = P * y + (u % P) /\ y \in Nat
          BY <3>1, DivisionNat
        <4> HIDE DEF x, y
        <4>3. aligned = P * x /\ u = P * y
          BY <3>1, <4>1, <4>2
        <4> QED BY <4>1, <4>2, <4>3
      <3>3. T = P * (y - x)
        BY <2>1, <2>6, <3>1, <3>2
      <3>4. A = P * (x - (y - x) * k) + 0
        <4> DEFINE z == y - x
        <4>1. T * k = (P * z) * k /\ z \in Int
          BY <3>2, <3>3
        <4>2. A = P * x - T * k
          BY <2>1, <2>4, <2>5, <3>2
        <4> HIDE DEF z
        <4>3. P * x - (P * z) * k = P * (x - z * k)
          BY <2>5, <3>1, <3>2, <4>1
        <4>4. A = P * (x - z * k)
          BY <4>1, <4>2, <4>3
        <4> QED BY <2>1, <4>4 DEF z
      <3> DEFINE q == x - (y - x) * k
      <3>5. q \in Int /\ 0 \in 0 .. (P - 1) /\ A \in Int
        BY <2>1, <2>5, <3>1, <3>2
      <3> HIDE DEF q
      <3>6. A = P * q + 0
        BY <3>4 DEF q
      <3>7. A % P = 0
        BY <3>1, <3>5, <3>6, DivisionUnique
      <3>8. IsTimesync(cs, A)
        BY <2>1, <3>7, TimesyncsNext DEF P
      <3> QED BY <2>11, <3>8
    <2> QED BY <1>2, <2>4, <2>7, <2>8, <2>10, <2>11 DEF T, A
  <1> QED BY <1>1, <1>2

-----------------------------------------------------------------------------
(***************************************************************************)
(* Types.                                                                  *)
(***************************************************************************)
Schedules == [id : Nat, streams : Nat, elements : Nat, tiles : Nat]

Headers == [id : Nat, totalPacket : Nat, currentPacket : Nat, repetition : Nat,
            activationTile : Nat, scheduleTiles : Nat]

MasterFields == {"status", "schedule", "header", "sendingRounds", "currentSendingRound",
                 "rekeyingSlots", "expansionSlots", "processingSlotCtr"}

MasterTyped(m) ==
    /\ DOMAIN m = MasterFields
    /\ m.status \in MasterStatus /\ m.schedule \in Schedules /\ m.header \in Headers
    /\ m.sendingRounds \in Nat /\ m.currentSendingRound \in Nat
    /\ m.rekeyingSlots \in Nat /\ m.expansionSlots \in Nat /\ m.processingSlotCtr \in Nat

NodeFields == {"status", "schedule", "header", "received", "sendingRounds",
               "currentSendingRound", "currentScheduleID", "lastScheduleID",
               "nextActivationTile", "incompleteScheduleCounter",
               "needToStartExpansion", "needToPerformExpansion"}

NodeTyped(n) ==
    /\ DOMAIN n = NodeFields
    /\ n.status \in MasterStatus \cup {"INCOMPLETE_SCHEDULE"}
    /\ n.header \in Headers
    /\ n.sendingRounds \in Nat /\ n.currentSendingRound \in Nat /\ n.nextActivationTile \in Nat

Keys == KeyManagers(Nat, Nat, Nat)

PlayTyped(d) == d.id \in Nat /\ d.tiles \in Nat /\ d.base \in Nat

TimesyncTyped(s) ==
    /\ DOMAIN s = {"status", "missed", "error"}
    /\ s.status \in {"DESYNCHRONIZED", "SYNCING", "IN_SYNC"}

AirTyped(a) ==
    /\ a.type = "schedule" => a.content.header \in Headers
    /\ a.type = "timesync" => a.activationTile \in Nat
    /\ a # Silence => a.masterIndex \in Nat

Typed ==
    /\ network \in Networks /\ tile \in Nat /\ turn \in {"master", "node", "update"}
    /\ IsDownlink(network, tile)
    /\ MasterTyped(master) /\ NodeTyped(node)
    /\ keys \in [Roles -> Keys]
    /\ DOMAIN dataPhase = Roles /\ \A r \in Roles : PlayTyped(dataPhase[r])
    /\ TimesyncTyped(timesync) /\ AirTyped(air)

\* The master's schedule and its header; boundaries are those of the superframe.
MasterHeader ==
    /\ master.header.id = master.schedule.id
    /\ master.header.scheduleTiles = master.schedule.tiles
    /\ master.status # "APPLIED_SCHEDULE" => master.schedule # NoSchedule
    /\ \/ master.schedule = NoSchedule /\ master.header = NoHeader
       \/ /\ master.schedule.id # 0 /\ master.schedule.tiles # 0
          /\ master.header.scheduleTiles % network.size = 0
          /\ master.header.activationTile % network.size = 0

Based == Typed /\ MasterHeader

LEMMA NetworkFacts ==
    ASSUME network \in Networks
    PROVE  /\ ValidStructure(network) /\ network.size \in Nat \ {0}
           /\ network.doMasterChallenge \in BOOLEAN /\ network.clockErrors \in BOOLEAN
  <1>1. ValidNetwork(network)
    BY DistributionAssumption
  <1> QED BY <1>1 DEF ValidNetwork, ValidStructure

LEMMA CeilDivFacts ==
    ASSUME NEW a \in Nat \ {0}, NEW b \in Nat \ {0}
    PROVE  CeilDiv(a, b) \in Nat \ {0}
  <1> DEFINE u == a + b - 1
             q == u \div b
  <1>1. u \in Nat /\ u >= b
    OBVIOUS
  <1> HIDE DEF u
  <1>2. u = b * q + (u % b) /\ q \in Nat /\ u % b \in 0 .. (b - 1)
    BY <1>1, DivisionNat
  <1> HIDE DEF q
  <1>3. q # 0
    BY <1>1, <1>2
  <1> QED BY <1>2, <1>3 DEF CeilDiv, u, q

LEMMA SlotFacts ==
    ASSUME NEW s \in Schedules
    PROVE  /\ NumPackets(s) \in Nat \ {0}
           /\ RekeyingSlots(s) \in Nat \ {0} /\ ExpansionSlots(s) \in Nat \ {0}
  <1>1. s.elements \in Nat /\ Larger(1, s.streams) \in Nat \ {0}
    BY DEF Schedules, Larger
  <1>2. RekeyingSlots(s) \in Nat \ {0} /\ ExpansionSlots(s) \in Nat \ {0}
    BY <1>1, CeilDivFacts, DistributionAssumption DEF RekeyingSlots, ExpansionSlots
  <1>3. NumPackets(s) \in Nat \ {0}
    <2>1. CASE s.elements = 0
      <3>1. CeilDiv(s.elements, packetCapacity) \in Nat
        <4> DEFINE u == s.elements + packetCapacity - 1
        <4>1. u \in Nat /\ packetCapacity \in Nat \ {0}
          BY <1>1, DistributionAssumption
        <4> HIDE DEF u
        <4>2. u \div packetCapacity \in Nat
          BY <4>1, DivisionNat
        <4> QED BY <4>2 DEF CeilDiv, u
      <3> QED BY <3>1 DEF NumPackets, Larger
    <2>2. CASE s.elements # 0
      <3>1. CeilDiv(s.elements, packetCapacity) \in Nat \ {0}
        BY <1>1, <2>2, CeilDivFacts, DistributionAssumption
      <3> QED BY <3>1 DEF NumPackets, Larger
    <2> QED BY <2>1, <2>2
  <1> QED BY <1>2, <1>3

\* The schedules that the master may distribute.
LEMMA SendFacts ==
    ASSUME Based, NEW s \in SchedulesToSend
    PROVE  /\ s \in Schedules /\ s.tiles # 0 /\ s.tiles % network.size = 0 /\ s.id # 0
           /\ \/ s.id = master.schedule.id + 1
              \/ s = master.schedule /\ s # NoSchedule
  <1>1. master.schedule \in Schedules /\ network \in Networks
    BY DEF Based, Typed, MasterTyped
  <1>2. CASE s = master.schedule /\ s # NoSchedule
    BY <1>1, <1>2 DEF Based, MasterHeader
  <1>3. CASE ~(s = master.schedule /\ s # NoSchedule)
    <2>1. PICK z \in Sizes : s = [id |-> master.schedule.id + 1, streams |-> z.streams,
                                  elements |-> z.elements, tiles |-> z.tiles]
      BY <1>3 DEF SchedulesToSend
    <2>2. z.streams \in Nat /\ z.elements \in Nat /\ z.tiles \in Nat
      BY DistributionAssumption
    <2>3. z.tiles > 0 /\ z.tiles % network.size = 0
      BY <1>1, DistributionAssumption
    <2>4. master.schedule.id \in Nat
      BY <1>1 DEF Schedules
    <2> QED BY <2>1, <2>2, <2>3, <2>4 DEF Schedules
  <1> QED BY <1>2, <1>3

\* The header of a schedule that the master begins to distribute.
LEMMA HeaderFacts ==
    ASSUME Based, NEW s \in SchedulesToSend, NEW h, h = HeaderFor(s)
    PROVE  /\ h \in Headers
           /\ h.id = s.id /\ h.scheduleTiles = s.tiles /\ h.totalPacket = NumPackets(s)
           /\ h.currentPacket = 0 /\ h.repetition = 0
           /\ h.activationTile % network.size = 0
           /\ master.header.scheduleTiles # 0 =>
                 (h.activationTile - master.header.activationTile)
                     % master.header.scheduleTiles = 0
           /\ ActivationFor(s).done =>
                 Free(network, h.activationTile) - Free(network, tile + 1) >= DownlinksFor(s)
           /\ /\ ActivationFor(s).done /\ network.superframesPerSync # 1
              /\ master.header.scheduleTiles # 0 =>
                    ~IsTimesync(network, master.header.activationTile)
              => ~IsTimesync(network, h.activationTile)
  <1> DEFINE r == ActivationFor(s)
             needed == DownlinksFor(s)
             old == master.header
             a == AlignToSchedule(network, r.tile, old)
  <1>1. s \in Schedules /\ network \in Networks /\ tile \in Nat /\ master.schedule \in Schedules
        /\ master.header \in Headers
    BY SendFacts DEF Based, Typed, MasterTyped
  <1>2. ValidStructure(network)
    BY <1>1, NetworkFacts
  <1>3. needed \in Nat
    <2>1. NumPackets(s) \in Nat /\ scheduleRepetitions \in Nat
      BY <1>1, SlotFacts, DistributionAssumption
    <2>2. AdvanceSlots \in Nat
      BY <1>1, SlotFacts DEF AdvanceSlots
    <2>3. scheduleRepetitions * NumPackets(s) \in Nat
      BY <2>1
    <2> QED BY <2>2, <2>3 DEF DownlinksFor
  <1>4. r = GetActivationTile(network, tile, needed)
    BY DEF ActivationFor
  <1>5. old.scheduleTiles \in Nat /\ old.activationTile \in Nat /\ old = master.header
    BY <1>1 DEF Headers
  <1>6. old.scheduleTiles # 0 => /\ old.scheduleTiles % network.size = 0
                                 /\ old.activationTile % network.size = 0
    BY DEF Based, MasterHeader, NoHeader
  <1>7. h = [id |-> s.id, totalPacket |-> NumPackets(s), currentPacket |-> 0, repetition |-> 0,
             activationTile |-> a, scheduleTiles |-> s.tiles]
    BY DEF HeaderFor
  <1>8. a = AlignToSchedule(network, r.tile, old)
    OBVIOUS
  <1>14. r = ActivationFor(s) /\ needed = DownlinksFor(s)
    OBVIOUS
  <1> HIDE DEF r, needed, old, a
  <1>9. RoundInv(network, tile + 1, needed, r)
    BY <1>1, <1>2, <1>3, <1>4, ActivationTileFacts
  <1>10. r.tile \in Nat /\ r.tile % network.size = 0 /\ tile + 1 \in Nat
    BY <1>1, <1>9 DEF RoundInv
  <1>11. /\ a \in Nat /\ a % network.size = 0 /\ r.tile <= a
         /\ old.scheduleTiles # 0 => (a - old.activationTile) % old.scheduleTiles = 0
         /\ /\ network.superframesPerSync # 1
            /\ ~IsTimesync(network, r.tile)
            /\ old.scheduleTiles # 0 => ~IsTimesync(network, old.activationTile)
            => ~IsTimesync(network, a)
    BY <1>2, <1>5, <1>6, <1>8, <1>10, AlignToScheduleFacts
  <1>12. r.done => Free(network, a) - Free(network, tile + 1) >= needed
    <2>1. r.done => Free(network, r.tile) - Free(network, tile + 1) >= needed
      BY <1>9 DEF RoundInv
    <2>2. Free(network, r.tile) <= Free(network, a)
      BY <1>2, <1>10, <1>11, FreeMonotone
    <2>3. Free(network, r.tile) \in Int /\ Free(network, a) \in Int /\ Free(network, tile + 1) \in Int
      BY <1>2, <1>10, <1>11, FreeNext
    <2> QED BY <1>3, <2>1, <2>2, <2>3
  <1>13. r.done /\ network.superframesPerSync # 1 => ~IsTimesync(network, r.tile)
    BY <1>9 DEF RoundInv
  <1>15. h \in Headers
    <2>1. s.id \in Nat /\ s.tiles \in Nat /\ NumPackets(s) \in Nat
      BY <1>1, SlotFacts DEF Schedules
    <2> QED BY <1>7, <1>11, <2>1 DEF Headers
  <1>16. h.id = s.id /\ h.scheduleTiles = s.tiles /\ h.totalPacket = NumPackets(s)
         /\ h.currentPacket = 0 /\ h.repetition = 0 /\ h.activationTile = a
    BY <1>7
  <1>17. r.done => Free(network, h.activationTile) - Free(network, tile + 1) >= DownlinksFor(s)
    BY <1>12, <1>14, <1>16
  <1>18. /\ r.done /\ network.superframesPerSync # 1
         /\ master.header.scheduleTiles # 0 => ~IsTimesync(network, master.header.activationTile)
         => ~IsTimesync(network, h.activationTile)
    BY <1>5, <1>11, <1>13, <1>16
  <1>19. master.header.scheduleTiles # 0 =>
            (h.activationTile - master.header.activationTile) % master.header.scheduleTiles = 0
    BY <1>5, <1>11, <1>16
  <1>20. h.activationTile % network.size = 0
    BY <1>11, <1>16
  <1> QED BY <1>14, <1>15, <1>16, <1>17, <1>18, <1>19, <1>20

-----------------------------------------------------------------------------
(***************************************************************************)
(* What the operations of a key manager do to its status and indices.      *)
(***************************************************************************)
KeyFields == {"status", "index", "temp", "next", "chal", "resendCtr", "timeoutCtr", "forceDesync"}

LEMMA KeyUpdates ==
    ASSUME NEW k \in Keys
    PROVE  /\ DOMAIN k = KeyFields
           /\ \A v \in KeyStatus : [k EXCEPT !.status = v] \in Keys
           /\ \A v \in Nat : /\ [k EXCEPT !.index = v] \in Keys /\ [k EXCEPT !.temp = v] \in Keys
                             /\ [k EXCEPT !.next = v] \in Keys /\ [k EXCEPT !.chal = v] \in Keys
                             /\ [k EXCEPT !.resendCtr = v] \in Keys
                             /\ [k EXCEPT !.timeoutCtr = v] \in Keys
           /\ \A v \in BOOLEAN : [k EXCEPT !.forceDesync = v] \in Keys
  BY DEF Keys, KeyManagers, KeyFields

LEMMA KeyTypes ==
    ASSUME NEW k \in Keys
    PROVE  /\ k.status \in KeyStatus /\ k.forceDesync \in BOOLEAN
           /\ k.index \in Nat /\ k.temp \in Nat /\ k.next \in Nat /\ MasterIndex(k) \in Nat
           /\ k.chal + 1 \in Nat /\ k.resendCtr + 1 \in Nat /\ k.timeoutCtr + 1 \in Nat
           /\ k.index + 1 \in Nat /\ k.temp + 1 \in Nat /\ MasterIndex(k) + 1 \in Nat
  BY DEF Keys, KeyManagers, MasterIndex

LEMMA RekeyingFacts ==
    ASSUME NEW k \in Keys
    PROVE  /\ MasterStartRekeying(k) \in Keys
           /\ MasterStartRekeying(k).status = "REKEYING"
           /\ MasterStartRekeying(k).index = k.index
           /\ MasterStartRekeying(k).next = k.index + 1
           /\ MasterApplyRekeying(k) \in Keys
           /\ MasterApplyRekeying(k).status = "CONNECTED"
           /\ MasterApplyRekeying(k).index = k.next
           /\ StartRekeying(k) \in Keys
           /\ StartRekeying(k).status = IF k.status = "CONNECTED" THEN "REKEYING"
                                        ELSE "REKEYING_UNTRUSTED"
           /\ StartRekeying(k).next = MasterIndex(k) + 1
           /\ StartRekeying(k).index = k.index /\ StartRekeying(k).temp = k.temp
           /\ StartRekeying(k).forceDesync = k.forceDesync
           /\ ApplyRekeying(k) \in Keys
           /\ ApplyRekeying(k).status = IF k.status = "REKEYING" THEN "CONNECTED"
                                        ELSE "MASTER_UNTRUSTED"
           /\ ApplyRekeying(k).index = IF k.status = "REKEYING" THEN k.next ELSE k.index
           /\ ApplyRekeying(k).temp = IF k.status = "REKEYING" THEN k.temp ELSE k.next
           /\ ApplyRekeying(k).next = k.next
           /\ ApplyRekeying(k).forceDesync = k.forceDesync
  <1>1. DOMAIN k = KeyFields
    BY KeyUpdates
  <1>2. /\ MasterStartRekeying(k).status = "REKEYING"
        /\ MasterStartRekeying(k).index = k.index
        /\ MasterStartRekeying(k).next = k.index + 1
        /\ MasterApplyRekeying(k).status = "CONNECTED"
        /\ MasterApplyRekeying(k).index = k.next
    BY <1>1 DEF MasterStartRekeying, MasterApplyRekeying, KeyFields
  <1>3. /\ StartRekeying(k).status = IF k.status = "CONNECTED" THEN "REKEYING"
                                     ELSE "REKEYING_UNTRUSTED"
        /\ StartRekeying(k).next = MasterIndex(k) + 1
        /\ StartRekeying(k).index = k.index /\ StartRekeying(k).temp = k.temp
        /\ StartRekeying(k).forceDesync = k.forceDesync
    BY <1>1 DEF StartRekeying, KeyFields
  <1>4. /\ ApplyRekeying(k).status = IF k.status = "REKEYING" THEN "CONNECTED"
                                     ELSE "MASTER_UNTRUSTED"
        /\ ApplyRekeying(k).index = IF k.status = "REKEYING" THEN k.next ELSE k.index
        /\ ApplyRekeying(k).temp = IF k.status = "REKEYING" THEN k.temp ELSE k.next
        /\ ApplyRekeying(k).next = k.next
        /\ ApplyRekeying(k).forceDesync = k.forceDesync
    BY <1>1 DEF ApplyRekeying, KeyFields
  <1>5. MasterStartRekeying(k) \in Keys
    <2> DEFINE a == [k EXCEPT !.next = k.index + 1]
    <2>1. a \in Keys
      BY KeyUpdates, KeyTypes
    <2>2. MasterStartRekeying(k) = [a EXCEPT !.status = "REKEYING"]
      BY DEF MasterStartRekeying
    <2> HIDE DEF a
    <2> QED BY <2>1, <2>2, KeyUpdates DEF KeyStatus
  <1>6. MasterApplyRekeying(k) \in Keys
    <2> DEFINE a == [k EXCEPT !.index = k.next]
    <2>1. a \in Keys
      BY KeyUpdates, KeyTypes
    <2>2. MasterApplyRekeying(k) = [a EXCEPT !.status = "CONNECTED"]
      BY DEF MasterApplyRekeying
    <2> HIDE DEF a
    <2> QED BY <2>1, <2>2, KeyUpdates DEF KeyStatus
  <1>7. StartRekeying(k) \in Keys
    <2> DEFINE a == [k EXCEPT !.next = MasterIndex(k) + 1]
               v == IF k.status = "CONNECTED" THEN "REKEYING" ELSE "REKEYING_UNTRUSTED"
    <2>1. a \in Keys
      BY KeyUpdates, KeyTypes
    <2>2. StartRekeying(k) = [a EXCEPT !.status = v]
      BY DEF StartRekeying
    <2>3. v \in KeyStatus
      BY DEF KeyStatus
    <2> HIDE DEF a, v
    <2> QED BY <2>1, <2>2, <2>3, KeyUpdates
  <1>8. ApplyRekeying(k) \in Keys
    <2>1. CASE k.status = "REKEYING"
      <3> DEFINE a == [k EXCEPT !.index = k.next]
      <3>1. a \in Keys
        BY KeyUpdates, KeyTypes
      <3>2. ApplyRekeying(k) = [a EXCEPT !.status = "CONNECTED"]
        BY <2>1 DEF ApplyRekeying
      <3> HIDE DEF a
      <3> QED BY <3>1, <3>2, KeyUpdates DEF KeyStatus
    <2>2. CASE k.status # "REKEYING"
      <3> DEFINE a == [k EXCEPT !.temp = k.next]
      <3>1. a \in Keys
        BY KeyUpdates, KeyTypes
      <3>2. ApplyRekeying(k) = [a EXCEPT !.status = "MASTER_UNTRUSTED"]
        BY <2>2 DEF ApplyRekeying
      <3> HIDE DEF a
      <3> QED BY <3>1, <3>2, KeyUpdates DEF KeyStatus
    <2> QED BY <2>1, <2>2
  <1> QED BY <1>2, <1>3, <1>4, <1>5, <1>6, <1>7, <1>8

LEMMA ResyncFacts ==
    ASSUME NEW k \in Keys, NEW i \in Nat
    PROVE  /\ AttemptResync(k, i) \in Keys
           /\ AttemptResync(k, i).status = "MASTER_UNTRUSTED" =>
                 k.status = "MASTER_UNTRUSTED" \/ (AttemptResync(k, i).temp = i /\ k.index <= i)
           /\ AttemptResync(k, i).index = k.index
           /\ AttemptResync(k, i).forceDesync = k.forceDesync
           /\ CommitResync(k) \in Keys
           /\ CommitResync(k).status = CASE k.status = "MASTER_UNTRUSTED" -> "CONNECTED"
                                         [] k.status = "REKEYING_UNTRUSTED" -> "REKEYING"
                                         [] OTHER -> "DISCONNECTED"
           /\ CommitResync(k).index = IF Untrusted(k) THEN k.temp ELSE k.index
           /\ CommitResync(k).temp = k.temp /\ CommitResync(k).next = k.next
           /\ CommitResync(k).forceDesync = k.forceDesync
           /\ SendChallenge(k) \in Keys
           /\ SendChallenge(k).status = k.status /\ SendChallenge(k).index = k.index
           /\ SendChallenge(k).temp = k.temp /\ SendChallenge(k).next = k.next
           /\ SendChallenge(k).forceDesync = k.forceDesync
           /\ DesyncKeys(k) \in Keys
           /\ DesyncKeys(k).status = "DISCONNECTED" /\ DesyncKeys(k).index = k.index
           /\ DesyncKeys(k).forceDesync = k.forceDesync
  <1>1. DOMAIN k = KeyFields
    BY KeyUpdates
  <1>2. /\ AttemptResync(k, i) \in Keys
        /\ AttemptResync(k, i).status = "MASTER_UNTRUSTED" =>
              k.status = "MASTER_UNTRUSTED" \/ (AttemptResync(k, i).temp = i /\ k.index <= i)
        /\ AttemptResync(k, i).index = k.index
        /\ AttemptResync(k, i).forceDesync = k.forceDesync
    <2>1. CASE k.status = "DISCONNECTED" /\ i >= k.index
      <3> DEFINE a == [k EXCEPT !.temp = i]
      <3>1. a \in Keys
        BY KeyUpdates
      <3>2. AttemptResync(k, i) = [a EXCEPT !.status = "MASTER_UNTRUSTED"]
        BY <2>1 DEF AttemptResync
      <3>3. /\ AttemptResync(k, i).temp = i /\ AttemptResync(k, i).index = k.index
            /\ AttemptResync(k, i).forceDesync = k.forceDesync
        BY <1>1, <2>1 DEF AttemptResync, KeyFields
      <3>4. k.index <= i
        BY <2>1, KeyTypes
      <3> HIDE DEF a
      <3>5. AttemptResync(k, i) \in Keys
        BY <3>1, <3>2, KeyUpdates DEF KeyStatus
      <3> QED BY <3>3, <3>4, <3>5
    <2>2. CASE ~(k.status = "DISCONNECTED" /\ i >= k.index)
      <3>1. AttemptResync(k, i) = k
        BY <2>2 DEF AttemptResync
      <3> QED BY <3>1
    <2> QED BY <2>1, <2>2
  <1>3. /\ CommitResync(k) \in Keys
        /\ CommitResync(k).status = CASE k.status = "MASTER_UNTRUSTED" -> "CONNECTED"
                                      [] k.status = "REKEYING_UNTRUSTED" -> "REKEYING"
                                      [] OTHER -> "DISCONNECTED"
        /\ CommitResync(k).index = IF Untrusted(k) THEN k.temp ELSE k.index
        /\ CommitResync(k).temp = k.temp /\ CommitResync(k).next = k.next
        /\ CommitResync(k).forceDesync = k.forceDesync
    <2>1. CASE Untrusted(k)
      <3> DEFINE a == [k EXCEPT !.index = k.temp]
                 v == IF k.status = "MASTER_UNTRUSTED" THEN "CONNECTED" ELSE "REKEYING"
      <3>1. a \in Keys /\ v \in KeyStatus
        BY KeyUpdates, KeyTypes DEF KeyStatus
      <3>2. CommitResync(k) = [a EXCEPT !.status = v]
        BY <2>1 DEF CommitResync
      <3>3. /\ CommitResync(k).status = v /\ CommitResync(k).index = k.temp
            /\ CommitResync(k).temp = k.temp /\ CommitResync(k).next = k.next
            /\ CommitResync(k).forceDesync = k.forceDesync
        BY <1>1, <2>1 DEF CommitResync, KeyFields
      <3>4. v = CASE k.status = "MASTER_UNTRUSTED" -> "CONNECTED"
                  [] k.status = "REKEYING_UNTRUSTED" -> "REKEYING"
                  [] OTHER -> "DISCONNECTED"
        BY <2>1 DEF Untrusted
      <3> HIDE DEF a, v
      <3>5. CommitResync(k) \in Keys
        BY <3>1, <3>2, KeyUpdates
      <3> QED BY <2>1, <3>3, <3>4, <3>5
    <2>2. CASE ~Untrusted(k)
      <3>1. CommitResync(k) = [k EXCEPT !.status = "DISCONNECTED"]
        BY <2>2 DEF CommitResync
      <3>2. CommitResync(k) \in Keys
        BY <3>1, KeyUpdates DEF KeyStatus
      <3>3. /\ CommitResync(k).status = "DISCONNECTED" /\ CommitResync(k).index = k.index
            /\ CommitResync(k).temp = k.temp /\ CommitResync(k).next = k.next
            /\ CommitResync(k).forceDesync = k.forceDesync
        BY <1>1, <3>1 DEF KeyFields
      <3> QED BY <2>2, <3>2, <3>3 DEF Untrusted
    <2> QED BY <2>1, <2>2
  <1>4. /\ SendChallenge(k) \in Keys
        /\ SendChallenge(k).status = k.status /\ SendChallenge(k).index = k.index
        /\ SendChallenge(k).temp = k.temp /\ SendChallenge(k).next = k.next
        /\ SendChallenge(k).forceDesync = k.forceDesync
    <2> DEFINE a == [k EXCEPT !.chal = k.chal + 1]
               b == [a EXCEPT !.resendCtr = 0]
    <2>1. SendChallenge(k) = [b EXCEPT !.timeoutCtr = 0]
      BY DEF SendChallenge
    <2>2. a \in Keys
      BY KeyUpdates, KeyTypes
    <2> HIDE DEF a
    <2>3. b \in Keys
      BY <2>2, KeyUpdates
    <2> HIDE DEF b
    <2>4. SendChallenge(k) \in Keys
      BY <2>1, <2>3, KeyUpdates
    <2>5. /\ SendChallenge(k).status = k.status /\ SendChallenge(k).index = k.index
          /\ SendChallenge(k).temp = k.temp /\ SendChallenge(k).next = k.next
          /\ SendChallenge(k).forceDesync = k.forceDesync
      BY <1>1 DEF SendChallenge, KeyFields
    <2> QED BY <2>4, <2>5
  <1>5. /\ DesyncKeys(k) \in Keys
        /\ DesyncKeys(k).status = "DISCONNECTED" /\ DesyncKeys(k).index = k.index
        /\ DesyncKeys(k).forceDesync = k.forceDesync
    <2>1. DesyncKeys(k) \in Keys
      BY KeyUpdates DEF DesyncKeys, KeyStatus
    <2> QED BY <1>1, <2>1 DEF DesyncKeys, KeyFields
  <1> QED BY <1>2, <1>3, <1>4, <1>5

\* A response is the one that is expected, or it desynchronizes the node.
LEMMA ResponseFacts ==
    ASSUME NEW k \in Keys, NEW r
    PROVE  /\ HandleResponse(k, r) \in Keys
           /\ \/ HandleResponse(k, r) = CommitResync(k)
              \/ /\ HandleResponse(k, r).status = "DISCONNECTED"
                 /\ HandleResponse(k, r).forceDesync = TRUE
                 /\ HandleResponse(k, r).index = k.index
  <1>1. CASE r = k.chal
    <2>1. HandleResponse(k, r) = CommitResync(k)
      BY <1>1 DEF HandleResponse
    <2>2. 0 \in Nat
      OBVIOUS
    <2> QED BY <2>1, <2>2, ResyncFacts
  <1>2. CASE r # k.chal
    <2> DEFINE f == [k EXCEPT !.forceDesync = TRUE]
    <2>1. DOMAIN k = KeyFields /\ f \in Keys
      BY KeyUpdates
    <2>2. f.forceDesync = TRUE /\ f.index = k.index
      BY <2>1 DEF KeyFields
    <2>3. HandleResponse(k, r) = [f EXCEPT !.status = "DISCONNECTED"]
      BY <1>2 DEF HandleResponse, RollbackResync
    <2> HIDE DEF f
    <2>4. HandleResponse(k, r) \in Keys
      BY <2>1, <2>3, KeyUpdates DEF KeyStatus
    <2>5. DOMAIN f = KeyFields
      BY <2>1, KeyUpdates
    <2>6. /\ HandleResponse(k, r).status = "DISCONNECTED"
          /\ HandleResponse(k, r).forceDesync = TRUE
          /\ HandleResponse(k, r).index = k.index
      BY <2>2, <2>3, <2>5 DEF KeyFields
    <2> QED BY <2>4, <2>6
  <1> QED BY <1>1, <1>2

\* Advancing is begun and ended with the verification of one timesync.
LEMMA AdvanceFacts ==
    ASSUME NEW k \in Keys
    PROVE  /\ Advance(k) \in Keys
           /\ Advance(k).status = IF k.status = "CONNECTED" THEN "ADVANCING" ELSE k.status
           /\ Advance(k).index = k.index /\ Advance(k).next = k.next
           /\ Advance(k).temp = CASE k.status = "CONNECTED" -> k.index + 1
                                  [] k.status = "MASTER_UNTRUSTED" -> k.temp + 1
                                  [] OTHER -> k.temp
           /\ Advance(k).forceDesync = k.forceDesync
           /\ CommitAdvance(k) \in Keys /\ RollbackAdvance(k) \in Keys
           /\ CommitAdvance(k).status = IF k.status = "ADVANCING" THEN "CONNECTED" ELSE k.status
           /\ RollbackAdvance(k).status = IF k.status = "ADVANCING" THEN "CONNECTED" ELSE k.status
           /\ CommitAdvance(k).index = IF k.status = "ADVANCING" THEN k.temp ELSE k.index
           /\ RollbackAdvance(k).index = k.index
           /\ CommitAdvance(k).temp = k.temp /\ RollbackAdvance(k).temp = k.temp
           /\ CommitAdvance(k).next = k.next /\ RollbackAdvance(k).next = k.next
           /\ CommitAdvance(k).forceDesync = k.forceDesync
           /\ RollbackAdvance(k).forceDesync = k.forceDesync
  <1>0. DOMAIN k = KeyFields
    BY KeyUpdates
  <1>1. /\ Advance(k) \in Keys
        /\ Advance(k).status = IF k.status = "CONNECTED" THEN "ADVANCING" ELSE k.status
        /\ Advance(k).index = k.index /\ Advance(k).next = k.next
        /\ Advance(k).temp = CASE k.status = "CONNECTED" -> k.index + 1
                               [] k.status = "MASTER_UNTRUSTED" -> k.temp + 1
                               [] OTHER -> k.temp
        /\ Advance(k).forceDesync = k.forceDesync
    <2>1. CASE k.status = "CONNECTED"
      <3> DEFINE a == [k EXCEPT !.temp = k.index + 1]
      <3>1. a \in Keys
        BY KeyUpdates, KeyTypes
      <3>2. Advance(k) = [a EXCEPT !.status = "ADVANCING"]
        BY <2>1 DEF Advance
      <3>3. /\ Advance(k).status = "ADVANCING" /\ Advance(k).temp = k.index + 1
            /\ Advance(k).index = k.index /\ Advance(k).next = k.next
            /\ Advance(k).forceDesync = k.forceDesync
        BY <1>0, <3>2 DEF KeyFields
      <3> HIDE DEF a
      <3>4. Advance(k) \in Keys
        BY <3>1, <3>2, KeyUpdates DEF KeyStatus
      <3> QED BY <2>1, <3>3, <3>4
    <2>2. CASE k.status = "MASTER_UNTRUSTED"
      <3>1. Advance(k) = [k EXCEPT !.temp = k.temp + 1]
        BY <2>2 DEF Advance
      <3>2. Advance(k) \in Keys
        BY <3>1, KeyUpdates, KeyTypes
      <3>3. /\ Advance(k).status = k.status /\ Advance(k).temp = k.temp + 1
            /\ Advance(k).index = k.index /\ Advance(k).next = k.next
            /\ Advance(k).forceDesync = k.forceDesync
        BY <1>0, <3>1 DEF KeyFields
      <3> QED BY <2>2, <3>2, <3>3
    <2>3. CASE k.status \notin {"CONNECTED", "MASTER_UNTRUSTED"}
      <3>1. Advance(k) = k
        BY <2>3 DEF Advance
      <3> QED BY <2>3, <3>1
    <2> QED BY <2>1, <2>2, <2>3
  <1>2. CASE k.status = "ADVANCING"
    <2> DEFINE a == [k EXCEPT !.index = k.temp]
    <2>1. a \in Keys
      BY KeyUpdates, KeyTypes
    <2>2. /\ CommitAdvance(k) = [a EXCEPT !.status = "CONNECTED"]
          /\ RollbackAdvance(k) = [k EXCEPT !.status = "CONNECTED"]
      BY <1>2 DEF CommitAdvance, RollbackAdvance
    <2>3. /\ CommitAdvance(k).status = "CONNECTED" /\ RollbackAdvance(k).status = "CONNECTED"
          /\ CommitAdvance(k).index = k.temp /\ RollbackAdvance(k).index = k.index
          /\ CommitAdvance(k).temp = k.temp /\ RollbackAdvance(k).temp = k.temp
          /\ CommitAdvance(k).next = k.next /\ RollbackAdvance(k).next = k.next
          /\ CommitAdvance(k).forceDesync = k.forceDesync
          /\ RollbackAdvance(k).forceDesync = k.forceDesync
      BY <1>0, <2>2 DEF KeyFields
    <2> HIDE DEF a
    <2>4. CommitAdvance(k) \in Keys /\ RollbackAdvance(k) \in Keys
      BY <2>1, <2>2, KeyUpdates DEF KeyStatus
    <2> QED BY <1>1, <1>2, <2>3, <2>4
  <1>3. CASE k.status # "ADVANCING"
    <2>1. CommitAdvance(k) = k /\ RollbackAdvance(k) = k
      BY <1>3 DEF CommitAdvance, RollbackAdvance
    <2> QED BY <1>1, <1>3, <2>1
  <1> QED BY <1>2, <1>3

\* The periodic update only counts, unless it desynchronizes.
LEMMA UpdateFacts ==
    ASSUME NEW k \in Keys, NEW u, u = PeriodicUpdate(k, ChallengeTimeout)
    PROVE  /\ u.keys \in Keys /\ u.desync \in BOOLEAN
           /\ k.forceDesync => u.desync
           /\ u.keys.index = k.index
           /\ ~u.desync => /\ u.keys.status = k.status /\ u.keys.temp = k.temp
                           /\ u.keys.next = k.next
           /\ u.keys.forceDesync = FALSE
  <1> DEFINE k1 == [k EXCEPT !.resendCtr = 0, !.timeoutCtr = 0, !.forceDesync = FALSE]
             k2 == [k EXCEPT !.resendCtr = 0, !.timeoutCtr = @ + 1]
             k3 == RollbackResync([k EXCEPT !.resendCtr = 0, !.timeoutCtr = 0])
             k4 == [k EXCEPT !.resendCtr = @ + 1, !.timeoutCtr = @ + 1]
  <1>0. DOMAIN k = KeyFields /\ k.forceDesync \in BOOLEAN
    BY KeyUpdates, KeyTypes
  <1> DEFINE a == [k EXCEPT !.resendCtr = 0]
             b == [a EXCEPT !.timeoutCtr = 0]
             c == [k EXCEPT !.resendCtr = k.resendCtr + 1]
  <1>1. a \in Keys /\ c \in Keys
    BY KeyUpdates, KeyTypes
  <1>2. b \in Keys
    <2> HIDE DEF a
    <2> QED BY <1>1, KeyUpdates
  <1>3. /\ k1 = [b EXCEPT !.forceDesync = FALSE]
        /\ k2 = [a EXCEPT !.timeoutCtr = k.timeoutCtr + 1]
        /\ k3 = [b EXCEPT !.status = "DISCONNECTED"]
        /\ k4 = [c EXCEPT !.timeoutCtr = k.timeoutCtr + 1]
    BY <1>0 DEF RollbackResync, KeyFields
  <1>4. /\ k1.forceDesync = FALSE /\ k1.index = k.index
        /\ k2.forceDesync = k.forceDesync /\ k2.index = k.index
        /\ k2.status = k.status /\ k2.temp = k.temp /\ k2.next = k.next
    BY <1>0 DEF KeyFields
  <1>5. /\ k3.forceDesync = k.forceDesync /\ k3.index = k.index
        /\ k4.forceDesync = k.forceDesync /\ k4.index = k.index
        /\ k4.status = k.status /\ k4.temp = k.temp /\ k4.next = k.next
    BY <1>0 DEF KeyFields, RollbackResync
  <1>6. \/ k.forceDesync /\ u = [keys |-> k1, resend |-> FALSE, desync |-> TRUE]
        \/ ~k.forceDesync /\ u = [keys |-> k, resend |-> FALSE, desync |-> FALSE]
        \/ ~k.forceDesync /\ u = [keys |-> k2, resend |-> TRUE, desync |-> FALSE]
        \/ ~k.forceDesync /\ u = [keys |-> k3, resend |-> FALSE, desync |-> TRUE]
        \/ ~k.forceDesync /\ u = [keys |-> k4, resend |-> FALSE, desync |-> FALSE]
    <2> HIDE DEF k1, k2, k3, k4
    <2> QED BY <1>0 DEF PeriodicUpdate, k1, k2, k3, k4
  <1> HIDE DEF a, b, c, k1, k2, k3, k4
  <1>7. k1 \in Keys /\ k2 \in Keys /\ k3 \in Keys /\ k4 \in Keys
    BY <1>1, <1>2, <1>3, KeyUpdates, KeyTypes DEF KeyStatus
  <1>8. CASE k.forceDesync /\ u = [keys |-> k1, resend |-> FALSE, desync |-> TRUE]
    BY <1>4, <1>7, <1>8
  <1>9. CASE ~k.forceDesync /\ u = [keys |-> k, resend |-> FALSE, desync |-> FALSE]
    BY <1>0, <1>9
  <1>10. CASE ~k.forceDesync /\ u = [keys |-> k2, resend |-> TRUE, desync |-> FALSE]
    BY <1>0, <1>4, <1>7, <1>10
  <1>11. CASE ~k.forceDesync /\ u = [keys |-> k3, resend |-> FALSE, desync |-> TRUE]
    BY <1>0, <1>5, <1>7, <1>11
  <1>12. CASE ~k.forceDesync /\ u = [keys |-> k4, resend |-> FALSE, desync |-> FALSE]
    BY <1>0, <1>5, <1>7, <1>12
  <1> QED BY <1>6, <1>8, <1>9, <1>10, <1>11, <1>12

-----------------------------------------------------------------------------
(***************************************************************************)
(* Every step keeps the types.                                             *)
(***************************************************************************)
LEMMA InitialTypes ==
    ASSUME Init
    PROVE  Based
  <1>1. network \in Networks /\ tile = 0 /\ turn = "master" /\ air = Silence
        /\ master = MasterAtStart /\ node = NodeAtStart
    BY DEF Init
  <1>2. ValidStructure(network) /\ network.size \in Nat \ {0}
    BY <1>1, NetworkFacts
  <1>3. IsDownlink(network, tile)
    <2>1. tile % network.size = 0
      <3> DEFINE n == network.size
      <3>1. tile \in Int /\ tile = n * 0 + 0 /\ 0 \in 0 .. (n - 1) /\ n \in Nat \ {0} /\ 0 \in Int
        BY <1>1, <1>2
      <3> HIDE DEF n
      <3>2. tile % n = 0
        BY <3>1, DivisionUnique
      <3> QED BY <3>2 DEF n
    <2> QED BY <1>1, <1>2, <2>1, BoundaryIsDownlink
  <1>4. NoSchedule \in Schedules /\ NoHeader \in Headers
    BY DEF NoSchedule, NoHeader, Schedules, Headers
  <1>5. MasterTyped(MasterAtStart)
    BY <1>4 DEF MasterTyped, MasterAtStart, MasterFields, MasterStatus
  <1>6. NodeTyped(NodeAtStart)
    BY <1>4 DEF NodeTyped, NodeAtStart, NodeFields, MasterStatus
  <1>7. keys \in [Roles -> Keys]
    BY DEF Init, NewKeyManager, Keys, KeyManagers, KeyStatus
  <1>8. DOMAIN dataPhase = Roles /\ \A r \in Roles : PlayTyped(dataPhase[r])
    BY DEF Init, EmptyDataPhase, PlayTyped
  <1>9. TimesyncTyped(timesync)
    BY DEF Init, TimesyncTyped
  <1>10. AirTyped(air)
    BY <1>1 DEF AirTyped, Silence
  <1>11. MasterHeader
    BY <1>1 DEF MasterHeader, MasterAtStart, NoSchedule, NoHeader
  <1> QED BY <1>1, <1>3, <1>5, <1>6, <1>7, <1>8, <1>9, <1>10, <1>11 DEF Based, Typed

\* The keys of the two roles.
LEMMA KeysUpdate ==
    ASSUME keys \in [Roles -> Keys], NEW r \in Roles, NEW k \in Keys
    PROVE  /\ [keys EXCEPT ![r] = k] \in [Roles -> Keys]
           /\ [keys EXCEPT ![r] = k][r] = k
           /\ \A q \in Roles \ {r} : [keys EXCEPT ![r] = k][q] = keys[q]
           /\ keys["master"] \in Keys /\ keys["node"] \in Keys
  BY DEF Roles

\* What a role plays.
LEMMA PlaysUpdate ==
    ASSUME DOMAIN dataPhase = Roles, \A q \in Roles : PlayTyped(dataPhase[q]),
           NEW r \in Roles, NEW d, PlayTyped(d)
    PROVE  /\ DOMAIN [dataPhase EXCEPT ![r] = d] = Roles
           /\ \A q \in Roles : PlayTyped([dataPhase EXCEPT ![r] = d][q])
  <1>1. ASSUME NEW q \in Roles PROVE PlayTyped([dataPhase EXCEPT ![r] = d][q])
    <2>1. [dataPhase EXCEPT ![r] = d][q] = IF q = r THEN d ELSE dataPhase[q]
      OBVIOUS
    <2> QED BY <2>1
  <1> QED BY <1>1

LEMMA PlayFacts ==
    ASSUME NEW e, NEW h \in Headers
    PROVE  /\ PlayTyped(PlaySchedule(e, h)) /\ PlayTyped(EmptyDataPhase)
           /\ PlaySchedule(e, h).id = h.id /\ PlaySchedule(e, h).tiles = h.scheduleTiles
           /\ PlaySchedule(e, h).base = h.activationTile
  BY DEF PlayTyped, PlaySchedule, EmptyDataPhase, Headers

\* The counters of the header.
LEMMA NextPacketFacts ==
    ASSUME NEW h \in Headers
    PROVE  /\ NextPacket(h) \in Headers
           /\ NextPacket(h).id = h.id /\ NextPacket(h).totalPacket = h.totalPacket
           /\ NextPacket(h).activationTile = h.activationTile
           /\ NextPacket(h).scheduleTiles = h.scheduleTiles
           /\ h.currentPacket + 1 >= h.totalPacket =>
                 NextPacket(h).currentPacket = 0 /\ NextPacket(h).repetition = h.repetition + 1
           /\ h.currentPacket + 1 < h.totalPacket =>
                 /\ NextPacket(h).currentPacket = h.currentPacket + 1
                 /\ NextPacket(h).repetition = h.repetition
  <1>1. CASE h.currentPacket + 1 >= h.totalPacket
    <2> DEFINE a == [h EXCEPT !.currentPacket = 0]
               b == [a EXCEPT !.repetition = h.repetition + 1]
    <2>1. NextPacket(h) = b
      BY <1>1 DEF NextPacket, Headers
    <2>2. a \in Headers /\ a.currentPacket = 0 /\ a.id = h.id /\ a.totalPacket = h.totalPacket
          /\ a.activationTile = h.activationTile /\ a.scheduleTiles = h.scheduleTiles
      BY DEF Headers
    <2>3. h.repetition + 1 \in Nat /\ ~(h.currentPacket + 1 < h.totalPacket)
      BY <1>1 DEF Headers
    <2> HIDE DEF a
    <2>4. /\ b \in Headers /\ b.currentPacket = 0 /\ b.repetition = h.repetition + 1
          /\ b.id = h.id /\ b.totalPacket = h.totalPacket
          /\ b.activationTile = h.activationTile /\ b.scheduleTiles = h.scheduleTiles
      BY <2>2, <2>3 DEF Headers
    <2> QED BY <2>1, <2>3, <2>4
  <1>2. CASE ~(h.currentPacket + 1 >= h.totalPacket)
    <2>1. NextPacket(h) = [h EXCEPT !.currentPacket = @ + 1]
      BY <1>2 DEF NextPacket
    <2> QED BY <1>2, <2>1 DEF Headers
  <1> QED BY <1>1, <1>2

\* What the master broadcasts.
LEMMA BroadcastFacts ==
    ASSUME keys["master"] \in Keys, NEW t, NEW c
    PROVE  /\ Broadcast(t, c).type = t /\ Broadcast(t, c).content = c
           /\ Broadcast(t, c).masterIndex = MasterIndex(keys["master"])
           /\ Broadcast(t, c).masterIndex \in Nat
  BY KeyTypes DEF Broadcast

\* The parts of the type that the master's steps leave alone.
LEMMA MastersTypes ==
    ASSUME Based, MastersTurn, MasterTyped(master'),
           MasterHeader',
           keys' \in [Roles -> Keys],
           DOMAIN dataPhase' = Roles, \A r \in Roles : PlayTyped(dataPhase'[r]),
           AirTyped(air')
    PROVE  Based'
  BY DEF Based, Typed, MastersTurn

LEMMA MasterStepTypes ==
    ASSUME Based, MasterStep
    PROVE  Based'
  <1>1. /\ network \in Networks /\ tile \in Nat /\ MasterTyped(master) /\ MasterHeader
        /\ keys \in [Roles -> Keys] /\ AirTyped(air)
        /\ DOMAIN dataPhase = Roles /\ \A r \in Roles : PlayTyped(dataPhase[r])
    BY DEF Based, Typed
  <1>2. keys["master"] \in Keys /\ "master" \in Roles
    BY <1>1 DEF Roles
  <1>3. AirTyped(Silence)
    BY DEF AirTyped, Silence
  <1>4. ASSUME NEW s \in SchedulesToSend, MasterBegins(s) PROVE Based'
    <2>1. /\ MastersTurn /\ air' = Silence /\ UNCHANGED shared
          /\ master' = [master EXCEPT
                !.status = "SENDING_SCHEDULE",
                !.schedule = s,
                !.header = HeaderFor(s),
                !.sendingRounds = scheduleRepetitions * NumPackets(s),
                !.currentSendingRound = 0,
                !.rekeyingSlots = RekeyingSlots(master.schedule),
                !.expansionSlots = ExpansionSlots(master.schedule),
                !.processingSlotCtr = 0]
      BY <1>4 DEF MasterBegins, MastersDownlink
    <2> DEFINE h == HeaderFor(s)
               rounds == scheduleRepetitions * NumPackets(s)
               rekeyings == RekeyingSlots(master.schedule)
               expansions == ExpansionSlots(master.schedule)
    <2>2. h \in Headers /\ h.id = s.id /\ h.scheduleTiles = s.tiles
          /\ h.activationTile % network.size = 0
      BY HeaderFacts
    <2>3. s \in Schedules /\ s.tiles # 0 /\ s.tiles % network.size = 0 /\ s.id # 0
      BY SendFacts
    <2>4. rounds \in Nat /\ rekeyings \in Nat /\ expansions \in Nat
      <3>1. master.schedule \in Schedules
        BY <1>1 DEF MasterTyped
      <3>2. NumPackets(s) \in Nat /\ scheduleRepetitions \in Nat
        BY <2>3, SlotFacts, DistributionAssumption
      <3>3. rounds \in Nat
        BY <3>2
      <3> QED BY <3>1, <3>3, SlotFacts
    <2> HIDE DEF h, rounds, rekeyings, expansions
    <2>5. MasterTyped(master') /\ master'.schedule = s /\ master'.header = h
      BY <1>1, <2>1, <2>2, <2>3, <2>4
         DEF MasterTyped, MasterFields, MasterStatus, h, rounds, rekeyings, expansions
    <2>6. network' = network
      BY <2>1 DEF MastersTurn
    <2>7. MasterHeader'
      BY <2>2, <2>3, <2>5, <2>6 DEF MasterHeader, NoSchedule
    <2>8. keys' = keys /\ dataPhase' = dataPhase
      BY <2>1 DEF shared
    <2> QED BY <1>1, <1>3, <2>1, <2>5, <2>7, <2>8, MastersTypes
  <1>5. CASE MasterSendsInfo
    <2>1. MastersTurn /\ UNCHANGED <<master, keys, dataPhase>> /\ network' = network
          /\ \/ air' = Silence
             \/ \E c : air' = Broadcast("info", c)
      BY <1>5 DEF MasterSendsInfo, MastersDownlink, MastersTurn, SendInfo, shared
    <2>2. AirTyped(air')
      <3>1. ASSUME NEW c, air' = Broadcast("info", c) PROVE AirTyped(air')
        BY <1>2, <3>1, BroadcastFacts DEF AirTyped
      <3> QED BY <1>3, <2>1, <3>1
    <2>3. MasterHeader'
      BY <1>1, <2>1 DEF MasterHeader
    <2> QED BY <1>1, <2>1, <2>2, <2>3, MastersTypes
  <1>6. CASE MasterSendsPacket
    <2>1. /\ MastersTurn /\ UNCHANGED <<keys, dataPhase>> /\ network' = network
          /\ air' = Broadcast("schedule", [header |-> master.header, schedule |-> master.schedule])
          /\ master' = [master EXCEPT !.header = NextPacket(@), !.currentSendingRound = @ + 1]
      BY <1>6 DEF MasterSendsPacket, MastersDownlink, MastersTurn, shared
    <2>2. master.header \in Headers
      BY <1>1 DEF MasterTyped
    <2> DEFINE h == NextPacket(master.header)
    <2>3. h \in Headers /\ h.id = master.header.id /\ h.scheduleTiles = master.header.scheduleTiles
          /\ h.activationTile = master.header.activationTile
      BY <2>2, NextPacketFacts
    <2>4. AirTyped(air')
      <3> DEFINE c == [header |-> master.header, schedule |-> master.schedule]
      <3>1. c.header \in Headers /\ air' = Broadcast("schedule", c)
        BY <2>1, <2>2
      <3> HIDE DEF c
      <3> QED BY <1>2, <3>1, BroadcastFacts DEF AirTyped
    <2> HIDE DEF h
    <2>5. MasterTyped(master') /\ master'.schedule = master.schedule /\ master'.header = h
          /\ master'.status = master.status
      BY <1>1, <2>1, <2>3 DEF MasterTyped, MasterFields, h
    <2>6. master.schedule # NoSchedule
      BY <1>1, <1>6 DEF MasterSendsPacket, MasterHeader
    <2>7. MasterHeader'
      BY <1>1, <2>1, <2>3, <2>5, <2>6 DEF MasterHeader
    <2> QED BY <1>1, <2>1, <2>4, <2>5, <2>7, MastersTypes
  <1>7. CASE MasterEndsSending
    <2>1. /\ MastersTurn /\ UNCHANGED dataPhase /\ network' = network /\ air' = Silence
          /\ keys' = [keys EXCEPT !["master"] = MasterStartRekeying(@)]
          /\ master' = [master EXCEPT !.status = "PROCESSING", !.currentSendingRound = @ + 1]
      BY <1>7 DEF MasterEndsSending, MastersDownlink, MastersTurn
    <2>2. keys' \in [Roles -> Keys]
      BY <1>1, <1>2, <2>1, KeysUpdate, RekeyingFacts
    <2>3. MasterTyped(master') /\ master'.schedule = master.schedule /\ master'.header = master.header
      BY <1>1, <2>1 DEF MasterTyped, MasterFields, MasterStatus
    <2>4. MasterHeader'
      <3>1. master.status # "APPLIED_SCHEDULE"
        BY <1>7 DEF MasterEndsSending
      <3> QED BY <1>1, <2>1, <2>3, <3>1 DEF MasterHeader
    <2> QED BY <1>1, <1>3, <2>1, <2>2, <2>3, <2>4, MastersTypes
  <1>8. CASE MasterProcesses
    <2>1. /\ MastersTurn /\ UNCHANGED <<keys, dataPhase>> /\ network' = network /\ air' = Silence
          /\ \E v \in MasterStatus :
                master' = [master EXCEPT !.processingSlotCtr = @ + 1, !.status = v]
      BY <1>1, <1>8 DEF MasterProcesses, MastersDownlink, MastersTurn, MasterTyped, MasterStatus
    <2>2. MasterTyped(master') /\ master'.schedule = master.schedule /\ master'.header = master.header
      BY <1>1, <2>1 DEF MasterTyped, MasterFields
    <2>3. MasterHeader'
      <3>1. master.status # "APPLIED_SCHEDULE"
        BY <1>8 DEF MasterProcesses
      <3> QED BY <1>1, <2>1, <2>2, <3>1 DEF MasterHeader
    <2> QED BY <1>1, <1>3, <2>1, <2>2, <2>3, MastersTypes
  <1>9. CASE MasterActivates
    <2>1. /\ MastersTurn /\ network' = network /\ air' = Silence
          /\ dataPhase' = [dataPhase EXCEPT !["master"] =
                               PlaySchedule(expander["master"], master.header)]
          /\ keys' = [keys EXCEPT !["master"] = MasterApplyRekeying(@)]
          /\ master' = [master EXCEPT !.status = "APPLIED_SCHEDULE"]
      BY <1>9 DEF MasterActivates, MastersDownlink, MastersTurn
    <2>2. keys' \in [Roles -> Keys]
      BY <1>1, <1>2, <2>1, KeysUpdate, RekeyingFacts
    <2>3. DOMAIN dataPhase' = Roles /\ \A r \in Roles : PlayTyped(dataPhase'[r])
      <3>1. master.header \in Headers
        BY <1>1 DEF MasterTyped
      <3> QED BY <1>1, <1>2, <2>1, <3>1, PlayFacts, PlaysUpdate
    <2>4. MasterTyped(master') /\ master'.schedule = master.schedule /\ master'.header = master.header
      BY <1>1, <2>1 DEF MasterTyped, MasterFields, MasterStatus
    <2>5. MasterHeader'
      BY <1>1, <2>1, <2>4 DEF MasterHeader
    <2> QED BY <1>1, <1>3, <2>1, <2>2, <2>3, <2>4, <2>5, MastersTypes
  <1>10. CASE MasterTimesync
    <2>1. /\ MastersTurn /\ UNCHANGED <<master, keys, dataPhase>> /\ network' = network
          /\ \E a \in {0, master.header.activationTile} :
                air' = [type |-> "timesync", masterIndex |-> MasterIndex(keys["master"]),
                        activationTile |-> a]
      BY <1>10 DEF MasterTimesync, MastersTurn, shared
    <2>2. AirTyped(air')
      <3>1. MasterIndex(keys["master"]) \in Nat /\ master.header.activationTile \in Nat
        BY <1>1, <1>2, KeyTypes DEF MasterTyped, Headers
      <3> QED BY <2>1, <3>1 DEF AirTyped
    <2>3. MasterHeader'
      BY <1>1, <2>1 DEF MasterHeader
    <2> QED BY <1>1, <2>1, <2>2, <2>3, MastersTypes
  <1> QED BY <1>4, <1>5, <1>6, <1>7, <1>8, <1>9, <1>10 DEF MasterStep

-----------------------------------------------------------------------------
(***************************************************************************)
(* What the steps of the node do.                                          *)
(***************************************************************************)
LEMMA NodeStepTurn ==
    ASSUME NodeStep
    PROVE  NodesTurn
  BY DEF NodeStep, NodeEndsSending, NodeProcesses, NodeExpandsLate, NodeActivates,
     NodeReceivesSchedule, NodeReceivesInfo, NodeReceivesNothing, NodeSkips, NodeListens,
     NodeHearsTimesync, NodeMissesTimesync, NodeResyncs, NodeStaysDesynchronized,
     NodesDownlink, NodesTimesync

\* What a step that concerns something else keeps of the node.
Keeps(n, m) ==
    /\ n.status = m.status /\ n.header = m.header
    /\ n.sendingRounds = m.sendingRounds /\ n.currentSendingRound = m.currentSendingRound
    /\ n.nextActivationTile = m.nextActivationTile

LEMMA EndsSendingEffect ==
    ASSUME Based, NodeEndsSending
    PROVE  /\ NodesTurn /\ UNCHANGED <<timesync, dataPhase, challenges, record>>
           /\ ~IsTimesync(network, tile) /\ SendingIsOver(node)
           /\ keys' = [keys EXCEPT !["node"] = StartRekeying(@)]
           /\ aborted' = IF CanStartRekeying(keys["node"]) THEN aborted ELSE "startRekeying"
           /\ NodeTyped(node') /\ node'.status = "PROCESSING" /\ node'.header = node.header
           /\ node'.nextActivationTile = node.header.activationTile
  <1> DEFINE n == [node EXCEPT !.status = "PROCESSING",
                               !.nextActivationTile = node.header.activationTile]
  <1>1. NodeTyped(node)
    BY DEF Based, Typed
  <1>2. SetNewSchedule(n) \/ SetEmptySchedule(n) \/ SetSameSchedule(n)
    BY DEF NodeEndsSending
  <1>3. NodeTyped(n) /\ n.status = "PROCESSING" /\ n.header = node.header
        /\ n.nextActivationTile = node.header.activationTile
    BY <1>1 DEF NodeTyped, NodeFields, MasterStatus, Headers
  <1> HIDE DEF n
  <1>4. NodeTyped(node') /\ node'.status = n.status /\ node'.header = n.header
        /\ node'.nextActivationTile = n.nextActivationTile
    BY <1>2, <1>3 DEF SetNewSchedule, SetEmptySchedule, SetSameSchedule, NodeTyped, NodeFields
  <1> QED BY <1>3, <1>4 DEF NodeEndsSending, NodesDownlink, Unless

LEMMA ExpandsEffect ==
    ASSUME Based, NEW after \in {"AWAITING_ACTIVATION", "PROCESSING"}, NodeExpands(after)
    PROVE  /\ NodeTyped(node') /\ node'.status \in {node.status, after}
           /\ node'.header = node.header /\ node'.sendingRounds = node.sendingRounds
           /\ node'.currentSendingRound = node.currentSendingRound
           /\ node'.nextActivationTile = node.nextActivationTile
  <1>1. NodeTyped(node)
    BY DEF Based, Typed
  <1>2. \E x, y, v : /\ node' = [node EXCEPT !.needToStartExpansion = x,
                            !.needToPerformExpansion = y, !.status = v]
                     /\ v \in {node.status, after}
    BY DEF NodeExpands
  <1> QED BY <1>1, <1>2 DEF NodeTyped, NodeFields, MasterStatus

LEMMA ProcessesEffect ==
    ASSUME Based, NodeProcesses \/ NodeExpandsLate
    PROVE  /\ NodesTurn /\ UNCHANGED <<timesync, keys, dataPhase, challenges, record, aborted>>
           /\ ~IsTimesync(network, tile) /\ node.status = "PROCESSING"
           /\ NodeTyped(node') /\ node'.status \in {"PROCESSING", "AWAITING_ACTIVATION"}
           /\ node'.header = node.header /\ node'.sendingRounds = node.sendingRounds
           /\ node'.currentSendingRound = node.currentSendingRound
           /\ node'.nextActivationTile = node.nextActivationTile
  <1>1. NodeTyped(node)
    BY DEF Based, Typed
  <1>2. /\ NodesTurn /\ UNCHANGED <<timesync, keys, dataPhase, challenges, record, aborted>>
        /\ ~IsTimesync(network, tile) /\ node.status = "PROCESSING"
    BY DEF NodeProcesses, NodeExpandsLate, NodesDownlink
  <1>3. \/ NodeExpands("AWAITING_ACTIVATION") \/ NodeExpands("PROCESSING")
        \/ node' = node \/ node' = [node EXCEPT !.status = "AWAITING_ACTIVATION"]
    BY DEF NodeProcesses, NodeExpandsLate
  <1>4. CASE NodeExpands("AWAITING_ACTIVATION") \/ NodeExpands("PROCESSING")
    BY <1>2, <1>4, ExpandsEffect
  <1>5. CASE node' = node
    BY <1>1, <1>2, <1>5
  <1>6. CASE node' = [node EXCEPT !.status = "AWAITING_ACTIVATION"]
    BY <1>1, <1>2, <1>6 DEF NodeTyped, NodeFields, MasterStatus
  <1> QED BY <1>3, <1>4, <1>5, <1>6

LEMMA ActivatesEffect ==
    ASSUME Based, NodeActivates
    PROVE  /\ NodesTurn /\ UNCHANGED <<timesync, challenges, record>>
           /\ ~IsTimesync(network, tile)
           /\ node.status \in {"PROCESSING", "AWAITING_ACTIVATION"}
           /\ tile >= node.nextActivationTile
           /\ keys' = [keys EXCEPT !["node"] = ApplyRekeying(@)]
           /\ aborted' = IF CanApplyRekeying(keys["node"]) THEN aborted ELSE "applyRekeying"
           /\ NodeTyped(node') /\ node'.status \in {"APPLIED_SCHEDULE", "INCOMPLETE_SCHEDULE"}
           /\ node'.header \in {node.header, NoHeader}
           /\ \/ dataPhase' = dataPhase
              \/ dataPhase' = [dataPhase EXCEPT !["node"] = EmptyDataPhase]
              \/ dataPhase' = [dataPhase EXCEPT !["node"] =
                                   PlaySchedule(expander["node"], node.header)]
  <1>1. NodeTyped(node)
    BY DEF Based, Typed
  <1>2. NoHeader \in Headers
    BY DEF NoHeader, Headers
  <1>3. /\ NodesTurn /\ UNCHANGED <<timesync, challenges, record>>
        /\ ~IsTimesync(network, tile)
        /\ node.status \in {"PROCESSING", "AWAITING_ACTIVATION"}
        /\ tile >= node.nextActivationTile
        /\ keys' = [keys EXCEPT !["node"] = ApplyRekeying(@)]
        /\ aborted' = IF CanApplyRekeying(keys["node"]) THEN aborted ELSE "applyRekeying"
        /\ ApplyNewSchedule \/ ApplyEmptySchedule \/ ApplySameSchedule
    BY DEF NodeActivates, NodesDownlink, Unless, ActivationReached
  <1>4. CASE ApplyNewSchedule
    <2>1. /\ NodeTyped(node') /\ node'.status = "APPLIED_SCHEDULE" /\ node'.header = node.header
          /\ dataPhase' = [dataPhase EXCEPT !["node"] =
                               PlaySchedule(expander["node"], node.header)]
      BY <1>1, <1>4 DEF ApplyNewSchedule, NodeTyped, NodeFields, MasterStatus
    <2> QED BY <1>3, <2>1
  <1>5. CASE ApplyEmptySchedule
    <2>1. /\ NodeTyped(node') /\ node'.status = "INCOMPLETE_SCHEDULE" /\ node'.header = NoHeader
          /\ dataPhase' = [dataPhase EXCEPT !["node"] = EmptyDataPhase]
      BY <1>1, <1>2, <1>5 DEF ApplyEmptySchedule, NodeTyped, NodeFields, MasterStatus
    <2> QED BY <1>3, <2>1
  <1>6. CASE ApplySameSchedule
    <2>1. /\ NodeTyped(node') /\ node'.status = "APPLIED_SCHEDULE" /\ node'.header = node.header
          /\ dataPhase' = dataPhase
      BY <1>1, <1>6 DEF ApplySameSchedule, NodeTyped, NodeFields, MasterStatus
    <2> QED BY <1>3, <2>1
  <1> QED BY <1>3, <1>4, <1>5, <1>6

LEMMA ReceivesScheduleEffect ==
    ASSUME Based, NodeReceivesSchedule
    PROVE  /\ NodesTurn /\ UNCHANGED <<timesync, keys, dataPhase, challenges, absent>>
           /\ ~IsTimesync(network, tile) /\ air.type = "schedule" /\ CanVerify(air) /\ Listens(node)
           /\ MacCanOperate
           /\ aborted' = IF node.status # "AWAITING_ACTIVATION" THEN aborted
                         ELSE "scheduleBeforeActivation"
           /\ NodeTyped(node')
           /\ node'.nextActivationTile = node.nextActivationTile
           /\ \/ node.status = "AWAITING_ACTIVATION" /\ node' = node
              \/ /\ node.status = "SENDING_SCHEDULE" /\ node'.status = "SENDING_SCHEDULE"
                 /\ node'.sendingRounds = node.sendingRounds
                 /\ node'.currentSendingRound = node.currentSendingRound + 1
                 /\ air.content.header.id = node.header.id
                 /\ node'.header = IF SameDistribution(node.header, air.content.header)
                                   THEN air.content.header ELSE node.header
              \/ /\ node.status # "AWAITING_ACTIVATION" /\ node'.status = "SENDING_SCHEDULE"
                 /\ node.status = "SENDING_SCHEDULE" => air.content.header.id # node.header.id
                 /\ node'.header = air.content.header
                 /\ node'.sendingRounds = air.content.header.totalPacket * scheduleRepetitions
                 /\ node'.currentSendingRound =
                        1 + air.content.header.repetition * scheduleRepetitions
                          + air.content.header.currentPacket
  <1> DEFINE h == air.content.header
  <1>1. NodeTyped(node)
    BY DEF Based, Typed
  <1>2. /\ NodesTurn /\ UNCHANGED <<timesync, keys, dataPhase, challenges, absent>>
        /\ ~IsTimesync(network, tile) /\ air.type = "schedule" /\ CanVerify(air) /\ Listens(node)
        /\ MacCanOperate
        /\ aborted' = IF node.status # "AWAITING_ACTIVATION" THEN aborted
                      ELSE "scheduleBeforeActivation"
    BY DEF NodeReceivesSchedule, NodeListens, NodesDownlink, Receives, Unless, shared
  <1>3. h \in Headers
    BY <1>2 DEF Based, Typed, AirTyped
  <1>4. node' = IF node.status = "AWAITING_ACTIVATION" THEN node
                ELSE IF node.status = "SENDING_SCHEDULE" /\ h.id = node.header.id
                     THEN AppendToSchedule(node, air.content)
                     ELSE InitSchedule(node, air.content)
    BY DEF NodeReceivesSchedule
  <1>5. h = air.content.header
    OBVIOUS
  <1> HIDE DEF h
  <1>6. CASE node.status = "AWAITING_ACTIVATION"
    BY <1>1, <1>2, <1>4, <1>6
  <1>7. CASE node.status = "SENDING_SCHEDULE" /\ h.id = node.header.id
    <2>1. node' = AppendToSchedule(node, air.content)
      BY <1>4, <1>7
    <2>2. CASE SameDistribution(node.header, h)
      <3>1. node' = [node EXCEPT !.header = h, !.received = @ \cup {h.currentPacket},
                        !.currentSendingRound = @ + 1]
        BY <1>5, <2>1, <2>2 DEF AppendToSchedule
      <3>2. /\ NodeTyped(node') /\ node'.status = "SENDING_SCHEDULE"
            /\ node'.sendingRounds = node.sendingRounds
            /\ node'.currentSendingRound = node.currentSendingRound + 1
            /\ node'.nextActivationTile = node.nextActivationTile
            /\ node'.header = h
        BY <1>1, <1>3, <1>7, <3>1 DEF NodeTyped, NodeFields
      <3> QED BY <1>2, <1>5, <1>7, <2>2, <3>2
    <2>3. CASE ~SameDistribution(node.header, h)
      <3>1. node' = [node EXCEPT !.currentSendingRound = @ + 1]
        BY <1>5, <2>1, <2>3 DEF AppendToSchedule
      <3>2. /\ NodeTyped(node') /\ node'.status = "SENDING_SCHEDULE"
            /\ node'.sendingRounds = node.sendingRounds
            /\ node'.currentSendingRound = node.currentSendingRound + 1
            /\ node'.nextActivationTile = node.nextActivationTile
            /\ node'.header = node.header
        BY <1>1, <1>7, <3>1 DEF NodeTyped, NodeFields
      <3> QED BY <1>2, <1>5, <1>7, <2>3, <3>2
    <2> QED BY <2>2, <2>3
  <1>8. CASE /\ node.status # "AWAITING_ACTIVATION"
             /\ ~(node.status = "SENDING_SCHEDULE" /\ h.id = node.header.id)
    <2> DEFINE rounds == h.totalPacket * scheduleRepetitions
               round == 1 + h.repetition * scheduleRepetitions + h.currentPacket
    <2>1. \E i, s, c : node' = [node EXCEPT !.status = "SENDING_SCHEDULE", !.header = h,
                !.currentScheduleID = i, !.schedule = s, !.received = c,
                !.sendingRounds = rounds, !.currentSendingRound = round]
      BY <1>4, <1>5, <1>8 DEF InitSchedule
    <2>2. rounds \in Nat /\ round \in Nat
      <3>1. h.totalPacket \in Nat /\ h.repetition \in Nat /\ h.currentPacket \in Nat
            /\ scheduleRepetitions \in Nat
        BY <1>3, DistributionAssumption DEF Headers
      <3> HIDE DEF h
      <3>2. h.totalPacket * scheduleRepetitions \in Nat /\ h.repetition * scheduleRepetitions \in Nat
        BY <3>1
      <3> QED BY <3>1, <3>2
    <2>3. rounds = h.totalPacket * scheduleRepetitions
          /\ round = 1 + h.repetition * scheduleRepetitions + h.currentPacket
      OBVIOUS
    <2> HIDE DEF rounds, round
    <2>4. /\ NodeTyped(node') /\ node'.status = "SENDING_SCHEDULE" /\ node'.header = h
          /\ node'.sendingRounds = rounds /\ node'.currentSendingRound = round
          /\ node'.nextActivationTile = node.nextActivationTile
      BY <1>1, <1>3, <2>1, <2>2 DEF NodeTyped, NodeFields, MasterStatus
    <2> QED BY <1>2, <1>5, <1>8, <2>3, <2>4
  <1> QED BY <1>6, <1>7, <1>8

LEMMA ReceivesInfoEffect ==
    ASSUME Based, NodeReceivesInfo
    PROVE  /\ NodesTurn /\ UNCHANGED <<timesync, dataPhase, challenges, record>>
           /\ ~IsTimesync(network, tile) /\ MacCanOperate /\ Listens(node) /\ air.type = "info"
           /\ NodeTyped(node') /\ Keeps(node', node)
           /\ \/ keys' = keys /\ aborted' = aborted
              \/ /\ air.content # {} /\ node.status # "SENDING_SCHEDULE"
                 /\ \E r \in air.content :
                        keys' = [keys EXCEPT !["node"] = HandleResponse(@, r)]
                 /\ aborted' = IF CanVerifyResponse(keys["node"]) THEN aborted
                               ELSE "verifyResponse"
  <1>1. NodeTyped(node)
    BY DEF Based, Typed
  <1>2. /\ NodesTurn /\ UNCHANGED <<timesync, dataPhase, challenges, record>>
        /\ ~IsTimesync(network, tile) /\ MacCanOperate /\ Listens(node) /\ air.type = "info"
    BY DEF NodeReceivesInfo, NodesDownlink, Receives
  <1>3. NodeTyped(node') /\ Keeps(node', node)
    <2>1. node' = node \/ \E c : node' = [node EXCEPT !.incompleteScheduleCounter = c]
      BY DEF NodeReceivesInfo, HandleIncompleteSchedule
    <2> QED BY <1>1, <2>1 DEF Keeps, NodeTyped, NodeFields
  <1>4. \/ keys' = keys /\ aborted' = aborted
        \/ /\ air.content # {} /\ node.status # "SENDING_SCHEDULE"
           /\ \E r \in air.content :
                  keys' = [keys EXCEPT !["node"] = HandleResponse(@, r)]
           /\ aborted' = IF CanVerifyResponse(keys["node"]) THEN aborted ELSE "verifyResponse"
    BY DEF NodeReceivesInfo, Unless
  <1> QED BY <1>2, <1>3, <1>4

LEMMA QuietEffect ==
    ASSUME Based, NodeReceivesNothing \/ NodeSkips
    PROVE  /\ NodesTurn
           /\ UNCHANGED <<timesync, keys, dataPhase, challenges, aborted, heard>>
           /\ ~IsTimesync(network, tile) /\ Listens(node)
           /\ NodeTyped(node')
           /\ node'.status = node.status /\ node'.header = node.header
           /\ node'.sendingRounds = node.sendingRounds
           /\ node'.nextActivationTile = node.nextActivationTile
           /\ absent' <=> (absent \/ (~MacCanOperate /\ node.status = "SENDING_SCHEDULE"))
           /\ MacCanOperate /\ node.status = "SENDING_SCHEDULE" =>
                  node'.currentSendingRound = node.currentSendingRound + 1
  <1>1. NodeTyped(node)
    BY DEF Based, Typed
  <1>2. CASE NodeReceivesNothing
    <2>1. /\ NodesTurn
          /\ UNCHANGED <<timesync, keys, dataPhase, challenges, aborted, heard, absent>>
          /\ ~IsTimesync(network, tile) /\ Listens(node) /\ MacCanOperate
          /\ node' = AfterMiss(node)
      BY <1>2 DEF NodeReceivesNothing, NodeListens, NodesDownlink, shared, record
    <2>2. \/ /\ node.status # "SENDING_SCHEDULE"
             /\ \E c : node' = [node EXCEPT !.incompleteScheduleCounter = c]
          \/ node.status # "SENDING_SCHEDULE" /\ node' = node
          \/ node.status = "SENDING_SCHEDULE"
                /\ node' = [node EXCEPT !.currentSendingRound = @ + 1]
      BY <2>1 DEF AfterMiss, HandleIncompleteSchedule
    <2>3. /\ NodeTyped(node') /\ node'.status = node.status /\ node'.header = node.header
          /\ node'.sendingRounds = node.sendingRounds
          /\ node'.nextActivationTile = node.nextActivationTile
          /\ node.status = "SENDING_SCHEDULE" =>
                  node'.currentSendingRound = node.currentSendingRound + 1
      BY <1>1, <2>2 DEF NodeTyped, NodeFields
    <2>4. absent' <=> (absent \/ (~MacCanOperate /\ node.status = "SENDING_SCHEDULE"))
      BY <2>1
    <2>5. UNCHANGED <<timesync, keys, dataPhase, challenges, aborted, heard>>
      BY <2>1
    <2> HIDE DEF MacCanOperate
    <2> QED BY <2>1, <2>3, <2>4, <2>5, Zenon
  <1>3. CASE NodeSkips
    BY <1>1, <1>3 DEF NodeSkips, NodesDownlink, shared
  <1> QED BY <1>2, <1>3

\* A node that desynchronizes, with the key manager k.
Desynchronizes(k) ==
    /\ timesync'.status = "DESYNCHRONIZED"
    /\ keys' = [keys EXCEPT !["node"] = DesyncKeys(k)]
    /\ node'.status = "APPLIED_SCHEDULE" /\ node'.header = NoHeader
    /\ absent' = FALSE

LEMMA DesyncEffect ==
    ASSUME Based, NEW k, DesyncMAC(k)
    PROVE  /\ Desynchronizes(k) /\ UNCHANGED dataPhase
           /\ NodeTyped(node') /\ TimesyncTyped(timesync')
  <1>1. NodeTyped(node) /\ TimesyncTyped(timesync)
    BY DEF Based, Typed
  <1>2. NoHeader \in Headers
    BY DEF NoHeader, Headers
  <1>3. NodeTyped(node') /\ node'.status = "APPLIED_SCHEDULE" /\ node'.header = NoHeader
    BY <1>1, <1>2 DEF DesyncMAC, DesyncDistribution, NodeTyped, NodeFields, MasterStatus
  <1>4. TimesyncTyped(timesync') /\ timesync'.status = "DESYNCHRONIZED"
    BY <1>1 DEF DesyncMAC, TimesyncTyped
  <1> QED BY <1>3, <1>4 DEF DesyncMAC, Desynchronizes

LEMMA MissedEffect ==
    ASSUME Based, NEW k, MissedPacket(k)
    PROVE  /\ UNCHANGED dataPhase
           /\ NodeTyped(node') /\ TimesyncTyped(timesync')
           /\ \/ Desynchronizes(k)
              \/ /\ timesync'.status = timesync.status /\ UNCHANGED <<node, record>>
                 /\ keys' = [keys EXCEPT !["node"] = k]
  <1>1. NodeTyped(node) /\ TimesyncTyped(timesync)
    BY DEF Based, Typed
  <1>2. CASE DesyncMAC(k)
    BY <1>2, DesyncEffect
  <1>3. CASE ~DesyncMAC(k)
    <2>1. /\ timesync' = [timesync EXCEPT !.missed = @ + 1]
          /\ keys' = [keys EXCEPT !["node"] = k]
          /\ UNCHANGED <<node, dataPhase, record>>
      BY <1>3 DEF MissedPacket
    <2>2. TimesyncTyped(timesync') /\ timesync'.status = timesync.status
      BY <1>1, <2>1 DEF TimesyncTyped
    <2> QED BY <1>1, <2>1, <2>2
  <1> QED BY <1>2, <1>3

\* The key manager of a node that hears a timesync, before it takes it for
\* good or bad.
HearingKeys ==
    IF air.masterIndex = MasterIndex(keys["node"]) + 1 THEN Advance(keys["node"])
    ELSE keys["node"]

LEMMA HearsEffect ==
    ASSUME Based, NodeHearsTimesync, air.type = "timesync"
    PROVE  LET synced == CommitAdvance(HearingKeys)
           IN  /\ NodesTurn /\ IsTimesync(network, tile)
               /\ timesync.status # "DESYNCHRONIZED"
               /\ NodeTyped(node') /\ TimesyncTyped(timesync') /\ UNCHANGED dataPhase
               /\ UNCHANGED challenges
               /\ \/ /\ timesync'.status = "IN_SYNC" /\ UNCHANGED record
                     /\ air.masterIndex \in {MasterIndex(keys["node"]),
                                             MasterIndex(keys["node"]) + 1}
                     /\ MasterIndex(HearingKeys) = air.masterIndex
                     /\ \/ /\ MustForce(synced)
                           /\ keys' = [keys EXCEPT !["node"] = StartRekeying(synced)]
                           /\ node'.status = "PROCESSING"
                           /\ node'.nextActivationTile = air.activationTile
                           /\ node'.header = node.header
                           /\ aborted' = IF CanStartRekeying(synced) THEN aborted
                                         ELSE "startRekeying"
                        \/ /\ ~MustForce(synced)
                           /\ keys' = [keys EXCEPT !["node"] = synced]
                           /\ UNCHANGED <<node, aborted>>
                  \/ MissedPacket(RollbackAdvance(HearingKeys)) /\ UNCHANGED aborted
  <1> DEFINE synced == CommitAdvance(HearingKeys)
             valid == /\ air.masterIndex \in {MasterIndex(keys["node"]), MasterIndex(keys["node"]) + 1}
                      /\ MasterIndex(HearingKeys) = air.masterIndex
  <1>1. NodeTyped(node) /\ TimesyncTyped(timesync) /\ air.activationTile \in Nat
    BY DEF Based, Typed, AirTyped
  <1>2. NodesTurn /\ IsTimesync(network, tile) /\ timesync.status # "DESYNCHRONIZED"
        /\ UNCHANGED challenges
    BY DEF NodeHearsTimesync, NodesTimesync
  <1>3. CASE valid
    <2>1. /\ timesync' \in {[status |-> "IN_SYNC", missed |-> 0, error |-> e] :
                               e \in {FALSE, network.clockErrors}}
          /\ keys' = [keys EXCEPT !["node"] = HandleActivationTile(synced)]
          /\ node' = IF MustForce(synced) THEN ForceScheduleActivation(node) ELSE node
          /\ aborted' = IF MustForce(synced) => CanStartRekeying(synced) THEN aborted
                        ELSE "startRekeying"
          /\ UNCHANGED <<dataPhase, record>>
      BY <1>3 DEF NodeHearsTimesync, HearingKeys, Unless
    <2> HIDE DEF synced
    <2>2. TimesyncTyped(timesync') /\ timesync'.status = "IN_SYNC"
      BY <2>1 DEF TimesyncTyped
    <2>3. CASE MustForce(synced)
      <3>1. node' = ForceScheduleActivation(node)
        BY <2>1, <2>3
      <3>2. /\ NodeTyped(node') /\ node'.status = "PROCESSING"
            /\ node'.nextActivationTile = air.activationTile /\ node'.header = node.header
        BY <1>1, <3>1 DEF ForceScheduleActivation, NodeTyped, NodeFields, MasterStatus
      <3>3. keys' = [keys EXCEPT !["node"] = StartRekeying(synced)]
        BY <2>1, <2>3 DEF HandleActivationTile
      <3> QED BY <1>2, <1>3, <2>1, <2>2, <2>3, <3>2, <3>3 DEF synced
    <2>4. CASE ~MustForce(synced)
      <3>1. keys' = [keys EXCEPT !["node"] = synced] /\ node' = node /\ aborted' = aborted
        BY <2>1, <2>4 DEF HandleActivationTile
      <3> QED BY <1>1, <1>2, <1>3, <2>1, <2>2, <2>4, <3>1 DEF synced
    <2> QED BY <2>3, <2>4
  <1>4. CASE ~valid
    <2>1. MissedPacket(RollbackAdvance(HearingKeys)) /\ UNCHANGED aborted
      BY <1>4 DEF NodeHearsTimesync, HearingKeys
    <2>2. NodeTyped(node') /\ TimesyncTyped(timesync') /\ UNCHANGED dataPhase
      BY <2>1, MissedEffect
    <2> QED BY <1>2, <2>1, <2>2
  <1> QED BY <1>3, <1>4

LEMMA ResyncsEffect ==
    ASSUME Based, NodeResyncs, air.type = "timesync"
    PROVE  LET k == AttemptResync(keys["node"], air.masterIndex)
               forced == IF MustForce(k) THEN StartRekeying(k) ELSE k
           IN  /\ NodesTurn /\ IsTimesync(network, tile)
               /\ timesync.status = "DESYNCHRONIZED" /\ timesync'.status = "SYNCING"
               /\ k.status = "MASTER_UNTRUSTED"
               /\ NodeTyped(node') /\ TimesyncTyped(timesync')
               /\ dataPhase' = [dataPhase EXCEPT !["node"] = EmptyDataPhase]
               /\ UNCHANGED <<record, aborted>>
               /\ keys' = [keys EXCEPT !["node"] =
                       IF network.doMasterChallenge THEN SendChallenge(forced)
                       ELSE CommitResync(forced)]
               /\ network.doMasterChallenge \/ UNCHANGED challenges
               /\ \/ /\ MustForce(k) /\ node'.status = "PROCESSING"
                     /\ node'.nextActivationTile = air.activationTile
                     /\ node'.header = node.header
                  \/ ~MustForce(k) /\ node' = node
  <1> DEFINE k == AttemptResync(keys["node"], air.masterIndex)
             forced == IF MustForce(k) THEN StartRekeying(k) ELSE k
  <1>1. NodeTyped(node) /\ air.activationTile \in Nat
    BY DEF Based, Typed, AirTyped
  <1>2. /\ NodesTurn /\ IsTimesync(network, tile)
        /\ timesync.status = "DESYNCHRONIZED"
        /\ k.status = "MASTER_UNTRUSTED"
        /\ timesync' = [status |-> "SYNCING", missed |-> 0, error |-> FALSE]
        /\ dataPhase' = [dataPhase EXCEPT !["node"] = EmptyDataPhase]
        /\ UNCHANGED <<record, aborted>>
        /\ node' = IF MustForce(k) THEN ForceScheduleActivation(node) ELSE node
    BY DEF NodeResyncs, NodesTimesync
  <1>3. keys' = [keys EXCEPT !["node"] =
                   IF network.doMasterChallenge THEN SendChallenge(forced)
                   ELSE CommitResync(forced)]
        /\ (network.doMasterChallenge \/ UNCHANGED challenges)
    <2>1. forced = HandleActivationTile(k)
      BY DEF HandleActivationTile
    <2> HIDE DEF forced, k
    <2> QED BY <2>1 DEF NodeResyncs, k
  <1>4. TimesyncTyped(timesync') /\ timesync'.status = "SYNCING"
    BY <1>2 DEF TimesyncTyped
  <1> HIDE DEF k, forced
  <1>5. CASE MustForce(k)
    <2>1. node' = ForceScheduleActivation(node)
      BY <1>2, <1>5
    <2>2. /\ NodeTyped(node') /\ node'.status = "PROCESSING"
          /\ node'.nextActivationTile = air.activationTile /\ node'.header = node.header
      BY <1>1, <2>1 DEF ForceScheduleActivation, NodeTyped, NodeFields, MasterStatus
    <2> QED BY <1>2, <1>3, <1>4, <1>5, <2>2 DEF k, forced
  <1>6. CASE ~MustForce(k)
    <2>1. node' = node
      BY <1>2, <1>6
    <2> QED BY <1>1, <1>2, <1>3, <1>4, <1>6, <2>1 DEF k, forced
  <1> QED BY <1>5, <1>6

LEMMA UpdatesEffect ==
    ASSUME Based, NodeUpdatesKeys
    PROVE  LET u == PeriodicUpdate(keys["node"], ChallengeTimeout)
           IN  /\ NextTile /\ aborted = "no" /\ UNCHANGED aborted
               /\ network.doMasterChallenge /\ ~IsTimesync(network, tile) /\ turn = "update"
               /\ NodeTyped(node') /\ TimesyncTyped(timesync')
               /\ \/ u.desync /\ Desynchronizes(u.keys)
                  \/ /\ ~u.desync /\ keys' = [keys EXCEPT !["node"] = u.keys]
                     /\ UNCHANGED <<timesync, node, record>>
  <1> DEFINE u == PeriodicUpdate(keys["node"], ChallengeTimeout)
  <1>1. NodeTyped(node) /\ TimesyncTyped(timesync)
    BY DEF Based, Typed
  <1>2. /\ NextTile /\ aborted = "no" /\ UNCHANGED aborted
        /\ network.doMasterChallenge /\ ~IsTimesync(network, tile) /\ turn = "update"
        /\ IF u.desync THEN DesyncMAC(u.keys)
           ELSE /\ keys' = [keys EXCEPT !["node"] = u.keys]
                /\ UNCHANGED <<timesync, node, record>>
    BY DEF NodeUpdatesKeys
  <1> HIDE DEF u
  <1>3. CASE u.desync
    <2>1. DesyncMAC(u.keys)
      BY <1>2, <1>3
    <2>2. Desynchronizes(u.keys) /\ NodeTyped(node') /\ TimesyncTyped(timesync')
      BY <2>1, DesyncEffect
    <2> QED BY <1>2, <1>3, <2>2 DEF u
  <1>4. CASE ~u.desync
    <2>1. keys' = [keys EXCEPT !["node"] = u.keys] /\ UNCHANGED <<timesync, node, record>>
      BY <1>2, <1>4
    <2> QED BY <1>1, <1>2, <1>4, <2>1 DEF u
  <1> QED BY <1>3, <1>4

-----------------------------------------------------------------------------
(***************************************************************************)
(* The types are an invariant.                                             *)
(***************************************************************************)
LEMMA NodesTypes ==
    ASSUME Based, NodesTurn, NodeTyped(node'), TimesyncTyped(timesync'),
           NEW k \in Keys, keys' = [keys EXCEPT !["node"] = k],
           dataPhase' = dataPhase
             \/ \E d : PlayTyped(d) /\ dataPhase' = [dataPhase EXCEPT !["node"] = d]
    PROVE  Based'
  <1>1. "node" \in Roles
    BY DEF Roles
  <1>2. keys' \in [Roles -> Keys]
    BY <1>1, KeysUpdate DEF Based, Typed
  <1>3. DOMAIN dataPhase' = Roles /\ \A r \in Roles : PlayTyped(dataPhase'[r])
    BY <1>1, PlaysUpdate DEF Based, Typed
  <1> QED BY <1>2, <1>3 DEF Based, Typed, NodesTurn, MasterHeader

LEMMA KeysUnchanged ==
    ASSUME Based
    PROVE  /\ keys["node"] \in Keys /\ keys["master"] \in Keys
           /\ keys = [keys EXCEPT !["node"] = keys["node"]]
  BY DEF Based, Typed, Roles

LEMMA MustForceIsKnown ==
    ASSUME NEW k
    PROVE  MustForce(k) \in BOOLEAN
  BY DEF MustForce

\* At the end of a tile the key manager of the node may have changed.
LEMMA TileTypes ==
    ASSUME Based, NextTile, NodeTyped(node'), TimesyncTyped(timesync'),
           NEW k \in Keys, keys' = [keys EXCEPT !["node"] = k]
    PROVE  Based'
  <1>1. "node" \in Roles
    BY DEF Roles
  <1>2. keys' \in [Roles -> Keys]
    BY <1>1, KeysUpdate DEF Based, Typed
  <1>3. tile' \in Nat /\ IsDownlink(network, tile') /\ network' = network
    <2>1. ValidStructure(network) /\ tile \in Nat /\ tile' = NextDownlink(network, tile)
          /\ network' = network
      BY NetworkFacts DEF Based, Typed, NextTile
    <2> QED BY <2>1, NextDownlinkFacts
  <1>4. AirTyped(air') /\ turn' = "master"
    BY DEF NextTile, AirTyped, Silence
  <1>5. master' = master /\ dataPhase' = dataPhase
    BY DEF NextTile
  <1> QED BY <1>2, <1>3, <1>4, <1>5 DEF Based, Typed, MasterHeader

\* A timesync is on the air in its tile when it is the node's turn.
TimesyncOnAir == turn = "node" /\ IsTimesync(network, tile) => air.type = "timesync"

LEMMA NodeStepTypes ==
    ASSUME Based, TimesyncOnAir, NodeStep
    PROVE  Based'
  <1>1. /\ NodeTyped(node) /\ TimesyncTyped(timesync) /\ AirTyped(air)
        /\ keys["node"] \in Keys /\ keys = [keys EXCEPT !["node"] = keys["node"]]
    BY KeysUnchanged DEF Based, Typed
  <1>2. PlayTyped(EmptyDataPhase)
    BY DEF PlayTyped, EmptyDataPhase
  <1>3. CASE NodeEndsSending
    <2>1. StartRekeying(keys["node"]) \in Keys
      BY <1>1, RekeyingFacts
    <2> QED BY <1>1, <1>3, <2>1, EndsSendingEffect, NodesTypes
  <1>4. CASE NodeProcesses \/ NodeExpandsLate
    BY <1>1, <1>4, ProcessesEffect, NodesTypes
  <1>5. CASE NodeActivates
    <2>1. ApplyRekeying(keys["node"]) \in Keys
      BY <1>1, RekeyingFacts
    <2>2. PlayTyped(PlaySchedule(expander["node"], node.header))
      BY <1>1, PlayFacts DEF NodeTyped
    <2>3. /\ NodesTurn /\ NodeTyped(node') /\ timesync' = timesync
          /\ keys' = [keys EXCEPT !["node"] = ApplyRekeying(keys["node"])]
      BY <1>5, ActivatesEffect
    <2>4. dataPhase' = dataPhase
             \/ \E d : PlayTyped(d) /\ dataPhase' = [dataPhase EXCEPT !["node"] = d]
      BY <1>2, <1>5, <2>2, ActivatesEffect
    <2> QED BY <1>1, <2>1, <2>3, <2>4, NodesTypes
  <1>6. CASE NodeReceivesSchedule
    BY <1>1, <1>6, ReceivesScheduleEffect, NodesTypes
  <1>7. CASE NodeReceivesInfo
    <2>1. NodesTurn /\ UNCHANGED <<timesync, dataPhase>> /\ NodeTyped(node')
      BY <1>7, ReceivesInfoEffect
    <2>2. PICK k \in Keys : keys' = [keys EXCEPT !["node"] = k]
      BY <1>1, <1>7, ReceivesInfoEffect, ResponseFacts
    <2> QED BY <1>1, <2>1, <2>2, NodesTypes
  <1>8. CASE NodeReceivesNothing \/ NodeSkips
    <2>1. NodesTurn /\ UNCHANGED <<timesync, keys, dataPhase>> /\ NodeTyped(node')
      BY <1>8, QuietEffect
    <2> QED BY <1>1, <2>1, NodesTypes
  <1>9. CASE NodeHearsTimesync
    <2> DEFINE h == HearingKeys
               synced == CommitAdvance(h)
    <2>1. air.type = "timesync"
      BY <1>9 DEF NodeHearsTimesync, NodesTimesync, NodesTurn, TimesyncOnAir
    <2>2. h \in Keys
      BY <1>1, AdvanceFacts DEF HearingKeys
    <2> HIDE DEF h
    <2>3. synced \in Keys /\ RollbackAdvance(h) \in Keys
      BY <2>2, AdvanceFacts
    <2>4. StartRekeying(synced) \in Keys /\ DesyncKeys(RollbackAdvance(h)) \in Keys
      <3> HIDE DEF synced
      <3> QED BY <2>3, RekeyingFacts, ResyncFacts
    <2>5. NodesTurn /\ NodeTyped(node') /\ TimesyncTyped(timesync') /\ dataPhase' = dataPhase
      BY <1>9, <2>1, HearsEffect
    <2>6. \/ MissedPacket(RollbackAdvance(h))
          \/ keys' = [keys EXCEPT !["node"] = StartRekeying(synced)]
          \/ keys' = [keys EXCEPT !["node"] = synced]
      BY <1>9, <2>1, HearsEffect DEF h
    <2>7. PICK k \in Keys : keys' = [keys EXCEPT !["node"] = k]
      <3>1. ASSUME MissedPacket(RollbackAdvance(h))
            PROVE  \E k \in Keys : keys' = [keys EXCEPT !["node"] = k]
        BY <2>3, <2>4, <3>1, MissedEffect DEF Desynchronizes
      <3> HIDE DEF synced
      <3> QED BY <2>3, <2>4, <2>6, <3>1
    <2> QED BY <2>5, <2>7, NodesTypes
  <1>10. CASE NodeMissesTimesync
    <2>1. NodesTurn /\ MissedPacket(keys["node"])
      BY <1>10 DEF NodeMissesTimesync, NodesTimesync
    <2>2. NodeTyped(node') /\ TimesyncTyped(timesync') /\ dataPhase' = dataPhase
      BY <2>1, MissedEffect
    <2>3. DesyncKeys(keys["node"]) \in Keys
      <3>1. 0 \in Nat
        OBVIOUS
      <3> QED BY <1>1, <3>1, ResyncFacts
    <2>4. PICK k \in Keys : keys' = [keys EXCEPT !["node"] = k]
      BY <1>1, <2>1, <2>3, MissedEffect DEF Desynchronizes
    <2> QED BY <2>1, <2>2, <2>4, NodesTypes
  <1>11. CASE NodeResyncs
    <2> DEFINE k == AttemptResync(keys["node"], air.masterIndex)
               forced == IF MustForce(k) THEN StartRekeying(k) ELSE k
               committed == IF network.doMasterChallenge THEN SendChallenge(forced)
                            ELSE CommitResync(forced)
    <2>1. air.type = "timesync"
      BY <1>11 DEF NodeResyncs, NodesTimesync, NodesTurn, TimesyncOnAir
    <2>2. air.masterIndex \in Nat
      BY <1>1, <2>1 DEF AirTyped, Silence
    <2>3. k \in Keys
      BY <1>1, <2>2, ResyncFacts
    <2> HIDE DEF k
    <2>4. forced \in Keys
      BY <2>3, RekeyingFacts
    <2> HIDE DEF forced
    <2>5. committed \in Keys
      BY <2>2, <2>4, ResyncFacts
    <2>6. /\ NodesTurn /\ NodeTyped(node') /\ TimesyncTyped(timesync')
          /\ dataPhase' = [dataPhase EXCEPT !["node"] = EmptyDataPhase]
          /\ keys' = [keys EXCEPT !["node"] = committed]
      BY <1>11, <2>1, ResyncsEffect DEF k, forced
    <2> HIDE DEF committed
    <2> QED BY <1>2, <2>5, <2>6, NodesTypes
  <1>12. CASE NodeStaysDesynchronized
    <2>1. NodesTurn /\ UNCHANGED <<timesync, keys, node, dataPhase>>
      BY <1>12 DEF NodeStaysDesynchronized, NodesTimesync
    <2> QED BY <1>1, <2>1, NodesTypes
  <1> QED BY <1>3, <1>4, <1>5, <1>6, <1>7, <1>8, <1>9, <1>10, <1>11, <1>12 DEF NodeStep

LEMMA OtherStepTypes ==
    ASSUME Based, NodeUpdatesKeys \/ TileEnds \/ ChallengeArrives
    PROVE  Based'
  <1>1. NodeTyped(node) /\ TimesyncTyped(timesync) /\ keys["node"] \in Keys
        /\ keys = [keys EXCEPT !["node"] = keys["node"]]
    BY KeysUnchanged DEF Based, Typed
  <1>2. CASE NodeUpdatesKeys
    <2> DEFINE u == PeriodicUpdate(keys["node"], ChallengeTimeout)
    <2>1. u.keys \in Keys
      BY <1>1, UpdateFacts
    <2>2. /\ NextTile /\ NodeTyped(node') /\ TimesyncTyped(timesync')
          /\ \/ Desynchronizes(u.keys)
             \/ keys' = [keys EXCEPT !["node"] = u.keys]
      BY <1>2, UpdatesEffect
    <2> HIDE DEF u
    <2>3. DesyncKeys(u.keys) \in Keys
      <3>1. 0 \in Nat
        OBVIOUS
      <3> QED BY <2>1, <3>1, ResyncFacts
    <2>4. PICK k \in Keys : keys' = [keys EXCEPT !["node"] = k]
      BY <2>1, <2>2, <2>3 DEF Desynchronizes
    <2> QED BY <2>2, <2>4, TileTypes
  <1>3. CASE TileEnds
    <2>1. NextTile /\ UNCHANGED <<node, keys, timesync>>
      BY <1>3 DEF TileEnds
    <2> QED BY <1>1, <2>1, TileTypes
  <1>4. CASE ChallengeArrives
    BY <1>4 DEF ChallengeArrives, Based, Typed, MasterHeader, shared
  <1> QED BY <1>2, <1>3, <1>4

LEMMA BasedNext ==
    ASSUME Based, TimesyncOnAir, [Next]_vars
    PROVE  Based'
  <1>1. CASE vars' = vars
    BY <1>1 DEF vars, shared, record, Based, Typed, MasterHeader
  <1>2. CASE Next
    BY <1>2, MasterStepTypes, NodeStepTypes, OtherStepTypes DEF Next
  <1> QED BY <1>1, <1>2

-----------------------------------------------------------------------------
(***************************************************************************)
(* What the steps of the master do.                                        *)
(***************************************************************************)
LEMMA BeginsEffect ==
    ASSUME Based, NEW s \in SchedulesToSend, MasterBegins(s)
    PROVE  /\ MastersTurn /\ ~IsTimesync(network, tile) /\ air' = Silence
           /\ UNCHANGED <<expander, rekeying, keys, dataPhase, challenges, absent>>
           /\ master.status = "APPLIED_SCHEDULE" /\ ActivationFor(s).done
           /\ master'.status = "SENDING_SCHEDULE"
           /\ master'.schedule = s /\ master'.header = HeaderFor(s)
           /\ master'.sendingRounds = scheduleRepetitions * NumPackets(s)
           /\ master'.currentSendingRound = 0 /\ master'.processingSlotCtr = 0
           /\ master'.rekeyingSlots = RekeyingSlots(master.schedule)
           /\ master'.expansionSlots = ExpansionSlots(master.schedule)
  <1>1. DOMAIN master = MasterFields
    BY DEF Based, Typed, MasterTyped
  <1> DEFINE h == HeaderFor(s)
             rounds == scheduleRepetitions * NumPackets(s)
             rekeyings == RekeyingSlots(master.schedule)
             expansions == ExpansionSlots(master.schedule)
  <1>2. /\ MastersTurn /\ ~IsTimesync(network, tile) /\ air' = Silence
        /\ UNCHANGED <<expander, rekeying, keys, dataPhase, challenges, absent>>
        /\ master.status = "APPLIED_SCHEDULE" /\ ActivationFor(s).done
        /\ master' = [master EXCEPT !.status = "SENDING_SCHEDULE", !.schedule = s,
                !.header = h, !.sendingRounds = rounds, !.currentSendingRound = 0,
                !.rekeyingSlots = rekeyings, !.expansionSlots = expansions,
                !.processingSlotCtr = 0]
    BY DEF MasterBegins, MastersDownlink, shared
  <1> HIDE DEF h, rounds, rekeyings, expansions
  <1>3. /\ master'.status = "SENDING_SCHEDULE" /\ master'.schedule = s /\ master'.header = h
        /\ master'.sendingRounds = rounds /\ master'.currentSendingRound = 0
        /\ master'.processingSlotCtr = 0
        /\ master'.rekeyingSlots = rekeyings /\ master'.expansionSlots = expansions
    BY <1>1, <1>2 DEF MasterFields
  <1> QED BY <1>2, <1>3 DEF h, rounds, rekeyings, expansions

LEMMA SendsInfoEffect ==
    ASSUME Based, MasterSendsInfo
    PROVE  /\ MastersTurn /\ ~IsTimesync(network, tile)
           /\ UNCHANGED <<master, expander, rekeying, keys, dataPhase, record>>
           /\ \/ master.status = "APPLIED_SCHEDULE"
              \/ master.status = "AWAITING_ACTIVATION" /\ tile < master.header.activationTile
           /\ challenges' \subseteq challenges
           /\ \/ air' = Silence
              \/ \E c : air' = Broadcast("info", c) /\ (c # {} => challenges # {})
  <1>1. /\ MastersTurn /\ ~IsTimesync(network, tile)
        /\ UNCHANGED <<master, expander, rekeying, keys, dataPhase, record>>
        /\ \/ master.status = "APPLIED_SCHEDULE"
           \/ master.status = "AWAITING_ACTIVATION" /\ tile < master.header.activationTile
        /\ SendInfo
    BY DEF MasterSendsInfo, MastersDownlink, shared
  <1> DEFINE atMaster == {c \in challenges : c.at = "master"}
  <1>2. /\ challenges' \subseteq challenges
        /\ air' = Silence \/ air' = Broadcast("info", Responses(atMaster))
    BY <1>1 DEF SendInfo
  <1>3. Responses(atMaster) # {} => challenges # {}
    BY DEF Responses
  <1> HIDE DEF atMaster
  <1> QED BY <1>1, <1>2, <1>3

LEMMA SendsPacketEffect ==
    ASSUME Based, MasterSendsPacket
    PROVE  /\ MastersTurn /\ ~IsTimesync(network, tile)
           /\ UNCHANGED <<expander, rekeying, keys, dataPhase, challenges, record>>
           /\ master.status = "SENDING_SCHEDULE"
           /\ master.currentSendingRound < master.sendingRounds
           /\ air' = Broadcast("schedule", [header |-> master.header, schedule |-> master.schedule])
           /\ master'.status = master.status /\ master'.schedule = master.schedule
           /\ master'.header = NextPacket(master.header)
           /\ master'.sendingRounds = master.sendingRounds
           /\ master'.currentSendingRound = master.currentSendingRound + 1
           /\ master'.processingSlotCtr = master.processingSlotCtr
           /\ master'.rekeyingSlots = master.rekeyingSlots
           /\ master'.expansionSlots = master.expansionSlots
  <1>1. DOMAIN master = MasterFields
    BY DEF Based, Typed, MasterTyped
  <1> DEFINE h == NextPacket(master.header)
  <1>2. /\ MastersTurn /\ ~IsTimesync(network, tile)
        /\ UNCHANGED <<expander, rekeying, keys, dataPhase, challenges, record>>
        /\ master.status = "SENDING_SCHEDULE"
        /\ master.currentSendingRound < master.sendingRounds
        /\ air' = Broadcast("schedule", [header |-> master.header, schedule |-> master.schedule])
        /\ master' = [master EXCEPT !.header = h, !.currentSendingRound = @ + 1]
    BY DEF MasterSendsPacket, MastersDownlink, shared
  <1> HIDE DEF h
  <1>3. /\ master'.status = master.status /\ master'.schedule = master.schedule
        /\ master'.header = h
        /\ master'.sendingRounds = master.sendingRounds
        /\ master'.currentSendingRound = master.currentSendingRound + 1
        /\ master'.processingSlotCtr = master.processingSlotCtr
        /\ master'.rekeyingSlots = master.rekeyingSlots
        /\ master'.expansionSlots = master.expansionSlots
    BY <1>1, <1>2 DEF MasterFields
  <1> QED BY <1>2, <1>3 DEF h

LEMMA MasterEndsSendingEffect ==
    ASSUME Based, MasterEndsSending
    PROVE  /\ MastersTurn /\ ~IsTimesync(network, tile) /\ air' = Silence
           /\ UNCHANGED <<dataPhase, challenges, record>>
           /\ keys' = [keys EXCEPT !["master"] = MasterStartRekeying(@)]
           /\ master.status = "SENDING_SCHEDULE"
           /\ master.currentSendingRound >= master.sendingRounds
           /\ master'.status = "PROCESSING" /\ master'.schedule = master.schedule
           /\ master'.header = master.header
           /\ master'.processingSlotCtr = master.processingSlotCtr
           /\ master'.rekeyingSlots = master.rekeyingSlots
           /\ master'.expansionSlots = master.expansionSlots
  <1>1. DOMAIN master = MasterFields
    BY DEF Based, Typed, MasterTyped
  <1> QED BY <1>1 DEF MasterEndsSending, MastersDownlink, MasterFields

LEMMA MasterProcessesEffect ==
    ASSUME Based, MasterProcesses
    PROVE  /\ MastersTurn /\ ~IsTimesync(network, tile) /\ air' = Silence
           /\ UNCHANGED <<keys, dataPhase, challenges, record>>
           /\ master.status = "PROCESSING" /\ tile < master.header.activationTile
           /\ master'.schedule = master.schedule /\ master'.header = master.header
           /\ master'.rekeyingSlots = master.rekeyingSlots
           /\ master'.expansionSlots = master.expansionSlots
           /\ master'.processingSlotCtr = master.processingSlotCtr + 1
           /\ master'.status =
                  IF master.processingSlotCtr + 1 >= master.rekeyingSlots + master.expansionSlots
                  THEN "AWAITING_ACTIVATION" ELSE "PROCESSING"
  <1>1. DOMAIN master = MasterFields
    BY DEF Based, Typed, MasterTyped
  <1> DEFINE slot == master.processingSlotCtr + 1
             status == IF slot >= master.rekeyingSlots + master.expansionSlots
                       THEN "AWAITING_ACTIVATION" ELSE master.status
  <1>2. /\ MastersTurn /\ ~IsTimesync(network, tile) /\ air' = Silence
        /\ UNCHANGED <<keys, dataPhase, challenges, record>>
        /\ master.status = "PROCESSING" /\ tile < master.header.activationTile
        /\ master' = [master EXCEPT !.processingSlotCtr = slot, !.status = status]
    BY DEF MasterProcesses, MastersDownlink
  <1> HIDE DEF slot, status
  <1>3. /\ master'.schedule = master.schedule /\ master'.header = master.header
        /\ master'.rekeyingSlots = master.rekeyingSlots
        /\ master'.expansionSlots = master.expansionSlots
        /\ master'.processingSlotCtr = slot /\ master'.status = status
    BY <1>1, <1>2 DEF MasterFields
  <1> QED BY <1>2, <1>3 DEF slot, status

LEMMA MasterActivatesEffect ==
    ASSUME Based, MasterActivates
    PROVE  /\ MastersTurn /\ ~IsTimesync(network, tile) /\ air' = Silence
           /\ UNCHANGED <<challenges, record>>
           /\ master.status \in {"PROCESSING", "AWAITING_ACTIVATION"}
           /\ tile >= master.header.activationTile
           /\ keys' = [keys EXCEPT !["master"] = MasterApplyRekeying(@)]
           /\ dataPhase' = [dataPhase EXCEPT !["master"] =
                                PlaySchedule(expander["master"], master.header)]
           /\ master'.status = "APPLIED_SCHEDULE"
           /\ master'.schedule = master.schedule /\ master'.header = master.header
  <1>1. DOMAIN master = MasterFields
    BY DEF Based, Typed, MasterTyped
  <1> QED BY <1>1 DEF MasterActivates, MastersDownlink, MasterFields

LEMMA MasterTimesyncEffect ==
    ASSUME Based, MasterTimesync
    PROVE  /\ MastersTurn /\ IsTimesync(network, tile)
           /\ UNCHANGED <<master, keys, dataPhase, challenges, record>>
           /\ air'.type = "timesync" /\ air'.masterIndex = MasterIndex(keys["master"])
           /\ air'.activationTile =
                  IF RekeyingInProgress(keys["master"]) /\ master.status # "APPLIED_SCHEDULE"
                  THEN master.header.activationTile ELSE 0
  BY DEF MasterTimesync, shared

\* What the steps that are not the master's leave alone.
LEMMA MasterIsKept ==
    ASSUME Based, TimesyncOnAir, NodeStep \/ NodeUpdatesKeys \/ TileEnds \/ ChallengeArrives
    PROVE  /\ UNCHANGED <<network, master>>
           /\ keys'["master"] = keys["master"] /\ dataPhase'["master"] = dataPhase["master"]
  <1>1. /\ DOMAIN keys = Roles /\ DOMAIN dataPhase = Roles
        /\ "master" \in Roles /\ "master" # "node"
    BY DEF Based, Typed, Roles
  <1> DEFINE Goal == /\ UNCHANGED <<network, master>>
                     /\ keys'["master"] = keys["master"]
                     /\ dataPhase'["master"] = dataPhase["master"]
  <1>2. ASSUME UNCHANGED <<network, master>>,
               keys' = keys \/ \E k : keys' = [keys EXCEPT !["node"] = k],
               dataPhase' = dataPhase \/ \E d : dataPhase' = [dataPhase EXCEPT !["node"] = d]
        PROVE  Goal
    BY <1>1, <1>2
  <1> SUFFICES Goal
    OBVIOUS
  <1> HIDE DEF Goal
  <1>3. CASE NodeStep
    <2>0. NodesTurn
      BY <1>3, NodeStepTurn
    <2>1. UNCHANGED <<network, master>>
      BY <2>0 DEF NodesTurn
    <2>2. CASE NodeEndsSending
      <3>1. /\ dataPhase' = dataPhase
            /\ \E k : keys' = [keys EXCEPT !["node"] = k]
        BY <2>2, EndsSendingEffect
      <3> QED BY <1>2, <2>1, <3>1
    <2>3. CASE NodeProcesses \/ NodeExpandsLate
      BY <1>2, <2>1, <2>3, ProcessesEffect
    <2>4. CASE NodeActivates
      <3>1. /\ \E k : keys' = [keys EXCEPT !["node"] = k]
            /\ dataPhase' = dataPhase \/ \E d : dataPhase' = [dataPhase EXCEPT !["node"] = d]
        BY <2>4, ActivatesEffect
      <3> QED BY <1>2, <2>1, <3>1
    <2>5. CASE NodeReceivesSchedule
      BY <1>2, <2>1, <2>5, ReceivesScheduleEffect
    <2>6. CASE NodeReceivesInfo
      <3>1. /\ dataPhase' = dataPhase
            /\ keys' = keys \/ \E k : keys' = [keys EXCEPT !["node"] = k]
        BY <2>6, ReceivesInfoEffect
      <3> QED BY <1>2, <2>1, <3>1
    <2>7. CASE NodeReceivesNothing \/ NodeSkips
      BY <1>2, <2>1, <2>7, QuietEffect
    <2>8. ASSUME NEW k, MissedPacket(k) PROVE Goal
      <3>1. dataPhase' = dataPhase /\ \E q : keys' = [keys EXCEPT !["node"] = q]
        BY <2>8, MissedEffect DEF Desynchronizes
      <3> QED BY <1>2, <2>1, <3>1
    <2>9. CASE NodeHearsTimesync
      <3>1. air.type = "timesync"
        BY <2>0, <2>9 DEF NodeHearsTimesync, NodesTimesync, NodesTurn, TimesyncOnAir
      <3> DEFINE synced == CommitAdvance(HearingKeys)
                 back == RollbackAdvance(HearingKeys)
      <3>2. /\ dataPhase' = dataPhase
            /\ \/ keys' = [keys EXCEPT !["node"] = StartRekeying(synced)]
               \/ keys' = [keys EXCEPT !["node"] = synced]
               \/ MissedPacket(back)
        BY <2>9, <3>1, HearsEffect
      <3> HIDE DEF synced, back
      <3>3. MissedPacket(back) \/ \E k : keys' = [keys EXCEPT !["node"] = k]
        BY <3>2
      <3> QED BY <1>2, <2>1, <2>8, <3>2, <3>3
    <2>10. CASE NodeMissesTimesync
      BY <2>8, <2>10 DEF NodeMissesTimesync
    <2>11. CASE NodeResyncs
      <3>1. air.type = "timesync"
        BY <2>0, <2>11 DEF NodeResyncs, NodesTimesync, NodesTurn, TimesyncOnAir
      <3>2. /\ \E k : keys' = [keys EXCEPT !["node"] = k]
            /\ \E d : dataPhase' = [dataPhase EXCEPT !["node"] = d]
        BY <2>11, <3>1, ResyncsEffect
      <3> QED BY <1>2, <2>1, <3>2
    <2>12. CASE NodeStaysDesynchronized
      BY <1>2, <2>1, <2>12 DEF NodeStaysDesynchronized
    <2> QED BY <1>3, <2>2, <2>3, <2>4, <2>5, <2>6, <2>7, <2>9, <2>10, <2>11, <2>12 DEF NodeStep
  <1>4. CASE NodeUpdatesKeys
    <2>1. UNCHANGED <<network, master, dataPhase>>
      BY <1>4, UpdatesEffect DEF NextTile
    <2>2. \E k : keys' = [keys EXCEPT !["node"] = k]
      BY <1>4, UpdatesEffect DEF Desynchronizes
    <2> QED BY <1>2, <2>1, <2>2
  <1>5. CASE TileEnds
    BY <1>2, <1>5 DEF TileEnds, NextTile
  <1>6. CASE ChallengeArrives
    BY <1>2, <1>6 DEF ChallengeArrives, shared
  <1> QED BY <1>3, <1>4, <1>5, <1>6

-----------------------------------------------------------------------------
(***************************************************************************)
(* The master and what it puts on the air.                                 *)
(***************************************************************************)
Distributing == master.status # "APPLIED_SCHEDULE"

MasterRekeys == master.status \in {"PROCESSING", "AWAITING_ACTIVATION"}

\* The master's key manager goes along with the distribution.
MasterKeys ==
    /\ keys["master"].status = IF MasterRekeys THEN "REKEYING" ELSE "CONNECTED"
    /\ MasterRekeys => keys["master"].next = keys["master"].index + 1

\* The header of the next packet counts the rounds.
RoundOf(h) == h.repetition * h.totalPacket + h.currentPacket

Sending ==
    master.status = "SENDING_SCHEDULE" =>
      /\ RoundOf(master.header) = master.currentSendingRound
      /\ master.sendingRounds = scheduleRepetitions * master.header.totalPacket
      /\ master.header.currentPacket < master.header.totalPacket
      /\ master.currentSendingRound <= master.sendingRounds

PacketOnAir ==
    /\ master.status = "SENDING_SCHEDULE" /\ ~IsTimesync(network, tile)
    /\ SameDistribution(air.content.header, master.header)
    /\ RoundOf(air.content.header) + 1 = master.currentSendingRound
    /\ air.content.header.currentPacket < air.content.header.totalPacket

OnAir ==
    /\ turn = "master" => air = Silence
    /\ TimesyncOnAir
    /\ air # Silence => air.masterIndex = keys["master"].index
    /\ air.type = "schedule" => PacketOnAir
    /\ air.type = "info" =>
          /\ master.status \in {"APPLIED_SCHEDULE", "AWAITING_ACTIVATION"}
          /\ ~IsTimesync(network, tile)
          /\ air.content # {} => network.doMasterChallenge
    /\ air.type = "timesync" =>
          air.activationTile = IF MasterRekeys THEN master.header.activationTile ELSE 0
    /\ challenges # {} => network.doMasterChallenge

Master == MasterKeys /\ Sending /\ OnAir

LEMMA SilenceFacts ==
    Silence.type = "none" /\ Silence.type \notin {"schedule", "info", "timesync"}
  BY DEF Silence

LEMMA MasterIndexIsIndex ==
    ASSUME MasterKeys
    PROVE  /\ MasterIndex(keys["master"]) = keys["master"].index
           /\ RekeyingInProgress(keys["master"]) <=> MasterRekeys
  BY DEF MasterKeys, MasterIndex, RekeyingInProgress, Untrusted, MasterRekeys

LEMMA MasterInit ==
    ASSUME Init
    PROVE  Master
  <1>1. /\ master.status = "APPLIED_SCHEDULE" /\ air = Silence /\ turn = "master"
        /\ challenges = {}
    BY DEF Init, MasterAtStart
  <1>2. keys["master"].status = "CONNECTED"
    BY DEF Init, NewKeyManager, Roles
  <1> QED BY <1>1, <1>2, SilenceFacts
          DEF Master, MasterKeys, Sending, OnAir, MasterRekeys, TimesyncOnAir

\* What the master sends next is the next round.
LEMMA RoundOfNext ==
    ASSUME NEW h \in Headers, h.currentPacket < h.totalPacket
    PROVE  /\ RoundOf(h) \in Nat
           /\ RoundOf(NextPacket(h)) = RoundOf(h) + 1
           /\ NextPacket(h).currentPacket < NextPacket(h).totalPacket
  <1> DEFINE n == NextPacket(h)
             t == h.totalPacket
             r == h.repetition
             c == h.currentPacket
  <1>1. t \in Nat /\ r \in Nat /\ c \in Nat /\ c < t
    BY DEF Headers
  <1>2. n.totalPacket = t
        /\ (c + 1 >= t => n.currentPacket = 0 /\ n.repetition = r + 1)
        /\ (c + 1 < t => n.currentPacket = c + 1 /\ n.repetition = r)
    BY NextPacketFacts
  <1>3. RoundOf(h) = r * t + c /\ RoundOf(n) = n.repetition * t + n.currentPacket
    BY <1>2 DEF RoundOf
  <1> HIDE DEF n, t, r, c
  <1>4. r * t \in Nat /\ (r + 1) * t = r * t + t
    BY <1>1
  <1>5. CASE c + 1 >= t
    <2>1. t = c + 1
      BY <1>1, <1>5
    <2>2. RoundOf(n) = r * t + t + 0
      BY <1>2, <1>3, <1>4, <1>5
    <2>3. n.currentPacket < n.totalPacket
      BY <1>1, <1>2, <1>5
    <2>4. RoundOf(n) = RoundOf(h) + 1
      BY <1>1, <1>3, <1>4, <2>1, <2>2
    <2> QED BY <1>1, <1>3, <1>4, <2>3, <2>4 DEF n
  <1>6. CASE c + 1 < t
    <2>1. n.currentPacket < n.totalPacket
      BY <1>2, <1>6
    <2>2. RoundOf(n) = r * t + (c + 1)
      BY <1>2, <1>3, <1>6
    <2> QED BY <1>1, <1>3, <1>4, <2>1, <2>2 DEF n
  <1> QED BY <1>1, <1>5, <1>6

\* A step of another actor, which sends nothing.
LEMMA MasterKept ==
    ASSUME Master, UNCHANGED <<network, master>>, keys'["master"] = keys["master"],
           challenges' # {} => network.doMasterChallenge,
           \/ air' = Silence /\ turn' = "master"
           \/ air' = air /\ tile' = tile /\ turn' = turn
           \/ air' = air /\ tile' = tile /\ turn = "node" /\ turn' = "update"
    PROVE  Master'
  <1>1. MasterKeys' /\ Sending'
    BY DEF Master, MasterKeys, Sending, MasterRekeys, RoundOf
  <1>2. CASE air' = Silence /\ turn' = "master"
    <2>1. OnAir'
      BY <1>2, SilenceFacts DEF Master, OnAir, TimesyncOnAir
    <2> QED BY <1>1, <2>1 DEF Master
  <1>3. CASE air' = air /\ tile' = tile /\ (turn' = turn \/ (turn = "node" /\ turn' = "update"))
    <2>1. (air.type = "schedule" => PacketOnAir)'
      BY <1>3 DEF Master, OnAir, PacketOnAir, SameDistribution, RoundOf
    <2>2. (turn = "master" => air = Silence)'
      BY <1>3 DEF Master, OnAir
    <2>3. TimesyncOnAir'
      BY <1>3 DEF Master, OnAir, TimesyncOnAir
    <2>4. (air # Silence => air.masterIndex = keys["master"].index)'
      BY <1>3 DEF Master, OnAir, Silence
    <2>5. (air.type = "info" =>
              /\ master.status \in {"APPLIED_SCHEDULE", "AWAITING_ACTIVATION"}
              /\ ~IsTimesync(network, tile)
              /\ air.content # {} => network.doMasterChallenge)'
      BY <1>3 DEF Master, OnAir
    <2>6. (air.type = "timesync" =>
              air.activationTile = IF MasterRekeys THEN master.header.activationTile ELSE 0)'
      BY <1>3 DEF Master, OnAir, MasterRekeys
    <2>7. OnAir'
      BY <2>1, <2>2, <2>3, <2>4, <2>5, <2>6 DEF OnAir
    <2> QED BY <1>1, <2>7 DEF Master
  <1> QED BY <1>2, <1>3

\* A step of the node and the packet that is on the air meanwhile.
LEMMA MasterKeptByOthers ==
    ASSUME Based, Master, NodeStep \/ NodeUpdatesKeys \/ TileEnds \/ ChallengeArrives
    PROVE  Master'
  <1>1. TimesyncOnAir /\ (challenges # {} => network.doMasterChallenge)
    BY DEF Master, OnAir
  <1>2. UNCHANGED <<network, master>> /\ keys'["master"] = keys["master"]
    BY <1>1, MasterIsKept
  <1>3. CASE NodeStep
    <2>1. NodesTurn
      BY <1>3, NodeStepTurn
    <2>2. challenges' = challenges \/ network.doMasterChallenge
      BY <1>3 DEF NodeStep, NodeEndsSending, NodeProcesses, NodeExpandsLate, NodeActivates,
         NodeReceivesSchedule, NodeReceivesInfo, NodeReceivesNothing, NodeSkips, NodeListens,
         NodeHearsTimesync, NodeMissesTimesync, NodeResyncs, NodeStaysDesynchronized
    <2>3. air' = air /\ tile' = tile /\ turn = "node" /\ turn' = "update"
      BY <2>1 DEF NodesTurn
    <2> QED BY <1>1, <1>2, <2>2, <2>3, MasterKept
  <1>4. CASE NodeUpdatesKeys \/ TileEnds
    <2>1. NextTile /\ (challenges' = challenges \/ network.doMasterChallenge)
      BY <1>4 DEF NodeUpdatesKeys, TileEnds
    <2>2. air' = Silence /\ turn' = "master"
      BY <2>1 DEF NextTile
    <2> QED BY <1>1, <1>2, <2>1, <2>2, MasterKept
  <1>5. CASE ChallengeArrives
    <2>1. air' = air /\ tile' = tile /\ turn' = turn /\ challenges # {}
      BY <1>5 DEF ChallengeArrives
    <2> QED BY <1>1, <1>2, <2>1, MasterKept
  <1> QED BY <1>3, <1>4, <1>5

LEMMA MasterStepKeeps ==
    ASSUME Based, Master, MasterStep
    PROVE  Master'
  <1>1. /\ keys \in [Roles -> Keys] /\ keys["master"] \in Keys /\ "master" \in Roles
        /\ master.header \in Headers /\ master.sendingRounds \in Nat
        /\ master.currentSendingRound \in Nat
    BY KeysUnchanged DEF Based, Typed, MasterTyped, Roles
  <1>2. MasterIndex(keys["master"]) = keys["master"].index
        /\ (RekeyingInProgress(keys["master"]) <=> MasterRekeys)
    BY MasterIndexIsIndex DEF Master
  \* Silence is good in every state.
  <1>3. ASSUME air' = Silence, MastersTurn, IsTimesync(network, tile) => FALSE,
               challenges' = {} \/ network.doMasterChallenge
        PROVE  OnAir'
    BY <1>3, SilenceFacts DEF MastersTurn, OnAir, TimesyncOnAir
  <1>4. ASSUME NEW s \in SchedulesToSend, MasterBegins(s) PROVE Master'
    <2>1. /\ MastersTurn /\ ~IsTimesync(network, tile) /\ air' = Silence
          /\ UNCHANGED <<keys, challenges>> /\ master.status = "APPLIED_SCHEDULE"
          /\ master'.status = "SENDING_SCHEDULE" /\ master'.header = HeaderFor(s)
          /\ master'.sendingRounds = scheduleRepetitions * NumPackets(s)
          /\ master'.currentSendingRound = 0
      BY <1>4, BeginsEffect
    <2>2. OnAir'
      BY <1>3, <2>1 DEF Master, OnAir
    <2>3. MasterKeys'
      BY <2>1 DEF Master, MasterKeys, MasterRekeys
    <2>4. Sending'
      <3> DEFINE h == HeaderFor(s)
      <3>1. h.totalPacket = NumPackets(s) /\ h.currentPacket = 0 /\ h.repetition = 0
        BY HeaderFacts
      <3>2. NumPackets(s) \in Nat \ {0} /\ scheduleRepetitions \in Nat
        BY SendFacts, SlotFacts, DistributionAssumption
      <3> HIDE DEF h
      <3>3. RoundOf(h) = 0 /\ h.currentPacket < h.totalPacket
        BY <3>1, <3>2 DEF RoundOf
      <3> DEFINE rounds == scheduleRepetitions * NumPackets(s)
      <3>4. rounds \in Nat /\ rounds = scheduleRepetitions * h.totalPacket
        BY <3>1, <3>2
      <3>5. master'.header = h /\ master'.sendingRounds = rounds /\ master'.currentSendingRound = 0
        BY <2>1 DEF h
      <3> HIDE DEF rounds
      <3> QED BY <3>3, <3>4, <3>5 DEF Sending, RoundOf
    <2> QED BY <2>2, <2>3, <2>4 DEF Master
  <1>5. CASE MasterSendsInfo
    <2>1. /\ MastersTurn /\ ~IsTimesync(network, tile) /\ UNCHANGED <<master, keys>>
          /\ master.status \in {"APPLIED_SCHEDULE", "AWAITING_ACTIVATION"}
          /\ challenges' \subseteq challenges
          /\ \/ air' = Silence
             \/ \E c : air' = Broadcast("info", c) /\ (c # {} => challenges # {})
      BY <1>5, SendsInfoEffect
    <2>2. MasterKeys' /\ Sending'
      BY <2>1 DEF Master, MasterKeys, MasterRekeys, Sending, RoundOf
    <2>3. challenges' = {} \/ network.doMasterChallenge
      BY <2>1 DEF Master, OnAir
    <2>4. ASSUME NEW c, air' = Broadcast("info", c), c # {} => challenges # {} PROVE OnAir'
      <3>1. air'.type = "info" /\ air'.masterIndex = keys["master"].index /\ air'.content = c
        BY <1>1, <1>2, <2>4, BroadcastFacts
      <3>2. c # {} => network.doMasterChallenge
        BY <2>4 DEF Master, OnAir
      <3> QED BY <2>1, <2>3, <3>1, <3>2 DEF MastersTurn, OnAir, TimesyncOnAir
    <2>5. OnAir'
      BY <1>3, <2>1, <2>3, <2>4
    <2> QED BY <2>2, <2>5 DEF Master
  <1>6. CASE MasterSendsPacket
    <2> DEFINE c == [header |-> master.header, schedule |-> master.schedule]
               n == NextPacket(master.header)
    <2>1. /\ MastersTurn /\ ~IsTimesync(network, tile) /\ UNCHANGED <<keys, challenges>>
          /\ master.status = "SENDING_SCHEDULE"
          /\ master.currentSendingRound < master.sendingRounds
          /\ air' = Broadcast("schedule", c)
          /\ master'.status = master.status /\ master'.header = n
          /\ master'.sendingRounds = master.sendingRounds
          /\ master'.currentSendingRound = master.currentSendingRound + 1
      BY <1>6, SendsPacketEffect
    <2>2. RoundOf(master.header) = master.currentSendingRound
          /\ master.header.currentPacket < master.header.totalPacket
          /\ master.sendingRounds = scheduleRepetitions * master.header.totalPacket
      BY <2>1 DEF Master, Sending
    <2>3. /\ RoundOf(n) = RoundOf(master.header) + 1 /\ n.currentPacket < n.totalPacket
          /\ n.id = master.header.id /\ n.totalPacket = master.header.totalPacket
          /\ n.activationTile = master.header.activationTile
          /\ n.scheduleTiles = master.header.scheduleTiles
      BY <1>1, <2>2, RoundOfNext, NextPacketFacts
    <2>4. c.header = master.header
      OBVIOUS
    <2> HIDE DEF c, n
    <2>5. air'.type = "schedule" /\ air'.masterIndex = keys["master"].index /\ air'.content = c
      BY <1>1, <1>2, <2>1, BroadcastFacts
    <2>6. MasterKeys'
      BY <2>1 DEF Master, MasterKeys, MasterRekeys
    <2>7. Sending'
      <3>1. master'.currentSendingRound <= master'.sendingRounds
        BY <1>1, <2>1
      <3>2. RoundOf(master'.header) = master'.currentSendingRound
        BY <2>1, <2>2, <2>3
      <3> QED BY <2>1, <2>2, <2>3, <3>1, <3>2 DEF Sending, RoundOf
    <2>8. PacketOnAir'
      <3>1. SameDistribution(air'.content.header, master'.header)
        BY <2>1, <2>3, <2>4, <2>5 DEF SameDistribution
      <3>2. /\ RoundOf(air'.content.header) + 1 = master'.currentSendingRound
            /\ air'.content.header.currentPacket < air'.content.header.totalPacket
        BY <2>1, <2>2, <2>4, <2>5
      <3>3. network' = network /\ tile' = tile
        BY <2>1 DEF MastersTurn
      <3> QED BY <2>1, <3>1, <3>2, <3>3 DEF PacketOnAir, SameDistribution, RoundOf
    <2>9. OnAir'
      BY <2>1, <2>5, <2>8 DEF MastersTurn, Master, OnAir, TimesyncOnAir
    <2> QED BY <2>6, <2>7, <2>9 DEF Master
  <1>7. CASE MasterEndsSending
    <2> DEFINE k == MasterStartRekeying(keys["master"])
    <2>1. /\ MastersTurn /\ ~IsTimesync(network, tile) /\ air' = Silence
          /\ UNCHANGED challenges /\ keys' = [keys EXCEPT !["master"] = k]
          /\ master'.status = "PROCESSING"
      BY <1>7, MasterEndsSendingEffect
    <2>2. k \in Keys /\ k.status = "REKEYING" /\ k.next = k.index + 1
      BY <1>1, RekeyingFacts
    <2> HIDE DEF k
    <2>3. keys'["master"] = k
      BY <1>1, <2>1, <2>2, KeysUpdate
    <2>4. MasterKeys' /\ Sending'
      BY <2>1, <2>2, <2>3 DEF MasterKeys, MasterRekeys, Sending
    <2>5. OnAir'
      BY <1>3, <2>1 DEF Master, OnAir
    <2> QED BY <2>4, <2>5 DEF Master
  <1>8. CASE MasterProcesses
    <2>1. /\ MastersTurn /\ ~IsTimesync(network, tile) /\ air' = Silence
          /\ UNCHANGED <<challenges, keys>>
          /\ master.status = "PROCESSING"
          /\ master'.status \in {"PROCESSING", "AWAITING_ACTIVATION"}
      BY <1>8, MasterProcessesEffect
    <2>2. MasterKeys' /\ Sending'
      BY <2>1 DEF Master, MasterKeys, MasterRekeys, Sending
    <2>3. OnAir'
      BY <1>3, <2>1 DEF Master, OnAir
    <2> QED BY <2>2, <2>3 DEF Master
  <1>9. CASE MasterActivates
    <2> DEFINE k == MasterApplyRekeying(keys["master"])
    <2>1. /\ MastersTurn /\ ~IsTimesync(network, tile) /\ air' = Silence
          /\ UNCHANGED challenges /\ keys' = [keys EXCEPT !["master"] = k]
          /\ master'.status = "APPLIED_SCHEDULE"
      BY <1>9, MasterActivatesEffect
    <2>2. k \in Keys /\ k.status = "CONNECTED"
      BY <1>1, RekeyingFacts
    <2> HIDE DEF k
    <2>3. keys'["master"] = k
      BY <1>1, <2>1, <2>2, KeysUpdate
    <2>4. MasterKeys' /\ Sending'
      BY <2>1, <2>2, <2>3 DEF MasterKeys, MasterRekeys, Sending
    <2>5. OnAir'
      BY <1>3, <2>1 DEF Master, OnAir
    <2> QED BY <2>4, <2>5 DEF Master
  <1>10. CASE MasterTimesync
    <2>1. /\ MastersTurn /\ IsTimesync(network, tile)
          /\ UNCHANGED <<master, keys, challenges>>
          /\ air'.type = "timesync" /\ air'.masterIndex = MasterIndex(keys["master"])
          /\ air'.activationTile =
                 IF RekeyingInProgress(keys["master"]) /\ master.status # "APPLIED_SCHEDULE"
                 THEN master.header.activationTile ELSE 0
      BY <1>10, MasterTimesyncEffect
    <2>2. MasterKeys' /\ Sending'
      BY <2>1 DEF Master, MasterKeys, MasterRekeys, Sending, RoundOf
    <2>3. air'.activationTile = IF MasterRekeys' THEN master'.header.activationTile ELSE 0
      BY <1>2, <2>1 DEF MasterRekeys
    <2>4. air'.masterIndex = keys'["master"].index
      BY <1>2, <2>1
    <2>5. OnAir'
      BY <2>1, <2>3, <2>4 DEF MastersTurn, Master, OnAir, TimesyncOnAir
    <2> QED BY <2>2, <2>5 DEF Master
  <1> QED BY <1>4, <1>5, <1>6, <1>7, <1>8, <1>9, <1>10 DEF MasterStep

LEMMA MasterNext ==
    ASSUME Based, Master, [Next]_vars
    PROVE  Master'
  <1>1. CASE vars' = vars
    <2>1. /\ UNCHANGED <<network, master, keys, air, tile, turn, challenges>>
      BY <1>1 DEF vars, shared, record
    <2> QED BY <2>1, MasterKept DEF Master, OnAir
  <1>2. CASE Next
    BY <1>2, MasterStepKeeps, MasterKeptByOthers DEF Next
  <1> QED BY <1>1, <1>2

-----------------------------------------------------------------------------
(***************************************************************************)
(* The distribution phase of the node and its key manager rekey together.  *)
(***************************************************************************)
NodeRekeys(n) == n.status \in {"PROCESSING", "AWAITING_ACTIVATION"}

\* The key manager k of a node that is synchronized or is about to be, and has
\* not been told to desynchronize.
PairedKeys(k, n) ==
    /\ k.status \in {"CONNECTED", "MASTER_UNTRUSTED", "REKEYING", "REKEYING_UNTRUSTED"}
    /\ RekeyingInProgress(k) <=> NodeRekeys(n)

Paired ==
    /\ aborted \in {"no", "verifyResponse", "scheduleBeforeActivation"}
    /\ aborted = "no" =>
         LET k == keys["node"]
         IN  IF timesync.status = "DESYNCHRONIZED"
             THEN k.status = "DISCONNECTED" /\ ~k.forceDesync /\ node.status = "APPLIED_SCHEDULE"
             ELSE IF k.forceDesync
             THEN turn = "update" /\ network.doMasterChallenge /\ ~IsTimesync(network, tile)
             ELSE PairedKeys(k, node)

LEMMA PairedInit ==
    ASSUME Init
    PROVE  Paired
  BY DEF Init, Paired, NewKeyManager, NodeAtStart, Roles

\* What a step of a node that has desynchronized, or is as before, leaves.
LEMMA PairedMissed ==
    ASSUME Based, Paired, aborted = "no", aborted' = aborted,
           timesync.status # "DESYNCHRONIZED",
           NEW k \in Keys, ~k.forceDesync, PairedKeys(k, node), MissedPacket(k)
    PROVE  Paired'
  <1>1. "node" \in Roles /\ keys \in [Roles -> Keys]
    BY DEF Based, Typed, Roles
  <1>2. CASE Desynchronizes(k)
    <2> DEFINE d == DesyncKeys(k)
    <2>1. d \in Keys /\ d.status = "DISCONNECTED" /\ ~d.forceDesync
      <3>1. 0 \in Nat
        OBVIOUS
      <3> QED BY <3>1, ResyncFacts
    <2>2. keys' = [keys EXCEPT !["node"] = d] /\ timesync'.status = "DESYNCHRONIZED"
          /\ node'.status = "APPLIED_SCHEDULE"
      BY <1>2 DEF Desynchronizes
    <2> HIDE DEF d
    <2>3. keys'["node"] = d
      BY <1>1, <2>1, <2>2, KeysUpdate
    <2> QED BY <2>1, <2>2, <2>3 DEF Paired
  <1>3. CASE /\ timesync'.status = timesync.status /\ UNCHANGED node
             /\ keys' = [keys EXCEPT !["node"] = k]
    <2>1. keys'["node"] = k
      BY <1>1, <1>3, KeysUpdate
    <2> QED BY <1>3, <2>1 DEF Paired, PairedKeys, NodeRekeys
  <1> QED BY <1>2, <1>3, MissedEffect

LEMMA PairedNodeStep ==
    ASSUME Based, OnAir, Paired, NodeStep
    PROVE  Paired'
  <1> DEFINE k == keys["node"]
  <1>1. k \in Keys /\ keys \in [Roles -> Keys] /\ "node" \in Roles
    BY KeysUnchanged DEF Based, Typed, Roles
  <1>2. NodesTurn
    BY NodeStepTurn
  <1>3. turn = "node" /\ turn' = "update" /\ aborted = "no"
        /\ network' = network /\ tile' = tile
    BY <1>2 DEF NodesTurn
  <1>4. timesync.status = "DESYNCHRONIZED" =>
           k.status = "DISCONNECTED" /\ ~k.forceDesync /\ node.status = "APPLIED_SCHEDULE"
    BY <1>3 DEF Paired
  <1>5. timesync.status # "DESYNCHRONIZED" => ~k.forceDesync /\ PairedKeys(k, node)
    BY <1>3 DEF Paired
  <1>6. ASSUME NEW q \in Keys, keys' = [keys EXCEPT !["node"] = q], aborted' = "no",
               timesync'.status # "DESYNCHRONIZED", ~q.forceDesync, PairedKeys(q, node')
        PROVE  Paired'
    <2>1. keys'["node"] = q
      BY <1>1, <1>6, KeysUpdate
    <2> QED BY <1>6, <2>1 DEF Paired, PairedKeys, NodeRekeys
  <1>7. ASSUME aborted' \in {"verifyResponse", "scheduleBeforeActivation"} PROVE Paired'
    BY <1>7 DEF Paired
  <1>8. keys = [keys EXCEPT !["node"] = k]
    BY KeysUnchanged
  <1> HIDE DEF k
  <1>9. CASE NodeEndsSending
    <2> DEFINE q == StartRekeying(k)
    <2>1. /\ timesync' = timesync /\ node.status = "SENDING_SCHEDULE"
          /\ keys' = [keys EXCEPT !["node"] = q]
          /\ aborted' = IF CanStartRekeying(k) THEN aborted ELSE "startRekeying"
          /\ node'.status = "PROCESSING"
      BY <1>9, EndsSendingEffect DEF SendingIsOver, k
    <2>2. timesync.status # "DESYNCHRONIZED" /\ ~k.forceDesync /\ PairedKeys(k, node)
      BY <1>4, <1>5, <2>1
    <2>3. k.status \in {"CONNECTED", "MASTER_UNTRUSTED"}
      BY <2>1, <2>2 DEF PairedKeys, RekeyingInProgress, NodeRekeys
    <2>4. q \in Keys /\ ~q.forceDesync /\ q.status \in {"REKEYING", "REKEYING_UNTRUSTED"}
      BY <1>1, <2>2, RekeyingFacts
    <2> HIDE DEF q
    <2>5. aborted' = "no" /\ PairedKeys(q, node')
      BY <1>3, <2>1, <2>3, <2>4 DEF CanStartRekeying, PairedKeys, RekeyingInProgress, NodeRekeys
    <2> QED BY <1>6, <2>1, <2>2, <2>4, <2>5
  <1>10. CASE NodeProcesses \/ NodeExpandsLate
    <2>1. /\ timesync' = timesync /\ keys' = keys /\ aborted' = aborted
          /\ node.status = "PROCESSING"
          /\ node'.status \in {"PROCESSING", "AWAITING_ACTIVATION"}
      BY <1>10, ProcessesEffect
    <2>2. timesync.status # "DESYNCHRONIZED" /\ ~k.forceDesync /\ PairedKeys(k, node)
      BY <1>4, <1>5, <2>1
    <2>3. PairedKeys(k, node')
      BY <2>1, <2>2 DEF PairedKeys, NodeRekeys
    <2> QED BY <1>1, <1>3, <1>6, <1>8, <2>1, <2>2, <2>3
  <1>11. CASE NodeActivates
    <2> DEFINE q == ApplyRekeying(k)
    <2>1. /\ timesync' = timesync
          /\ node.status \in {"PROCESSING", "AWAITING_ACTIVATION"}
          /\ keys' = [keys EXCEPT !["node"] = q]
          /\ aborted' = IF CanApplyRekeying(k) THEN aborted ELSE "applyRekeying"
          /\ node'.status \in {"APPLIED_SCHEDULE", "INCOMPLETE_SCHEDULE"}
      BY <1>11, ActivatesEffect DEF k
    <2>2. timesync.status # "DESYNCHRONIZED" /\ ~k.forceDesync /\ PairedKeys(k, node)
      BY <1>4, <1>5, <2>1
    <2>3. RekeyingInProgress(k)
      BY <2>1, <2>2 DEF PairedKeys, NodeRekeys
    <2>4. q \in Keys /\ ~q.forceDesync /\ q.status \in {"CONNECTED", "MASTER_UNTRUSTED"}
      BY <1>1, <2>2, RekeyingFacts
    <2> HIDE DEF q
    <2>5. aborted' = "no" /\ PairedKeys(q, node')
      BY <1>3, <2>1, <2>3, <2>4 DEF CanApplyRekeying, PairedKeys, RekeyingInProgress, NodeRekeys
    <2> QED BY <1>6, <2>1, <2>2, <2>4, <2>5
  <1>12. CASE NodeReceivesSchedule
    <2>1. /\ timesync' = timesync /\ keys' = keys /\ MacCanOperate /\ Listens(node)
          /\ aborted' = IF node.status # "AWAITING_ACTIVATION" THEN aborted
                        ELSE "scheduleBeforeActivation"
          /\ node.status # "AWAITING_ACTIVATION" => node'.status = "SENDING_SCHEDULE"
      BY <1>12, ReceivesScheduleEffect
    <2>2. timesync.status # "DESYNCHRONIZED" /\ ~k.forceDesync /\ PairedKeys(k, node)
      BY <1>5, <2>1 DEF MacCanOperate
    <2>3. CASE node.status = "AWAITING_ACTIVATION"
      BY <1>7, <2>1, <2>3
    <2>4. CASE node.status # "AWAITING_ACTIVATION"
      <3>1. ~NodeRekeys(node) /\ ~NodeRekeys(node')
        BY <2>1, <2>4 DEF NodeRekeys, Listens
      <3>2. PairedKeys(k, node')
        BY <2>2, <3>1 DEF PairedKeys
      <3> QED BY <1>1, <1>3, <1>6, <1>8, <2>1, <2>2, <2>4, <3>2
    <2> QED BY <2>3, <2>4
  <1>13. CASE NodeReceivesInfo
    <2>1. /\ timesync' = timesync /\ ~IsTimesync(network, tile) /\ MacCanOperate
          /\ air.type = "info" /\ Keeps(node', node)
      BY <1>13, ReceivesInfoEffect
    <2>2. timesync.status # "DESYNCHRONIZED" /\ ~k.forceDesync /\ PairedKeys(k, node)
      BY <1>5, <2>1 DEF MacCanOperate
    <2>3. CASE keys' = keys /\ aborted' = aborted
      <3>1. PairedKeys(k, node')
        BY <2>1, <2>2 DEF PairedKeys, NodeRekeys, Keeps
      <3> QED BY <1>1, <1>3, <1>6, <1>8, <2>1, <2>2, <2>3, <3>1
    <2>4. ASSUME NEW r, air.content # {}, keys' = [keys EXCEPT !["node"] = HandleResponse(k, r)],
                 aborted' = IF CanVerifyResponse(k) THEN aborted ELSE "verifyResponse"
          PROVE  Paired'
      <3> DEFINE q == HandleResponse(k, r)
      <3>1. CASE ~CanVerifyResponse(k)
        BY <1>7, <2>4, <3>1
      <3>2. CASE CanVerifyResponse(k) /\ q = CommitResync(k)
        <4>1. /\ q \in Keys /\ ~q.forceDesync
              /\ q.status = CASE k.status = "MASTER_UNTRUSTED" -> "CONNECTED"
                              [] k.status = "REKEYING_UNTRUSTED" -> "REKEYING"
                              [] OTHER -> "DISCONNECTED"
          <5>1. 0 \in Nat
            OBVIOUS
          <5> QED BY <1>1, <2>2, <3>2, <5>1, ResyncFacts
        <4>2. keys' = [keys EXCEPT !["node"] = q]
          BY <2>4
        <4> HIDE DEF q
        <4>3. PairedKeys(q, node')
          BY <2>1, <2>2, <3>2, <4>1
             DEF PairedKeys, RekeyingInProgress, NodeRekeys, Keeps, CanVerifyResponse, Untrusted
        <4>4. aborted' = "no"
          BY <1>3, <2>4, <3>2
        <4> QED BY <1>6, <2>1, <2>2, <4>1, <4>2, <4>3, <4>4
      <3>3. CASE CanVerifyResponse(k) /\ q.forceDesync = TRUE
        <4>1. q \in Keys /\ keys' = [keys EXCEPT !["node"] = q]
          BY <1>1, <2>4, ResponseFacts
        <4> HIDE DEF q
        <4>2. keys'["node"] = q
          BY <1>1, <4>1, KeysUpdate
        <4>3. network.doMasterChallenge
          BY <2>1, <2>4 DEF OnAir
        <4>4. aborted' = "no"
          BY <1>3, <2>4, <3>3
        <4> QED BY <1>3, <2>1, <2>2, <3>3, <4>2, <4>3, <4>4 DEF Paired
      <3> QED BY <1>1, <3>1, <3>2, <3>3, ResponseFacts
    <2> QED BY <1>13, <2>3, <2>4, ReceivesInfoEffect DEF k
  <1>14. CASE NodeReceivesNothing \/ NodeSkips
    <2>1. timesync' = timesync /\ keys' = keys /\ aborted' = aborted
          /\ node'.status = node.status
      BY <1>14, QuietEffect
    <2> QED BY <1>3, <2>1 DEF Paired, PairedKeys, NodeRekeys
  <1>15. CASE NodeHearsTimesync
    <2> DEFINE h == HearingKeys
               synced == CommitAdvance(h)
               back == RollbackAdvance(h)
    <2>1. air.type = "timesync"
      BY <1>2, <1>15 DEF NodeHearsTimesync, NodesTimesync, NodesTurn, OnAir, TimesyncOnAir
    <2>2. timesync.status # "DESYNCHRONIZED"
      BY <1>15, <2>1, HearsEffect
    <2>3. ~k.forceDesync /\ PairedKeys(k, node)
      BY <1>5, <2>2
    <2>4. h \in Keys /\ ~h.forceDesync
          /\ (h.status = k.status \/ (k.status = "CONNECTED" /\ h.status = "ADVANCING"))
      BY <1>1, <2>3, AdvanceFacts DEF HearingKeys, k
    <2> HIDE DEF h
    <2>5. /\ synced \in Keys /\ ~synced.forceDesync /\ synced.status = k.status
          /\ back \in Keys /\ ~back.forceDesync /\ back.status = k.status
      <3>1. k.status # "ADVANCING"
        BY <2>3 DEF PairedKeys
      <3> QED BY <2>4, <3>1, AdvanceFacts
    <2> HIDE DEF synced, back
    <2>6. PairedKeys(synced, node) /\ PairedKeys(back, node)
      BY <2>3, <2>5 DEF PairedKeys, RekeyingInProgress
    <2>7. CASE MissedPacket(back) /\ UNCHANGED aborted
      BY <1>3, <2>2, <2>5, <2>6, <2>7, PairedMissed
    <2>8. CASE /\ timesync'.status = "IN_SYNC" /\ MustForce(synced)
               /\ keys' = [keys EXCEPT !["node"] = StartRekeying(synced)]
               /\ node'.status = "PROCESSING"
               /\ aborted' = IF CanStartRekeying(synced) THEN aborted ELSE "startRekeying"
      <3> DEFINE q == StartRekeying(synced)
      <3>1. synced.status \in {"CONNECTED", "MASTER_UNTRUSTED"}
        BY <2>6, <2>8 DEF MustForce, PairedKeys, RekeyingInProgress
      <3>2. q \in Keys /\ ~q.forceDesync /\ q.status \in {"REKEYING", "REKEYING_UNTRUSTED"}
        BY <2>5, RekeyingFacts
      <3>3. keys' = [keys EXCEPT !["node"] = q] /\ aborted' = "no"
        BY <1>3, <2>8, <3>1 DEF CanStartRekeying
      <3> HIDE DEF q
      <3>4. PairedKeys(q, node')
        BY <2>8, <3>2 DEF PairedKeys, RekeyingInProgress, NodeRekeys
      <3> QED BY <1>6, <2>8, <3>2, <3>3, <3>4
    <2>9. CASE /\ timesync'.status = "IN_SYNC"
               /\ keys' = [keys EXCEPT !["node"] = synced] /\ UNCHANGED <<node, aborted>>
      <3>1. PairedKeys(synced, node')
        BY <2>6, <2>9 DEF PairedKeys, NodeRekeys
      <3> QED BY <1>3, <1>6, <2>5, <2>9, <3>1
    <2> QED BY <1>15, <2>1, <2>7, <2>8, <2>9, HearsEffect DEF synced, back, h
  <1>16. CASE NodeMissesTimesync
    <2>1. timesync.status # "DESYNCHRONIZED" /\ MissedPacket(k) /\ UNCHANGED aborted
      BY <1>16 DEF NodeMissesTimesync, k
    <2> QED BY <1>1, <1>3, <1>5, <2>1, PairedMissed
  <1>17. CASE NodeResyncs
    <2> DEFINE a == AttemptResync(k, air.masterIndex)
               forced == IF MustForce(a) THEN StartRekeying(a) ELSE a
               q == IF network.doMasterChallenge THEN SendChallenge(forced)
                    ELSE CommitResync(forced)
    <2>1. air.type = "timesync"
      BY <1>2, <1>17 DEF NodeResyncs, NodesTimesync, NodesTurn, OnAir, TimesyncOnAir
    <2>2. air.masterIndex \in Nat
      BY <2>1 DEF Based, Typed, AirTyped, Silence
    <2>3. /\ timesync.status = "DESYNCHRONIZED" /\ timesync'.status = "SYNCING"
          /\ a.status = "MASTER_UNTRUSTED" /\ aborted' = aborted
          /\ keys' = [keys EXCEPT !["node"] = q]
          /\ \/ MustForce(a) /\ node'.status = "PROCESSING"
             \/ ~MustForce(a) /\ node' = node
      BY <1>17, <2>1, ResyncsEffect DEF k
    <2>4. a \in Keys /\ ~a.forceDesync
      <3>1. ~k.forceDesync
        BY <1>4, <2>3
      <3>2. a \in Keys /\ a.forceDesync = k.forceDesync
        <4> DEFINE i == air.masterIndex
        <4>1. i \in Nat
          BY <2>2
        <4> HIDE DEF i
        <4>2. AttemptResync(k, i) \in Keys
          BY <1>1, <4>1, ResyncFacts
        <4>3. AttemptResync(k, i).forceDesync = k.forceDesync
          BY <1>1, <4>1, ResyncFacts
        <4> QED BY <4>2, <4>3 DEF i
      <3> HIDE DEF a
      <3> QED BY <3>1, <3>2
    <2> HIDE DEF a
    <2>5. /\ forced \in Keys /\ ~forced.forceDesync
          /\ forced.status = IF MustForce(a) THEN "REKEYING_UNTRUSTED" ELSE "MASTER_UNTRUSTED"
      <3>1. StartRekeying(a) \in Keys /\ ~StartRekeying(a).forceDesync
            /\ StartRekeying(a).status = "REKEYING_UNTRUSTED"
        BY <2>3, <2>4, RekeyingFacts
      <3> QED BY <2>3, <2>4, <3>1
    <2> HIDE DEF forced
    <2>6. /\ q \in Keys /\ ~q.forceDesync
          /\ q.status \in IF MustForce(a) THEN {"REKEYING_UNTRUSTED", "REKEYING"}
                          ELSE {"MASTER_UNTRUSTED", "CONNECTED"}
      BY <2>2, <2>5, ResyncFacts
    <2> HIDE DEF q
    <2>7. node.status = "APPLIED_SCHEDULE"
      BY <1>4, <2>3
    <2>8. PairedKeys(q, node')
      BY <2>3, <2>6, <2>7 DEF PairedKeys, RekeyingInProgress, NodeRekeys
    <2> QED BY <1>3, <1>6, <2>3, <2>6, <2>8
  <1>18. CASE NodeStaysDesynchronized
    <2>1. UNCHANGED <<timesync, keys, node, aborted>> /\ timesync.status = "DESYNCHRONIZED"
      BY <1>18 DEF NodeStaysDesynchronized
    <2> QED BY <2>1 DEF Paired
  <1> QED BY <1>9, <1>10, <1>11, <1>12, <1>13, <1>14, <1>15, <1>16, <1>17, <1>18 DEF NodeStep

LEMMA PairedNext ==
    ASSUME Based, OnAir, Paired, [Next]_vars
    PROVE  Paired'
  <1>1. CASE NodeStep
    BY <1>1, PairedNodeStep
  <1>2. CASE MasterStep
    <2>1. /\ MastersTurn
          /\ keys' = keys \/ \E k : keys' = [keys EXCEPT !["master"] = k]
      BY <1>2 DEF MasterStep, MasterBegins, MasterSendsInfo, MasterSendsPacket,
         MasterEndsSending, MasterProcesses, MasterActivates, MasterTimesync, MastersDownlink, shared
    <2>2. keys'["node"] = keys["node"]
      BY <2>1 DEF Based, Typed, Roles
    <2>3. turn = "master" /\ turn' = "node" /\ UNCHANGED <<network, tile, node, timesync, aborted>>
      BY <2>1 DEF MastersTurn
    <2> QED BY <2>2, <2>3 DEF Paired, PairedKeys, NodeRekeys
  <1>3. CASE NodeUpdatesKeys
    <2> DEFINE k == keys["node"]
               u == PeriodicUpdate(k, ChallengeTimeout)
               d == DesyncKeys(u.keys)
    <2>1. k \in Keys /\ keys \in [Roles -> Keys] /\ "node" \in Roles
      BY KeysUnchanged DEF Based, Typed, Roles
    <2>2. /\ u.keys \in Keys /\ u.desync \in BOOLEAN
          /\ k.forceDesync => u.desync
          /\ ~u.desync => u.keys.status = k.status
          /\ ~u.keys.forceDesync
      BY <2>1, UpdateFacts
    <2>3. aborted = "no" /\ aborted' = aborted
          /\ \/ u.desync /\ Desynchronizes(u.keys)
             \/ /\ ~u.desync /\ keys' = [keys EXCEPT !["node"] = u.keys]
                /\ UNCHANGED <<timesync, node, record>>
      BY <1>3, UpdatesEffect
    <2> HIDE DEF u
    <2>4. d \in Keys /\ d.status = "DISCONNECTED" /\ ~d.forceDesync
      <3>1. 0 \in Nat
        OBVIOUS
      <3> QED BY <2>2, <3>1, ResyncFacts
    <2>5. CASE Desynchronizes(u.keys)
      <3>1. keys' = [keys EXCEPT !["node"] = d] /\ timesync'.status = "DESYNCHRONIZED"
            /\ node'.status = "APPLIED_SCHEDULE"
        BY <2>5 DEF Desynchronizes
      <3> HIDE DEF d
      <3>2. keys'["node"] = d
        BY <2>1, <2>4, <3>1, KeysUpdate
      <3> QED BY <2>3, <2>4, <3>1, <3>2 DEF Paired
    <2>6. CASE /\ ~u.desync /\ keys' = [keys EXCEPT !["node"] = u.keys]
               /\ UNCHANGED <<timesync, node>>
      <3>1. keys'["node"] = u.keys
        BY <2>1, <2>2, <2>6, KeysUpdate
      <3>2. ~k.forceDesync /\ u.keys.status = k.status
        BY <2>2, <2>6
      <3> QED BY <2>2, <2>3, <2>6, <3>1, <3>2 DEF Paired, PairedKeys, RekeyingInProgress, NodeRekeys
    <2> QED BY <2>3, <2>5, <2>6
  <1>4. CASE TileEnds
    <2>1. /\ UNCHANGED <<network, node, keys, timesync, aborted>>
          /\ \/ turn = "update" /\ ~(network.doMasterChallenge /\ ~IsTimesync(network, tile))
             \/ aborted # "no"
      BY <1>4 DEF TileEnds, NextTile
    <2> QED BY <2>1 DEF Paired, PairedKeys, NodeRekeys
  <1>5. CASE ChallengeArrives
    <2>1. UNCHANGED <<network, tile, turn, node, keys, timesync, aborted>>
      BY <1>5 DEF ChallengeArrives, shared
    <2> QED BY <2>1 DEF Paired, PairedKeys, NodeRekeys
  <1>6. CASE vars' = vars
    <2>1. UNCHANGED <<network, tile, turn, node, keys, timesync, aborted>>
      BY <1>6 DEF vars, shared
    <2> QED BY <2>1 DEF Paired, PairedKeys, NodeRekeys
  <1> QED BY <1>1, <1>2, <1>3, <1>4, <1>5, <1>6 DEF Next

-----------------------------------------------------------------------------
(***************************************************************************)
(* Whoever knows a schedule counts its slots from the same tile, up to     *)
(* whole periods.                                                          *)
(***************************************************************************)
SlotsOf(h) == [id |-> h.id, tiles |-> h.scheduleTiles, base |-> h.activationTile]

SlotsPlayed(d) == [id |-> d.id, tiles |-> d.tiles, base |-> d.base]

Slots ==
    {SlotsOf(master.header), SlotsOf(node.header),
     SlotsPlayed(dataPhase["master"]), SlotsPlayed(dataPhase["node"])}
    \cup (IF air.type = "schedule" THEN {SlotsOf(air.content.header)} ELSE {})

Agree(x, y) ==
    x.id = y.id /\ x.id # 0 =>
        x.tiles = y.tiles /\ x.tiles # 0 /\ (x.base - y.base) % x.tiles = 0

\* The master's schedule is the latest.
SlotsAgree == \A x, y \in Slots : Agree(x, y) /\ x.id <= master.header.id

LEMMA SlotsTyped ==
    ASSUME Based
    PROVE  /\ \A x \in Slots : x.id \in Nat /\ x.tiles \in Nat /\ x.base \in Nat
           /\ master.header \in Headers /\ node.header \in Headers
           /\ PlayTyped(dataPhase["master"]) /\ PlayTyped(dataPhase["node"])
  <1>1. /\ master.header \in Headers /\ node.header \in Headers
        /\ PlayTyped(dataPhase["master"]) /\ PlayTyped(dataPhase["node"])
        /\ air.type = "schedule" => air.content.header \in Headers
    BY DEF Based, Typed, MasterTyped, NodeTyped, AirTyped, Roles
  <1>2. ASSUME NEW h \in Headers
        PROVE  SlotsOf(h).id \in Nat /\ SlotsOf(h).tiles \in Nat /\ SlotsOf(h).base \in Nat
    BY DEF SlotsOf, Headers
  <1>3. ASSUME NEW d, PlayTyped(d)
        PROVE  SlotsPlayed(d).id \in Nat /\ SlotsPlayed(d).tiles \in Nat /\ SlotsPlayed(d).base \in Nat
    BY <1>3 DEF SlotsPlayed, PlayTyped
  <1> QED BY <1>1, <1>2, <1>3 DEF Slots

LEMMA SlotsInit ==
    ASSUME Init
    PROVE  SlotsAgree
  <1>1. /\ master.header = NoHeader /\ node.header = NoHeader /\ air = Silence
        /\ dataPhase["master"] = EmptyDataPhase /\ dataPhase["node"] = EmptyDataPhase
    BY DEF Init, MasterAtStart, NodeAtStart, Roles
  <1>2. \A x \in Slots : x.id = 0
    BY <1>1, SilenceFacts DEF Slots, SlotsOf, SlotsPlayed, NoHeader, EmptyDataPhase
  <1>3. master.header.id = 0
    BY <1>1 DEF NoHeader
  <1> QED BY <1>2, <1>3 DEF SlotsAgree, Agree

\* A step that passes on the slots that somebody has already.
LEMMA SlotsPassedOn ==
    ASSUME Based, SlotsAgree, master'.header.id = master.header.id,
           \A x \in Slots' : x \in Slots \/ x.id = 0
    PROVE  SlotsAgree'
  <1>1. master.header.id \in Nat
    BY SlotsTyped DEF Headers
  <1>2. ASSUME NEW x \in Slots', NEW y \in Slots' PROVE Agree(x, y) /\ x.id <= master'.header.id
    <2>1. CASE x \in Slots /\ y \in Slots
      BY <2>1 DEF SlotsAgree
    <2>2. CASE x \in Slots /\ y.id = 0
      BY <2>2 DEF SlotsAgree, Agree
    <2>3. CASE x.id = 0
      BY <1>1, <2>3 DEF Agree
    <2> QED BY <2>1, <2>2, <2>3
  <1> QED BY <1>2 DEF SlotsAgree

\* What a node may do to the slots.
LEMMA SlotsOfNode ==
    ASSUME Based, SlotsAgree, UNCHANGED master, dataPhase'["master"] = dataPhase["master"],
           air' = air \/ air' = Silence,
           \/ node'.header = node.header \/ node'.header = NoHeader
           \/ air.type = "schedule" /\ node'.header = air.content.header,
           \/ dataPhase'["node"] = dataPhase["node"] \/ dataPhase'["node"] = EmptyDataPhase
           \/ \E e : dataPhase'["node"] = PlaySchedule(e, node.header)
    PROVE  SlotsAgree'
  <1>1. SlotsOf(node'.header) \in Slots \/ SlotsOf(node'.header).id = 0
    BY DEF Slots, SlotsOf, NoHeader
  <1>2. SlotsPlayed(dataPhase'["node"]) \in Slots \/ SlotsPlayed(dataPhase'["node"]).id = 0
    <2>1. CASE dataPhase'["node"] = dataPhase["node"]
      BY <2>1 DEF Slots
    <2>2. CASE dataPhase'["node"] = EmptyDataPhase
      BY <2>2 DEF SlotsPlayed, EmptyDataPhase
    <2>3. ASSUME NEW e, dataPhase'["node"] = PlaySchedule(e, node.header)
          PROVE  SlotsPlayed(dataPhase'["node"]) = SlotsOf(node.header)
      BY <2>3 DEF SlotsPlayed, SlotsOf, PlaySchedule
    <2> QED BY <2>1, <2>2, <2>3 DEF Slots
  <1>3. \A x \in Slots' : x \in Slots \/ x.id = 0
    <2>1. CASE air' = air
      <3>1. Slots' = {SlotsOf(master.header), SlotsOf(node'.header),
                      SlotsPlayed(dataPhase["master"]), SlotsPlayed(dataPhase'["node"])}
                     \cup (IF air.type = "schedule" THEN {SlotsOf(air.content.header)} ELSE {})
        BY <2>1 DEF Slots
      <3> QED BY <1>1, <1>2, <3>1 DEF Slots
    <2>2. CASE air' = Silence
      <3>1. Slots' = {SlotsOf(master.header), SlotsOf(node'.header),
                      SlotsPlayed(dataPhase["master"]), SlotsPlayed(dataPhase'["node"])}
        BY <2>2, SilenceFacts DEF Slots
      <3> QED BY <1>1, <1>2, <3>1 DEF Slots
    <2> QED BY <2>1, <2>2
  <1> QED BY <1>3, SlotsPassedOn

LEMMA CongruenceFacts ==
    ASSUME NEW d \in Nat \ {0}, NEW a \in Int, NEW b \in Int, NEW c \in Int,
           (a - b) % d = 0, (b - c) % d = 0
    PROVE  (a - c) % d = 0 /\ (b - a) % d = 0 /\ (c - a) % d = 0 /\ (a - a) % d = 0
  <1> DEFINE p == (a - b) \div d
             q == (b - c) \div d
  <1>1. p \in Int /\ q \in Int /\ a - b = d * p + ((a - b) % d) /\ b - c = d * q + ((b - c) % d)
    <2>1. a - b \in Int /\ b - c \in Int
      OBVIOUS
    <2> QED BY <2>1, Division
  <1> HIDE DEF p, q
  <1>2. a - b = d * p /\ b - c = d * q
    BY <1>1
  <1>3. /\ a - c = d * (p + q) + 0 /\ b - a = d * (0 - p) + 0
        /\ c - a = d * (0 - (p + q)) + 0 /\ a - a = d * 0 + 0
    BY <1>1, <1>2
  <1>4. /\ p + q \in Int /\ 0 - p \in Int /\ 0 - (p + q) \in Int /\ 0 \in Int
        /\ a - c \in Int /\ b - a \in Int /\ c - a \in Int /\ a - a \in Int /\ 0 \in 0 .. (d - 1)
    BY <1>1
  <1>5. ASSUME NEW n \in Int, NEW r \in Int, n = d * r + 0 PROVE n % d = 0
    BY <1>5, <1>4, DivisionUnique
  <1> QED BY <1>3, <1>4, <1>5

LEMMA SlotsOfNewSchedule ==
    ASSUME Based, SlotsAgree, NEW s \in SchedulesToSend, MasterBegins(s)
    PROVE  SlotsAgree'
  <1> DEFINE h == HeaderFor(s)
             new == SlotsOf(h)
             old == SlotsOf(master.header)
  <1>1. /\ air' = Silence /\ UNCHANGED <<dataPhase, node>> /\ master'.header = h
    BY BeginsEffect DEF MastersTurn
  <1>2. /\ h \in Headers /\ h.id = s.id /\ h.scheduleTiles = s.tiles /\ s.tiles # 0
        /\ master.header.scheduleTiles # 0 =>
              (h.activationTile - master.header.activationTile) % master.header.scheduleTiles = 0
    BY HeaderFacts, SendFacts
  <1>3. /\ master.header \in Headers /\ master.header.id = master.schedule.id
        /\ master.header.scheduleTiles = master.schedule.tiles
        /\ s.id = master.schedule.id + 1 \/ s = master.schedule
    BY SlotsTyped, SendFacts DEF Based, MasterHeader
  <1> HIDE DEF h
  <1>4. /\ new.id = s.id /\ new.tiles = s.tiles /\ new.base = h.activationTile
        /\ new.id \in Nat /\ new.tiles \in Nat \ {0} /\ new.base \in Nat
    BY <1>2 DEF SlotsOf, Headers
  <1>5. /\ old.id = master.header.id /\ old.tiles = master.header.scheduleTiles
        /\ old.base = master.header.activationTile /\ old.base \in Nat /\ old.id \in Nat
    BY <1>3 DEF SlotsOf, Headers
  <1>6. \A x \in Slots' : x \in Slots \/ x = new
    <2>1. Slots' = {new, SlotsOf(node.header),
                    SlotsPlayed(dataPhase["master"]), SlotsPlayed(dataPhase["node"])}
      BY <1>1, SilenceFacts DEF Slots
    <2> QED BY <2>1 DEF Slots
  <1>7. old \in Slots
    BY DEF Slots
  <1> HIDE DEF new, old
  <1>8. (new.base - new.base) % new.tiles = 0
    <2>1. new.base - new.base = new.tiles * 0 + 0 /\ new.base - new.base \in Int
          /\ 0 \in 0 .. (new.tiles - 1) /\ 0 \in Int
      BY <1>4
    <2> QED BY <1>4, <2>1, DivisionUnique
  <1>9. ASSUME NEW x \in Slots
        PROVE  Agree(x, new) /\ Agree(new, x) /\ x.id <= new.id
    <2>1. x.id \in Nat /\ x.tiles \in Nat /\ x.base \in Nat /\ x.id <= old.id
      BY <1>5, SlotsTyped DEF SlotsAgree
    <2>2. CASE s.id = master.schedule.id + 1
      <3>1. new.id = old.id + 1
        BY <1>3, <1>4, <1>5, <2>2
      <3> QED BY <1>4, <1>5, <2>1, <3>1 DEF Agree
    <2>3. CASE s = master.schedule
      <3>1. new.id = old.id /\ new.tiles = old.tiles
        BY <1>3, <1>4, <1>5, <2>3
      <3>2. (new.base - old.base) % new.tiles = 0
        BY <1>2, <1>4, <1>5, <3>1
      <3>3. ASSUME x.id = new.id, new.id # 0
            PROVE  x.tiles = new.tiles /\ (new.base - x.base) % new.tiles = 0
                   /\ (x.base - new.base) % new.tiles = 0
        <4>1. x.tiles = old.tiles /\ (old.base - x.base) % old.tiles = 0
          BY <1>7, <3>1, <3>3 DEF SlotsAgree, Agree
        <4>2. (old.base - x.base) % new.tiles = 0 /\ new.base \in Int /\ x.base \in Int
              /\ old.base \in Int /\ new.tiles \in Nat \ {0}
          BY <1>4, <1>5, <2>1, <3>1, <4>1
        <4> QED BY <3>1, <3>2, <4>1, <4>2, CongruenceFacts
      <3> QED BY <1>4, <2>1, <3>1, <3>3 DEF Agree
    <2> QED BY <1>3, <2>2, <2>3
  <1>10. Agree(new, new) /\ new.id <= new.id
    BY <1>4, <1>8 DEF Agree
  <1>11. ASSUME NEW x \in Slots', NEW y \in Slots'
         PROVE  Agree(x, y) /\ x.id <= new.id
    <2>1. CASE x \in Slots /\ y \in Slots
      BY <1>9, <2>1 DEF SlotsAgree
    <2>2. CASE x = new \/ y = new
      BY <1>6, <1>9, <1>10, <2>2
    <2> QED BY <1>6, <2>1, <2>2
  <1>12. master'.header.id = new.id
    BY <1>1, <1>2, <1>4
  <1> QED BY <1>11, <1>12 DEF SlotsAgree

LEMMA SlotsNext ==
    ASSUME Based, TimesyncOnAir, SlotsAgree, [Next]_vars
    PROVE  SlotsAgree'
  <1>1. "master" \in Roles /\ "node" \in Roles /\ DOMAIN dataPhase = Roles
        /\ master.header \in Headers
    BY DEF Based, Typed, Roles, MasterTyped
  <1>2. ASSUME NEW s \in SchedulesToSend, MasterBegins(s) PROVE SlotsAgree'
    BY <1>2, SlotsOfNewSchedule
  <1>3. CASE MasterSendsInfo \/ MasterEndsSending \/ MasterProcesses \/ MasterTimesync
    <2>1. /\ master'.header = master.header /\ UNCHANGED <<dataPhase, node>>
          /\ air'.type # "schedule"
      <3>1. CASE MasterSendsInfo
        <4>1. ASSUME NEW c, air' = Broadcast("info", c) PROVE air'.type # "schedule"
          BY <4>1 DEF Broadcast
        <4> QED BY <3>1, <4>1, SendsInfoEffect, SilenceFacts DEF MastersTurn
      <3>2. CASE MasterEndsSending
        BY <3>2, MasterEndsSendingEffect, SilenceFacts DEF MastersTurn
      <3>3. CASE MasterProcesses
        BY <3>3, MasterProcessesEffect, SilenceFacts DEF MastersTurn
      <3>4. CASE MasterTimesync
        BY <3>4, MasterTimesyncEffect DEF MastersTurn
      <3> QED BY <1>3, <3>1, <3>2, <3>3, <3>4
    <2>2. \A x \in Slots' : x \in Slots
      <3>1. Slots' = {SlotsOf(master.header), SlotsOf(node.header),
                      SlotsPlayed(dataPhase["master"]), SlotsPlayed(dataPhase["node"])}
        BY <2>1 DEF Slots
      <3> QED BY <3>1 DEF Slots
    <2> QED BY <2>1, <2>2, SlotsPassedOn
  <1>4. CASE MasterSendsPacket
    <2> DEFINE c == [header |-> master.header, schedule |-> master.schedule]
    <2>1. /\ master'.header = NextPacket(master.header) /\ UNCHANGED <<dataPhase, node>>
          /\ air' = Broadcast("schedule", c)
      BY <1>4, SendsPacketEffect DEF MastersTurn
    <2>2. c.header = master.header
      OBVIOUS
    <2> HIDE DEF c
    <2>3. air'.type = "schedule" /\ air'.content.header = master.header
      BY <2>1, <2>2 DEF Broadcast
    <2>4. SlotsOf(master'.header) = SlotsOf(master.header) /\ master'.header.id = master.header.id
      BY <1>1, <2>1, NextPacketFacts DEF SlotsOf
    <2>5. \A x \in Slots' : x \in Slots
      <3>1. Slots' = {SlotsOf(master'.header), SlotsOf(node.header),
                      SlotsPlayed(dataPhase["master"]), SlotsPlayed(dataPhase["node"])}
                     \cup {SlotsOf(master.header)}
        BY <2>1, <2>3 DEF Slots
      <3> QED BY <2>4, <3>1 DEF Slots
    <2> QED BY <2>4, <2>5, SlotsPassedOn
  <1>5. CASE MasterActivates
    <2>1. /\ master'.header = master.header /\ UNCHANGED node /\ air' = Silence
          /\ dataPhase' = [dataPhase EXCEPT !["master"] =
                               PlaySchedule(expander["master"], master.header)]
      BY <1>5, MasterActivatesEffect DEF MastersTurn
    <2>2. dataPhase'["node"] = dataPhase["node"]
          /\ dataPhase'["master"] = PlaySchedule(expander["master"], master.header)
      BY <1>1, <2>1
    <2>3. SlotsPlayed(dataPhase'["master"]) = SlotsOf(master.header)
      BY <2>2 DEF SlotsPlayed, SlotsOf, PlaySchedule
    <2>4. \A x \in Slots' : x \in Slots
      <3>1. Slots' = {SlotsOf(master.header), SlotsOf(node.header),
                      SlotsOf(master.header), SlotsPlayed(dataPhase["node"])}
        BY <2>1, <2>2, <2>3, SilenceFacts DEF Slots
      <3> QED BY <3>1 DEF Slots
    <2> QED BY <2>1, <2>4, SlotsPassedOn
  <1>6. CASE NodeStep
    <2>1. NodesTurn
      BY <1>6, NodeStepTurn
    <2>2. master' = master /\ air' = air /\ dataPhase'["master"] = dataPhase["master"]
      BY <1>6, <2>1, MasterIsKept DEF NodesTurn
    <2>3. ASSUME \/ node'.header = node.header \/ node'.header = NoHeader
                 \/ air.type = "schedule" /\ node'.header = air.content.header,
                 \/ dataPhase' = dataPhase
                 \/ dataPhase' = [dataPhase EXCEPT !["node"] = EmptyDataPhase]
                 \/ \E e : dataPhase' = [dataPhase EXCEPT !["node"] = PlaySchedule(e, node.header)]
          PROVE  SlotsAgree'
      <3>1. \/ dataPhase'["node"] = dataPhase["node"] \/ dataPhase'["node"] = EmptyDataPhase
            \/ \E e : dataPhase'["node"] = PlaySchedule(e, node.header)
        BY <1>1, <2>3
      <3> QED BY <2>2, <2>3, <3>1, SlotsOfNode
    <2>4. CASE NodeEndsSending
      BY <2>3, <2>4, EndsSendingEffect
    <2>5. CASE NodeProcesses \/ NodeExpandsLate
      BY <2>3, <2>5, ProcessesEffect
    <2>6. CASE NodeActivates
      <3>1. /\ node'.header = node.header \/ node'.header = NoHeader
            /\ \/ dataPhase' = dataPhase
               \/ dataPhase' = [dataPhase EXCEPT !["node"] = EmptyDataPhase]
               \/ dataPhase' = [dataPhase EXCEPT !["node"] =
                                    PlaySchedule(expander["node"], node.header)]
        BY <2>6, ActivatesEffect
      <3> QED BY <2>3, <3>1
    <2>7. CASE NodeReceivesSchedule
      <3>1. /\ dataPhase' = dataPhase /\ air.type = "schedule"
            /\ node'.header = node.header \/ node'.header = air.content.header
        BY <2>7, ReceivesScheduleEffect
      <3> QED BY <2>3, <3>1
    <2>8. CASE NodeReceivesInfo
      BY <2>3, <2>8, ReceivesInfoEffect DEF Keeps
    <2>9. CASE NodeReceivesNothing \/ NodeSkips
      BY <2>3, <2>9, QuietEffect
    <2>10. ASSUME NEW k, MissedPacket(k) PROVE SlotsAgree'
      BY <2>3, <2>10, MissedEffect DEF Desynchronizes
    <2>11. CASE NodeHearsTimesync
      <3>1. air.type = "timesync"
        BY <2>1, <2>11 DEF NodeHearsTimesync, NodesTimesync, NodesTurn, TimesyncOnAir
      <3> DEFINE back == RollbackAdvance(HearingKeys)
      <3>2. MissedPacket(back) \/ (dataPhase' = dataPhase /\ node'.header = node.header)
        BY <2>11, <3>1, HearsEffect
      <3> HIDE DEF back
      <3> QED BY <2>3, <2>10, <3>2
    <2>12. CASE NodeMissesTimesync
      BY <2>10, <2>12 DEF NodeMissesTimesync
    <2>13. CASE NodeResyncs
      <3>1. air.type = "timesync"
        BY <2>1, <2>13 DEF NodeResyncs, NodesTimesync, NodesTurn, TimesyncOnAir
      <3>2. /\ node'.header = node.header
            /\ dataPhase' = [dataPhase EXCEPT !["node"] = EmptyDataPhase]
        BY <2>13, <3>1, ResyncsEffect
      <3> QED BY <2>3, <3>2
    <2>14. CASE NodeStaysDesynchronized
      BY <2>3, <2>14 DEF NodeStaysDesynchronized
    <2> QED BY <1>6, <2>4, <2>5, <2>6, <2>7, <2>8, <2>9, <2>11, <2>12, <2>13, <2>14 DEF NodeStep
  <1>7. CASE NodeUpdatesKeys \/ TileEnds
    <2>1. NextTile /\ (node'.header = node.header \/ node'.header = NoHeader)
      BY <1>7, UpdatesEffect DEF TileEnds, Desynchronizes
    <2>2. UNCHANGED <<master, dataPhase>> /\ air' = Silence
      BY <2>1 DEF NextTile
    <2> QED BY <2>1, <2>2, SlotsOfNode
  <1>8. CASE ChallengeArrives
    BY <1>8, SlotsOfNode DEF ChallengeArrives, shared
  <1>9. CASE vars' = vars
    BY <1>9, SlotsOfNode DEF vars, shared
  <1> QED BY <1>2, <1>3, <1>4, <1>5, <1>6, <1>7, <1>8, <1>9 DEF Next, MasterStep

LEMMA SlotsImplySame ==
    ASSUME Based, SlotsAgree
    PROVE  SameSlot
  <1> DEFINE m == dataPhase["master"]
             n == dataPhase["node"]
  <1>1. SlotsPlayed(m) \in Slots /\ SlotsPlayed(n) \in Slots
    BY DEF Slots
  <1>2. /\ SlotsPlayed(m).id = m.id /\ SlotsPlayed(m).tiles = m.tiles /\ SlotsPlayed(m).base = m.base
        /\ SlotsPlayed(n).id = n.id /\ SlotsPlayed(n).tiles = n.tiles /\ SlotsPlayed(n).base = n.base
    BY DEF SlotsPlayed
  <1>3. Agree(SlotsPlayed(m), SlotsPlayed(n)) /\ Agree(SlotsPlayed(n), SlotsPlayed(m))
    BY <1>1 DEF SlotsAgree
  <1>4. n.id = m.id /\ n.id # 0 =>
           /\ n.tiles = m.tiles
           /\ (m.base - n.base) % m.tiles = 0 /\ (n.base - m.base) % m.tiles = 0
    BY <1>2, <1>3 DEF Agree
  <1>5. /\ m.base > n.base => Larger(m.base, n.base) - Smaller(m.base, n.base) = m.base - n.base
        /\ ~(m.base > n.base) =>
              Larger(m.base, n.base) - Smaller(m.base, n.base) = n.base - m.base
    BY SlotsTyped DEF Larger, Smaller, PlayTyped
  <1> QED BY <1>4, <1>5 DEF SameSlot

-----------------------------------------------------------------------------
(***************************************************************************)
(* The master has the downlinks that it needs before the activation tile.  *)
(***************************************************************************)
\* The first tile in which the master still has to act.
MastersTile == IF turn = "master" THEN tile ELSE tile + 1

\* The downlinks that it still needs.
Needed ==
    IF master.status = "SENDING_SCHEDULE"
    THEN master.sendingRounds + 1 + master.rekeyingSlots + master.expansionSlots
             - master.currentSendingRound
    ELSE master.rekeyingSlots + master.expansionSlots - master.processingSlotCtr

EnoughDownlinks ==
    master.status \in {"SENDING_SCHEDULE", "PROCESSING"} =>
        /\ Needed >= 1
        /\ Free(network, master.header.activationTile) - Free(network, MastersTile) >= Needed
        /\ master.status = "SENDING_SCHEDULE" =>
              master.processingSlotCtr = 0 /\ master.rekeyingSlots # 0

\* The activation is not a timesync, and at the end of a period of the
\* schedule that the master plays.
ActivationFits ==
    /\ master.header.scheduleTiles # 0 => ~IsTimesync(network, master.header.activationTile)
    /\ IF Distributing
       THEN dataPhase["master"].base # 0 =>
               (master.header.activationTile - dataPhase["master"].base)
                   % dataPhase["master"].tiles = 0
       ELSE /\ dataPhase["master"].base = master.header.activationTile
            /\ dataPhase["master"].tiles = master.header.scheduleTiles

InTime ==
    /\ EnoughDownlinks
    /\ master.status = "AWAITING_ACTIVATION" => MastersTile <= master.header.activationTile
    /\ ActivationFits

LEMMA InTimeInit ==
    ASSUME Init
    PROVE  InTime
  <1>1. master = MasterAtStart /\ dataPhase["master"] = EmptyDataPhase
    BY DEF Init, Roles
  <1> QED BY <1>1 DEF InTime, EnoughDownlinks, ActivationFits, Distributing, MasterAtStart,
                      EmptyDataPhase, NoHeader

\* The master's turn in a tile uses up its downlink, unless that is a timesync.
LEMMA MastersTurnFacts ==
    ASSUME Based, MastersTurn
    PROVE  /\ MastersTile = tile /\ MastersTile' = tile + 1 /\ network' = network
           /\ Free(network, tile) \in Int
           /\ Free(network, tile + 1) =
                 Free(network, tile) + (IF IsTimesync(network, tile) THEN 0 ELSE 1)
  <1>1. network \in Networks /\ tile \in Nat /\ IsDownlink(network, tile)
    BY DEF Based, Typed
  <1>2. ValidStructure(network)
    BY <1>1, NetworkFacts
  <1>3. /\ Free(network, tile) \in Int
        /\ Free(network, tile + 1) = Free(network, tile)
              + (IF IsDownlink(network, tile) /\ ~IsTimesync(network, tile) THEN 1 ELSE 0)
    BY <1>1, <1>2, FreeNext
  <1> QED BY <1>1, <1>3 DEF MastersTurn, MastersTile

LEMMA MasterNumbers ==
    ASSUME Based
    PROVE  /\ master.header.activationTile \in Nat /\ tile \in Nat
           /\ master.sendingRounds \in Nat /\ master.currentSendingRound \in Nat
           /\ master.rekeyingSlots \in Nat /\ master.expansionSlots \in Nat
           /\ master.processingSlotCtr \in Nat
           /\ Free(network, master.header.activationTile) \in Int
  <1>1. network \in Networks /\ MasterTyped(master) /\ tile \in Nat
    BY DEF Based, Typed
  <1>2. ValidStructure(network) /\ master.header.activationTile \in Nat
    BY <1>1, NetworkFacts DEF MasterTyped, Headers
  <1>3. Free(network, master.header.activationTile) \in Int
    BY <1>2, FreeNext
  <1> QED BY <1>1, <1>2, <1>3 DEF MasterTyped

\* As long as a downlink is needed the activation tile is still to come.
LEMMA NeededIsBefore ==
    ASSUME Based, NEW t \in Nat,
           Free(network, master.header.activationTile) - Free(network, t) >= 1
    PROVE  t < master.header.activationTile
  <1>1. network \in Networks
    BY DEF Based, Typed
  <1>2. ValidStructure(network) /\ master.header.activationTile \in Nat
    BY <1>1, NetworkFacts, MasterNumbers
  <1>3. Free(network, t) \in Int /\ Free(network, master.header.activationTile) \in Int
    BY <1>2, FreeNext
  <1>4. ASSUME master.header.activationTile <= t PROVE FALSE
    <2>1. Free(network, master.header.activationTile) <= Free(network, t)
      BY <1>2, <1>4, FreeMonotone
    <2> QED BY <1>3, <2>1
  <1> QED BY <1>2, <1>4

LEMMA InTimeImplies ==
    ASSUME Based, InTime
    PROVE  MasterIsInTime
  <1>1. CASE turn = "master" /\ master.status \in {"SENDING_SCHEDULE", "PROCESSING"}
    <2>1. /\ Needed \in Int /\ Needed >= 1
          /\ Free(network, master.header.activationTile) - Free(network, tile) >= Needed
      BY <1>1, MasterNumbers DEF InTime, EnoughDownlinks, MastersTile, Needed
    <2>2. Free(network, tile) \in Int /\ tile \in Nat
      <3>1. network \in Networks /\ tile \in Nat
        BY DEF Based, Typed
      <3> QED BY <3>1, NetworkFacts, FreeNext
    <2>3. Free(network, master.header.activationTile) - Free(network, tile) >= 1
      BY <2>1, <2>2, MasterNumbers
    <2> QED BY <1>1, <2>2, <2>3, NeededIsBefore DEF MasterIsInTime
  <1>2. CASE master.status = "AWAITING_ACTIVATION"
    <2>1. tile <= master.header.activationTile
      BY <1>2, MasterNumbers DEF InTime, MastersTile
    <2> QED BY <1>2, <2>1 DEF MasterIsInTime
  <1> QED BY <1>1, <1>2 DEF MasterIsInTime

LEMMA InTimeMasterStep ==
    ASSUME Based, network.superframesPerSync # 1, Master, InTime, MasterStep
    PROVE  InTime'
  <1> DEFINE act == master.header.activationTile
             play == dataPhase["master"]
  <1>0. /\ "master" \in Roles /\ DOMAIN dataPhase = Roles
        /\ master.header.scheduleTiles = 0 => master.header = NoHeader
        /\ Distributing => master.header.scheduleTiles # 0
    BY DEF Based, Typed, MasterHeader, Roles, Distributing
  <1>1. /\ act \in Nat /\ tile \in Nat
        /\ master.sendingRounds \in Nat /\ master.currentSendingRound \in Nat
        /\ master.rekeyingSlots \in Nat /\ master.expansionSlots \in Nat
        /\ master.processingSlotCtr \in Nat
        /\ Free(network, act) \in Int
    BY MasterNumbers
  <1>2. MastersTurn => /\ MastersTile = tile /\ MastersTile' = tile + 1 /\ network' = network
                       /\ Free(network, tile) \in Int
                       /\ Free(network, tile + 1) =
                             Free(network, tile) + (IF IsTimesync(network, tile) THEN 0 ELSE 1)
    BY MastersTurnFacts
  <1>3. ASSUME NEW s \in SchedulesToSend, MasterBegins(s) PROVE InTime'
    <2> DEFINE h == HeaderFor(s)
               rounds == scheduleRepetitions * NumPackets(s)
               rekeyings == RekeyingSlots(master.schedule)
               expansions == ExpansionSlots(master.schedule)
    <2>1. /\ MastersTurn /\ UNCHANGED dataPhase /\ ActivationFor(s).done
          /\ master.status = "APPLIED_SCHEDULE"
          /\ master'.status = "SENDING_SCHEDULE" /\ master'.header = h
          /\ master'.sendingRounds = rounds
          /\ master'.currentSendingRound = 0 /\ master'.processingSlotCtr = 0
          /\ master'.rekeyingSlots = rekeyings /\ master'.expansionSlots = expansions
      BY <1>3, BeginsEffect
    <2>2. rounds \in Nat /\ rekeyings \in Nat \ {0} /\ expansions \in Nat
      <3>1. NumPackets(s) \in Nat /\ scheduleRepetitions \in Nat
        BY SendFacts, SlotFacts, DistributionAssumption
      <3>2. rounds \in Nat
        BY <3>1
      <3>3. master.schedule \in Schedules
        BY DEF Based, Typed, MasterTyped
      <3> QED BY <3>2, <3>3, SlotFacts
    <2>3. DownlinksFor(s) = rounds + (1 + rekeyings + expansions)
      BY DEF DownlinksFor, AdvanceSlots
    <2>4. ActivationFits /\ (master.header.scheduleTiles # 0 => ~IsTimesync(network, act))
          /\ play.base = act /\ play.tiles = master.header.scheduleTiles
      BY <2>1 DEF InTime, ActivationFits, Distributing
    <2>5. /\ master.header.scheduleTiles # 0 =>
                (h.activationTile - act) % master.header.scheduleTiles = 0
          /\ Free(network, h.activationTile) - Free(network, tile + 1) >= DownlinksFor(s)
          /\ ~IsTimesync(network, h.activationTile)
      BY <2>1, <2>4, HeaderFacts
    <2> HIDE DEF h, rounds, rekeyings, expansions
    <2>6. Needed' = rounds + 1 + rekeyings + expansions
      BY <2>1, <2>2 DEF Needed
    <2>7. EnoughDownlinks'
      <3>1. Free(network', master'.header.activationTile) - Free(network', MastersTile') >= Needed'
        BY <1>2, <2>1, <2>2, <2>3, <2>5, <2>6
      <3> QED BY <2>1, <2>2, <2>6, <3>1 DEF EnoughDownlinks
    <2>8. ActivationFits'
      <3>1. play.base # 0 => (h.activationTile - play.base) % play.tiles = 0
        BY <1>0, <2>4, <2>5 DEF NoHeader
      <3> QED BY <1>2, <2>1, <2>5, <3>1 DEF ActivationFits, Distributing
    <2> QED BY <2>1, <2>7, <2>8 DEF InTime
  <1>4. CASE MasterSendsInfo
    <2>1. /\ MastersTurn /\ UNCHANGED <<master, dataPhase>>
          /\ \/ master.status = "APPLIED_SCHEDULE"
             \/ master.status = "AWAITING_ACTIVATION" /\ tile < act
      BY <1>4, SendsInfoEffect
    <2>2. ActivationFits'
      BY <1>2, <2>1 DEF InTime, ActivationFits, Distributing
    <2>3. master.status = "AWAITING_ACTIVATION" => tile + 1 <= act
      BY <1>1, <2>1
    <2> QED BY <1>2, <2>1, <2>2, <2>3 DEF InTime, EnoughDownlinks
  <1>5. CASE MasterSendsPacket
    <2>1. /\ MastersTurn /\ ~IsTimesync(network, tile) /\ UNCHANGED dataPhase
          /\ master.status = "SENDING_SCHEDULE" /\ master'.status = master.status
          /\ master.currentSendingRound < master.sendingRounds
          /\ master'.header = NextPacket(master.header)
          /\ master'.sendingRounds = master.sendingRounds
          /\ master'.currentSendingRound = master.currentSendingRound + 1
          /\ master'.processingSlotCtr = master.processingSlotCtr
          /\ master'.rekeyingSlots = master.rekeyingSlots
          /\ master'.expansionSlots = master.expansionSlots
      BY <1>5, SendsPacketEffect
    <2>2. /\ master'.header.activationTile = act
          /\ master'.header.scheduleTiles = master.header.scheduleTiles
      <3>1. master.header \in Headers
        BY DEF Based, Typed, MasterTyped
      <3> QED BY <2>1, <3>1, NextPacketFacts
    <2>3. ActivationFits'
      BY <1>2, <2>1, <2>2 DEF InTime, ActivationFits, Distributing
    <2>4. Needed' = Needed - 1 /\ Needed' >= 1 /\ Needed \in Int
      BY <1>1, <2>1 DEF Needed
    <2>5. Free(network, act) - Free(network, tile) >= Needed
      BY <1>2, <2>1 DEF InTime, EnoughDownlinks
    <2>6. Free(network', master'.header.activationTile) - Free(network', MastersTile') >= Needed'
      BY <1>1, <1>2, <2>1, <2>2, <2>4, <2>5
    <2>7. EnoughDownlinks'
      BY <2>1, <2>4, <2>6 DEF InTime, EnoughDownlinks
    <2> QED BY <2>1, <2>3, <2>7 DEF InTime
  <1>6. CASE MasterEndsSending
    <2>1. /\ MastersTurn /\ ~IsTimesync(network, tile) /\ UNCHANGED dataPhase
          /\ master.status = "SENDING_SCHEDULE" /\ master'.status = "PROCESSING"
          /\ master'.header = master.header
          /\ master'.processingSlotCtr = master.processingSlotCtr
          /\ master'.rekeyingSlots = master.rekeyingSlots
          /\ master'.expansionSlots = master.expansionSlots
      BY <1>6, MasterEndsSendingEffect
    <2>2. /\ master.currentSendingRound <= master.sendingRounds
          /\ master.processingSlotCtr = 0 /\ master.rekeyingSlots # 0
          /\ Free(network, act) - Free(network, tile) >= Needed
      BY <1>2, <2>1 DEF Master, Sending, InTime, EnoughDownlinks
    <2>3. ActivationFits'
      BY <1>2, <2>1 DEF InTime, ActivationFits, Distributing
    <2>4. /\ Needed' = master.rekeyingSlots + master.expansionSlots
          /\ Needed >= Needed' + 1 /\ Needed' >= 1 /\ Needed \in Int
      BY <1>1, <2>1, <2>2 DEF Needed
    <2>5. Free(network', master'.header.activationTile) - Free(network', MastersTile') >= Needed'
      BY <1>1, <1>2, <2>1, <2>2, <2>4
    <2>6. EnoughDownlinks'
      BY <2>1, <2>4, <2>5 DEF EnoughDownlinks
    <2> QED BY <2>1, <2>3, <2>6 DEF InTime
  <1>7. CASE MasterProcesses
    <2> DEFINE slots == master.rekeyingSlots + master.expansionSlots
    <2>1. /\ MastersTurn /\ ~IsTimesync(network, tile) /\ UNCHANGED dataPhase
          /\ master.status = "PROCESSING" /\ tile < act
          /\ master'.header = master.header
          /\ master'.rekeyingSlots = master.rekeyingSlots
          /\ master'.expansionSlots = master.expansionSlots
          /\ master'.processingSlotCtr = master.processingSlotCtr + 1
          /\ master'.status = IF master.processingSlotCtr + 1 >= slots
                              THEN "AWAITING_ACTIVATION" ELSE "PROCESSING"
      BY <1>7, MasterProcessesEffect
    <2>2. ActivationFits'
      BY <1>2, <2>1 DEF InTime, ActivationFits, Distributing
    <2>3. CASE master'.status = "AWAITING_ACTIVATION"
      <3>1. tile + 1 <= act
        BY <1>1, <2>1
      <3> QED BY <1>2, <2>1, <2>2, <2>3, <3>1 DEF InTime, EnoughDownlinks
    <2>4. CASE master'.status = "PROCESSING" /\ ~(master.processingSlotCtr + 1 >= slots)
      <3>1. Needed' = Needed - 1 /\ Needed' >= 1 /\ Needed \in Int
        BY <1>1, <2>1, <2>4 DEF Needed
      <3>2. Free(network, act) - Free(network, tile) >= Needed
        BY <1>2, <2>1 DEF InTime, EnoughDownlinks
      <3>3. Free(network', master'.header.activationTile) - Free(network', MastersTile') >= Needed'
        BY <1>1, <1>2, <2>1, <3>1, <3>2
      <3>4. EnoughDownlinks'
        BY <2>4, <3>1, <3>3 DEF EnoughDownlinks
      <3> QED BY <2>2, <2>4, <3>4 DEF InTime
    <2> QED BY <2>1, <2>3, <2>4
  <1>8. CASE MasterActivates
    <2>1. /\ MastersTurn /\ master'.status = "APPLIED_SCHEDULE"
          /\ master'.header = master.header
          /\ dataPhase' = [dataPhase EXCEPT !["master"] =
                               PlaySchedule(expander["master"], master.header)]
          /\ master.status \in {"PROCESSING", "AWAITING_ACTIVATION"}
      BY <1>8, MasterActivatesEffect
    <2>2. dataPhase'["master"] = PlaySchedule(expander["master"], master.header)
      BY <1>0, <2>1
    <2>3. /\ dataPhase'["master"].base = act
          /\ dataPhase'["master"].tiles = master.header.scheduleTiles
      BY <2>2 DEF PlaySchedule
    <2>4. ActivationFits'
      BY <1>2, <2>1, <2>3 DEF InTime, ActivationFits, Distributing
    <2> QED BY <2>1, <2>4 DEF InTime, EnoughDownlinks
  <1>9. CASE MasterTimesync
    <2>1. MastersTurn /\ IsTimesync(network, tile) /\ UNCHANGED <<master, dataPhase>>
      BY <1>9, MasterTimesyncEffect
    <2>2. ActivationFits'
      BY <1>2, <2>1 DEF InTime, ActivationFits, Distributing
    <2>3. EnoughDownlinks'
      <3>1. Needed' = Needed /\ Free(network, tile + 1) = Free(network, tile)
        BY <1>2, <2>1 DEF Needed
      <3> QED BY <1>2, <2>1, <3>1 DEF InTime, EnoughDownlinks
    <2>4. master.status = "AWAITING_ACTIVATION" => tile + 1 <= act
      <3>1. master.status = "AWAITING_ACTIVATION" => tile <= act /\ tile # act
        BY <1>0, <1>2, <2>1 DEF InTime, ActivationFits, Distributing
      <3> QED BY <1>1, <3>1
    <2> QED BY <1>2, <2>1, <2>2, <2>3, <2>4 DEF InTime
  <1> QED BY <1>3, <1>4, <1>5, <1>6, <1>7, <1>8, <1>9 DEF MasterStep

\* The tile ends: there is no downlink between it and the next.
LEMMA InTimeNextTile ==
    ASSUME Based, InTime, NextTile, turn # "master"
    PROVE  InTime'
  <1> DEFINE act == master.header.activationTile
             next == NextDownlink(network, tile)
  <1>1. /\ network \in Networks /\ tile \in Nat /\ act \in Nat
    BY MasterNumbers DEF Based, Typed
  <1>2. ValidStructure(network)
    BY <1>1, NetworkFacts
  <1>3. /\ UNCHANGED <<network, master, dataPhase>> /\ tile' = next /\ turn' = "master"
    BY DEF NextTile
  <1>4. /\ next \in Nat /\ tile < next /\ \A u \in tile + 1 .. next - 1 : ~IsDownlink(network, u)
        /\ Free(network, next) = Free(network, tile + 1)
    BY <1>1, <1>2, NextDownlinkFacts
  <1> HIDE DEF next
  <1>5. MastersTile = tile + 1 /\ MastersTile' = next
    BY <1>3 DEF MastersTile
  <1>6. EnoughDownlinks'
    BY <1>3, <1>4, <1>5 DEF InTime, EnoughDownlinks, Needed
  <1>7. ActivationFits'
    BY <1>3 DEF InTime, ActivationFits, Distributing
  <1>8. ASSUME master.status = "AWAITING_ACTIVATION" PROVE next <= act
    <2>1. act % network.size = 0
      BY <1>8 DEF Based, MasterHeader
    <2>2. IsDownlink(network, act)
      BY <1>1, <1>2, <2>1, BoundaryIsDownlink
    <2>3. tile + 1 <= act
      BY <1>5, <1>8 DEF InTime
    <2> QED BY <1>1, <1>4, <2>2, <2>3
  <1> QED BY <1>3, <1>5, <1>6, <1>7, <1>8 DEF InTime

LEMMA InTimeNext ==
    ASSUME Based, network.superframesPerSync # 1, Master, InTime, [Next]_vars
    PROVE  InTime'
  <1>0. TimesyncOnAir
    BY DEF Master, OnAir
  <1>1. ASSUME UNCHANGED <<network, master>>, MastersTile' = MastersTile,
               dataPhase'["master"] = dataPhase["master"]
        PROVE  InTime'
    BY <1>1 DEF InTime, EnoughDownlinks, ActivationFits, Needed, Distributing
  <1>2. CASE NodeStep
    <2>1. NodesTurn
      BY <1>2, NodeStepTurn
    <2>2. MastersTile' = MastersTile
      BY <2>1 DEF NodesTurn, MastersTile
    <2> QED BY <1>0, <1>1, <1>2, <2>2, MasterIsKept
  <1>3. CASE NodeUpdatesKeys \/ TileEnds
    BY <1>3, InTimeNextTile DEF NodeUpdatesKeys, TileEnds
  <1>4. CASE ChallengeArrives
    BY <1>1, <1>4 DEF ChallengeArrives, MastersTile, shared
  <1>5. CASE vars' = vars
    BY <1>1, <1>5 DEF vars, MastersTile, shared
  <1> QED BY <1>2, <1>3, <1>4, <1>5, InTimeMasterStep DEF Next

\* The master switches in the activation tile and nowhere else.
LEMMA SwitchesThere ==
    ASSUME Based, Master, InTime, [Next]_vars, dataPhase'["master"] # dataPhase["master"]
    PROVE  LET old == dataPhase["master"]
               new == dataPhase'["master"]
           IN  /\ new.base = tile
               /\ tile % network.size = 0
               /\ old.base # 0 => (tile - old.base) % old.tiles = 0
  <1>0. TimesyncOnAir /\ "master" \in Roles /\ DOMAIN dataPhase = Roles
    BY DEF Master, OnAir, Based, Typed, Roles
  <1>1. MasterActivates
    <2>1. CASE NodeStep \/ NodeUpdatesKeys \/ TileEnds \/ ChallengeArrives
      BY <1>0, <2>1, MasterIsKept
    <2>2. vars' # vars
      BY DEF vars, shared
    <2>3. ASSUME NEW s \in SchedulesToSend, MasterBegins(s) PROVE FALSE
      BY <2>3, BeginsEffect
    <2> QED BY <2>1, <2>2, <2>3, SendsInfoEffect, SendsPacketEffect, MasterEndsSendingEffect,
               MasterProcessesEffect, MasterTimesyncEffect DEF Next, MasterStep
  <1> DEFINE act == master.header.activationTile
  <1>2. /\ MastersTurn /\ master.status \in {"PROCESSING", "AWAITING_ACTIVATION"} /\ tile >= act
        /\ dataPhase' = [dataPhase EXCEPT !["master"] =
                             PlaySchedule(expander["master"], master.header)]
    BY <1>1, MasterActivatesEffect
  <1>3. dataPhase'["master"].base = act
    <2>1. dataPhase'["master"] = PlaySchedule(expander["master"], master.header)
      BY <1>0, <1>2
    <2> QED BY <2>1 DEF PlaySchedule
  <1>4. tile = act
    <2>1. MasterIsInTime
      BY InTimeImplies
    <2>2. tile <= act
      BY <1>2, <2>1, MasterNumbers DEF MasterIsInTime, MastersTurn
    <2> QED BY <1>2, <2>2, MasterNumbers
  <1>5. act % network.size = 0
    BY <1>2 DEF Based, MasterHeader
  <1>6. dataPhase["master"].base # 0 =>
           (act - dataPhase["master"].base) % dataPhase["master"].tiles = 0
    BY <1>2 DEF InTime, ActivationFits, Distributing
  <1> QED BY <1>3, <1>4, <1>5, <1>6

-----------------------------------------------------------------------------
(***************************************************************************)
(* A node that has listened to a distribution from its first packet on     *)
(* stops listening when the master has sent the last one.                  *)
(***************************************************************************)
\* No schedule has more packets than there are repetitions: initSchedule()
\* counts repetition * scheduleRepetitions rounds for those before.  With more
\* packets a node that joins late listens too long, follows a timesync to the
\* master's new key, and then rekeys once more: it is ahead.
RoundsCounted == \A z \in Sizes : NumPackets(z) <= scheduleRepetitions

Counted ==
    /\ NumPackets(master.schedule) <= scheduleRepetitions
    /\ master.header.totalPacket <= scheduleRepetitions

\* The node's part of the tile is still to come.
NodeIsToAct == turn = "node" /\ ~IsTimesync(network, tile)

LockedIn ==
    /\ SameDistribution(node.header, master.header)
    /\ node.sendingRounds = master.sendingRounds
    /\ \/ /\ master.status = "SENDING_SCHEDULE"
          /\ node.currentSendingRound + (IF NodeIsToAct THEN 1 ELSE 0)
                 >= master.currentSendingRound
       \/ /\ master.status = "PROCESSING" /\ NodeIsToAct
          /\ node.currentSendingRound >= node.sendingRounds

Live == aborted = "no" /\ ~absent

Lockstep == Live /\ node.status = "SENDING_SCHEDULE" => LockedIn

LEMMA LockstepInit ==
    ASSUME Init
    PROVE  Counted /\ Lockstep
  <1>1. master.schedule = NoSchedule /\ master.header = NoHeader /\ node.status = "APPLIED_SCHEDULE"
    BY DEF Init, MasterAtStart, NodeAtStart
  <1>2. NumPackets(NoSchedule) = 1
    <2>1. CeilDiv(0, packetCapacity) = 0
      <3> DEFINE n == packetCapacity
      <3>1. n \in Nat \ {0} /\ 0 \in Int /\ n - 1 \in 0 .. (n - 1) /\ n - 1 \in Int
            /\ n - 1 = n * 0 + (n - 1) /\ 0 + n - 1 = n - 1
        BY DistributionAssumption
      <3> HIDE DEF n
      <3>2. (n - 1) \div n = 0
        BY <3>1, DivisionUnique
      <3> QED BY <3>1, <3>2 DEF CeilDiv, n
    <2> QED BY <2>1 DEF NumPackets, NoSchedule, Larger
  <1> QED BY <1>1, <1>2, DistributionAssumption DEF Counted, Lockstep, NoHeader

LEMMA CountedNext ==
    ASSUME RoundsCounted, Based, TimesyncOnAir, Counted, [Next]_vars
    PROVE  Counted'
  <1>1. master.header \in Headers
    BY DEF Based, Typed, MasterTyped
  <1>2. ASSUME NEW s \in SchedulesToSend, MasterBegins(s) PROVE Counted'
    <2>1. master'.schedule = s /\ master'.header = HeaderFor(s)
      BY <1>2, BeginsEffect
    <2>2. HeaderFor(s).totalPacket = NumPackets(s)
      BY HeaderFacts
    <2>3. NumPackets(s) <= scheduleRepetitions
      <3>1. s = master.schedule \/ \E z \in Sizes : s.elements = z.elements
        BY DEF SchedulesToSend
      <3>2. ASSUME NEW z \in Sizes, s.elements = z.elements PROVE NumPackets(s) = NumPackets(z)
        BY <3>2 DEF NumPackets
      <3> QED BY <3>1, <3>2 DEF RoundsCounted, Counted
    <2> QED BY <2>1, <2>2, <2>3 DEF Counted
  <1>3. ASSUME master'.schedule = master.schedule,
               master'.header = master.header \/ master'.header = NextPacket(master.header)
        PROVE  Counted'
    BY <1>1, <1>3, NextPacketFacts DEF Counted
  <1>4. CASE MasterStep /\ ~(\E s \in SchedulesToSend : MasterBegins(s))
    BY <1>3, <1>4, SendsInfoEffect, SendsPacketEffect, MasterEndsSendingEffect,
       MasterProcessesEffect, MasterActivatesEffect, MasterTimesyncEffect DEF MasterStep
  <1>5. CASE NodeStep \/ NodeUpdatesKeys \/ TileEnds \/ ChallengeArrives
    BY <1>3, <1>5, MasterIsKept
  <1>6. CASE vars' = vars
    BY <1>3, <1>6 DEF vars
  <1> QED BY <1>2, <1>4, <1>5, <1>6 DEF Next

LEMMA LockstepMasterStep ==
    ASSUME Based, Master, Lockstep, MasterStep
    PROVE  Lockstep'
  <1>1. MastersTurn
    BY DEF MasterStep, MasterBegins, MasterSendsInfo, MasterSendsPacket,
       MasterEndsSending, MasterProcesses, MasterActivates, MasterTimesync, MastersDownlink
  <1>2. /\ turn = "master" /\ turn' = "node" /\ UNCHANGED <<network, tile, node, aborted>>
        /\ MasterTyped(master) /\ NodeTyped(node)
    BY <1>1 DEF MastersTurn, Based, Typed
  <1>3. SUFFICES ASSUME Live', node'.status = "SENDING_SCHEDULE" PROVE LockedIn'
    BY DEF Lockstep
  <1>4. absent' = absent
    <2>1. ASSUME NEW s \in SchedulesToSend, MasterBegins(s) PROVE absent' = absent
      BY <2>1, BeginsEffect
    <2> QED BY <2>1, SendsInfoEffect, SendsPacketEffect, MasterEndsSendingEffect,
               MasterProcessesEffect, MasterActivatesEffect, MasterTimesyncEffect DEF MasterStep, record
  <1>5. LockedIn
    BY <1>2, <1>3, <1>4 DEF Lockstep, Live
  <1>6. /\ SameDistribution(node.header, master.header)
        /\ node.sendingRounds = master.sendingRounds
        /\ master.status = "SENDING_SCHEDULE"
        /\ node.currentSendingRound >= master.currentSendingRound
    BY <1>2, <1>5 DEF LockedIn, NodeIsToAct, NodeTyped
  <1>7. CASE MasterSendsPacket
    <2>1. /\ ~IsTimesync(network, tile) /\ master'.status = "SENDING_SCHEDULE"
          /\ master'.header = NextPacket(master.header)
          /\ master'.sendingRounds = master.sendingRounds
          /\ master'.currentSendingRound = master.currentSendingRound + 1
      BY <1>6, <1>7, SendsPacketEffect
    <2>2. SameDistribution(node'.header, master'.header)
      <3>1. master.header \in Headers
        BY <1>2 DEF MasterTyped
      <3> QED BY <1>2, <1>6, <2>1, <3>1, NextPacketFacts DEF SameDistribution
    <2>3. NodeIsToAct'
      BY <1>2, <2>1 DEF NodeIsToAct
    <2>4. node'.currentSendingRound + 1 >= master'.currentSendingRound
      BY <1>2, <1>6, <2>1 DEF MasterTyped, NodeTyped
    <2> QED BY <1>2, <1>6, <2>1, <2>2, <2>3, <2>4 DEF LockedIn
  <1>8. CASE MasterEndsSending
    <2>1. /\ ~IsTimesync(network, tile) /\ master'.status = "PROCESSING"
          /\ master'.header = master.header
          /\ master.currentSendingRound >= master.sendingRounds
          /\ master'.sendingRounds = master.sendingRounds
      <3>1. DOMAIN master = MasterFields
        BY <1>2 DEF MasterTyped
      <3>2. master'.sendingRounds = master.sendingRounds
        BY <1>8, <3>1 DEF MasterEndsSending, MasterFields
      <3> QED BY <1>8, <3>2, MasterEndsSendingEffect
    <2>2. node.currentSendingRound >= node.sendingRounds
      BY <1>2, <1>6, <2>1 DEF MasterTyped, NodeTyped
    <2>3. NodeIsToAct'
      BY <1>2, <2>1 DEF NodeIsToAct
    <2>4. SameDistribution(node'.header, master'.header)
      BY <1>2, <1>6, <2>1 DEF SameDistribution
    <2> QED BY <1>2, <1>6, <2>1, <2>2, <2>3, <2>4 DEF LockedIn
  <1>9. CASE MasterTimesync
    <2>1. master' = master /\ IsTimesync(network, tile)
      BY <1>9, MasterTimesyncEffect
    <2>2. SameDistribution(node'.header, master'.header)
      BY <1>2, <1>6, <2>1 DEF SameDistribution
    <2>3. ~NodeIsToAct'
      BY <1>2, <2>1 DEF NodeIsToAct
    <2>4. node'.currentSendingRound + 0 >= master'.currentSendingRound
      BY <1>2, <1>6, <2>1 DEF NodeTyped
    <2> QED BY <1>2, <1>6, <2>1, <2>2, <2>3, <2>4 DEF LockedIn
  <1>10. ASSUME NEW s \in SchedulesToSend, MasterBegins(s) PROVE FALSE
    BY <1>6, <1>10, BeginsEffect
  <1>11. ~MasterSendsInfo /\ ~MasterProcesses /\ ~MasterActivates
    BY <1>6, SendsInfoEffect, MasterProcessesEffect, MasterActivatesEffect
  <1> QED BY <1>7, <1>8, <1>9, <1>10, <1>11 DEF MasterStep

\* The round that initSchedule() takes from a header is not behind the master's.
LEMMA RoundIsCounted ==
    ASSUME NEW h \in Headers, h.totalPacket <= scheduleRepetitions
    PROVE  1 + h.repetition * scheduleRepetitions + h.currentPacket >= RoundOf(h) + 1
  <1> DEFINE t == h.totalPacket
             r == h.repetition
             c == h.currentPacket
             n == scheduleRepetitions
  <1>1. t \in Nat /\ r \in Nat /\ c \in Nat /\ n \in Nat /\ n - t \in Nat /\ n = t + (n - t)
    BY DistributionAssumption DEF Headers
  <1>2. RoundOf(h) = r * t + c
    BY DEF RoundOf
  <1>3. 1 + h.repetition * scheduleRepetitions + h.currentPacket = 1 + r * n + c
    OBVIOUS
  <1> HIDE DEF t, r, c, n
  <1>4. r * n = r * t + r * (n - t) /\ r * t \in Nat /\ r * (n - t) \in Nat
    BY <1>1
  <1> QED BY <1>1, <1>2, <1>3, <1>4

LEMMA LockstepNodeStep ==
    ASSUME Based, Master, Paired, Counted, Lockstep, NodeStep
    PROVE  Lockstep'
  <1>1. NodesTurn /\ TimesyncOnAir /\ NodeTyped(node) /\ MasterTyped(master)
    BY NodeStepTurn DEF Master, OnAir, Based, Typed
  <1>2. /\ turn = "node" /\ turn' = "update" /\ aborted = "no"
        /\ UNCHANGED <<network, tile, air, master>>
    BY <1>1 DEF NodesTurn
  <1>3. SUFFICES ASSUME Live', node'.status = "SENDING_SCHEDULE" PROVE LockedIn'
    BY DEF Lockstep
  <1>4. ~NodeIsToAct'
    BY <1>2 DEF NodeIsToAct
  <1>5. ~IsTimesync(network, tile) => NodeIsToAct
    BY <1>2 DEF NodeIsToAct
  <1>6. absent' = absent /\ node.status = "SENDING_SCHEDULE" => LockedIn
    BY <1>2, <1>3 DEF Lockstep, Live
  \* What is left to show of a node that listens to the master.
  <1>7. ASSUME SameDistribution(node'.header, master.header),
               node'.sendingRounds = master.sendingRounds,
               master.status = "SENDING_SCHEDULE",
               node'.currentSendingRound >= master.currentSendingRound,
               node'.currentSendingRound \in Nat
        PROVE  LockedIn'
    <2>1. SameDistribution(node'.header, master'.header)
      BY <1>2, <1>7 DEF SameDistribution
    <2>2. node'.currentSendingRound + 0 >= master'.currentSendingRound
      BY <1>2, <1>7
    <2> QED BY <1>2, <1>4, <1>7, <2>1, <2>2 DEF LockedIn
  <1>8. CASE NodeReceivesSchedule
    <2> DEFINE h == air.content.header
    <2>1. /\ absent' = absent /\ ~IsTimesync(network, tile) /\ air.type = "schedule"
          /\ NodeTyped(node')
      BY <1>8, ReceivesScheduleEffect
    <2>2. /\ master.status = "SENDING_SCHEDULE" /\ SameDistribution(h, master.header)
          /\ RoundOf(h) + 1 = master.currentSendingRound
          /\ master.sendingRounds = scheduleRepetitions * master.header.totalPacket
      BY <2>1 DEF Master, OnAir, PacketOnAir, Sending
    <2>3. h \in Headers
      BY <2>1 DEF Based, Typed, AirTyped
    <2>4. \/ node.status = "AWAITING_ACTIVATION" /\ node' = node
          \/ /\ node.status = "SENDING_SCHEDULE"
             /\ node'.sendingRounds = node.sendingRounds
             /\ node'.currentSendingRound = node.currentSendingRound + 1
             /\ node'.header = IF SameDistribution(node.header, h) THEN h ELSE node.header
          \/ /\ node'.header = h
             /\ node'.sendingRounds = h.totalPacket * scheduleRepetitions
             /\ node'.currentSendingRound =
                    1 + h.repetition * scheduleRepetitions + h.currentPacket
      BY <1>8, ReceivesScheduleEffect
    <2> HIDE DEF h
    <2>5. node'.currentSendingRound \in Nat
      BY <2>1 DEF NodeTyped
    <2>6. CASE /\ node.status = "SENDING_SCHEDULE"
               /\ node'.sendingRounds = node.sendingRounds
               /\ node'.currentSendingRound = node.currentSendingRound + 1
               /\ node'.header \in {h, node.header}
      <3>1. LockedIn /\ NodeIsToAct
        BY <1>5, <1>6, <2>1, <2>6
      <3>2. /\ SameDistribution(node.header, master.header)
            /\ node.sendingRounds = master.sendingRounds
            /\ node.currentSendingRound + 1 >= master.currentSendingRound
        BY <2>2, <3>1 DEF LockedIn
      <3>3. SameDistribution(node'.header, master.header)
        BY <2>2, <2>6, <3>2
      <3>4. node'.currentSendingRound >= master.currentSendingRound
        BY <2>6, <3>2
      <3> QED BY <1>7, <2>2, <2>5, <2>6, <3>2, <3>3, <3>4
    <2>7. CASE /\ node'.header = h
               /\ node'.sendingRounds = h.totalPacket * scheduleRepetitions
               /\ node'.currentSendingRound =
                      1 + h.repetition * scheduleRepetitions + h.currentPacket
      <3>1. h.totalPacket = master.header.totalPacket /\ h.totalPacket <= scheduleRepetitions
        BY <2>2 DEF SameDistribution, Counted
      <3>2. node'.sendingRounds = master.sendingRounds
        <4>1. scheduleRepetitions \in Nat /\ h.totalPacket \in Nat
          BY <2>3, DistributionAssumption DEF Headers
        <4> DEFINE a == scheduleRepetitions
                   b == h.totalPacket
        <4>2. a * b = b * a
          BY <4>1
        <4> QED BY <2>2, <2>7, <3>1, <4>2
      <3>3. node'.currentSendingRound >= master.currentSendingRound
        BY <2>2, <2>3, <2>7, <3>1, RoundIsCounted
      <3> QED BY <1>7, <2>2, <2>5, <2>7, <3>2, <3>3
    <2> QED BY <1>3, <2>4, <2>6, <2>7
  <1>9. CASE NodeReceivesInfo
    <2>1. absent' = absent /\ air.type = "info" /\ Keeps(node', node)
      BY <1>9, ReceivesInfoEffect DEF record
    <2>2. LockedIn
      BY <1>3, <1>6, <2>1 DEF Keeps
    <2> QED BY <2>1, <2>2 DEF LockedIn, Master, OnAir
  <1>10. CASE NodeReceivesNothing \/ NodeSkips
    <2>1. /\ ~IsTimesync(network, tile) /\ Listens(node) /\ NodeTyped(node')
          /\ node'.status = node.status /\ node'.header = node.header
          /\ node'.sendingRounds = node.sendingRounds
          /\ absent' <=> (absent \/ (~MacCanOperate /\ node.status = "SENDING_SCHEDULE"))
          /\ MacCanOperate /\ node.status = "SENDING_SCHEDULE" =>
                 node'.currentSendingRound = node.currentSendingRound + 1
      BY <1>10, QuietEffect
    <2>2. /\ node.status = "SENDING_SCHEDULE" /\ ~absent
          /\ node'.currentSendingRound = node.currentSendingRound + 1
      BY <1>3, <2>1 DEF Live
    <2>3. LockedIn /\ NodeIsToAct
      BY <1>2, <1>5, <2>1, <2>2 DEF Lockstep, Live
    <2>4. ~(node.currentSendingRound >= node.sendingRounds)
      BY <2>1, <2>2 DEF Listens, SendingIsOver
    <2>5. /\ SameDistribution(node.header, master.header)
          /\ node.sendingRounds = master.sendingRounds
          /\ master.status = "SENDING_SCHEDULE"
          /\ node.currentSendingRound + 1 >= master.currentSendingRound
      BY <2>3, <2>4 DEF LockedIn
    <2>6. node'.currentSendingRound \in Nat /\ node'.currentSendingRound >= master.currentSendingRound
      BY <2>1, <2>2, <2>5 DEF NodeTyped
    <2> QED BY <1>7, <2>1, <2>5, <2>6
  \* In a timesync the node keeps the phase as it is or leaves it.
  <1>11. ASSUME IsTimesync(network, tile), node' = node, absent' = absent PROVE LockedIn'
    <2>1. LockedIn /\ ~NodeIsToAct
      BY <1>3, <1>6, <1>11 DEF NodeIsToAct
    <2>2. /\ SameDistribution(node.header, master.header)
          /\ node.sendingRounds = master.sendingRounds
          /\ master.status = "SENDING_SCHEDULE"
          /\ node.currentSendingRound + 0 >= master.currentSendingRound
      BY <2>1 DEF LockedIn
    <2>3. node.currentSendingRound \in Nat
      BY <1>1 DEF NodeTyped
    <2>4. node.currentSendingRound >= master.currentSendingRound
      BY <2>2, <2>3
    <2> QED BY <1>7, <1>11, <2>2, <2>3, <2>4
  <1>12. ASSUME NEW k, MissedPacket(k), IsTimesync(network, tile) PROVE LockedIn'
    <2>1. Desynchronizes(k) \/ UNCHANGED <<node, record>>
      BY <1>12, MissedEffect
    <2> QED BY <1>3, <1>11, <1>12, <2>1 DEF Desynchronizes, record
  <1>13. CASE NodeHearsTimesync
    <2>1. air.type = "timesync" /\ IsTimesync(network, tile)
      BY <1>1, <1>13 DEF NodeHearsTimesync, NodesTimesync, NodesTurn, TimesyncOnAir
    <2> DEFINE back == RollbackAdvance(HearingKeys)
    <2>2. \/ MissedPacket(back)
          \/ node'.status = "PROCESSING"
          \/ UNCHANGED <<node, record>>
      BY <1>13, <2>1, HearsEffect
    <2> HIDE DEF back
    <2> QED BY <1>3, <1>11, <1>12, <2>1, <2>2 DEF record
  <1>14. CASE NodeMissesTimesync
    BY <1>12, <1>14 DEF NodeMissesTimesync, NodesTimesync
  <1>15. CASE NodeResyncs
    <2>1. air.type = "timesync"
      BY <1>1, <1>15 DEF NodeResyncs, NodesTimesync, NodesTurn, TimesyncOnAir
    <2>2. timesync.status = "DESYNCHRONIZED"
          /\ (node'.status = "PROCESSING" \/ node' = node)
      BY <1>15, <2>1, ResyncsEffect
    <2>3. node.status = "APPLIED_SCHEDULE"
      BY <1>2, <2>2 DEF Paired
    <2> QED BY <1>3, <2>2, <2>3
  <1>16. CASE NodeStaysDesynchronized
    BY <1>11, <1>16 DEF NodeStaysDesynchronized, NodesTimesync, record
  <1>17. ~NodeEndsSending /\ ~NodeProcesses /\ ~NodeExpandsLate /\ ~NodeActivates
    BY <1>3, EndsSendingEffect, ProcessesEffect, ActivatesEffect
  <1> QED BY <1>8, <1>9, <1>10, <1>13, <1>14, <1>15, <1>16, <1>17 DEF NodeStep

LEMMA LockstepNext ==
    ASSUME Based, Master, Paired, Counted, Lockstep, [Next]_vars
    PROVE  Lockstep'
  <1>1. ASSUME UNCHANGED <<master, node, aborted, absent>>, NodeIsToAct' = NodeIsToAct
        PROVE  Lockstep'
    BY <1>1 DEF Lockstep, LockedIn, Live, SameDistribution
  <1>2. CASE NodeUpdatesKeys
    <2> DEFINE u == PeriodicUpdate(keys["node"], ChallengeTimeout)
    <2>1. NextTile /\ turn = "update" /\ UNCHANGED aborted
          /\ (Desynchronizes(u.keys) \/ UNCHANGED <<node, record>>)
      BY <1>2, UpdatesEffect
    <2> HIDE DEF u
    <2>2. CASE Desynchronizes(u.keys)
      BY <2>2 DEF Lockstep, Desynchronizes
    <2>3. CASE UNCHANGED <<node, record>>
      <3>1. UNCHANGED <<master, node, aborted, absent>> /\ NodeIsToAct' = NodeIsToAct
        BY <2>1, <2>3 DEF NextTile, NodeIsToAct, record
      <3> QED BY <1>1, <3>1
    <2> QED BY <2>1, <2>2, <2>3
  <1>3. CASE TileEnds
    <2>1. CASE aborted # "no"
      BY <1>3, <2>1 DEF TileEnds, Lockstep, Live
    <2>2. CASE turn = "update"
      <3>1. UNCHANGED <<master, node, aborted, absent>> /\ NodeIsToAct' = NodeIsToAct
        BY <1>3, <2>2 DEF TileEnds, NextTile, NodeIsToAct, record
      <3> QED BY <1>1, <3>1
    <2> QED BY <1>3, <2>1, <2>2 DEF TileEnds
  <1>4. CASE ChallengeArrives \/ vars' = vars
    <2>1. UNCHANGED <<master, node, aborted, absent>> /\ NodeIsToAct' = NodeIsToAct
      BY <1>4 DEF ChallengeArrives, vars, record, NodeIsToAct
    <2> QED BY <1>1, <2>1
  <1> QED BY <1>2, <1>3, <1>4, LockstepMasterStep, LockstepNodeStep DEF Next

-----------------------------------------------------------------------------
(***************************************************************************)
(* The node's key is not ahead of the master's.                            *)
(***************************************************************************)
\* The indices of the key manager k of a node; it advances only while it
\* verifies a timesync.
KeyOrder(k) ==
    /\ k.status # "ADVANCING"
    /\ Untrusted(k) => k.index <= k.temp
    /\ k.status = "REKEYING_UNTRUSTED" => k.index <= k.next

\* The key that it rekeys to is one the master has taken, or takes in the
\* activation tile that the node n waits for.
NotAheadBy(k, n) ==
    /\ k.status # "DISCONNECTED" => MasterIndex(k) <= keys["master"].index
    /\ RekeyingInProgress(k) =>
         \/ k.next <= keys["master"].index
         \/ /\ k.next = keys["master"].index + 1 /\ Distributing
            /\ n.nextActivationTile = master.header.activationTile

Behind ==
    aborted = "no" =>
        /\ KeyOrder(keys["node"])
        /\ ~absent => NotAheadBy(keys["node"], node)

LEMMA BehindInit ==
    ASSUME Init
    PROVE  Behind
  <1>1. keys["node"] = NewKeyManager("DISCONNECTED")
    BY DEF Init, Roles
  <1> QED BY <1>1 DEF Behind, KeyOrder, NotAheadBy, NewKeyManager, Untrusted, RekeyingInProgress

\* The master's key only goes on, in the activation tile.
LEMMA MasterIndexGrows ==
    ASSUME Based, Master, MasterStep
    PROVE  /\ UNCHANGED <<node, aborted, absent>>
           /\ keys'["node"] = keys["node"]
           /\ keys["master"].index \in Nat
           /\ \/ /\ keys'["master"].index = keys["master"].index
                 /\ Distributing => /\ Distributing'
                                    /\ master'.header.activationTile = master.header.activationTile
              \/ keys'["master"].index = keys["master"].index + 1
  <1>1. /\ keys \in [Roles -> Keys] /\ "master" \in Roles /\ "node" \in Roles
        /\ keys["master"] \in Keys /\ master.header \in Headers
    BY DEF Based, Typed, MasterTyped, Roles
  <1>2. keys["master"].index \in Nat
    BY <1>1, KeyTypes
  <1>3. MastersTurn
    BY DEF MasterStep, MasterBegins, MasterSendsInfo, MasterSendsPacket,
       MasterEndsSending, MasterProcesses, MasterActivates, MasterTimesync, MastersDownlink
  <1>4. UNCHANGED <<node, aborted>>
    BY <1>3 DEF MastersTurn
  <1>5. ASSUME NEW s \in SchedulesToSend, MasterBegins(s)
        PROVE  absent' = absent /\ keys' = keys /\ ~Distributing
    BY <1>5, BeginsEffect DEF Distributing
  <1>6. CASE MasterSendsPacket
    <2>1. absent' = absent /\ keys' = keys /\ master.status = "SENDING_SCHEDULE"
          /\ master'.status = master.status /\ master'.header = NextPacket(master.header)
      BY <1>6, SendsPacketEffect DEF record
    <2>2. NextPacket(master.header).activationTile = master.header.activationTile
      BY <1>1, NextPacketFacts
    <2> QED BY <1>2, <1>4, <2>1, <2>2 DEF Distributing
  <1>7. CASE MasterSendsInfo \/ MasterProcesses \/ MasterTimesync
    <2>1. absent' = absent /\ keys' = keys /\ master'.header = master.header
          /\ (Distributing => master'.status # "APPLIED_SCHEDULE")
      BY <1>7, SendsInfoEffect, MasterProcessesEffect, MasterTimesyncEffect DEF record, Distributing
    <2> QED BY <1>2, <1>4, <2>1 DEF Distributing
  <1>8. CASE MasterEndsSending
    <2> DEFINE k == MasterStartRekeying(keys["master"])
    <2>1. absent' = absent /\ keys' = [keys EXCEPT !["master"] = k]
          /\ master'.status = "PROCESSING" /\ master'.header = master.header
      BY <1>8, MasterEndsSendingEffect DEF record
    <2>2. k \in Keys /\ k.index = keys["master"].index
      BY <1>1, RekeyingFacts
    <2> HIDE DEF k
    <2>3. keys'["master"] = k /\ keys'["node"] = keys["node"]
      BY <1>1, <2>1, <2>2
    <2> QED BY <1>2, <1>4, <2>1, <2>2, <2>3 DEF Distributing
  <1>9. CASE MasterActivates
    <2> DEFINE k == MasterApplyRekeying(keys["master"])
    <2>1. absent' = absent /\ keys' = [keys EXCEPT !["master"] = k] /\ MasterRekeys
      BY <1>9, MasterActivatesEffect DEF record, MasterRekeys
    <2>2. k \in Keys /\ k.index = keys["master"].index + 1
      BY <1>1, <2>1, RekeyingFacts DEF Master, MasterKeys
    <2> HIDE DEF k
    <2>3. keys'["master"] = k /\ keys'["node"] = keys["node"]
      BY <1>1, <2>1, <2>2
    <2> QED BY <1>2, <1>4, <2>1, <2>2, <2>3
  <1>10. ASSUME NEW s \in SchedulesToSend, MasterBegins(s)
         PROVE  /\ absent' = absent /\ keys'["node"] = keys["node"]
                /\ keys'["master"].index = keys["master"].index /\ ~Distributing
    BY <1>5, <1>10
  <1> QED BY <1>2, <1>4, <1>6, <1>7, <1>8, <1>9, <1>10 DEF MasterStep

LEMMA BehindMasterStep ==
    ASSUME Based, Master, Behind, MasterStep
    PROVE  Behind'
  <1> DEFINE k == keys["node"]
             i == keys["master"].index
             j == keys'["master"].index
  <1>1. k \in Keys /\ k.next \in Nat /\ MasterIndex(k) \in Nat
    BY KeyTypes DEF Based, Typed, Roles
  <1>2. /\ UNCHANGED <<node, aborted, absent>> /\ keys'["node"] = k /\ i \in Nat
        /\ \/ /\ j = i
              /\ Distributing => /\ Distributing'
                                 /\ master'.header.activationTile = master.header.activationTile
           \/ j = i + 1
    BY MasterIndexGrows
  <1>3. ASSUME NotAheadBy(k, node) PROVE NotAheadBy(k, node)'
    <2>1. /\ k.status # "DISCONNECTED" => MasterIndex(k) <= i
          /\ RekeyingInProgress(k) =>
               \/ k.next <= i
               \/ /\ k.next = i + 1 /\ Distributing
                  /\ node.nextActivationTile = master.header.activationTile
      BY <1>3 DEF NotAheadBy
    <2>2. /\ k'.status # "DISCONNECTED" => MasterIndex(k') <= j
          /\ RekeyingInProgress(k') =>
               \/ k'.next <= j
               \/ /\ k'.next = j + 1 /\ Distributing'
                  /\ node'.nextActivationTile = master'.header.activationTile
      <3> HIDE DEF i, j
      <3>1. k' = k
        BY <1>2
      <3> HIDE DEF k
      <3> QED BY <1>1, <1>2, <2>1, <3>1
    <2> QED BY <2>2 DEF NotAheadBy
  <1>4. KeyOrder(k) => KeyOrder(k)'
    BY <1>2 DEF KeyOrder
  <1> QED BY <1>2, <1>3, <1>4 DEF Behind

\* A key manager that goes on as it was, or that is about to leave.
LEMMA BehindStays ==
    ASSUME Based, Behind, aborted = "no", UNCHANGED <<master, absent>>,
           keys'["master"] = keys["master"], keys'["node"] = keys["node"],
           node'.nextActivationTile = node.nextActivationTile
    PROVE  Behind'
  <1> DEFINE k == keys["node"]
  <1>1. KeyOrder(k) /\ k' = k
    BY DEF Behind
  <1>2. KeyOrder(k)'
    BY <1>1 DEF KeyOrder
  <1>3. NotAheadBy(k, node) => NotAheadBy(k, node)'
    BY <1>1 DEF NotAheadBy, Distributing
  <1> QED BY <1>2, <1>3 DEF Behind

LEMMA BehindDisconnected ==
    ASSUME keys'["node"].status = "DISCONNECTED"
    PROVE  Behind'
  BY DEF Behind, KeyOrder, NotAheadBy, Untrusted, RekeyingInProgress

\* A node that has heard a timesync has the master's key, or is left as it is.
LEMMA HearingFacts ==
    ASSUME Based, Master, Behind, aborted = "no",
           air.type = "timesync",
           keys["node"].status \in
               {"CONNECTED", "MASTER_UNTRUSTED", "REKEYING", "REKEYING_UNTRUSTED"}
    PROVE  LET synced == CommitAdvance(HearingKeys)
               back == RollbackAdvance(HearingKeys)
           IN  /\ synced \in Keys /\ back \in Keys
               /\ KeyOrder(synced) /\ KeyOrder(back)
               /\ MasterIndex(HearingKeys) = air.masterIndex =>
                      MasterIndex(synced) = keys["master"].index
               /\ ~absent => NotAheadBy(back, node)
               /\ ~absent /\ MasterIndex(HearingKeys) = air.masterIndex =>
                      NotAheadBy(synced, node)
  <1> DEFINE k == keys["node"]
             i == keys["master"].index
             h == HearingKeys
             synced == CommitAdvance(h)
             back == RollbackAdvance(h)
  <1>1. k \in Keys /\ k.index \in Nat /\ k.temp \in Nat /\ k.next \in Nat /\ MasterIndex(k) \in Nat
    BY KeyTypes DEF Based, Typed, Roles
  <1>2. air.masterIndex = i
    BY DEF Master, OnAir, Silence
  <1>3. /\ KeyOrder(k) /\ (~absent => NotAheadBy(k, node))
        /\ k.status \in {"CONNECTED", "MASTER_UNTRUSTED", "REKEYING", "REKEYING_UNTRUSTED"}
    BY DEF Behind
  <1>4. h = IF i = MasterIndex(k) + 1 THEN Advance(k) ELSE k
    BY <1>2 DEF HearingKeys
  <1>5. h \in Keys
    BY <1>1, <1>4, AdvanceFacts
  <1> HIDE DEF k, i, h
  <1>6. CASE k.status \in {"REKEYING", "REKEYING_UNTRUSTED"} \/ i # MasterIndex(k) + 1
    <2>1. h = k
      BY <1>4, <1>6 DEF Advance
    <2>2. synced = k /\ back = k
      BY <1>3, <2>1 DEF CommitAdvance, RollbackAdvance
    <2> QED BY <1>1, <1>2, <1>3, <2>1, <2>2 DEF h, k, i
  <1>7. CASE k.status = "CONNECTED" /\ i = MasterIndex(k) + 1
    <2>1. /\ h.status = "ADVANCING" /\ h.index = k.index /\ h.temp = k.index + 1
          /\ MasterIndex(k) = k.index
      BY <1>1, <1>4, <1>7, AdvanceFacts DEF MasterIndex, Untrusted
    <2>2. /\ synced \in Keys /\ synced.status = "CONNECTED" /\ synced.index = i
          /\ back \in Keys /\ back.status = "CONNECTED" /\ back.index = k.index
      BY <1>5, <1>7, <2>1, AdvanceFacts
    <2> HIDE DEF synced, back
    <2>3. KeyOrder(synced) /\ KeyOrder(back) /\ MasterIndex(synced) = i
          /\ ~RekeyingInProgress(synced) /\ ~RekeyingInProgress(back)
          /\ MasterIndex(back) = k.index
      BY <2>2 DEF KeyOrder, Untrusted, MasterIndex, RekeyingInProgress
    <2>4. i \in Nat /\ k.index <= i
      BY <1>1, <1>7, <2>1
    <2> QED BY <2>2, <2>3, <2>4 DEF NotAheadBy, synced, back, h, i
  <1>8. CASE k.status = "MASTER_UNTRUSTED" /\ i = MasterIndex(k) + 1
    <2>1. /\ h.status = "MASTER_UNTRUSTED" /\ h.index = k.index /\ h.temp = i
          /\ MasterIndex(k) = k.temp /\ k.index <= k.temp
      BY <1>1, <1>3, <1>4, <1>8, AdvanceFacts DEF MasterIndex, Untrusted, KeyOrder
    <2>2. synced = h /\ back = h
      BY <2>1 DEF CommitAdvance, RollbackAdvance
    <2>3. i \in Nat /\ h.index <= h.temp
      BY <1>1, <1>8, <2>1
    <2>4. KeyOrder(h) /\ MasterIndex(h) = i /\ ~RekeyingInProgress(h)
      BY <2>1, <2>3 DEF KeyOrder, Untrusted, MasterIndex, RekeyingInProgress
    <2> QED BY <1>5, <2>2, <2>3, <2>4 DEF NotAheadBy, h, i
  <1> QED BY <1>3, <1>6, <1>7, <1>8

\* Rekeying, a node takes the key after its own.
LEMMA RekeyingOrder ==
    ASSUME Based, NEW q \in Keys, KeyOrder(q), CanStartRekeying(q)
    PROVE  LET r == StartRekeying(q)
           IN  /\ r \in Keys /\ KeyOrder(r) /\ MasterIndex(r) = MasterIndex(q)
               /\ r.status \in {"REKEYING", "REKEYING_UNTRUSTED"} /\ r.next = MasterIndex(q) + 1
  <1> DEFINE r == StartRekeying(q)
  <1>1. /\ r \in Keys /\ r.index = q.index /\ r.temp = q.temp /\ r.next = MasterIndex(q) + 1
        /\ r.status = IF q.status = "CONNECTED" THEN "REKEYING" ELSE "REKEYING_UNTRUSTED"
    BY RekeyingFacts
  <1>2. q.index \in Nat /\ q.temp \in Nat
    BY KeyTypes
  <1> HIDE DEF r
  <1>3. CASE q.status = "CONNECTED"
    BY <1>1, <1>3 DEF KeyOrder, Untrusted, MasterIndex, r
  <1>4. CASE q.status = "MASTER_UNTRUSTED"
    <2>1. q.index <= q.temp /\ r.status = "REKEYING_UNTRUSTED" /\ r.next = q.temp + 1
      BY <1>1, <1>4 DEF KeyOrder, Untrusted, MasterIndex
    <2> QED BY <1>1, <1>2, <1>4, <2>1 DEF KeyOrder, Untrusted, MasterIndex, r
  <1> QED BY <1>3, <1>4 DEF CanStartRekeying

\* A node never gets to the activation tile before the master, which acts first.
LEMMA BeforeActivation ==
    ASSUME Based, InTime, turn = "node", Distributing
    PROVE  tile < master.header.activationTile
  <1>1. /\ tile \in Nat /\ tile + 1 \in Nat /\ network \in Networks
        /\ master.status \in {"SENDING_SCHEDULE", "PROCESSING", "AWAITING_ACTIVATION"}
        /\ master.header.activationTile \in Nat /\ MastersTile = tile + 1
    BY MasterNumbers DEF Based, Typed, MasterTyped, MasterStatus, Distributing, MastersTile
  <1>2. CASE master.status \in {"SENDING_SCHEDULE", "PROCESSING"}
    <2>1. /\ Needed \in Int /\ Needed >= 1
          /\ Free(network, master.header.activationTile) - Free(network, tile + 1) >= Needed
      BY <1>1, <1>2, MasterNumbers DEF InTime, EnoughDownlinks, Needed
    <2>2. Free(network, tile + 1) \in Int
      BY <1>1, NetworkFacts, FreeNext
    <2>3. Free(network, master.header.activationTile) - Free(network, tile + 1) >= 1
      BY <2>1, <2>2, MasterNumbers
    <2>4. tile + 1 < master.header.activationTile
      BY <1>1, <2>3, NeededIsBefore
    <2> QED BY <1>1, <2>4
  <1>3. CASE master.status = "AWAITING_ACTIVATION"
    BY <1>1, <1>3 DEF InTime
  <1> QED BY <1>1, <1>2, <1>3

\* What a step may do to the node's keys.
KeysStep ==
    \/ keys'["node"] = keys["node"]
    \/ /\ aborted = "no" /\ keys'["node"].status = "DISCONNECTED"
       /\ keys'["node"].index = keys["node"].index
    \/ aborted' = "no" /\ absent' = absent /\ keys'["node"].status # "DISCONNECTED"

LEMMA BehindNodeStep ==
    ASSUME Based, Master, Paired, InTime, Lockstep, Behind, NodeStep
    PROVE  Behind' /\ KeysStep
  <1> DEFINE k == keys["node"]
             i == keys["master"].index
             Goal == Behind' /\ KeysStep
  <1>1. /\ NodesTurn /\ TimesyncOnAir /\ NodeTyped(node) /\ MasterTyped(master)
        /\ k \in Keys /\ keys \in [Roles -> Keys] /\ "node" \in Roles /\ i \in Nat
        /\ k.next \in Nat /\ MasterIndex(k) \in Nat
    BY NodeStepTurn, KeyTypes DEF Master, OnAir, Based, Typed, Roles
  <1>2. /\ turn = "node" /\ turn' = "update" /\ aborted = "no"
        /\ UNCHANGED <<network, tile, air, master>>
    BY <1>1 DEF NodesTurn
  <1>3. keys'["master"] = keys["master"]
    BY <1>1, MasterIsKept
  <1>4. KeyOrder(k) /\ (~absent => NotAheadBy(k, node))
    BY <1>2 DEF Behind
  <1>5. timesync.status # "DESYNCHRONIZED" => PairedKeys(k, node)
    BY <1>2 DEF Paired
  <1>6. ASSUME keys' = keys, node'.nextActivationTile = node.nextActivationTile, absent' = absent
        PROVE  Goal
    BY <1>2, <1>3, <1>6, BehindStays DEF KeysStep
  <1>7. ASSUME NEW q \in Keys, keys' = [keys EXCEPT !["node"] = q],
               q.status = "DISCONNECTED", q.index = k.index
        PROVE  Goal
    <2>1. keys'["node"] = q
      BY <1>1, <1>7, KeysUpdate
    <2> QED BY <1>2, <1>7, <2>1, BehindDisconnected DEF KeysStep
  <1>8. ASSUME NEW q \in Keys, keys' = [keys EXCEPT !["node"] = q], KeyOrder(q),
               q.status # "DISCONNECTED",
               ~absent => /\ MasterIndex(q) <= i
                          /\ RekeyingInProgress(q) =>
                               \/ q.next <= i
                               \/ /\ q.next = i + 1 /\ Distributing
                                  /\ node'.nextActivationTile = master.header.activationTile,
               aborted' = "no", absent' = absent
        PROVE  Goal
    <2>1. keys'["node"] = q
      BY <1>1, <1>8, KeysUpdate
    <2>2. KeyOrder(k)'
      BY <1>8, <2>1 DEF KeyOrder
    <2>3. ~absent => NotAheadBy(k, node)'
      BY <1>2, <1>3, <1>8, <2>1 DEF NotAheadBy, Distributing
    <2> QED BY <1>8, <2>2, <2>3 DEF Behind, KeysStep
  <1> SUFFICES Goal
    OBVIOUS
  <1> HIDE DEF Goal
  <1>9. CASE NodeEndsSending
    <2> DEFINE q == StartRekeying(k)
    <2>1. /\ timesync' = timesync /\ absent' = absent /\ node.status = "SENDING_SCHEDULE"
          /\ keys' = [keys EXCEPT !["node"] = q]
          /\ aborted' = IF CanStartRekeying(k) THEN aborted ELSE "startRekeying"
          /\ node'.nextActivationTile = node.header.activationTile
      BY <1>9, EndsSendingEffect DEF SendingIsOver, record
    <2>2. CanStartRekeying(k) /\ k.status # "DISCONNECTED"
      <3>1. timesync.status # "DESYNCHRONIZED"
        BY <1>2, <2>1 DEF Paired
      <3>2. PairedKeys(k, node)
        BY <1>5, <3>1
      <3> HIDE DEF k
      <3> QED BY <2>1, <3>2 DEF PairedKeys, RekeyingInProgress, NodeRekeys, CanStartRekeying
    <2>3. /\ q \in Keys /\ KeyOrder(q) /\ MasterIndex(q) = MasterIndex(k)
          /\ q.next = MasterIndex(k) + 1 /\ q.status # "DISCONNECTED"
      BY <1>1, <1>4, <2>2, RekeyingOrder
    <2> HIDE DEF q
    <2>4. ~absent => /\ MasterIndex(k) <= i /\ Distributing
                     /\ node'.nextActivationTile = master.header.activationTile
      <3>1. ~absent => LockedIn
        BY <1>2, <2>1 DEF Lockstep, Live
      <3>2. LockedIn => /\ Distributing
                        /\ node.header.activationTile = master.header.activationTile
        BY DEF LockedIn, Distributing, SameDistribution
      <3>3. ~absent => MasterIndex(k) <= i
        BY <1>4, <2>2 DEF NotAheadBy
      <3> QED BY <2>1, <3>1, <3>2, <3>3
    <2>5. MasterIndex(k) <= i => MasterIndex(k) + 1 <= i \/ MasterIndex(k) + 1 = i + 1
      <3> DEFINE m == MasterIndex(k)
      <3>1. m \in Nat /\ i \in Nat
        BY <1>1
      <3> HIDE DEF m, i
      <3>2. m <= i => m + 1 <= i \/ m + 1 = i + 1
        BY <3>1
      <3> QED BY <3>2 DEF m, i
    <2>6. aborted' = "no"
      BY <1>2, <2>1, <2>2
    <2> HIDE DEF k, i
    <2> QED BY <1>8, <2>1, <2>3, <2>4, <2>5, <2>6
  <1>10. CASE NodeProcesses \/ NodeExpandsLate
    <2>1. keys' = keys /\ node'.nextActivationTile = node.nextActivationTile /\ absent' = absent
      BY <1>10, ProcessesEffect DEF record
    <2> QED BY <1>6, <2>1
  <1>11. CASE NodeActivates
    <2> DEFINE q == ApplyRekeying(k)
    <2>1. /\ timesync' = timesync /\ absent' = absent /\ NodeRekeys(node)
          /\ tile >= node.nextActivationTile
          /\ keys' = [keys EXCEPT !["node"] = q]
          /\ aborted' = IF CanApplyRekeying(k) THEN aborted ELSE "applyRekeying"
      BY <1>11, ActivatesEffect DEF NodeRekeys, record
    <2>2. k.status \in {"REKEYING", "REKEYING_UNTRUSTED"}
      <3>1. timesync.status # "DESYNCHRONIZED"
        BY <1>2, <2>1 DEF Paired, NodeRekeys
      <3>2. PairedKeys(k, node)
        BY <1>5, <3>1
      <3> HIDE DEF k
      <3> QED BY <2>1, <3>2 DEF PairedKeys, RekeyingInProgress
    <2>3. /\ q \in Keys
          /\ q.status = IF k.status = "REKEYING" THEN "CONNECTED" ELSE "MASTER_UNTRUSTED"
          /\ q.index = IF k.status = "REKEYING" THEN k.next ELSE k.index
          /\ q.temp = IF k.status = "REKEYING" THEN k.temp ELSE k.next
      BY <1>1, RekeyingFacts
    <2> HIDE DEF q
    <2>4. KeyOrder(q) /\ MasterIndex(q) = k.next /\ ~RekeyingInProgress(q)
      BY <1>4, <2>2, <2>3 DEF KeyOrder, Untrusted, MasterIndex, RekeyingInProgress
    <2>5. ~absent => k.next <= i
      <3>1. ~(Distributing /\ node.nextActivationTile = master.header.activationTile)
        <4>1. Distributing => tile < master.header.activationTile
          BY <1>2, BeforeActivation
        <4>2. tile \in Nat /\ master.header.activationTile \in Nat
          BY MasterNumbers
        <4> QED BY <2>1, <4>1, <4>2
      <3>2. RekeyingInProgress(k)
        BY <2>2 DEF RekeyingInProgress
      <3> QED BY <1>4, <3>1, <3>2 DEF NotAheadBy
    <2>6. aborted' = "no"
      BY <1>2, <2>1, <2>2 DEF CanApplyRekeying, RekeyingInProgress
    <2> HIDE DEF k, i
    <2> QED BY <1>8, <2>1, <2>3, <2>4, <2>5, <2>6
  <1>12. CASE NodeReceivesSchedule
    <2>1. keys' = keys /\ node'.nextActivationTile = node.nextActivationTile /\ absent' = absent
      BY <1>12, ReceivesScheduleEffect
    <2> QED BY <1>6, <2>1
  <1>13. CASE NodeReceivesInfo
    <2>1. absent' = absent /\ node'.nextActivationTile = node.nextActivationTile
      BY <1>13, ReceivesInfoEffect DEF record, Keeps
    <2>2. CASE keys' = keys
      BY <1>6, <2>1, <2>2
    <2>3. ASSUME NEW r, keys' = [keys EXCEPT !["node"] = HandleResponse(k, r)],
                 aborted' = IF CanVerifyResponse(k) THEN aborted ELSE "verifyResponse"
          PROVE  Goal
      <3> DEFINE q == HandleResponse(k, r)
      <3>1. q \in Keys
        BY <1>1, ResponseFacts
      <3>2. CASE q.status = "DISCONNECTED" /\ q.index = k.index
        BY <1>7, <2>3, <3>1, <3>2
      <3>3. CASE q = CommitResync(k)
        <4>1. /\ q.status = CASE k.status = "MASTER_UNTRUSTED" -> "CONNECTED"
                              [] k.status = "REKEYING_UNTRUSTED" -> "REKEYING"
                              [] OTHER -> "DISCONNECTED"
              /\ q.index = IF Untrusted(k) THEN k.temp ELSE k.index
              /\ q.next = k.next
          <5>1. 0 \in Nat
            OBVIOUS
          <5> QED BY <1>1, <3>3, <5>1, ResyncFacts
        <4>2. keys' = [keys EXCEPT !["node"] = q]
          BY <2>3
        <4> HIDE DEF q
        <4>3. CASE ~Untrusted(k)
          BY <1>7, <3>1, <4>1, <4>2, <4>3 DEF Untrusted
        <4>4. CASE Untrusted(k)
          <5>1. /\ KeyOrder(q) /\ MasterIndex(q) = MasterIndex(k)
                /\ q.status # "DISCONNECTED"
                /\ RekeyingInProgress(q) <=> RekeyingInProgress(k)
            BY <4>1, <4>4 DEF KeyOrder, Untrusted, MasterIndex, RekeyingInProgress
          <5>2. k.status # "DISCONNECTED" /\ CanVerifyResponse(k)
            BY <4>4 DEF Untrusted, CanVerifyResponse
          <5>3. ~absent => /\ MasterIndex(k) <= i
                           /\ RekeyingInProgress(k) =>
                                \/ k.next <= i
                                \/ /\ k.next = i + 1 /\ Distributing
                                   /\ node.nextActivationTile = master.header.activationTile
            BY <1>4, <5>2 DEF NotAheadBy
          <5>4. aborted' = "no"
            BY <1>2, <2>3, <5>2
          <5> HIDE DEF k, i
          <5> QED BY <1>8, <2>1, <3>1, <4>1, <4>2, <5>1, <5>3, <5>4
        <4> QED BY <4>3, <4>4
      <3> QED BY <1>1, <3>2, <3>3, ResponseFacts
    <2>4. \/ keys' = keys
          \/ /\ \E r \in air.content : keys' = [keys EXCEPT !["node"] = HandleResponse(k, r)]
             /\ aborted' = IF CanVerifyResponse(k) THEN aborted ELSE "verifyResponse"
      BY <1>13, ReceivesInfoEffect
    <2> QED BY <2>2, <2>3, <2>4
  <1>14. CASE NodeReceivesNothing \/ NodeSkips
    <2>1. /\ keys' = keys /\ aborted' = aborted
          /\ node'.nextActivationTile = node.nextActivationTile /\ (absent => absent')
      <3>1. absent' <=> (absent \/ (~MacCanOperate /\ node.status = "SENDING_SCHEDULE"))
        BY <1>14, QuietEffect
      <3>2. /\ keys' = keys /\ aborted' = aborted
            /\ node'.nextActivationTile = node.nextActivationTile
        BY <1>14, QuietEffect
      <3> HIDE DEF MacCanOperate
      <3> QED BY <3>1, <3>2
    <2>2. KeyOrder(k)' /\ (~absent' => NotAheadBy(k, node)')
      BY <1>2, <1>4, <2>1 DEF KeyOrder, NotAheadBy, Distributing
    <2> QED BY <2>1, <2>2 DEF Behind, KeysStep, Goal
  \* A timesync that is missed or bad.
  <1>15. ASSUME NEW q \in Keys, q.index = k.index, KeyOrder(q), ~absent => NotAheadBy(q, node),
                q.status # "DISCONNECTED", MissedPacket(q), UNCHANGED aborted
         PROVE  Goal
    <2>1. CASE Desynchronizes(q)
      <3> DEFINE d == DesyncKeys(q)
      <3>1. d \in Keys /\ d.status = "DISCONNECTED" /\ d.index = k.index
        <4>1. 0 \in Nat
          OBVIOUS
        <4> QED BY <1>15, <4>1, ResyncFacts
      <3>2. keys' = [keys EXCEPT !["node"] = d]
        BY <2>1 DEF Desynchronizes
      <3> HIDE DEF d
      <3> QED BY <1>7, <3>1, <3>2
    <2>2. CASE UNCHANGED <<node, record>> /\ keys' = [keys EXCEPT !["node"] = q]
      <3>1. node'.nextActivationTile = node.nextActivationTile /\ absent' = absent
            /\ aborted' = "no"
        BY <1>2, <1>15, <2>2 DEF record
      <3>2. ~absent => /\ MasterIndex(q) <= i
                       /\ RekeyingInProgress(q) =>
                            \/ q.next <= i
                            \/ /\ q.next = i + 1 /\ Distributing
                               /\ node.nextActivationTile = master.header.activationTile
        BY <1>15 DEF NotAheadBy
      <3> HIDE DEF k, i
      <3> QED BY <1>8, <1>15, <2>2, <3>1, <3>2
    <2> QED BY <1>15, <2>1, <2>2, MissedEffect
  <1>16. CASE NodeHearsTimesync
    <2> DEFINE synced == CommitAdvance(HearingKeys)
               back == RollbackAdvance(HearingKeys)
    <2>1. air.type = "timesync" /\ timesync.status # "DESYNCHRONIZED"
      BY <1>1, <1>16 DEF NodeHearsTimesync, NodesTimesync, NodesTurn, TimesyncOnAir
    <2>2. k.status \in {"CONNECTED", "MASTER_UNTRUSTED", "REKEYING", "REKEYING_UNTRUSTED"}
      BY <1>5, <2>1 DEF PairedKeys
    <2>3. /\ synced \in Keys /\ back \in Keys /\ KeyOrder(synced) /\ KeyOrder(back)
          /\ MasterIndex(HearingKeys) = air.masterIndex => MasterIndex(synced) = i
          /\ ~absent => NotAheadBy(back, node)
          /\ ~absent /\ MasterIndex(HearingKeys) = air.masterIndex => NotAheadBy(synced, node)
      BY <1>2, <2>1, <2>2, HearingFacts
    <2>4. /\ back.index = k.index
          /\ back.status \in {"CONNECTED", "MASTER_UNTRUSTED", "REKEYING", "REKEYING_UNTRUSTED"}
          /\ synced.status \in {"CONNECTED", "MASTER_UNTRUSTED", "REKEYING", "REKEYING_UNTRUSTED"}
      <3>1. /\ HearingKeys \in Keys /\ HearingKeys.index = k.index
            /\ HearingKeys.status \in {"CONNECTED", "MASTER_UNTRUSTED", "REKEYING",
                                       "REKEYING_UNTRUSTED", "ADVANCING"}
        BY <1>1, <2>2, AdvanceFacts DEF HearingKeys
      <3> QED BY <3>1, AdvanceFacts
    <2>5. air.activationTile # 0 =>
             Distributing /\ air.activationTile = master.header.activationTile
      BY <2>1 DEF Master, OnAir, MasterRekeys, Distributing
    <2>6. \/ MissedPacket(back) /\ UNCHANGED aborted
          \/ /\ UNCHANGED record /\ MasterIndex(HearingKeys) = air.masterIndex
             /\ MustForce(synced)
             /\ keys' = [keys EXCEPT !["node"] = StartRekeying(synced)]
             /\ node'.nextActivationTile = air.activationTile
             /\ aborted' = IF CanStartRekeying(synced) THEN aborted ELSE "startRekeying"
          \/ /\ UNCHANGED record /\ MasterIndex(HearingKeys) = air.masterIndex
             /\ keys' = [keys EXCEPT !["node"] = synced] /\ UNCHANGED <<node, aborted>>
      BY <1>16, <2>1, HearsEffect
    <2> HIDE DEF synced, back
    <2>7. CASE MissedPacket(back) /\ UNCHANGED aborted
      <3> HIDE DEF k
      <3> QED BY <1>15, <2>3, <2>4, <2>7
    <2>8. CASE /\ UNCHANGED record /\ MasterIndex(HearingKeys) = air.masterIndex
               /\ MustForce(synced)
               /\ keys' = [keys EXCEPT !["node"] = StartRekeying(synced)]
               /\ node'.nextActivationTile = air.activationTile
               /\ aborted' = IF CanStartRekeying(synced) THEN aborted ELSE "startRekeying"
      <3> DEFINE q == StartRekeying(synced)
      <3>1. CanStartRekeying(synced) /\ air.activationTile # 0
        BY <2>4, <2>8 DEF MustForce, RekeyingInProgress, CanStartRekeying
      <3>2. /\ q \in Keys /\ KeyOrder(q) /\ MasterIndex(q) = i /\ q.next = i + 1
            /\ q.status # "DISCONNECTED"
        BY <2>3, <2>8, <3>1, RekeyingOrder
      <3>3. keys' = [keys EXCEPT !["node"] = q] /\ aborted' = "no" /\ absent' = absent
        BY <1>2, <2>8, <3>1 DEF record
      <3>4. Distributing /\ node'.nextActivationTile = master.header.activationTile
        BY <2>5, <2>8, <3>1
      <3>5. MasterIndex(q) <= i
        BY <1>1, <3>2
      <3> HIDE DEF q, i, k
      <3> QED BY <1>8, <3>2, <3>3, <3>4, <3>5
    <2>9. CASE /\ UNCHANGED record /\ MasterIndex(HearingKeys) = air.masterIndex
               /\ keys' = [keys EXCEPT !["node"] = synced] /\ UNCHANGED <<node, aborted>>
      <3>1. ~absent => /\ MasterIndex(synced) <= i
                       /\ RekeyingInProgress(synced) =>
                            \/ synced.next <= i
                            \/ /\ synced.next = i + 1 /\ Distributing
                               /\ node.nextActivationTile = master.header.activationTile
        BY <2>3, <2>4, <2>9 DEF NotAheadBy
      <3>2. aborted' = "no" /\ absent' = absent /\ node' = node
        BY <1>2, <2>9 DEF record
      <3> HIDE DEF i, k
      <3> QED BY <1>8, <2>3, <2>4, <2>9, <3>1, <3>2
    <2> QED BY <2>6, <2>7, <2>8, <2>9
  <1>17. CASE NodeMissesTimesync
    <2>1. timesync.status # "DESYNCHRONIZED" /\ MissedPacket(k) /\ UNCHANGED aborted
      BY <1>17 DEF NodeMissesTimesync
    <2>2. k.status # "DISCONNECTED"
      BY <1>5, <2>1 DEF PairedKeys
    <2> QED BY <1>1, <1>4, <1>15, <2>1, <2>2
  <1>18. CASE NodeResyncs
    <2> DEFINE t == air.masterIndex
               a == AttemptResync(k, t)
               forced == IF MustForce(a) THEN StartRekeying(a) ELSE a
               q == IF network.doMasterChallenge THEN SendChallenge(forced)
                    ELSE CommitResync(forced)
    <2>1. air.type = "timesync"
      BY <1>1, <1>18 DEF NodeResyncs, NodesTimesync, NodesTurn, TimesyncOnAir
    <2>2. t = i
      BY <2>1 DEF Master, OnAir, Silence
    <2>3. /\ timesync.status = "DESYNCHRONIZED" /\ a.status = "MASTER_UNTRUSTED"
          /\ aborted' = aborted /\ absent' = absent
          /\ keys' = [keys EXCEPT !["node"] = q]
          /\ MustForce(a) => node'.nextActivationTile = air.activationTile
      BY <1>18, <2>1, ResyncsEffect DEF record
    <2>4. k.status = "DISCONNECTED"
      BY <1>2, <2>3 DEF Paired
    <2>5. air.activationTile # 0 =>
             Distributing /\ air.activationTile = master.header.activationTile
      BY <2>1 DEF Master, OnAir, MasterRekeys, Distributing
    <2> HIDE DEF t
    <2>6. a \in Keys /\ a.temp = i /\ a.index = k.index /\ k.index <= i
      <3>1. t \in Nat
        BY <1>1, <2>2
      <3>2. AttemptResync(k, t) \in Keys /\ AttemptResync(k, t).index = k.index
        <4>1. AttemptResync(k, t) \in Keys
          BY <1>1, <3>1, ResyncFacts
        <4>2. AttemptResync(k, t).index = k.index
          <5> HIDE DEF k
          <5> QED BY <1>1, <3>1, ResyncFacts
        <4> QED BY <4>1, <4>2
      <3>3. AttemptResync(k, t).temp = t /\ k.index <= t
        <4>1. AttemptResync(k, t).status = "MASTER_UNTRUSTED" =>
                 \/ k.status = "MASTER_UNTRUSTED"
                 \/ AttemptResync(k, t).temp = t /\ k.index <= t
          <5> HIDE DEF k
          <5> QED BY <1>1, <3>1, ResyncFacts
        <4> QED BY <2>3, <2>4, <4>1
      <3> QED BY <2>2, <3>2, <3>3
    <2> HIDE DEF a
    <2>7. KeyOrder(a) /\ MasterIndex(a) = i /\ CanStartRekeying(a)
      BY <2>3, <2>6 DEF KeyOrder, Untrusted, MasterIndex, CanStartRekeying
    <2>8. /\ forced \in Keys /\ KeyOrder(forced) /\ MasterIndex(forced) = i
          /\ forced.status = IF MustForce(a) THEN "REKEYING_UNTRUSTED" ELSE "MASTER_UNTRUSTED"
          /\ MustForce(a) => forced.next = i + 1
      <3>1. /\ StartRekeying(a) \in Keys /\ KeyOrder(StartRekeying(a))
            /\ MasterIndex(StartRekeying(a)) = i /\ StartRekeying(a).next = i + 1
            /\ StartRekeying(a).status = "REKEYING_UNTRUSTED"
        BY <2>3, <2>6, <2>7, RekeyingOrder, RekeyingFacts
      <3> QED BY <2>3, <2>6, <2>7, <3>1
    <2> HIDE DEF forced
    <2>9. /\ q \in Keys /\ KeyOrder(q) /\ MasterIndex(q) = i /\ q.next = forced.next
          /\ q.status # "DISCONNECTED"
          /\ RekeyingInProgress(q) => MustForce(a)
      <3>0. 0 \in Nat
        OBVIOUS
      <3>1. CASE network.doMasterChallenge
        <4>1. /\ q \in Keys /\ q.status = forced.status /\ q.index = forced.index
              /\ q.temp = forced.temp /\ q.next = forced.next
          BY <2>8, <3>0, <3>1, ResyncFacts
        <4> HIDE DEF q
        <4> QED BY <2>8, <4>1 DEF KeyOrder, Untrusted, MasterIndex, RekeyingInProgress
      <3>2. CASE ~network.doMasterChallenge
        <4>1. /\ q \in Keys /\ q.index = forced.temp /\ q.temp = forced.temp
              /\ q.next = forced.next
              /\ q.status = IF MustForce(a) THEN "REKEYING" ELSE "CONNECTED"
          <5>1. Untrusted(forced)
            BY <2>8 DEF Untrusted
          <5> QED BY <2>8, <3>0, <3>2, <5>1, ResyncFacts
        <4>2. forced.temp = i
          BY <2>8 DEF MasterIndex, Untrusted
        <4> HIDE DEF q
        <4> QED BY <4>1, <4>2 DEF KeyOrder, Untrusted, MasterIndex, RekeyingInProgress
      <3> QED BY <3>1, <3>2
    <2> HIDE DEF q
    <2>10. /\ MasterIndex(q) <= i
           /\ RekeyingInProgress(q) =>
                /\ q.next = i + 1 /\ Distributing
                /\ node'.nextActivationTile = master.header.activationTile
      BY <1>1, <2>3, <2>5, <2>8, <2>9 DEF MustForce
    <2>11. aborted' = "no"
      BY <1>2, <2>3
    <2> HIDE DEF k, i
    <2> QED BY <1>8, <2>3, <2>9, <2>10, <2>11
  <1>19. CASE NodeStaysDesynchronized
    <2>1. keys' = keys /\ node' = node /\ absent' = absent
      BY <1>19 DEF NodeStaysDesynchronized, record
    <2> QED BY <1>6, <2>1
  <1> QED BY <1>9, <1>10, <1>11, <1>12, <1>13, <1>14, <1>16, <1>17, <1>18, <1>19 DEF NodeStep

LEMMA BehindNext ==
    ASSUME Based, Master, Paired, InTime, Lockstep, Behind, [Next]_vars, ~MasterStep
    PROVE  Behind' /\ KeysStep
  <1> DEFINE k == keys["node"]
  <1>1. /\ TimesyncOnAir /\ k \in Keys /\ keys \in [Roles -> Keys] /\ "node" \in Roles
    BY DEF Master, OnAir, Based, Typed, Roles
  <1>2. ASSUME UNCHANGED <<keys, node, master, aborted, absent>> PROVE Behind' /\ KeysStep
    BY <1>2 DEF Behind, KeysStep, KeyOrder, NotAheadBy, Distributing
  <1>3. CASE TileEnds \/ ChallengeArrives \/ vars' = vars
    <2>1. UNCHANGED <<keys, node, master, aborted, absent>>
      BY <1>3 DEF TileEnds, NextTile, ChallengeArrives, vars, shared, record
    <2> QED BY <1>2, <2>1
  <1>4. CASE NodeUpdatesKeys
    <2> DEFINE u == PeriodicUpdate(k, ChallengeTimeout)
               d == DesyncKeys(u.keys)
    <2>1. /\ UNCHANGED <<master, aborted>> /\ aborted = "no"
          /\ \/ Desynchronizes(u.keys)
             \/ ~u.desync /\ keys' = [keys EXCEPT !["node"] = u.keys] /\ UNCHANGED <<node, record>>
      BY <1>4, UpdatesEffect DEF NextTile
    <2>2. /\ u.keys \in Keys /\ u.keys.index = k.index
          /\ ~u.desync => /\ u.keys.status = k.status /\ u.keys.temp = k.temp
                          /\ u.keys.next = k.next
      BY <1>1, UpdateFacts
    <2> HIDE DEF u
    <2>3. CASE Desynchronizes(u.keys)
      <3>1. d \in Keys /\ d.status = "DISCONNECTED" /\ d.index = k.index
        <4>1. 0 \in Nat
          OBVIOUS
        <4> QED BY <2>2, <4>1, ResyncFacts
      <3>2. keys' = [keys EXCEPT !["node"] = d]
        BY <2>3 DEF Desynchronizes
      <3> HIDE DEF d
      <3>3. keys'["node"] = d
        BY <1>1, <3>1, <3>2, KeysUpdate
      <3> QED BY <2>1, <3>1, <3>3, BehindDisconnected DEF KeysStep
    <2>4. CASE ~u.desync /\ keys' = [keys EXCEPT !["node"] = u.keys] /\ UNCHANGED <<node, record>>
      <3> DEFINE q == u.keys
      <3>1. keys'["node"] = q
        BY <1>1, <2>2, <2>4, KeysUpdate
      <3>2. /\ q.status = k.status /\ q.temp = k.temp /\ q.next = k.next /\ q.index = k.index
            /\ absent' = absent /\ node' = node
        BY <2>2, <2>4 DEF record
      <3>3. keys'["master"] = keys["master"]
        BY <1>1, <1>4, MasterIsKept
      <3>4. KeyOrder(k)'
        BY <2>1, <3>1, <3>2 DEF Behind, KeyOrder, Untrusted
      <3>5. ~absent => NotAheadBy(k, node)'
        BY <2>1, <3>1, <3>2, <3>3
           DEF Behind, NotAheadBy, Untrusted, MasterIndex, RekeyingInProgress, Distributing
      <3>6. KeysStep
        <4>1. CASE k.status = "DISCONNECTED"
          BY <2>1, <3>1, <3>2, <4>1 DEF KeysStep
        <4>2. CASE k.status # "DISCONNECTED"
          BY <2>1, <3>1, <3>2, <4>2 DEF KeysStep
        <4> QED BY <4>1, <4>2
      <3> QED BY <3>2, <3>4, <3>5, <3>6 DEF Behind
    <2> QED BY <2>1, <2>3, <2>4
  <1> QED BY <1>3, <1>4, BehindNodeStep DEF Next

LEMMA NoKeyAheadNext ==
    ASSUME Based, Master, Paired, InTime, Lockstep, Behind, [Next]_vars
    PROVE  KeyIsAhead' => KeyIsAhead \/ absent
  <1> DEFINE k == keys["node"]
             i == keys["master"].index
             j == keys'["master"].index
  <1>1. /\ k \in Keys /\ "node" \in Roles /\ k' \in Keys /\ i \in Nat /\ j \in Nat
        /\ MasterIndex(k) \in Nat /\ MasterIndex(k') \in Nat /\ k.index \in Nat
    <2>1. Based'
      BY BasedNext DEF Master, OnAir
    <2>2. /\ "node" \in Roles /\ "master" \in Roles /\ keys \in [Roles -> Keys]
          /\ keys' \in [Roles -> Keys]
      BY <2>1 DEF Based, Typed, Roles
    <2> QED BY <2>2, KeyTypes
  <1>2. MasterIndex(keys["master"]) = i /\ MasterIndex(keys'["master"]) = j
    <2>1. MasterKeys /\ MasterKeys'
      BY MasterNext DEF Master
    <2> QED BY <2>1 DEF MasterKeys, MasterIndex, Untrusted
  <1>3. SUFFICES ASSUME MasterIndex(k') > j, ~(MasterIndex(k) > i), ~absent PROVE FALSE
    BY <1>2 DEF KeyIsAhead
  <1>4. CASE MasterStep
    <2>1. k' = k /\ (j = i \/ j = i + 1)
      BY <1>4, MasterIndexGrows
    <2> HIDE DEF k, i, j
    <2> QED BY <1>1, <1>3, <2>1
  <1>5. CASE ~MasterStep
    <2>1. j = i
      <3>1. NodeStep \/ NodeUpdatesKeys \/ TileEnds \/ ChallengeArrives \/ vars' = vars
        BY <1>5 DEF Next
      <3>2. vars' = vars => keys' = keys
        BY DEF vars, shared
      <3>3. TimesyncOnAir
        BY DEF Master, OnAir
      <3> QED BY <3>1, <3>2, <3>3, MasterIsKept
    <2>2. Behind' /\ KeysStep
      BY <1>5, BehindNext
    <2>3. CASE k' = k
      <3> HIDE DEF k, i, j
      <3> QED BY <1>3, <2>1, <2>3
    <2>4. CASE aborted = "no" /\ k'.status = "DISCONNECTED" /\ k'.index = k.index
      <3>1. MasterIndex(k') = k.index
        BY <2>4 DEF MasterIndex, Untrusted
      <3>2. /\ k.status # "ADVANCING" /\ (Untrusted(k) => k.index <= k.temp)
            /\ k.status # "DISCONNECTED" => MasterIndex(k) <= i
        BY <1>3, <2>4 DEF Behind, KeyOrder, NotAheadBy
      <3>3. k.index <= MasterIndex(k)
        BY <1>1, <3>2 DEF MasterIndex
      <3> HIDE DEF k, i, j
      <3> QED BY <1>1, <1>3, <2>1, <3>1, <3>3
    <2>5. CASE aborted' = "no" /\ absent' = absent /\ k'.status # "DISCONNECTED"
      <3>1. MasterIndex(k') <= j
        BY <1>3, <2>2, <2>5 DEF Behind, NotAheadBy
      <3> HIDE DEF k, i, j
      <3> QED BY <1>1, <1>3, <3>1
    <2> QED BY <2>2, <2>3, <2>4, <2>5 DEF KeysStep
  <1> QED BY <1>4, <1>5

-----------------------------------------------------------------------------
(***************************************************************************)
(* Whoever has heard a packet of a schedule switches with the master.      *)
(***************************************************************************)
\* Every schedule is expanded in one downlink, and its streams are rekeyed in the
\* two downlinks that every distribution leaves.  A longer expansion may not be over
\* in the activation tile, and one that is interrupted, when the node
\* desynchronizes, goes on with the next schedule: startExpansion() returns.
Small(s) == s.elements <= expansionsPerSlot /\ s.streams <= 2 * maxHashesPerSlot

SchedulesAreSmall == \A z \in Sizes : Small(z)

\* What holds whether or not the node has been able to operate.
Stock ==
    /\ DOMAIN expander = Roles /\ ~expander["node"].inProgress
    /\ DOMAIN rekeying = Roles
    /\ node.schedule \in Schedules /\ Small(node.schedule) /\ Small(master.schedule)
    /\ node.lastScheduleID \in 0 .. master.schedule.id
    /\ node.currentScheduleID \in 0 .. master.schedule.id
    /\ air.type = "schedule" => air.content.schedule = master.schedule
    /\ master.status \in {"SENDING_SCHEDULE", "PROCESSING"} =>
          master.rekeyingSlots >= 1 /\ master.expansionSlots >= 1

\* Every schedule has a packet, and before the first one there is nothing to play.
Filled ==
    IF master.schedule.id = 0 THEN dataPhase["node"].whole ELSE master.header.totalPacket >= 1

\* A synchronized node plays the schedule that it has applied last, or none since
\* a later one was incomplete.
Played ==
    LET d == dataPhase["node"]
    IN  IF timesync.status = "DESYNCHRONIZED"
        THEN heard = {} /\ node.lastScheduleID = 0 /\ node.currentScheduleID = 0
        ELSE /\ d.whole /\ d.id \in {0, node.lastScheduleID}
             /\ d.id = 0 => \/ node.lastScheduleID = 0
                            \/ node.lastScheduleID < node.currentScheduleID

\* The node has what it has heard of the schedule that the master distributes.
Matches ==
    /\ SameDistribution(node.header, master.header)
    /\ node.schedule = master.schedule
    /\ node.currentScheduleID = master.schedule.id
    /\ node.received = heard

Receiving ==
    /\ node.status = "SENDING_SCHEDULE" /\ Matches
    /\ master.status = "PROCESSING" => master.processingSlotCtr = 0

\* The downlinks that the node has before the activation.
NodesTile == IF turn = "update" THEN tile + 1 ELSE tile
FreeLeft == Free(network, master.header.activationTile) - Free(network, NodesTile)

Prepared ==
    /\ NodeRekeys(node) /\ Matches
    /\ node.nextActivationTile = master.header.activationTile
    /\ IsNewSchedule(node) /\ node.status = "PROCESSING" =>
          /\ FreeLeft >= 1
          /\ IsComplete(node) =>
                LET r == rekeying["node"]
                IN  /\ node.needToStartExpansion
                    /\ DOMAIN r = {"next", "inProgress", "left"} /\ r.left \in Nat
                    /\ r.left <= (IF FreeLeft = 1 THEN 1 ELSE 2) * maxHashesPerSlot
    /\ IsNewSchedule(node) /\ IsComplete(node) /\ node.status = "AWAITING_ACTIVATION" =>
          expander["node"].complete /\ expander["node"].of = master.schedule.id

\* The master has activated the schedule, and the node is to do so in the same tile.
AboutToActivate ==
    /\ turn = "node" /\ tile = master.header.activationTile /\ ~IsTimesync(network, tile)
    /\ Prepared

Settled ==
    /\ node.status \in {"APPLIED_SCHEDULE", "INCOMPLETE_SCHEDULE"}
    /\ IsNewSchedule(node) => node.received = {}
    /\ dataPhase["node"].id \in {0, master.schedule.id}
    /\ heard = 0 .. master.header.totalPacket - 1 => dataPhase["node"].id = master.schedule.id

\* A node that has heard none of it.
Idle ==
    /\ node.status # "SENDING_SCHEDULE"
    /\ IsNewSchedule(node) => node.received = {}

Joined ==
    IF heard = {} THEN Idle
    ELSE IF Distributing THEN Receiving \/ Prepared
    ELSE AboutToActivate \/ Settled

Joins == Live => Played /\ Joined

-----------------------------------------------------------------------------
\* What steps of the node do to what it has received and to the expansion.
SameContents(n, m) ==
    /\ n.schedule = m.schedule /\ n.received = m.received
    /\ n.currentScheduleID = m.currentScheduleID /\ n.lastScheduleID = m.lastScheduleID

LEMMA EndsSendingContents ==
    ASSUME Based, Stock, NodeEndsSending
    PROVE  /\ SameContents(node', node) /\ UNCHANGED expander
           /\ DOMAIN rekeying' = Roles
           /\ IsNewSchedule(node) /\ IsComplete(node) =>
                 /\ node'.needToStartExpansion
                 /\ DOMAIN rekeying'["node"] = {"next", "inProgress", "left"}
                 /\ rekeying'["node"].left = node.schedule.streams
  <1> DEFINE n == [node EXCEPT !.status = "PROCESSING",
                               !.nextActivationTile = node.header.activationTile]
  <1>1. DOMAIN node = NodeFields /\ DOMAIN rekeying = Roles /\ "node" \in Roles
    BY DEF Based, Typed, NodeTyped, Stock, Roles
  <1>2. DOMAIN n = NodeFields /\ SameContents(n, node)
    BY <1>1 DEF NodeFields, SameContents
  <1>3. /\ UNCHANGED expander
        /\ \/ IsNewSchedule(node) /\ IsComplete(node) /\ SetNewSchedule(n)
           \/ IsNewSchedule(node) /\ ~IsComplete(node) /\ SetEmptySchedule(n)
           \/ ~IsNewSchedule(node) /\ SetSameSchedule(n)
    BY DEF NodeEndsSending
  <1> HIDE DEF n
  <1>4. CASE IsNewSchedule(node) /\ IsComplete(node) /\ SetNewSchedule(n)
    <2>1. /\ node' = [n EXCEPT !.needToStartExpansion = TRUE, !.needToPerformExpansion = TRUE]
          /\ rekeying' = [rekeying EXCEPT !["node"] = SetStreams(@, node.schedule)]
      BY <1>4 DEF SetNewSchedule
    <2>2. SameContents(node', node) /\ node'.needToStartExpansion
      BY <1>2, <2>1 DEF SameContents, NodeFields
    <2>3. DOMAIN rekeying' = Roles /\ rekeying'["node"] = SetStreams(rekeying["node"], node.schedule)
      BY <1>1, <2>1
    <2> QED BY <1>3, <2>2, <2>3 DEF SetStreams
  <1>5. CASE IsNewSchedule(node) /\ ~IsComplete(node) /\ SetEmptySchedule(n)
    BY <1>1, <1>2, <1>3, <1>5 DEF SetEmptySchedule, SameContents, NodeFields
  <1>6. CASE ~IsNewSchedule(node) /\ SetSameSchedule(n)
    BY <1>1, <1>2, <1>3, <1>6 DEF SetSameSchedule, SameContents
  <1> QED BY <1>3, <1>4, <1>5, <1>6

\* A small schedule is expanded at once.
LEMMA ExpandsContents ==
    ASSUME Based, Stock, NEW after, NodeExpands(after)
    PROVE  /\ SameContents(node', node)
           /\ DOMAIN expander' = Roles /\ ~expander'["node"].inProgress
           /\ node.needToStartExpansion =>
                 /\ node'.status = after
                 /\ expander'["node"].complete /\ expander'["node"].of = node.schedule.id
  <1> DEFINE begun == IF node.needToStartExpansion
                      THEN StartExpansion(expander["node"], node.schedule)
                      ELSE expander["node"]
             expanded == ContinueExpansion(begun, node.schedule)
             perform == node.needToPerformExpansion /\ ~expanded.complete
             status == IF expanded.complete THEN after ELSE node.status
  <1>1. DOMAIN node = NodeFields /\ DOMAIN expander = Roles /\ "node" \in Roles
        /\ ~expander["node"].inProgress
    BY DEF Based, Typed, NodeTyped, Stock, Roles
  <1>2. /\ expander' = [expander EXCEPT !["node"] = expanded]
        /\ node' = [node EXCEPT !.needToStartExpansion = FALSE,
                !.needToPerformExpansion = perform, !.status = status]
    BY <1>1 DEF NodeExpands, NodeFields
  <1>3. /\ node.schedule.elements \in Nat /\ node.schedule.elements <= expansionsPerSlot
        /\ expansionsPerSlot \in Nat
    BY DistributionAssumption DEF Stock, Small, Schedules
  <1>4. CASE node.needToStartExpansion
    <2>1. begun = [inProgress |-> TRUE, complete |-> FALSE, index |-> 0, of |-> node.schedule.id]
      BY <1>1, <1>4 DEF StartExpansion
    <2> HIDE DEF begun
    <2>2. Larger(begun.index, Smaller(begun.index + expansionsPerSlot, node.schedule.elements))
             = node.schedule.elements
      BY <1>3, <2>1 DEF Larger, Smaller
    <2>3. ~expanded.inProgress /\ expanded.complete /\ expanded.of = node.schedule.id
      BY <2>1, <2>2 DEF ContinueExpansion
    <2> QED BY <1>1, <1>2, <2>3 DEF SameContents, NodeFields
  <1>5. CASE ~node.needToStartExpansion
    <2>1. expanded = expander["node"]
      BY <1>1, <1>5 DEF ContinueExpansion
    <2> HIDE DEF expanded, perform, status
    <2> QED BY <1>1, <1>2, <1>5, <2>1 DEF SameContents, NodeFields
  <1> QED BY <1>4, <1>5

LEMMA ProcessesContents ==
    ASSUME Based, Stock, NodeProcesses \/ NodeExpandsLate
    PROVE  /\ SameContents(node', node)
           /\ DOMAIN expander' = Roles /\ ~expander'["node"].inProgress
           /\ DOMAIN rekeying' = Roles
  <1>1. /\ DOMAIN expander = Roles /\ ~expander["node"].inProgress /\ DOMAIN rekeying = Roles
        /\ DOMAIN node = NodeFields
    BY DEF Stock, Based, Typed, NodeTyped
  <1>2. \/ NodeExpands("AWAITING_ACTIVATION") \/ NodeExpands("PROCESSING")
        \/ UNCHANGED <<node, expander>>
        \/ node' = [node EXCEPT !.status = "AWAITING_ACTIVATION"] /\ UNCHANGED expander
    BY DEF NodeProcesses, NodeExpandsLate
  <1>3. DOMAIN rekeying' = Roles
    BY <1>1 DEF NodeProcesses, NodeExpandsLate
  <1>4. CASE NodeExpands("AWAITING_ACTIVATION") \/ NodeExpands("PROCESSING")
    BY <1>3, <1>4, ExpandsContents
  <1>5. CASE UNCHANGED <<node, expander>>
    BY <1>1, <1>3, <1>5 DEF SameContents
  <1>6. CASE node' = [node EXCEPT !.status = "AWAITING_ACTIVATION"] /\ UNCHANGED expander
    BY <1>1, <1>3, <1>6 DEF SameContents, NodeFields
  <1> QED BY <1>2, <1>4, <1>5, <1>6

LEMMA ActivatesContents ==
    ASSUME Based, Stock, NodeActivates
    PROVE  /\ UNCHANGED expander /\ DOMAIN rekeying' = Roles
           /\ node'.currentScheduleID = node.currentScheduleID
           /\ \/ /\ IsNewSchedule(node) /\ IsComplete(node)
                 /\ node'.status = "APPLIED_SCHEDULE"
                 /\ node'.lastScheduleID = node.currentScheduleID
                 /\ node'.schedule = node.schedule
                 /\ dataPhase'["node"] = PlaySchedule(expander["node"], node.header)
              \/ /\ IsNewSchedule(node) /\ ~IsComplete(node)
                 /\ node'.status = "INCOMPLETE_SCHEDULE"
                 /\ node'.lastScheduleID = node.lastScheduleID
                 /\ node'.schedule = NoSchedule /\ node'.received = {}
                 /\ dataPhase'["node"] = EmptyDataPhase
              \/ /\ ~IsNewSchedule(node)
                 /\ node'.status = "APPLIED_SCHEDULE"
                 /\ node'.lastScheduleID = node.lastScheduleID
                 /\ node'.schedule = node.schedule /\ dataPhase' = dataPhase
  <1>1. /\ DOMAIN node = NodeFields /\ DOMAIN rekeying = Roles /\ DOMAIN dataPhase = Roles
        /\ "node" \in Roles
    BY DEF Based, Typed, NodeTyped, Stock, Roles
  <1>2. /\ UNCHANGED expander
        /\ \/ IsNewSchedule(node) /\ IsComplete(node) /\ ApplyNewSchedule
           \/ IsNewSchedule(node) /\ ~IsComplete(node) /\ ApplyEmptySchedule
           \/ ~IsNewSchedule(node) /\ ApplySameSchedule
    BY DEF NodeActivates
  <1>3. CASE IsNewSchedule(node) /\ IsComplete(node) /\ ApplyNewSchedule
    BY <1>1, <1>2, <1>3 DEF ApplyNewSchedule, NodeFields
  <1>4. CASE IsNewSchedule(node) /\ ~IsComplete(node) /\ ApplyEmptySchedule
    BY <1>1, <1>2, <1>4 DEF ApplyEmptySchedule, NodeFields
  <1>5. CASE ~IsNewSchedule(node) /\ ApplySameSchedule
    BY <1>1, <1>2, <1>5 DEF ApplySameSchedule, NodeFields
  <1> QED BY <1>2, <1>3, <1>4, <1>5

LEMMA ReceivesContents ==
    ASSUME Based, Stock, NodeReceivesSchedule
    PROVE  LET h == air.content.header
           IN  /\ UNCHANGED <<expander, rekeying>> /\ heard' = heard \cup {h.currentPacket}
               /\ \/ node' = node
                  \/ /\ SameContents(node', [node EXCEPT !.received = node'.received])
                     /\ node.status = "SENDING_SCHEDULE" /\ h.id = node.header.id
                     /\ SameDistribution(node.header, h) =>
                           node'.received = node.received \cup {h.currentPacket}
                  \/ /\ node.status = "SENDING_SCHEDULE" => h.id # node.header.id
                     /\ node.status # "AWAITING_ACTIVATION"
                     /\ node'.schedule = air.content.schedule
                     /\ node'.received = {h.currentPacket}
                     /\ node'.currentScheduleID = h.id
                     /\ node'.lastScheduleID = node.lastScheduleID
  <1> DEFINE h == air.content.header
  <1>1. DOMAIN node = NodeFields
    BY DEF Based, Typed, NodeTyped
  <1>2. /\ UNCHANGED <<expander, rekeying>> /\ heard' = heard \cup {h.currentPacket}
        /\ node' = IF node.status = "AWAITING_ACTIVATION" THEN node
                   ELSE IF node.status = "SENDING_SCHEDULE" /\ h.id = node.header.id
                        THEN AppendToSchedule(node, air.content)
                        ELSE InitSchedule(node, air.content)
    BY DEF NodeReceivesSchedule, NodeListens, shared
  <1>3. h = air.content.header
    OBVIOUS
  <1> HIDE DEF h
  <1>4. CASE node.status = "AWAITING_ACTIVATION"
    BY <1>2, <1>3, <1>4
  <1>5. CASE node.status = "SENDING_SCHEDULE" /\ h.id = node.header.id
    <2>1. node' = AppendToSchedule(node, air.content)
      BY <1>2, <1>5
    <2>2. /\ node'.schedule = node.schedule
          /\ node'.currentScheduleID = node.currentScheduleID
          /\ node'.lastScheduleID = node.lastScheduleID
          /\ SameDistribution(node.header, h) =>
                node'.received = node.received \cup {h.currentPacket}
      BY <1>1, <1>3, <2>1 DEF AppendToSchedule, NodeFields
    <2> DEFINE m == [node EXCEPT !.received = node'.received]
    <2>3. /\ m.schedule = node.schedule /\ m.received = node'.received
          /\ m.currentScheduleID = node.currentScheduleID
          /\ m.lastScheduleID = node.lastScheduleID
      BY <1>1 DEF NodeFields
    <2> HIDE DEF m
    <2>4. SameContents(node', m)
      BY <2>2, <2>3 DEF SameContents
    <2> QED BY <1>2, <1>3, <1>5, <2>2, <2>4 DEF m
  <1>6. CASE /\ node.status # "AWAITING_ACTIVATION"
             /\ ~(node.status = "SENDING_SCHEDULE" /\ h.id = node.header.id)
    <2>1. node' = InitSchedule(node, air.content)
      BY <1>2, <1>6
    <2> DEFINE rounds == h.totalPacket * scheduleRepetitions
               round == 1 + h.repetition * scheduleRepetitions + h.currentPacket
    <2>2. node' = [node EXCEPT !.status = "SENDING_SCHEDULE", !.header = h,
                !.currentScheduleID = h.id, !.schedule = air.content.schedule,
                !.received = {h.currentPacket}, !.sendingRounds = rounds,
                !.currentSendingRound = round]
      BY <1>3, <2>1 DEF InitSchedule
    <2> HIDE DEF rounds, round
    <2>3. /\ node'.schedule = air.content.schedule /\ node'.received = {h.currentPacket}
          /\ node'.currentScheduleID = h.id /\ node'.lastScheduleID = node.lastScheduleID
      BY <1>1, <2>2 DEF NodeFields
    <2> QED BY <1>2, <1>3, <1>6, <2>3
  <1> QED BY <1>4, <1>5, <1>6

\* Steps that neither receive a schedule nor desynchronize.
LEMMA ListensContents ==
    ASSUME Based, NodeReceivesInfo \/ NodeReceivesNothing \/ NodeSkips
    PROVE  SameContents(node', node) /\ UNCHANGED <<expander, rekeying>>
  <1>1. DOMAIN node = NodeFields
    BY DEF Based, Typed, NodeTyped
  <1>2. \/ node' = node \/ node' = HandleIncompleteSchedule(node)
        \/ node' = [node EXCEPT !.currentSendingRound = @ + 1]
    BY DEF NodeReceivesInfo, NodeReceivesNothing, NodeSkips, AfterMiss
  <1>3. SameContents(node', node)
    BY <1>1, <1>2 DEF SameContents, NodeFields, HandleIncompleteSchedule
  <1>4. UNCHANGED <<expander, rekeying>>
    BY DEF NodeReceivesInfo, NodeReceivesNothing, NodeSkips, NodeListens, shared
  <1> QED BY <1>3, <1>4

LEMMA DesyncContents ==
    ASSUME Based, NEW k, DesyncMAC(k)
    PROVE  /\ node'.schedule = NoSchedule /\ node'.received = {}
           /\ node'.currentScheduleID = 0 /\ node'.lastScheduleID = 0
           /\ heard' = {} /\ absent' = FALSE /\ node'.status = "APPLIED_SCHEDULE"
           /\ timesync'.status = "DESYNCHRONIZED"
  <1>1. DOMAIN node = NodeFields /\ DOMAIN timesync = {"status", "missed", "error"}
    BY DEF Based, Typed, NodeTyped, TimesyncTyped
  <1> QED BY <1>1 DEF DesyncMAC, DesyncDistribution, NodeFields

LEMMA ForcedContents ==
    ASSUME Based
    PROVE  SameContents(ForceScheduleActivation(node), node)
  <1>1. DOMAIN node = NodeFields
    BY DEF Based, Typed, NodeTyped
  <1> QED BY <1>1 DEF ForceScheduleActivation, SameContents, NodeFields

LEMMA StockInit ==
    ASSUME Init
    PROVE  Stock
  <1>1. NoSchedule \in Schedules /\ NoSchedule.id = 0
        /\ NoSchedule.elements = 0 /\ NoSchedule.streams = 0
    BY DEF NoSchedule, Schedules
  <1>2. Small(NoSchedule)
    BY <1>1, DistributionAssumption DEF Small
  <1>3. /\ node.schedule = NoSchedule /\ master.schedule = NoSchedule
        /\ node.lastScheduleID = 0 /\ node.currentScheduleID = 0
        /\ air.type = "none" /\ master.status = "APPLIED_SCHEDULE"
        /\ DOMAIN expander = Roles /\ ~expander["node"].inProgress /\ DOMAIN rekeying = Roles
    BY DEF Init, NodeAtStart, MasterAtStart, Silence, Roles
  <1> QED BY <1>1, <1>2, <1>3 DEF Stock

\* The master never works for the node.
LEMMA MasterLeavesNode ==
    ASSUME Stock, MasterStep
    PROVE  /\ DOMAIN expander' = Roles /\ expander'["node"] = expander["node"]
           /\ DOMAIN rekeying' = Roles /\ rekeying'["node"] = rekeying["node"]
  <1>1. DOMAIN expander = Roles /\ DOMAIN rekeying = Roles /\ "node" \in Roles /\ "node" # "master"
    BY DEF Stock, Roles
  <1>2. /\ expander' = expander \/ \E e : expander' = [expander EXCEPT !["master"] = e]
        /\ rekeying' = rekeying \/ \E r : rekeying' = [rekeying EXCEPT !["master"] = r]
    BY DEF MasterStep, MasterBegins, MasterSendsInfo, MasterSendsPacket, MasterEndsSending,
       MasterProcesses, MasterActivates, MasterTimesync, shared
  <1> QED BY <1>1, <1>2

LEMMA StockMasterStep ==
    ASSUME SchedulesAreSmall, Based, Stock, MasterStep
    PROVE  Stock'
  <1>0. /\ DOMAIN expander' = Roles /\ ~expander'["node"].inProgress /\ DOMAIN rekeying' = Roles
    BY MasterLeavesNode DEF Stock
  <1>1. MastersTurn
    BY DEF MasterStep, MasterBegins, MasterSendsInfo, MasterSendsPacket,
       MasterEndsSending, MasterProcesses, MasterActivates, MasterTimesync, MastersDownlink
  <1>2. node' = node /\ master.schedule \in Schedules /\ master.schedule.id \in Nat
    BY <1>1 DEF MastersTurn, Based, Typed, MasterTyped, Schedules
  <1>3. ASSUME NEW s \in SchedulesToSend, MasterBegins(s) PROVE Stock'
    <2>1. /\ master'.schedule = s /\ air' = Silence
          /\ master'.rekeyingSlots = RekeyingSlots(master.schedule)
          /\ master'.expansionSlots = ExpansionSlots(master.schedule)
      BY <1>3, BeginsEffect
    <2>2. s.id \in Nat /\ s.id >= master.schedule.id
      <3>1. s \in Schedules /\ (s.id = master.schedule.id + 1 \/ s = master.schedule)
        BY SendFacts
      <3> QED BY <1>2, <3>1 DEF Schedules
    <2>3. Small(s)
      <3>1. \/ s = master.schedule
            \/ \E z \in Sizes : s.elements = z.elements /\ s.streams = z.streams
        BY DEF SchedulesToSend
      <3> QED BY <3>1 DEF Stock, Small, SchedulesAreSmall
    <2>4. master'.rekeyingSlots >= 1 /\ master'.expansionSlots >= 1
      <3>1. RekeyingSlots(master.schedule) \in Nat \ {0} /\ ExpansionSlots(master.schedule) \in Nat \ {0}
        BY <1>2, SlotFacts
      <3> QED BY <2>1, <3>1
    <2>5. node'.lastScheduleID \in 0 .. master'.schedule.id
          /\ node'.currentScheduleID \in 0 .. master'.schedule.id
      BY <1>2, <2>1, <2>2 DEF Stock
    <2> QED BY <1>0, <1>2, <2>1, <2>3, <2>4, <2>5, SilenceFacts DEF Stock
  <1>4. ASSUME master'.schedule = master.schedule,
               air'.type = "schedule" => air'.content.schedule = master.schedule,
               master'.status \in {"SENDING_SCHEDULE", "PROCESSING"} =>
                   master'.rekeyingSlots >= 1 /\ master'.expansionSlots >= 1
        PROVE  Stock'
    BY <1>0, <1>2, <1>4 DEF Stock
  <1>5. CASE MasterSendsInfo
    <2>1. master' = master /\ air'.type # "schedule"
      BY <1>5, SendsInfoEffect, SilenceFacts DEF Broadcast
    <2> QED BY <1>4, <2>1 DEF Stock
  <1>6. CASE MasterSendsPacket
    <2>1. /\ air' = Broadcast("schedule", [header |-> master.header, schedule |-> master.schedule])
          /\ master'.schedule = master.schedule /\ master.status = "SENDING_SCHEDULE"
          /\ master'.rekeyingSlots = master.rekeyingSlots
          /\ master'.expansionSlots = master.expansionSlots
      BY <1>6, SendsPacketEffect
    <2>2. air'.content.schedule = master.schedule
      BY <2>1 DEF Broadcast
    <2> QED BY <1>4, <2>1, <2>2 DEF Stock
  <1>7. CASE MasterEndsSending
    <2>1. /\ air' = Silence /\ master'.schedule = master.schedule
          /\ master.status = "SENDING_SCHEDULE"
          /\ master'.rekeyingSlots = master.rekeyingSlots
          /\ master'.expansionSlots = master.expansionSlots
      BY <1>7, MasterEndsSendingEffect
    <2> QED BY <1>4, <2>1, SilenceFacts DEF Stock
  <1>8. CASE MasterProcesses
    <2>1. /\ air' = Silence /\ master'.schedule = master.schedule
          /\ master.status = "PROCESSING"
          /\ master'.rekeyingSlots = master.rekeyingSlots
          /\ master'.expansionSlots = master.expansionSlots
      BY <1>8, MasterProcessesEffect
    <2> QED BY <1>4, <2>1, SilenceFacts DEF Stock
  <1>9. CASE MasterActivates
    <2>1. /\ air' = Silence /\ master'.schedule = master.schedule
          /\ master'.status = "APPLIED_SCHEDULE"
      BY <1>9, MasterActivatesEffect
    <2> QED BY <1>4, <2>1, SilenceFacts
  <1>10. CASE MasterTimesync
    <2>1. master' = master /\ air'.type = "timesync"
      BY <1>10, MasterTimesyncEffect
    <2> QED BY <1>4, <2>1 DEF Stock
  <1> QED BY <1>3, <1>5, <1>6, <1>7, <1>8, <1>9, <1>10 DEF MasterStep

\* The empty schedule is small.
LEMMA EmptyIsSmall == NoSchedule \in Schedules /\ Small(NoSchedule)
  BY DistributionAssumption DEF NoSchedule, Schedules, Small

\* What is left to show of a step that is not the master's.
LEMMA StockKept ==
    ASSUME Stock, master' = master,
           DOMAIN expander' = Roles, ~expander'["node"].inProgress, DOMAIN rekeying' = Roles,
           node'.schedule \in Schedules, Small(node'.schedule),
           node'.lastScheduleID \in 0 .. master.schedule.id,
           node'.currentScheduleID \in 0 .. master.schedule.id,
           air' = air \/ air' = Silence
    PROVE  Stock'
  <1>1. air'.type = "schedule" => air'.content.schedule = master'.schedule
    <2>1. CASE air' = air
      BY <2>1 DEF Stock
    <2>2. CASE air' = Silence
      BY <2>2, SilenceFacts
    <2> QED BY <2>1, <2>2
  <1>2. master'.status \in {"SENDING_SCHEDULE", "PROCESSING"} =>
           master'.rekeyingSlots >= 1 /\ master'.expansionSlots >= 1
    BY DEF Stock
  <1>3. Small(node'.schedule) /\ Small(master'.schedule)
    BY DEF Stock
  <1> QED BY <1>1, <1>2, <1>3 DEF Stock

LEMMA StockSame ==
    ASSUME Stock, UNCHANGED <<master, expander, rekeying>>, SameContents(node', node),
           air' = air \/ air' = Silence
    PROVE  Stock'
  <1>1. /\ DOMAIN expander' = Roles /\ ~expander'["node"].inProgress /\ DOMAIN rekeying' = Roles
        /\ node'.schedule = node.schedule
        /\ node'.schedule \in Schedules /\ Small(node.schedule)
        /\ node'.lastScheduleID \in 0 .. master.schedule.id
        /\ node'.currentScheduleID \in 0 .. master.schedule.id
    BY DEF Stock, SameContents
  <1>2. Small(node'.schedule)
    BY <1>1
  <1>3. master' = master
    OBVIOUS
  <1> QED BY <1>1, <1>2, <1>3, StockKept

LEMMA StockDesync ==
    ASSUME Based, Stock, NEW k, DesyncMAC(k), UNCHANGED <<master, expander, rekeying>>,
           air' = air \/ air' = Silence
    PROVE  Stock'
  <1>1. node'.schedule = NoSchedule /\ node'.currentScheduleID = 0 /\ node'.lastScheduleID = 0
    BY DesyncContents
  <1>2. 0 \in 0 .. master.schedule.id
    BY DEF Based, Typed, MasterTyped, Schedules
  <1>3. DOMAIN expander' = Roles /\ ~expander'["node"].inProgress /\ DOMAIN rekeying' = Roles
    BY DEF Stock
  <1>4. /\ node'.lastScheduleID \in 0 .. master.schedule.id
        /\ node'.currentScheduleID \in 0 .. master.schedule.id
    BY <1>1, <1>2
  <1>5. node'.schedule \in Schedules /\ Small(node'.schedule)
    BY <1>1, EmptyIsSmall
  <1>6. master' = master
    OBVIOUS
  <1> QED BY <1>3, <1>4, <1>5, <1>6, StockKept

LEMMA StockNodeStep ==
    ASSUME Based, Master, Stock, NodeStep
    PROVE  Stock'
  <1>1. /\ NodesTurn /\ TimesyncOnAir /\ air' = air /\ master' = master
        /\ master.schedule \in Schedules /\ master.schedule.id \in Nat
    BY NodeStepTurn DEF Master, OnAir, NodesTurn, Based, Typed, MasterTyped, Schedules
  <1>2. SameContents(node, node)
    BY DEF SameContents
  <1>3. CASE NodeEndsSending
    <2>1. SameContents(node', node) /\ UNCHANGED expander /\ DOMAIN rekeying' = Roles
      BY <1>3, EndsSendingContents
    <2> QED BY <1>1, <2>1, StockKept DEF Stock, SameContents
  <1>4. CASE NodeProcesses \/ NodeExpandsLate
    <2>1. SameContents(node', node) /\ DOMAIN expander' = Roles /\ ~expander'["node"].inProgress
          /\ DOMAIN rekeying' = Roles
      BY <1>4, ProcessesContents
    <2> QED BY <1>1, <2>1, StockKept DEF Stock, SameContents
  <1>5. CASE NodeActivates
    <2>1. /\ UNCHANGED expander /\ DOMAIN rekeying' = Roles
          /\ node'.currentScheduleID = node.currentScheduleID
          /\ node'.lastScheduleID \in {node.lastScheduleID, node.currentScheduleID}
          /\ node'.schedule = node.schedule \/ node'.schedule = NoSchedule
      BY <1>5, ActivatesContents
    <2>2. node'.schedule \in Schedules /\ Small(node'.schedule)
      BY <2>1, EmptyIsSmall DEF Stock
    <2>3. /\ node'.lastScheduleID \in 0 .. master.schedule.id
          /\ node'.currentScheduleID \in 0 .. master.schedule.id
          /\ DOMAIN expander' = Roles /\ ~expander'["node"].inProgress
      BY <2>1 DEF Stock
    <2> QED BY <1>1, <2>1, <2>2, <2>3, StockKept
  <1>6. CASE NodeReceivesSchedule
    <2> DEFINE h == air.content.header
    <2>1. air.type = "schedule"
      BY <1>6, ReceivesScheduleEffect
    <2>2. h.id = master.schedule.id /\ air.content.schedule = master.schedule
      BY <2>1 DEF Master, OnAir, PacketOnAir, SameDistribution, Based, MasterHeader, Stock
    <2>3. /\ UNCHANGED <<expander, rekeying>>
          /\ \/ node' = node
             \/ SameContents(node', [node EXCEPT !.received = node'.received])
             \/ /\ node'.schedule = air.content.schedule
                /\ node'.currentScheduleID = h.id
                /\ node'.lastScheduleID = node.lastScheduleID
      BY <1>6, ReceivesContents
    <2> HIDE DEF h
    <2>4. CASE node' = node
      BY <1>1, <1>2, <2>3, <2>4, StockSame
    <2>5. CASE SameContents(node', [node EXCEPT !.received = node'.received])
      <3>1. DOMAIN node = NodeFields
        BY DEF Based, Typed, NodeTyped
      <3>2. /\ node'.schedule = node.schedule
            /\ node'.currentScheduleID = node.currentScheduleID
            /\ node'.lastScheduleID = node.lastScheduleID
        BY <2>5, <3>1 DEF SameContents, NodeFields
      <3> QED BY <1>1, <2>3, <3>2, StockKept DEF Stock
    <2>6. CASE /\ node'.schedule = air.content.schedule
               /\ node'.currentScheduleID = h.id
               /\ node'.lastScheduleID = node.lastScheduleID
      <3>1. master.schedule.id \in 0 .. master.schedule.id
        BY <1>1
      <3> QED BY <1>1, <2>2, <2>3, <2>6, <3>1, StockKept DEF Stock
    <2> QED BY <2>3, <2>4, <2>5, <2>6
  <1>7. CASE NodeReceivesInfo \/ NodeReceivesNothing \/ NodeSkips
    BY <1>1, <1>7, ListensContents, StockSame
  <1>8. ASSUME NEW k, MissedPacket(k), UNCHANGED <<expander, rekeying>> PROVE Stock'
    <2>1. CASE DesyncMAC(k)
      BY <1>1, <1>8, <2>1, StockDesync
    <2>2. CASE ~DesyncMAC(k)
      BY <1>1, <1>2, <1>8, <2>2, StockSame DEF MissedPacket
    <2> QED BY <2>1, <2>2
  <1>9. CASE NodeHearsTimesync
    <2> DEFINE back == RollbackAdvance(HearingKeys)
    <2>1. UNCHANGED <<expander, rekeying>>
      BY <1>9 DEF NodeHearsTimesync, NodesTimesync
    <2>2. \/ node' = node \/ node' = ForceScheduleActivation(node) \/ MissedPacket(back)
      BY <1>9 DEF NodeHearsTimesync, HearingKeys
    <2> HIDE DEF back
    <2> QED BY <1>1, <1>2, <1>8, <2>1, <2>2, StockSame, ForcedContents
  <1>10. CASE NodeMissesTimesync
    BY <1>8, <1>10 DEF NodeMissesTimesync, NodesTimesync
  <1>11. CASE NodeResyncs
    <2>1. UNCHANGED <<expander, rekeying>>
          /\ (node' = node \/ node' = ForceScheduleActivation(node))
      BY <1>11 DEF NodeResyncs, NodesTimesync
    <2> QED BY <1>1, <1>2, <2>1, StockSame, ForcedContents
  <1>12. CASE NodeStaysDesynchronized
    BY <1>1, <1>2, <1>12, StockSame DEF NodeStaysDesynchronized, NodesTimesync
  <1> QED BY <1>3, <1>4, <1>5, <1>6, <1>7, <1>9, <1>10, <1>11, <1>12 DEF NodeStep

LEMMA StockNext ==
    ASSUME SchedulesAreSmall, Based, Master, Stock, [Next]_vars
    PROVE  Stock'
  <1>0. SameContents(node, node)
    BY DEF SameContents
  <1>1. CASE NodeUpdatesKeys
    <2> DEFINE k == PeriodicUpdate(keys["node"], ChallengeTimeout).keys
    <2>1. NextTile /\ (DesyncMAC(k) \/ node' = node)
      BY <1>1 DEF NodeUpdatesKeys
    <2>2. UNCHANGED <<master, expander, rekeying>> /\ air' = Silence
      BY <2>1 DEF NextTile
    <2> HIDE DEF k
    <2> QED BY <1>0, <2>1, <2>2, StockDesync, StockSame
  <1>2. CASE TileEnds
    BY <1>0, <1>2, StockSame DEF TileEnds, NextTile
  <1>3. CASE ChallengeArrives
    BY <1>0, <1>3, StockSame DEF ChallengeArrives, shared
  <1>4. CASE vars' = vars
    BY <1>0, <1>4, StockSame DEF vars, shared
  <1> QED BY <1>1, <1>2, <1>3, <1>4, StockMasterStep, StockNodeStep DEF Next

LEMMA FilledInit ==
    ASSUME Init
    PROVE  Filled
  BY DEF Init, Filled, MasterAtStart, NoSchedule, EmptyDataPhase, Roles

LEMMA FilledNext ==
    ASSUME Based, Master, Stock, Filled, [Next]_vars
    PROVE  Filled'
  <1>0. /\ DOMAIN dataPhase = Roles /\ "node" \in Roles /\ "node" # "master"
        /\ master.schedule.id \in Nat /\ TimesyncOnAir /\ EmptyDataPhase.whole
    BY DEF Based, Typed, MasterTyped, Schedules, Roles, Master, OnAir, EmptyDataPhase
  <1>1. ASSUME master'.schedule = master.schedule,
               master'.header.totalPacket = master.header.totalPacket,
               dataPhase'["node"] = dataPhase["node"] \/ dataPhase'["node"] = EmptyDataPhase
        PROVE  Filled'
    BY <1>0, <1>1 DEF Filled
  <1>2. ASSUME NEW s \in SchedulesToSend, MasterBegins(s) PROVE Filled'
    <2>1. s \in Schedules /\ s.id # 0
      BY SendFacts
    <2>2. master'.schedule = s /\ master'.header.totalPacket = NumPackets(s)
      BY <1>2, BeginsEffect, HeaderFacts
    <2>3. NumPackets(s) >= 1
      BY <2>1, SlotFacts
    <2> QED BY <2>1, <2>2, <2>3 DEF Filled
  <1>3. CASE MasterSendsPacket
    <2>1. master.header \in Headers
      BY DEF Based, Typed, MasterTyped
    <2> QED BY <1>1, <1>3, <2>1, SendsPacketEffect, NextPacketFacts
  <1>4. CASE MasterSendsInfo
    BY <1>1, <1>4, SendsInfoEffect
  <1>5. CASE MasterEndsSending
    BY <1>1, <1>5, MasterEndsSendingEffect
  <1>6. CASE MasterProcesses
    BY <1>1, <1>6, MasterProcessesEffect
  <1>7. CASE MasterActivates
    <2>1. dataPhase'["node"] = dataPhase["node"]
      BY <1>0, <1>7, MasterActivatesEffect
    <2> QED BY <1>1, <1>7, <2>1, MasterActivatesEffect
  <1>8. CASE MasterTimesync
    BY <1>1, <1>8, MasterTimesyncEffect
  <1>9. CASE NodeActivates
    <2>1. master' = master
      BY <1>9 DEF NodeActivates, NodesDownlink, NodesTurn
    <2>2. CASE IsNewSchedule(node)
      <3>1. master.schedule.id # 0
        BY <1>0, <2>2 DEF Stock, IsNewSchedule
      <3> QED BY <2>1, <3>1 DEF Filled
    <2>3. CASE ~IsNewSchedule(node)
      BY <1>1, <1>9, <2>1, <2>3, ActivatesContents
    <2> QED BY <2>2, <2>3
  <1>10. CASE NodeResyncs
    <2>1. dataPhase' = [dataPhase EXCEPT !["node"] = EmptyDataPhase] /\ master' = master
      BY <1>10 DEF NodeResyncs, NodesTimesync, NodesTurn
    <2> QED BY <1>0, <1>1, <2>1
  <1>11. ASSUME UNCHANGED <<master, dataPhase>> PROVE Filled'
    BY <1>11 DEF Filled
  <1>12. CASE NodeEndsSending \/ NodeProcesses \/ NodeExpandsLate \/ NodeReceivesSchedule
                \/ NodeReceivesInfo \/ NodeReceivesNothing \/ NodeSkips
    BY <1>11, <1>12 DEF NodeEndsSending, NodeProcesses, NodeExpandsLate, NodeReceivesSchedule,
       NodeReceivesInfo, NodeReceivesNothing, NodeSkips, NodeListens, NodesDownlink, NodesTurn, shared
  <1>13. CASE NodeHearsTimesync \/ NodeMissesTimesync \/ NodeStaysDesynchronized
    BY <1>11, <1>13 DEF NodeHearsTimesync, NodeMissesTimesync, NodeStaysDesynchronized,
       MissedPacket, DesyncMAC, NodesTimesync, NodesTurn
  <1>14. CASE NodeUpdatesKeys \/ TileEnds
    BY <1>11, <1>14 DEF NodeUpdatesKeys, TileEnds, NextTile
  <1>15. CASE ChallengeArrives \/ vars' = vars
    BY <1>11, <1>15 DEF ChallengeArrives, vars, shared
  <1> QED BY <1>2, <1>3, <1>4, <1>5, <1>6, <1>7, <1>8, <1>9, <1>10, <1>12, <1>13, <1>14, <1>15
          DEF Next, MasterStep, NodeStep

\* The downlinks that are left in a step.
LEMMA FreeLeftFacts ==
    ASSUME Based
    PROVE  /\ tile \in Nat /\ tile + 1 \in Nat /\ FreeLeft \in Int
           /\ Free(network, tile) \in Int /\ Free(network, tile + 1) \in Int
           /\ Free(network, master.header.activationTile) \in Int
           /\ Free(network, tile + 1) =
                 Free(network, tile) + (IF IsTimesync(network, tile) THEN 0 ELSE 1)
  <1>1. /\ ValidStructure(network) /\ tile \in Nat /\ tile + 1 \in Nat /\ IsDownlink(network, tile)
        /\ master.header.activationTile \in Nat
    BY NetworkFacts DEF Based, Typed, MasterTyped, Headers
  <1>2. /\ Free(network, tile) \in Int /\ Free(network, tile + 1) \in Int
        /\ Free(network, master.header.activationTile) \in Int
        /\ Free(network, tile + 1) =
              Free(network, tile) + (IF IsTimesync(network, tile) THEN 0 ELSE 1)
    BY <1>1, FreeNext
  <1> QED BY <1>1, <1>2 DEF FreeLeft, NodesTile

LEMMA FreeLeftStep ==
    ASSUME Based, master'.header.activationTile = master.header.activationTile
    PROVE  /\ MastersTurn => FreeLeft' = FreeLeft
           /\ NodesTurn => FreeLeft' = FreeLeft - (IF IsTimesync(network, tile) THEN 0 ELSE 1)
           /\ NextTile /\ turn = "update" => FreeLeft' = FreeLeft
  <1> DEFINE act == master.header.activationTile
  <1>1. ASSUME NEW t, UNCHANGED network, NodesTile' = t
        PROVE  FreeLeft' = Free(network, act) - Free(network, t)
    BY <1>1 DEF FreeLeft
  <1>2. FreeLeft = Free(network, act) - Free(network, NodesTile)
    BY DEF FreeLeft
  <1> HIDE DEF act
  <1>3. ASSUME MastersTurn PROVE FreeLeft' = FreeLeft
    <2>1. UNCHANGED network /\ NodesTile = tile /\ NodesTile' = tile
      BY <1>3 DEF MastersTurn, NodesTile
    <2> QED BY <1>1, <1>2, <2>1
  <1>4. ASSUME NodesTurn
        PROVE  FreeLeft' = FreeLeft - (IF IsTimesync(network, tile) THEN 0 ELSE 1)
    <2>1. UNCHANGED network /\ NodesTile = tile /\ NodesTile' = tile + 1
      BY <1>4 DEF NodesTurn, NodesTile
    <2>2. FreeLeft' = Free(network, act) - Free(network, tile + 1)
      BY <1>1, <2>1
    <2>3. FreeLeft = Free(network, act) - Free(network, tile)
      BY <1>2, <2>1
    <2>4. Free(network, act) \in Int
      BY FreeLeftFacts DEF act
    <2> QED BY <2>2, <2>3, <2>4, FreeLeftFacts
  <1>5. ASSUME NextTile, turn = "update" PROVE FreeLeft' = FreeLeft
    <2>1. /\ ValidStructure(network) /\ tile \in Nat /\ UNCHANGED network
          /\ tile' = NextDownlink(network, tile) /\ turn' = "master"
      BY <1>5, NetworkFacts DEF NextTile, Based, Typed
    <2>2. NodesTile = tile + 1 /\ NodesTile' = NextDownlink(network, tile)
      BY <1>5, <2>1 DEF NodesTile
    <2>3. Free(network, NextDownlink(network, tile)) = Free(network, tile + 1)
      BY <2>1, NextDownlinkFacts
    <2> QED BY <1>1, <1>2, <2>1, <2>2, <2>3
  <1> QED BY <1>3, <1>4, <1>5

\* Whether a node is synchronized stays as it is.
SyncStays == (timesync'.status = "DESYNCHRONIZED") <=> (timesync.status = "DESYNCHRONIZED")

\* What a step that concerns something else leaves as it was.
LEMMA ContentsStay ==
    ASSUME SameContents(node', node), heard' = heard, SyncStays,
           dataPhase'["node"] = dataPhase["node"],
           master'.schedule = master.schedule, SameDistribution(master'.header, master.header)
    PROVE  /\ Played => Played'
           /\ IsNewSchedule(node') <=> IsNewSchedule(node)
           /\ Idle /\ node'.status # "SENDING_SCHEDULE" => Idle'
           /\ Matches /\ node'.header = node.header => Matches'
           /\ Settled /\ node'.status = node.status => Settled'
  <1>1. IsNewSchedule(node') <=> IsNewSchedule(node)
    BY DEF SameContents, IsNewSchedule
  <1>2. Played => Played'
    BY DEF Played, SameContents, SyncStays
  <1>3. Idle /\ node'.status # "SENDING_SCHEDULE" => Idle'
    BY DEF Idle, SameContents, IsNewSchedule
  <1>4. Matches /\ node'.header = node.header => Matches'
    BY DEF Matches, SameContents, SameDistribution
  <1>5. Settled /\ node'.status = node.status => Settled'
    BY DEF Settled, SameContents, SameDistribution, IsNewSchedule
  <1> QED BY <1>1, <1>2, <1>3, <1>4, <1>5

LEMMA PreparedStays ==
    ASSUME Prepared, node' = node, heard' = heard, FreeLeft' = FreeLeft,
           expander'["node"] = expander["node"], rekeying'["node"] = rekeying["node"],
           master'.schedule = master.schedule, SameDistribution(master'.header, master.header)
    PROVE  Prepared'
  <1>1. Matches'
    BY DEF Matches, Prepared, SameDistribution
  <1>2. /\ NodeRekeys(node)' /\ node'.nextActivationTile = master'.header.activationTile
        /\ IsNewSchedule(node)' <=> IsNewSchedule(node)
        /\ IsComplete(node)' <=> IsComplete(node)
    BY DEF Prepared, NodeRekeys, IsNewSchedule, IsComplete, SameDistribution
  <1> QED BY <1>1, <1>2 DEF Prepared

LEMMA JoinsInit ==
    ASSUME Init
    PROVE  Joins
  BY DEF Init, Joins, Played, Joined, Idle, NodeAtStart, IsNewSchedule

LEMMA JoinsDesync ==
    ASSUME Based, NEW k, DesyncMAC(k)
    PROVE  Joins'
  <1>1. /\ node'.currentScheduleID = 0 /\ node'.lastScheduleID = 0 /\ heard' = {}
        /\ node'.status = "APPLIED_SCHEDULE" /\ timesync'.status = "DESYNCHRONIZED"
    BY DesyncContents
  <1>2. ~IsNewSchedule(node')
    BY <1>1 DEF IsNewSchedule
  <1>3. Played' /\ Idle'
    BY <1>1, <1>2 DEF Played, Idle, IsNewSchedule
  <1> QED BY <1>1, <1>3 DEF Joins, Joined

\* A node that has stopped listening has the same as the master, or has settled.
LEMMA WhereNodeIs ==
    ASSUME Joined, heard # {}
    PROVE  /\ Distributing => Receiving \/ Prepared
           /\ ~Distributing => AboutToActivate \/ Settled
           /\ node.status = "SENDING_SCHEDULE" => Distributing /\ Receiving
           /\ NodeRekeys(node) => Prepared /\ (Distributing \/ AboutToActivate)
           /\ ~Distributing /\ turn # "node" => Settled
  BY DEF Joined, Receiving, Prepared, AboutToActivate, Settled, NodeRekeys

LEMMA MasterKeepsNode ==
    ASSUME Based, Stock, MasterStep, UNCHANGED record, dataPhase'["node"] = dataPhase["node"],
           master'.schedule = master.schedule, SameDistribution(master'.header, master.header)
    PROVE  /\ Played => Played'
           /\ Idle => Idle'
           /\ Matches => Matches'
           /\ Prepared => Prepared'
           /\ Settled => Settled'
  <1>1. MastersTurn
    BY DEF MasterStep, MasterBegins, MasterSendsInfo, MasterSendsPacket,
       MasterEndsSending, MasterProcesses, MasterActivates, MasterTimesync, MastersDownlink
  <1>2. /\ node' = node /\ heard' = heard /\ SyncStays /\ SameContents(node', node)
    BY <1>1 DEF MastersTurn, SyncStays, SameContents, record
  <1>3. /\ expander'["node"] = expander["node"] /\ rekeying'["node"] = rekeying["node"]
    BY MasterLeavesNode
  <1>4. FreeLeft' = FreeLeft
    BY <1>1, FreeLeftStep DEF SameDistribution
  <1>5. Prepared => Prepared'
    BY <1>2, <1>3, <1>4, PreparedStays
  <1>6. /\ Played => Played'
        /\ Idle /\ node'.status # "SENDING_SCHEDULE" => Idle'
        /\ Matches => Matches'
        /\ Settled => Settled'
    BY <1>2, ContentsStay
  <1>7. Idle => node'.status # "SENDING_SCHEDULE"
    BY <1>2 DEF Idle
  <1> QED BY <1>5, <1>6, <1>7

LEMMA JoinsMasterStep ==
    ASSUME Based, Master, InTime, Lockstep, Stock, Joins, MasterStep
    PROVE  Joins'
  <1>1. MastersTurn
    BY DEF MasterStep, MasterBegins, MasterSendsInfo, MasterSendsPacket,
       MasterEndsSending, MasterProcesses, MasterActivates, MasterTimesync, MastersDownlink
  <1>2. /\ turn = "master" /\ turn' = "node" /\ tile' = tile /\ network' = network
        /\ node' = node /\ timesync' = timesync /\ aborted' = aborted
    BY <1>1 DEF MastersTurn
  <1>3. master.header \in Headers /\ ~AboutToActivate /\ ~NodeIsToAct
    BY <1>2 DEF Based, Typed, MasterTyped, AboutToActivate, NodeIsToAct
  <1>4. SameDistribution(master.header, master.header)
    BY DEF SameDistribution
  <1>5. Live /\ node.status = "SENDING_SCHEDULE" => master.status = "SENDING_SCHEDULE"
    BY <1>3 DEF Lockstep, LockedIn
  <1>6. ASSUME NEW s \in SchedulesToSend, MasterBegins(s) PROVE Joins'
    <2>1. /\ UNCHANGED dataPhase /\ absent' = absent /\ heard' = {} /\ ~Distributing
      BY <1>6, BeginsEffect DEF MasterBegins, Distributing
    <2> SUFFICES ASSUME Live PROVE Played' /\ Idle'
      BY <1>2, <2>1 DEF Joins, Joined, Live
    <2>2. Played /\ Joined
      BY DEF Joins
    <2>3. Idle
      BY <1>3, <2>1, <2>2 DEF Joined, Settled, Idle
    <2> QED BY <1>2, <2>1, <2>2, <2>3 DEF Played, Idle
  <1>7. ASSUME UNCHANGED record, dataPhase'["node"] = dataPhase["node"],
               master'.schedule = master.schedule, SameDistribution(master'.header, master.header),
               Distributing' <=> Distributing,
               node.status = "SENDING_SCHEDULE" /\ Live => master'.processingSlotCtr = 0
                   \/ master'.status = "SENDING_SCHEDULE"
        PROVE  Joins'
    <2> SUFFICES ASSUME Live PROVE Played' /\ Joined'
      BY <1>2, <1>7 DEF Joins, Live, record
    <2>1. Played /\ Joined /\ heard' = heard
      BY <1>7 DEF Joins, record
    <2>2. /\ Played' /\ (Idle => Idle') /\ (Matches => Matches')
          /\ (Prepared => Prepared') /\ (Settled => Settled')
      BY <1>7, <2>1, MasterKeepsNode
    <2>3. Receiving => Receiving'
      BY <1>2, <1>7, <2>2 DEF Receiving
    <2>4. CASE heard = {}
      BY <2>1, <2>2, <2>4 DEF Joined
    <2>5. CASE heard # {} /\ ~Distributing
      BY <1>3, <1>7, <2>1, <2>2, <2>5 DEF Joined
    <2>6. CASE heard # {} /\ Distributing
      BY <1>7, <2>1, <2>2, <2>3, <2>6 DEF Joined
    <2> QED BY <2>2, <2>4, <2>5, <2>6
  <1>8. CASE MasterSendsInfo \/ MasterTimesync
    <2>1. UNCHANGED <<master, dataPhase, record>>
      BY <1>8, SendsInfoEffect, MasterTimesyncEffect
    <2> QED BY <1>4, <1>5, <1>7, <2>1 DEF Distributing
  <1>9. CASE MasterSendsPacket
    <2>1. UNCHANGED <<dataPhase, record>> /\ master'.schedule = master.schedule
          /\ master.status = "SENDING_SCHEDULE" /\ master'.status = master.status
          /\ SameDistribution(master'.header, master.header)
      BY <1>3, <1>9, SendsPacketEffect, NextPacketFacts DEF SameDistribution
    <2> QED BY <1>7, <2>1 DEF Distributing
  <1>10. CASE MasterEndsSending
    <2>1. UNCHANGED <<dataPhase, record>> /\ master'.schedule = master.schedule
          /\ master.status = "SENDING_SCHEDULE" /\ master'.status = "PROCESSING"
          /\ master'.header = master.header /\ master'.processingSlotCtr = master.processingSlotCtr
      BY <1>10, MasterEndsSendingEffect
    <2>2. master.processingSlotCtr = 0
      BY <2>1 DEF InTime, EnoughDownlinks
    <2> QED BY <1>4, <1>7, <2>1, <2>2 DEF Distributing
  <1>11. CASE MasterProcesses
    <2>1. UNCHANGED <<dataPhase, record>> /\ master'.schedule = master.schedule
          /\ master.status = "PROCESSING" /\ master'.header = master.header
          /\ master'.status \in {"PROCESSING", "AWAITING_ACTIVATION"}
      BY <1>11, MasterProcessesEffect
    <2> QED BY <1>4, <1>5, <1>7, <2>1 DEF Distributing
  <1>12. CASE MasterActivates
    <2>1. UNCHANGED record /\ master'.schedule = master.schedule
          /\ MasterRekeys /\ master'.status = "APPLIED_SCHEDULE"
          /\ master'.header = master.header /\ ~IsTimesync(network, tile)
          /\ tile >= master.header.activationTile
          /\ dataPhase' = [dataPhase EXCEPT !["master"] =
                                PlaySchedule(expander["master"], master.header)]
      BY <1>12, MasterActivatesEffect DEF MasterRekeys
    <2>2. dataPhase'["node"] = dataPhase["node"]
      BY <2>1
    <2>3. tile = master.header.activationTile
      <3>1. MasterIsInTime /\ tile \in Nat /\ master.header.activationTile \in Nat
        BY InTimeImplies, MasterNumbers
      <3> QED BY <1>2, <2>1, <3>1 DEF MasterIsInTime, MasterRekeys
    <2> SUFFICES ASSUME Live PROVE Played' /\ Joined'
      BY <1>2, <2>1 DEF Joins, Live, record
    <2>4. Played /\ Joined /\ heard' = heard /\ Distributing /\ ~Distributing'
      BY <2>1 DEF Joins, record, MasterRekeys, Distributing
    <2>5. Played' /\ (Idle => Idle') /\ (Prepared => Prepared')
      BY <1>4, <2>1, <2>2, <2>4, MasterKeepsNode
    <2>6. Prepared => AboutToActivate'
      BY <1>2, <2>1, <2>3, <2>5 DEF AboutToActivate
    <2>7. ~Receiving
      BY <1>5, <2>1 DEF Receiving, MasterRekeys
    <2> QED BY <2>4, <2>5, <2>6, <2>7 DEF Joined
  <1> QED BY <1>6, <1>8, <1>9, <1>10, <1>11, <1>12 DEF MasterStep

\* The node stops listening when the master has sent the last packet, with at
\* least two downlinks left.
LEMMA JoinsEndsSending ==
    ASSUME Based, Master, InTime, Lockstep, Stock, Joins, NodeEndsSending
    PROVE  Joins'
  <1>1. /\ NodesTurn /\ UNCHANGED <<timesync, dataPhase, record, master>>
        /\ turn = "node" /\ ~IsTimesync(network, tile) /\ SendingIsOver(node)
        /\ node'.status = "PROCESSING" /\ node'.header = node.header
        /\ node'.nextActivationTile = node.header.activationTile
        /\ Live' => Live
    BY EndsSendingEffect DEF NodesTurn, record, Live
  <1>2. /\ SameContents(node', node)
        /\ IsNewSchedule(node) /\ IsComplete(node) =>
              /\ node'.needToStartExpansion
              /\ DOMAIN rekeying'["node"] = {"next", "inProgress", "left"}
              /\ rekeying'["node"].left = node.schedule.streams
    BY EndsSendingContents
  <1> SUFFICES ASSUME Live PROVE Played' /\ Joined'
    BY <1>1 DEF Joins
  <1>3. /\ Played /\ Receiving /\ heard # {} /\ Distributing /\ LockedIn
    BY <1>1 DEF Joins, Joined, Idle, SendingIsOver, Prepared, AboutToActivate, Settled,
       NodeRekeys, Lockstep
  <1>4. SameDistribution(master'.header, master.header) /\ SyncStays
    BY <1>1 DEF SameDistribution, SyncStays
  <1>5. /\ Played' /\ Matches' /\ (IsNewSchedule(node') <=> IsNewSchedule(node))
    BY <1>1, <1>2, <1>3, <1>4, ContentsStay DEF record, Receiving
  <1>6. FreeLeft' \in Int /\ FreeLeft' >= 2
    <2>1. FreeLeft' = Free(network, master.header.activationTile) - Free(network, tile + 1)
      <3>1. FreeLeft' = FreeLeft - 1
        BY <1>1, FreeLeftStep
      <3>2. FreeLeft = Free(network, master.header.activationTile) - Free(network, tile)
        BY <1>1 DEF FreeLeft, NodesTile
      <3> QED BY <1>1, <3>1, <3>2, FreeLeftFacts
    <2>2. MastersTile = tile + 1 /\ NodeIsToAct
      BY <1>1 DEF MastersTile, NodeIsToAct
    <2>3. /\ master.status \in {"SENDING_SCHEDULE", "PROCESSING"}
          /\ Free(network, master.header.activationTile) - Free(network, tile + 1) >= Needed
      BY <1>3, <2>2 DEF LockedIn, InTime, EnoughDownlinks
    <2>4. master.rekeyingSlots >= 1 /\ master.expansionSlots >= 1
      BY <2>3 DEF Stock
    <2>5. Needed \in Int /\ Needed >= 2
      <3>1. CASE master.status = "SENDING_SCHEDULE"
        <4>1. master.currentSendingRound <= master.sendingRounds
          BY <3>1 DEF Master, Sending
        <4> QED BY <2>4, <3>1, <4>1, MasterNumbers DEF Needed
      <3>2. CASE master.status = "PROCESSING"
        <4>1. master.processingSlotCtr = 0
          BY <1>3, <3>2 DEF Receiving
        <4> QED BY <2>4, <3>2, <4>1, MasterNumbers DEF Needed
      <3> QED BY <2>3, <3>1, <3>2
    <2> QED BY <2>1, <2>3, <2>5, FreeLeftFacts
  <1>7. IsNewSchedule(node) /\ IsComplete(node)' =>
           LET r == rekeying'["node"]
           IN  /\ node'.needToStartExpansion
               /\ DOMAIN r = {"next", "inProgress", "left"} /\ r.left \in Nat
               /\ r.left <= (IF FreeLeft' = 1 THEN 1 ELSE 2) * maxHashesPerSlot
    <2>1. IsComplete(node)' <=> IsComplete(node)
      BY <1>1, <1>2 DEF IsComplete, SameContents
    <2>2. node.schedule.streams \in Nat /\ node.schedule.streams <= 2 * maxHashesPerSlot
      BY DEF Stock, Small, Schedules
    <2> QED BY <1>2, <1>6, <2>1, <2>2
  <1>8. /\ NodeRekeys(node)' /\ node'.nextActivationTile = master'.header.activationTile
    BY <1>1, <1>3 DEF NodeRekeys, Receiving, Matches, SameDistribution
  <1>9. Prepared'
    BY <1>1, <1>5, <1>6, <1>7, <1>8 DEF Prepared
  <1> QED BY <1>1, <1>3, <1>5, <1>9 DEF Joined, Distributing, record

\* Every downlink makes progress with the keys of the streams, and one expands
\* the schedule.
LEMMA JoinsProcesses ==
    ASSUME Based, Master, InTime, Stock, Joins, NodeProcesses
    PROVE  Joins'
  <1>1. /\ NodesTurn /\ UNCHANGED <<timesync, dataPhase, record, master, aborted>>
        /\ turn = "node" /\ ~IsTimesync(network, tile) /\ node.status = "PROCESSING"
        /\ node'.status \in {"PROCESSING", "AWAITING_ACTIVATION"}
        /\ node'.header = node.header /\ node'.nextActivationTile = node.nextActivationTile
        /\ tile < node.nextActivationTile
        /\ Live' => Live
    <2>1. /\ node.nextActivationTile \in Nat /\ tile \in Nat
      BY DEF Based, Typed, NodeTyped
    <2> QED BY <2>1, ProcessesEffect DEF NodeProcesses, ActivationReached, NodesTurn, record, Live
  <1>2. SameContents(node', node)
    BY ProcessesContents
  <1> SUFFICES ASSUME Live PROVE Played' /\ Joined'
    BY <1>1 DEF Joins
  <1>3. SameDistribution(master'.header, master.header) /\ SyncStays
    BY <1>1 DEF SameDistribution, SyncStays
  <1>4. /\ Played /\ Played' /\ Joined /\ heard' = heard
        /\ IsNewSchedule(node)' <=> IsNewSchedule(node)
        /\ Idle => Idle'
        /\ Matches => Matches'
    BY <1>1, <1>2, <1>3, ContentsStay DEF record, Joins
  <1>5. CASE heard = {}
    BY <1>4, <1>5 DEF Joined
  <1>6. CASE heard # {}
    <2>1. /\ tile \in Nat /\ master.header.activationTile \in Nat
          /\ Prepared /\ Distributing
      BY <1>1, <1>4, <1>6, MasterNumbers
         DEF Joined, Receiving, Prepared, AboutToActivate, Settled
    <2>2. /\ NodeRekeys(node)' /\ Matches' /\ node'.nextActivationTile = master'.header.activationTile
      BY <1>1, <1>4, <2>1 DEF NodeRekeys, Prepared
    <2>3. FreeLeft' = FreeLeft - 1 /\ FreeLeft \in Int
      BY <1>1, FreeLeftStep, FreeLeftFacts
    <2>4. IsComplete(node)' <=> IsComplete(node)
      BY <1>1, <1>2 DEF IsComplete, SameContents
    <2>5. CASE ~IsComplete(node)
      <3>1. node'.status = "AWAITING_ACTIVATION"
        BY <2>5 DEF NodeProcesses, Based, Typed, NodeTyped, NodeFields
      <3> QED BY <1>1, <1>4, <1>6, <2>1, <2>2, <2>4, <2>5, <3>1 DEF Prepared, Joined, Distributing
    <2>6. CASE ~IsNewSchedule(node)
      BY <1>1, <1>4, <1>6, <2>1, <2>2, <2>6 DEF Prepared, Joined, Distributing
    <2>7. CASE IsComplete(node) /\ IsNewSchedule(node)
      <3> DEFINE r == rekeying["node"]
      <3>1. /\ FreeLeft >= 1 /\ node.needToStartExpansion
            /\ DOMAIN r = {"next", "inProgress", "left"} /\ r.left \in Nat
            /\ r.left <= (IF FreeLeft = 1 THEN 1 ELSE 2) * maxHashesPerSlot
        BY <1>1, <2>1, <2>7 DEF Prepared
      <3>2. /\ rekeying' = [rekeying EXCEPT !["node"] = ContinueStreamRekeying(@)]
            /\ \/ rekeying'["node"].left > 0 /\ node' = node /\ expander' = expander
               \/ NodeExpands("AWAITING_ACTIVATION")
        BY <2>7 DEF NodeProcesses
      <3>3. /\ DOMAIN rekeying'["node"] = {"next", "inProgress", "left"}
            /\ rekeying'["node"].left = Larger(r.left, maxHashesPerSlot) - maxHashesPerSlot
        BY <3>1, <3>2 DEF Stock, Roles, ContinueStreamRekeying
      <3>4. CASE rekeying'["node"].left > 0 /\ node' = node /\ expander' = expander
        <4>1. maxHashesPerSlot \in Nat \ {0}
          BY DistributionAssumption
        <4>2. /\ r.left > maxHashesPerSlot
              /\ rekeying'["node"].left = r.left - maxHashesPerSlot
          BY <3>1, <3>3, <3>4, <4>1 DEF Larger
        <4> HIDE DEF r
        <4>3. FreeLeft >= 2 /\ r.left <= 2 * maxHashesPerSlot
          BY <2>3, <3>1, <4>1, <4>2
        <4>4. /\ FreeLeft' >= 1 /\ rekeying'["node"].left \in Nat
              /\ rekeying'["node"].left <= maxHashesPerSlot
          BY <2>3, <3>1, <4>1, <4>2, <4>3
        <4>5. rekeying'["node"].left <= (IF FreeLeft' = 1 THEN 1 ELSE 2) * maxHashesPerSlot
          BY <4>1, <4>4
        <4>6. Prepared'
          BY <1>1, <2>2, <3>1, <3>3, <3>4, <4>4, <4>5 DEF Prepared
        <4> QED BY <1>1, <1>4, <1>6, <2>1, <4>6 DEF Joined, Distributing
      <3>5. CASE NodeExpands("AWAITING_ACTIVATION")
        <4>1. /\ node'.status = "AWAITING_ACTIVATION"
              /\ expander'["node"].complete /\ expander'["node"].of = node.schedule.id
          BY <3>1, <3>5, ExpandsContents
        <4>2. node.schedule.id = master'.schedule.id
          BY <1>1, <2>1 DEF Prepared, Matches
        <4> QED BY <1>1, <1>4, <1>6, <2>1, <2>2, <4>1, <4>2 DEF Prepared, Joined, Distributing
      <3> QED BY <3>2, <3>4, <3>5
    <2> QED BY <2>5, <2>6, <2>7
  <1> QED BY <1>4, <1>5, <1>6

\* A node that is behind does not know the schedule.
LEMMA JoinsExpandsLate ==
    ASSUME Based, Master, InTime, Stock, Joins, NodeExpandsLate
    PROVE  Joins'
  <1>1. /\ NodesTurn /\ UNCHANGED <<timesync, dataPhase, record, master, aborted>>
        /\ turn = "node" /\ ~IsTimesync(network, tile) /\ node.status = "PROCESSING"
        /\ node'.status \in {"PROCESSING", "AWAITING_ACTIVATION"}
        /\ tile >= node.nextActivationTile /\ IsNewSchedule(node)
        /\ Live' => Live
    BY ProcessesEffect DEF NodeExpandsLate, ActivationReached, NodesTurn, record, Live
  <1>2. SameContents(node', node)
    BY ProcessesContents
  <1> SUFFICES ASSUME Live PROVE Played' /\ Joined'
    BY <1>1 DEF Joins
  <1>3. SameDistribution(master'.header, master.header) /\ SyncStays
    BY <1>1 DEF SameDistribution, SyncStays
  <1>4. /\ Played' /\ Joined /\ heard' = heard /\ (Idle => Idle')
    BY <1>1, <1>2, <1>3, ContentsStay DEF record, Joins
  <1>5. ~Prepared
    <2>1. SUFFICES ASSUME Prepared PROVE FALSE
      OBVIOUS
    <2>2. /\ FreeLeft >= 1 /\ tile >= master.header.activationTile
      BY <1>1, <2>1 DEF Prepared
    <2>3. Free(network, master.header.activationTile) - Free(network, tile) >= 1
      BY <1>1, <2>2 DEF FreeLeft, NodesTile
    <2> QED BY <2>2, <2>3, NeededIsBefore, MasterNumbers
  <1>6. heard = {}
    BY <1>1, <1>4, <1>5 DEF Joined, Receiving, AboutToActivate, Settled
  <1> QED BY <1>4, <1>6 DEF Joined

\* The node activates in the same tile as the master.
LEMMA JoinsActivates ==
    ASSUME Based, Master, InTime, Stock, Filled, Joins, NodeActivates
    PROVE  Joins'
  <1>1. /\ NodesTurn /\ UNCHANGED <<timesync, record, master>>
        /\ turn = "node" /\ ~IsTimesync(network, tile)
        /\ NodeRekeys(node) /\ node.status # "SENDING_SCHEDULE"
        /\ node'.status \in {"APPLIED_SCHEDULE", "INCOMPLETE_SCHEDULE"}
        /\ tile >= node.nextActivationTile
        /\ Live' => Live
    BY ActivatesEffect DEF NodesTurn, record, Live, NodeRekeys
  <1> SUFFICES ASSUME Live PROVE Played' /\ Joined'
    BY <1>1 DEF Joins
  <1>2. /\ Played /\ Joined /\ heard' = heard
    BY <1>1 DEF record, Joins
  <1>3. /\ node.lastScheduleID \in 0 .. master.schedule.id
        /\ node.currentScheduleID \in 0 .. master.schedule.id
        /\ master.schedule.id \in Nat
        /\ EmptyDataPhase.whole /\ EmptyDataPhase.id = 0
    BY DEF Stock, EmptyDataPhase, Based, Typed, MasterTyped, Schedules
  <1>4. /\ node'.currentScheduleID = node.currentScheduleID
        /\ \/ /\ IsNewSchedule(node) /\ IsComplete(node)
              /\ node'.lastScheduleID = node.currentScheduleID
              /\ dataPhase'["node"] = PlaySchedule(expander["node"], node.header)
           \/ /\ IsNewSchedule(node) /\ ~IsComplete(node)
              /\ node'.lastScheduleID = node.lastScheduleID /\ node'.received = {}
              /\ dataPhase'["node"] = EmptyDataPhase
           \/ /\ ~IsNewSchedule(node)
              /\ node'.lastScheduleID = node.lastScheduleID /\ dataPhase' = dataPhase
    BY ActivatesContents
  <1>5. IsNewSchedule(node)' => node'.received = {}
    BY <1>3, <1>4 DEF IsNewSchedule
  <1>6. IsNewSchedule(node) => node.lastScheduleID < node.currentScheduleID
    BY <1>3 DEF IsNewSchedule
  <1>7. CASE heard = {}
    <2>1. ~(IsNewSchedule(node) /\ IsComplete(node))
      BY <1>2, <1>7 DEF Joined, Idle, IsComplete
    <2>2. Idle'
      BY <1>1, <1>5 DEF Idle
    <2>3. CASE IsNewSchedule(node)
      <3>1. timesync.status # "DESYNCHRONIZED"
        BY <1>2, <1>6, <2>3 DEF Played
      <3> QED BY <1>1, <1>2, <1>3, <1>4, <1>6, <1>7, <2>1, <2>2, <2>3, <3>1 DEF Played, Joined
    <2>4. CASE ~IsNewSchedule(node)
      BY <1>1, <1>2, <1>4, <1>7, <2>2, <2>4 DEF Played, Joined
    <2> QED BY <2>3, <2>4
  <1>8. CASE heard # {}
    <2>1. /\ tile \in Nat /\ master.header.activationTile \in Nat /\ Prepared
      BY <1>1, <1>2, <1>8, MasterNumbers, WhereNodeIs
    <2>2. ~Distributing /\ tile = master.header.activationTile
      <3>1. Distributing => tile < master.header.activationTile
        BY <1>1, BeforeActivation
      <3> QED BY <1>1, <1>2, <1>8, <2>1, <3>1, WhereNodeIs DEF Prepared, AboutToActivate
    <2>3. /\ Matches /\ node.header.id = master.schedule.id
          /\ node.header.totalPacket = master.header.totalPacket
          /\ node.currentScheduleID = master.schedule.id /\ node.received = heard
      BY <2>1 DEF Prepared, Matches, SameDistribution, Based, MasterHeader
    <2>4. timesync.status # "DESYNCHRONIZED"
      BY <1>2, <1>8 DEF Played
    <2>5. heard = 0 .. master.header.totalPacket - 1 =>
             IsComplete(node) /\ master.schedule.id # 0
      <3>1. heard = 0 .. master.header.totalPacket - 1 => IsComplete(node)
        BY <1>8, <2>3 DEF IsComplete
      <3>2. master.schedule.id # 0
        <4>1. SUFFICES ASSUME master.schedule.id = 0 PROVE FALSE
          OBVIOUS
        <4>2. master.header.activationTile = 0
          BY <4>1 DEF Based, MasterHeader, NoHeader
        <4>3. ValidStructure(network) /\ TilesPerTimesync(network) \in Nat \ {0}
          BY NetworkFacts, StructureFacts DEF Based, Typed
        <4>4. 0 % TilesPerTimesync(network) = 0
          BY <4>3
        <4>5. IsTimesync(network, 0)
          BY <4>3, <4>4, TimesyncsNext
        <4> QED BY <1>1, <2>2, <4>2, <4>5
      <3> QED BY <3>1, <3>2
    <2>6. CASE IsNewSchedule(node) /\ IsComplete(node)
      <3>1. node.status # "PROCESSING"
        <4>1. SUFFICES ASSUME FreeLeft >= 1 PROVE FALSE
          BY <2>1, <2>6 DEF Prepared
        <4>2. FreeLeft = Free(network, tile) - Free(network, tile)
          BY <1>1, <2>2 DEF FreeLeft, NodesTile
        <4> QED BY <4>1, <4>2, FreeLeftFacts
      <3>2. expander["node"].complete /\ expander["node"].of = master.schedule.id
        BY <1>1, <2>1, <2>6, <3>1 DEF Prepared, NodeRekeys
      <3>3. dataPhase'["node"].id = master.schedule.id /\ dataPhase'["node"].whole
        <4> DEFINE e == expander["node"]
                   g == node.header
        <4>1. dataPhase'["node"] = PlaySchedule(e, g)
          BY <1>4, <2>6
        <4>2. e.complete /\ e.of = g.id /\ g.id = master.schedule.id
          BY <2>3, <3>2
        <4> HIDE DEF e, g
        <4>3. PlaySchedule(e, g).id = g.id /\ PlaySchedule(e, g).whole
          BY <4>2 DEF PlaySchedule
        <4> QED BY <4>1, <4>2, <4>3
      <3>4. node'.lastScheduleID = master.schedule.id
        BY <1>4, <2>3, <2>6
      <3>5. Played'
        BY <1>1, <2>4, <3>3, <3>4 DEF Played
      <3> QED BY <1>1, <1>2, <1>5, <1>8, <2>2, <3>3, <3>5 DEF Joined, Settled, Distributing
    <2>7. CASE IsNewSchedule(node) /\ ~IsComplete(node)
      <3>1. Played'
        BY <1>1, <1>2, <1>3, <1>4, <1>6, <2>4, <2>7 DEF Played
      <3> QED BY <1>1, <1>2, <1>3, <1>4, <1>5, <1>8, <2>2, <2>5, <2>7, <3>1
              DEF Joined, Settled, Distributing
    <2>8. CASE ~IsNewSchedule(node)
      <3>1. node.lastScheduleID = master.schedule.id
        BY <1>3, <2>3, <2>8 DEF IsNewSchedule
      <3>2. Played'
        BY <1>1, <1>2, <1>4, <2>8 DEF Played
      <3>3. /\ dataPhase'["node"].id \in {0, master.schedule.id}
            /\ master.schedule.id # 0 => dataPhase'["node"].id = master.schedule.id
        BY <1>2, <1>3, <1>4, <2>3, <2>4, <2>8, <3>1 DEF Played
      <3> QED BY <1>1, <1>2, <1>5, <1>8, <2>2, <2>5, <3>2, <3>3 DEF Joined, Settled, Distributing
    <2> QED BY <2>6, <2>7, <2>8
  <1> QED BY <1>7, <1>8

\* The first packet makes the node listen for the others.
LEMMA JoinsReceives ==
    ASSUME Based, Master, Stock, Joins, NodeReceivesSchedule
    PROVE  Joins'
  <1> DEFINE h == air.content.header
  <1>1. /\ NodesTurn /\ UNCHANGED <<timesync, dataPhase, absent, master>>
        /\ air.type = "schedule" /\ Listens(node) /\ MacCanOperate
        /\ aborted' = IF node.status # "AWAITING_ACTIVATION" THEN aborted
                      ELSE "scheduleBeforeActivation"
        /\ Live' => Live /\ node.status # "AWAITING_ACTIVATION"
    BY ReceivesScheduleEffect DEF NodesTurn, Live
  <1> SUFFICES ASSUME Live, node.status # "AWAITING_ACTIVATION" PROVE Played' /\ Joined'
    BY <1>1 DEF Joins
  <1>2. /\ master.status = "SENDING_SCHEDULE" /\ SameDistribution(h, master.header)
        /\ h.id = master.schedule.id /\ air.content.schedule = master.schedule
    BY <1>1 DEF Master, OnAir, PacketOnAir, Stock, SameDistribution, Based, MasterHeader
  <1>3. /\ Played /\ Joined /\ timesync.status # "DESYNCHRONIZED" /\ Distributing
    BY <1>1, <1>2 DEF Joins, MacCanOperate, Distributing
  <1>4. heard' = heard \cup {h.currentPacket}
    BY ReceivesContents
  <1>5. /\ node.lastScheduleID \in 0 .. master.schedule.id
        /\ node.currentScheduleID \in 0 .. master.schedule.id /\ master.schedule.id \in Nat
    BY DEF Stock, Based, Typed, MasterTyped, Schedules
  <1>6. heard # {} => Receiving
    BY <1>1, <1>3, WhereNodeIs DEF Listens, Prepared, NodeRekeys
  <1>7. /\ node'.status = "SENDING_SCHEDULE" /\ SameDistribution(node'.header, master.header)
        /\ node'.schedule = master.schedule /\ node'.currentScheduleID = master.schedule.id
        /\ node'.received = heard' /\ node'.lastScheduleID = node.lastScheduleID
    <2>1. CASE node.status = "SENDING_SCHEDULE" /\ h.id = node.header.id
      <3>1. Receiving
        BY <1>3, <2>1, <1>6 DEF Joined, Idle
      <3>2. SameDistribution(node.header, h)
        BY <1>2, <3>1 DEF Receiving, Matches, SameDistribution
      <3>3. node'.header = h /\ node'.status = "SENDING_SCHEDULE"
        BY <2>1, <3>2, ReceivesScheduleEffect
      <3>4. DOMAIN node = NodeFields
        BY DEF Based, Typed, NodeTyped
      <3>5. node' = AppendToSchedule(node, air.content)
        BY <2>1 DEF NodeReceivesSchedule
      <3>6. /\ node'.schedule = node.schedule /\ node'.currentScheduleID = node.currentScheduleID
            /\ node'.lastScheduleID = node.lastScheduleID
            /\ node'.received = node.received \cup {h.currentPacket}
        BY <3>2, <3>4, <3>5 DEF AppendToSchedule, NodeFields
      <3> QED BY <1>2, <1>4, <3>1, <3>3, <3>6 DEF Receiving, Matches
    <2>2. CASE ~(node.status = "SENDING_SCHEDULE" /\ h.id = node.header.id)
      <3>1. heard = {}
        BY <1>2, <1>6, <2>2 DEF Receiving, Matches, SameDistribution
      <3>2. node' = InitSchedule(node, air.content) /\ DOMAIN node = NodeFields
        BY <2>2 DEF NodeReceivesSchedule, Based, Typed, NodeTyped
      <3>3. /\ node'.status = "SENDING_SCHEDULE" /\ node'.header = h
            /\ node'.schedule = air.content.schedule /\ node'.received = {h.currentPacket}
            /\ node'.currentScheduleID = h.id /\ node'.lastScheduleID = node.lastScheduleID
        <4> DEFINE rounds == h.totalPacket * scheduleRepetitions
                   round == 1 + h.repetition * scheduleRepetitions + h.currentPacket
        <4> HIDE DEF h
        <4>1. node' = [node EXCEPT !.status = "SENDING_SCHEDULE", !.header = h,
                !.currentScheduleID = h.id, !.schedule = air.content.schedule,
                !.received = {h.currentPacket}, !.sendingRounds = rounds,
                !.currentSendingRound = round]
          BY <3>2 DEF InitSchedule, h
        <4> HIDE DEF rounds, round
        <4> QED BY <3>2, <4>1 DEF NodeFields
      <3> QED BY <1>2, <1>4, <3>1, <3>3
    <2> QED BY <2>1, <2>2
  <1>8. Receiving'
    BY <1>1, <1>2, <1>7 DEF Receiving, Matches
  <1>9. Played'
    BY <1>1, <1>3, <1>5, <1>7 DEF Played
  <1>10. heard' # {} /\ Distributing'
    BY <1>1, <1>3, <1>4 DEF Distributing
  <1> QED BY <1>8, <1>9, <1>10 DEF Joined

\* A node that listens and gets no packet of a schedule.
LEMMA JoinsListens ==
    ASSUME Based, Master, Joins, NodeReceivesInfo \/ NodeReceivesNothing \/ NodeSkips
    PROVE  Joins'
  <1>1. /\ NodesTurn /\ UNCHANGED <<timesync, dataPhase, heard, master>>
        /\ turn = "node" /\ Listens(node) /\ SameContents(node', node)
        /\ node'.status = node.status /\ node'.header = node.header
        /\ node'.nextActivationTile = node.nextActivationTile
        /\ UNCHANGED <<expander, rekeying>>
        /\ Live' => Live
    BY ReceivesInfoEffect, QuietEffect, ListensContents DEF NodesTurn, record, Live, Keeps
  <1> SUFFICES ASSUME Live PROVE Played' /\ Joined'
    BY <1>1 DEF Joins
  <1>2. SameDistribution(master'.header, master.header) /\ SyncStays
    BY <1>1 DEF SameDistribution, SyncStays
  <1>3. Joined
    BY DEF Joins
  <1>4. /\ Played' /\ (Matches => Matches') /\ (Settled => Settled')
        /\ Idle /\ node'.status # "SENDING_SCHEDULE" => Idle'
        /\ IsNewSchedule(node)' <=> IsNewSchedule(node)
    BY <1>1, <1>2, ContentsStay DEF Joins
  <1>5. Idle => Idle'
    BY <1>1, <1>4 DEF Idle
  <1>6. Receiving => Receiving'
    BY <1>1, <1>4 DEF Receiving
  <1>7. Prepared => Prepared'
    <2>1. SUFFICES ASSUME Prepared PROVE Prepared'
      OBVIOUS
    <2>2. node.status = "AWAITING_ACTIVATION"
      BY <1>1, <2>1 DEF Prepared, NodeRekeys, Listens
    <2>3. IsComplete(node)' <=> IsComplete(node)
      BY <1>1 DEF IsComplete, SameContents
    <2> QED BY <1>1, <1>4, <2>1, <2>2, <2>3 DEF Prepared, NodeRekeys
  <1>8. ~AboutToActivate
    BY <1>1, MasterNumbers DEF AboutToActivate, Prepared, NodeRekeys, Listens, ActivationReached
  <1> QED BY <1>1, <1>3, <1>4, <1>5, <1>6, <1>7, <1>8 DEF Joined, Distributing

\* A step that leaves the node as it is, at the end of a tile or in a timesync.
LEMMA JoinsStays ==
    ASSUME Based, Joins, Live' => Live, UNCHANGED <<master, node, heard, expander, rekeying>>,
           dataPhase'["node"] = dataPhase["node"], SyncStays, FreeLeft' = FreeLeft,
           ~AboutToActivate \/ UNCHANGED <<turn, tile, network>>
    PROVE  Joins'
  <1> SUFFICES ASSUME Live PROVE Played' /\ Joined'
    BY DEF Joins
  <1>1. /\ SameContents(node', node) /\ SameDistribution(master'.header, master.header) /\ Joined
        /\ expander'["node"] = expander["node"] /\ rekeying'["node"] = rekeying["node"]
    BY DEF SameContents, SameDistribution, Joins
  <1>2. /\ Played' /\ (Matches => Matches') /\ (Settled => Settled')
        /\ Idle /\ node'.status # "SENDING_SCHEDULE" => Idle'
    BY <1>1, ContentsStay DEF Joins
  <1>3. Idle => Idle'
    BY <1>2 DEF Idle
  <1>4. Receiving => Receiving'
    BY <1>2 DEF Receiving
  <1>5. Prepared => Prepared'
    BY <1>1, PreparedStays
  <1>6. AboutToActivate => AboutToActivate'
    BY <1>5 DEF AboutToActivate
  <1> QED BY <1>1, <1>2, <1>3, <1>4, <1>5, <1>6 DEF Joined, Distributing

\* A timesync forces an activation only upon a node that has heard nothing.
LEMMA JoinsForced ==
    ASSUME Based, Master, Paired, Lockstep, Joins, NodesTurn, IsTimesync(network, tile), Live' => Live,
           UNCHANGED <<heard, dataPhase>>, timesync.status # "DESYNCHRONIZED", SyncStays,
           NEW k, RekeyingInProgress(k) <=> RekeyingInProgress(keys["node"]), MustForce(k),
           node' = ForceScheduleActivation(node)
    PROVE  Joins'
  <1>1. /\ turn = "node" /\ master' = master /\ SameContents(node', node)
        /\ SameDistribution(master'.header, master.header)
    BY ForcedContents DEF NodesTurn, SameDistribution
  <1>2. node'.status = "PROCESSING"
    BY DEF ForceScheduleActivation, Based, Typed, NodeTyped, NodeFields
  <1> SUFFICES ASSUME Live PROVE Played' /\ Joined'
    BY DEF Joins
  <1>3. /\ Played' /\ Joined /\ (Idle => Idle')
    BY <1>1, <1>2, ContentsStay DEF Joins
  <1>4. ~NodeRekeys(node)
    BY <1>1 DEF Live, Paired, PairedKeys, MustForce
  <1>5. Distributing
    BY <1>1 DEF Master, OnAir, TimesyncOnAir, MustForce, MasterRekeys, Distributing
  <1>6. node.status = "SENDING_SCHEDULE" => master.status = "SENDING_SCHEDULE"
    BY DEF Lockstep, LockedIn, NodeIsToAct
  <1>7. MasterRekeys
    BY <1>1 DEF Master, OnAir, TimesyncOnAir, MustForce
  <1>8. heard = {}
    BY <1>3, <1>4, <1>5, <1>6, <1>7, WhereNodeIs DEF Receiving, Prepared, MasterRekeys
  <1> QED BY <1>3, <1>8 DEF Joined

LEMMA JoinsTimesync ==
    ASSUME Based, Master, Paired, InTime, Lockstep, Stock, Joins,
           NodeHearsTimesync \/ NodeMissesTimesync \/ NodeResyncs \/ NodeStaysDesynchronized
    PROVE  Joins'
  <1>1. /\ NodesTurn /\ IsTimesync(network, tile) /\ UNCHANGED <<expander, rekeying, master>>
        /\ turn = "node" /\ air.type = "timesync" /\ DOMAIN dataPhase = Roles
        /\ master.header.activationTile' = master.header.activationTile
    BY DEF NodeHearsTimesync, NodeMissesTimesync, NodeResyncs, NodeStaysDesynchronized,
       NodesTimesync, NodesTurn, Master, OnAir, TimesyncOnAir, Based, Typed
  <1>2. FreeLeft' = FreeLeft
    <2>1. FreeLeft' = FreeLeft - 0
      BY <1>1, FreeLeftStep
    <2> QED BY <2>1, FreeLeftFacts
  <1>3. ~AboutToActivate
    BY <1>1 DEF AboutToActivate
  <1>4. ASSUME UNCHANGED <<node, record, dataPhase>>, aborted' = "no" => aborted = "no", SyncStays
        PROVE  Joins'
    BY <1>1, <1>2, <1>3, <1>4, JoinsStays DEF record, Live
  <1>5. ASSUME NEW k, MissedPacket(k), aborted' = aborted PROVE Joins'
    <2>1. CASE DesyncMAC(k)
      BY <2>1, JoinsDesync
    <2>2. CASE ~DesyncMAC(k)
      <3>1. timesync' = [timesync EXCEPT !.missed = @ + 1] /\ UNCHANGED <<node, dataPhase, record>>
        BY <1>5, <2>2 DEF MissedPacket
      <3>2. SyncStays
        BY <3>1 DEF SyncStays, Based, Typed, TimesyncTyped
      <3> QED BY <1>4, <1>5, <3>1, <3>2
    <2> QED BY <2>1, <2>2
  <1>6. CASE NodeHearsTimesync
    <2> DEFINE synced == CommitAdvance(HearingKeys)
               back == RollbackAdvance(HearingKeys)
    <2>1. timesync.status # "DESYNCHRONIZED"
      BY <1>6 DEF NodeHearsTimesync
    <2>2. \/ /\ timesync'.status = "IN_SYNC" /\ UNCHANGED <<dataPhase, record>>
             /\ aborted' = "no" => aborted = "no"
             /\ \/ MustForce(synced) /\ node' = ForceScheduleActivation(node)
                \/ node' = node
          \/ MissedPacket(back) /\ aborted' = aborted
      BY <1>6 DEF NodeHearsTimesync, HearingKeys, Unless
    <2>3. RekeyingInProgress(synced) <=> RekeyingInProgress(keys["node"])
      <3>1. keys["node"] \in Keys /\ HearingKeys \in Keys
        BY KeysUnchanged, AdvanceFacts DEF HearingKeys
      <3>2. HearingKeys.status \in {keys["node"].status} \cup
                (IF keys["node"].status = "CONNECTED" THEN {"ADVANCING"} ELSE {})
        BY <3>1, AdvanceFacts DEF HearingKeys
      <3>3. synced.status = IF HearingKeys.status = "ADVANCING" THEN "CONNECTED"
                            ELSE HearingKeys.status
        BY <3>1, AdvanceFacts
      <3> HIDE DEF synced
      <3>4. CASE keys["node"].status = "CONNECTED"
        BY <3>2, <3>3, <3>4 DEF RekeyingInProgress
      <3>5. CASE keys["node"].status # "CONNECTED"
        BY <3>2, <3>3, <3>5 DEF RekeyingInProgress
      <3> QED BY <3>4, <3>5
    <2> HIDE DEF synced, back
    <2>4. CASE MissedPacket(back) /\ aborted' = aborted
      BY <1>5, <2>4
    <2>5. CASE /\ timesync'.status = "IN_SYNC" /\ UNCHANGED <<dataPhase, record>>
               /\ aborted' = "no" => aborted = "no"
               /\ \/ MustForce(synced) /\ node' = ForceScheduleActivation(node)
                  \/ node' = node
      <3>1. SyncStays /\ (Live' => Live) /\ heard' = heard
        BY <2>1, <2>5 DEF SyncStays, Live, record
      <3>2. CASE node' = node
        BY <1>4, <2>5, <3>1, <3>2
      <3>3. CASE MustForce(synced) /\ node' = ForceScheduleActivation(node)
        BY <1>1, <2>1, <2>3, <2>5, <3>1, <3>3, JoinsForced
      <3> QED BY <2>5, <3>2, <3>3
    <2> QED BY <2>2, <2>4, <2>5
  <1>7. CASE NodeMissesTimesync
    BY <1>5, <1>7 DEF NodeMissesTimesync
  <1>8. CASE NodeResyncs
    <2>1. /\ timesync.status = "DESYNCHRONIZED" /\ timesync'.status = "SYNCING"
          /\ UNCHANGED <<record, aborted>>
          /\ node' = node \/ node' = ForceScheduleActivation(node)
          /\ dataPhase' = [dataPhase EXCEPT !["node"] = EmptyDataPhase]
      BY <1>8 DEF NodeResyncs
    <2> SUFFICES ASSUME Live PROVE Played' /\ Joined'
      BY <2>1 DEF Joins, Live, record
    <2>2. /\ heard = {} /\ node.lastScheduleID = 0 /\ node.currentScheduleID = 0 /\ Idle
      BY <2>1 DEF Joins, Played, Joined
    <2>3. /\ node'.lastScheduleID = 0 /\ node'.currentScheduleID = 0
          /\ node'.status # "SENDING_SCHEDULE"
      <3>1. CASE node' = node
        BY <2>2, <3>1 DEF Idle
      <3>2. CASE node' = ForceScheduleActivation(node)
        BY <2>2, <3>2 DEF ForceScheduleActivation, Based, Typed, NodeTyped, NodeFields
      <3> QED BY <2>1, <3>1, <3>2
    <2>4. dataPhase'["node"] = EmptyDataPhase
      BY <1>1, <2>1 DEF Roles
    <2>5. Played'
      BY <2>1, <2>3, <2>4 DEF Played, EmptyDataPhase
    <2>6. Idle'
      BY <2>3 DEF Idle, IsNewSchedule
    <2> QED BY <2>1, <2>2, <2>5, <2>6 DEF Joined, record
  <1>9. CASE NodeStaysDesynchronized
    BY <1>4, <1>9 DEF NodeStaysDesynchronized, SyncStays
  <1> QED BY <1>6, <1>7, <1>8, <1>9

LEMMA JoinsNext ==
    ASSUME Based, Master, Paired, InTime, Lockstep, Stock, Filled, Joins, [Next]_vars
    PROVE  Joins'
  <1>1. CASE NodeStep
    BY <1>1, JoinsEndsSending, JoinsProcesses, JoinsExpandsLate, JoinsActivates, JoinsReceives,
       JoinsListens, JoinsTimesync DEF NodeStep
  <1>2. ASSUME NextTile, turn = "update", aborted' = aborted, UNCHANGED <<node, record, timesync>>
        PROVE  Joins'
    <2>1. FreeLeft' = FreeLeft
      BY <1>2, FreeLeftStep DEF NextTile
    <2>2. ~AboutToActivate
      BY <1>2 DEF AboutToActivate
    <2> QED BY <1>2, <2>1, <2>2, JoinsStays DEF NextTile, SyncStays, Live, record
  <1>3. CASE NodeUpdatesKeys
    <2> DEFINE k == PeriodicUpdate(keys["node"], ChallengeTimeout).keys
    <2>1. /\ NextTile /\ turn = "update" /\ aborted' = aborted
          /\ DesyncMAC(k) \/ UNCHANGED <<timesync, node, record>>
      BY <1>3 DEF NodeUpdatesKeys
    <2> HIDE DEF k
    <2> QED BY <1>2, <2>1, JoinsDesync
  <1>4. CASE TileEnds
    <2>1. NextTile /\ UNCHANGED <<node, record, timesync, aborted>>
      BY <1>4 DEF TileEnds
    <2>2. CASE turn = "update"
      BY <1>2, <2>1, <2>2
    <2>3. CASE turn # "update"
      BY <1>4, <2>1, <2>3 DEF TileEnds, Joins, Live
    <2> QED BY <2>2, <2>3
  <1>5. CASE ChallengeArrives \/ vars' = vars
    <2>1. /\ UNCHANGED <<network, tile, turn, master, node, expander, rekeying, dataPhase,
                         timesync, aborted, heard, absent>>
      BY <1>5 DEF ChallengeArrives, vars, shared, record
    <2>2. FreeLeft' = FreeLeft
      BY <2>1 DEF FreeLeft, NodesTile
    <2> QED BY <2>1, <2>2, JoinsStays DEF SyncStays, Live
  <1> QED BY <1>1, <1>3, <1>4, <1>5, JoinsMasterStep DEF Next

\* In the activation tile the node has switched, if it knows the schedule.
LEMMA JoinsImplies ==
    ASSUME Based, SlotsAgree, Filled, Joins
    PROVE  SwitchesTogether
  <1> SUFFICES ASSUME turn = "update", aborted = "no", ~absent,
                      master.status = "APPLIED_SCHEDULE", tile = master.header.activationTile
               PROVE  /\ heard # {} => dataPhase["node"].id \in {0, master.schedule.id}
                      /\ heard = 0 .. master.header.totalPacket - 1 =>
                             /\ dataPhase["node"].id = master.schedule.id
                             /\ dataPhase["node"].whole
    BY DEF SwitchesTogether
  <1>1. Played /\ Joined /\ ~Distributing /\ ~AboutToActivate
    BY DEF Joins, Live, Distributing, AboutToActivate
  <1>2. CASE heard # {}
    BY <1>1, <1>2 DEF Joined, Settled, Played
  <1>3. CASE heard = {}
    <2>1. SUFFICES ASSUME heard = 0 .. master.header.totalPacket - 1
                   PROVE  dataPhase["node"].id = master.schedule.id /\ dataPhase["node"].whole
      BY <1>3
    <2>2. master.header.totalPacket \in Nat /\ dataPhase["node"].id \in Nat
      BY DEF Based, Typed, MasterTyped, Headers, PlayTyped, Roles
    <2>3. ~(master.header.totalPacket >= 1)
      <3>1. SUFFICES ASSUME master.header.totalPacket >= 1 PROVE FALSE
        OBVIOUS
      <3>2. 0 \in 0 .. master.header.totalPacket - 1
        BY <2>2, <3>1
      <3> QED BY <1>3, <2>1, <3>2
    <2>4. master.schedule.id = 0 /\ dataPhase["node"].whole
      BY <2>3 DEF Filled
    <2>5. dataPhase["node"].id <= master.header.id
      <3>1. SlotsPlayed(dataPhase["node"]) \in Slots
        BY DEF Slots
      <3> QED BY <3>1 DEF SlotsAgree, SlotsPlayed
    <2> QED BY <2>2, <2>4, <2>5 DEF Based, MasterHeader
  <1> QED BY <1>2, <1>3

-----------------------------------------------------------------------------
(***************************************************************************)
(* The theorems.                                                           *)
(***************************************************************************)
IndInv == Based /\ Master /\ Paired /\ SlotsAgree

LEMMA IndInvInit == Init => IndInv
  BY InitialTypes, MasterInit, PairedInit, SlotsInit DEF IndInv

LEMMA IndInvNext == IndInv /\ [Next]_vars => IndInv'
  <1> SUFFICES ASSUME IndInv, [Next]_vars PROVE IndInv'
    OBVIOUS
  <1>1. Based /\ Master /\ Paired /\ SlotsAgree /\ OnAir /\ TimesyncOnAir
    BY DEF IndInv, Master, OnAir
  <1> QED BY <1>1, BasedNext, MasterNext, PairedNext, SlotsNext DEF IndInv

\* The types, what the master has on the air and the pairing of the node's
\* phases and keys are kept by every step of the two (downlink_phase/).
THEOREM Invariance == Spec => []IndInv
  <1>1. Init => IndInv
    BY IndInvInit
  <1>2. IndInv /\ [Next]_vars => IndInv'
    BY IndInvNext
  <1> QED BY <1>1, <1>2, PTL DEF Spec

\* startRekeying() and applyRekeying() of a node's key manager alternate, so
\* that their assertions (dynamic_key_manager.cpp) do not fail, whatever is
\* lost and whenever the node loses its synchronization.
THEOREM RekeyingPaired == Spec => []RekeyingIsPaired
  <1>1. IndInv => RekeyingIsPaired
    BY DEF IndInv, Paired, RekeyingIsPaired
  <1> QED BY <1>1, Invariance, PTL

\* A master and a node that play the same schedule are at the same slot of it.
THEOREM SameSlots == Spec => []SameSlot
  <1>1. IndInv => SameSlot
    BY SlotsImplySame DEF IndInv
  <1> QED BY <1>1, Invariance, PTL

\* Timesyncs are further apart than the superframes: otherwise every boundary
\* is a timesync, and a schedule can not be activated in any.
SyncsApart == \A n \in Networks : n.superframesPerSync # 1

LEMMA InTimeAlways == ASSUME SyncsApart PROVE Spec => [](IndInv /\ InTime)
  <1>1. Init => IndInv /\ InTime
    BY IndInvInit, InTimeInit
  <1>2. IndInv /\ InTime /\ [Next]_vars => (IndInv /\ InTime)'
    <2> SUFFICES ASSUME IndInv, InTime, [Next]_vars PROVE IndInv' /\ InTime'
      OBVIOUS
    <2>1. IndInv'
      BY IndInvNext
    <2>2. Based /\ Master /\ network \in Networks
      BY DEF IndInv, Based, Typed
    <2>3. network.superframesPerSync # 1
      BY <2>2 DEF SyncsApart
    <2> QED BY <2>1, <2>2, <2>3, InTimeNext
  <1> QED BY <1>1, <1>2, PTL DEF Spec

\* getActivationTile() leaves the master the downlinks that the distribution
\* takes (master_schedule_distribution.cpp), whatever the control superframe.
THEOREM MasterInTime == ASSUME SyncsApart PROVE Spec => []MasterIsInTime
  <1>1. IndInv /\ InTime => MasterIsInTime
    BY InTimeImplies DEF IndInv
  <1> QED BY <1>1, InTimeAlways, PTL

\* The master switches to a schedule in its activation tile, which starts a
\* superframe and ends a period of the schedule before.
THEOREM AtBoundary == ASSUME SyncsApart PROVE Spec => SwitchesAtBoundary
  <1>1. IndInv /\ InTime /\ [Next]_vars =>
          [LET old == dataPhase["master"]
               new == dataPhase'["master"]
           IN  new # old =>
                  /\ new.base = tile
                  /\ tile % network.size = 0
                  /\ old.base # 0 => (tile - old.base) % old.tiles = 0]_vars
    <2> SUFFICES ASSUME IndInv, InTime, [Next]_vars, dataPhase'["master"] # dataPhase["master"]
                 PROVE  LET old == dataPhase["master"]
                            new == dataPhase'["master"]
                        IN  /\ new.base = tile
                            /\ tile % network.size = 0
                            /\ old.base # 0 => (tile - old.base) % old.tiles = 0
      OBVIOUS
    <2> QED BY SwitchesThere DEF IndInv
  <1>2. Spec => [][Next]_vars
    BY DEF Spec
  <1> QED BY <1>1, <1>2, InTimeAlways, PTL DEF SwitchesAtBoundary

LEMMA BehindAlways ==
    ASSUME SyncsApart, RoundsCounted
    PROVE  Spec => [](IndInv /\ InTime /\ Counted /\ Lockstep /\ Behind)
  <1>1. Init => IndInv /\ InTime /\ Counted /\ Lockstep /\ Behind
    BY IndInvInit, InTimeInit, LockstepInit, BehindInit
  <1>2. IndInv /\ InTime /\ Counted /\ Lockstep /\ Behind /\ [Next]_vars
           => (IndInv /\ InTime /\ Counted /\ Lockstep /\ Behind)'
    <2> SUFFICES ASSUME IndInv, InTime, Counted, Lockstep, Behind, [Next]_vars
                 PROVE  IndInv' /\ InTime' /\ Counted' /\ Lockstep' /\ Behind'
      OBVIOUS
    <2>1. IndInv'
      BY IndInvNext
    <2>2. Based /\ Master /\ Paired /\ TimesyncOnAir /\ network \in Networks
      BY DEF IndInv, Master, OnAir, Based, Typed
    <2>3. InTime'
      BY <2>2, InTimeNext DEF SyncsApart
    <2>4. Counted' /\ Lockstep'
      BY <2>2, CountedNext, LockstepNext
    <2>5. Behind'
      BY <2>2, BehindMasterStep, BehindNext
    <2> QED BY <2>1, <2>3, <2>4, <2>5
  <1> QED BY <1>1, <1>2, PTL DEF Spec

\* A node that has been able to operate while it was receiving a schedule never
\* takes a key of the chain before the master has, whatever packets are lost
\* and however often it resynchronizes (dynamic_key_manager.cpp,
\* dynamic_schedule_distribution.cpp).
THEOREM KeysNeverAhead == ASSUME SyncsApart, RoundsCounted PROVE Spec => NoKeyAhead
  <1>1. IndInv /\ InTime /\ Counted /\ Lockstep /\ Behind /\ [Next]_vars =>
           [KeyIsAhead' => KeyIsAhead \/ absent]_vars
    BY NoKeyAheadNext DEF IndInv
  <1>2. Spec => [][Next]_vars
    BY DEF Spec
  <1> QED BY <1>1, <1>2, BehindAlways, PTL DEF NoKeyAhead

\* Whoever has heard a packet of a schedule, and could operate since, plays
\* that schedule or none at the end of the activation tile, and with all of its
\* packets plays it completely expanded (dynamic_schedule_distribution.cpp),
\* whatever packets are lost and whenever the node desynchronizes.
THEOREM SwitchTogether ==
    ASSUME SyncsApart, RoundsCounted, SchedulesAreSmall
    PROVE  Spec => []SwitchesTogether
  <1> DEFINE Inv == IndInv /\ InTime /\ Counted /\ Lockstep /\ Behind
             More == Stock /\ Filled /\ Joins
  <1>1. Init => More
    BY StockInit, FilledInit, JoinsInit
  <1>2. Inv /\ More /\ [Next]_vars => More'
    <2> SUFFICES ASSUME Inv, More, [Next]_vars PROVE More'
      OBVIOUS
    <2>1. Based /\ Master /\ Paired
      BY DEF IndInv
    <2> QED BY <2>1, StockNext, FilledNext, JoinsNext
  <1>3. Inv /\ More => SwitchesTogether
    BY JoinsImplies DEF IndInv
  <1>4. Spec => []Inv
    BY BehindAlways
  <1> HIDE DEF Inv, More
  <1> QED BY <1>1, <1>2, <1>3, <1>4, PTL DEF Spec

=============================================================================
