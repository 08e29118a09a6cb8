----------------------- MODULE SlotAllocation_proofs -----------------------
(***************************************************************************)
(* Proofs about the allocation of slots, for any network, any streams, any *)
(* periods and superframe, and any number of runs: what it takes of number *)
(* theory to know that the search for a common slot misses none, that a    *)
(* route is a route, and that the steps of the scheduler keep what the     *)
(* schedule promises.                                                      *)
(***************************************************************************)
EXTENDS SlotAllocation, WellFoundedInduction, SequenceTheorems, FiniteSetTheorems, TLAPS

-----------------------------------------------------------------------------
(***************************************************************************)
(* Least elements and induction.                                           *)
(***************************************************************************)
\* A set of naturals has a least element.
LEMMA Least ==
    ASSUME NEW T, T \subseteq Nat, T # {}
    PROVE  \E x \in T : \A y \in T : x <= y
  <1> DEFINE R == OpToRel(<, Nat)
  <1>1. IsWellFoundedOn(R, Nat)
    BY NatLessThanWellFounded
  <1>2. \A x, y \in Nat : x < y => <<x, y>> \in R
    BY DEF OpToRel
  <1> HIDE DEF R
  <1>3. PICK x \in T : \A y \in T : ~ (<<y, x>> \in R)
    BY <1>1, WFMin
  <1>4. ASSUME NEW y \in T PROVE x <= y
    <2>1. x \in Nat /\ y \in Nat /\ ~ (<<y, x>> \in R)
      BY <1>3
    <2>2. ~ (y < x)
      BY <1>2, <2>1
    <2> QED BY <2>1, <2>2
  <1> QED BY <1>4

\* It is its Min.
LEMMA MinOf ==
    ASSUME NEW T, T \subseteq Nat, T # {}
    PROVE  /\ Min(T) \in T
           /\ \A y \in T : Min(T) <= y
  <1>1. \E x \in T : \A y \in T : x <= y
    BY Least
  <1> QED
    BY <1>1 DEF Min

\* So does a bounded one have a greatest, which is its Max.
LEMMA MaxBounded ==
    ASSUME NEW n \in Nat, NEW T, T \subseteq 0 .. n, T # {}
    PROVE  /\ Max(T) \in T
           /\ \A y \in T : y <= Max(T)
  <1> DEFINE U == {n - x : x \in T}
  <1>1. U \subseteq Nat /\ U # {}
    <2>1. \A x \in T : n - x \in Nat
      OBVIOUS
    <2> QED BY <2>1
  <1>2. PICK u \in U : \A v \in U : u <= v
    BY <1>1, Least
  <1>3. PICK x \in T : u = n - x
    BY <1>2
  <1>4. ASSUME NEW y \in T PROVE y <= x
    <2>1. n - y \in U /\ y \in Int /\ x \in Int
      OBVIOUS
    <2>2. n - x <= n - y
      BY <1>2, <1>3, <2>1
    <2> QED BY <2>1, <2>2
  <1>5. \E z \in T : \A y \in T : z >= y
    BY <1>4
  <1> QED
    BY <1>5 DEF Max

\* A set that holds with every number the next one holds them all.
LEMMA Induction ==
    ASSUME NEW S, 0 \in S, \A n \in Nat : n \in S => n + 1 \in S
    PROVE  Nat \subseteq S
  <1> SUFFICES ASSUME NEW m \in Nat, m \notin S PROVE FALSE
    OBVIOUS
  <1> DEFINE T == {n \in Nat : n \notin S}
  <1>1. PICK x \in T : \A y \in T : x <= y
    BY Least
  <1>2. x - 1 \in Nat /\ x - 1 \in S
    BY <1>1
  <1> QED BY <1>1, <1>2

-----------------------------------------------------------------------------
(***************************************************************************)
(* Multiples, common divisors and common multiples.                        *)
(***************************************************************************)
\* n is a multiple of d.
Divides(d, n) == \E k \in Int : n = d * k

\* Division with remainder.
LEMMA Division ==
    ASSUME NEW d \in Nat \ {0}, NEW n \in Int
    PROVE  /\ n % d \in 0 .. (d - 1) /\ n \div d \in Int
           /\ n = d * (n \div d) + (n % d)
  BY SMT

\* There is one quotient and one remainder.
LEMMA DivisionUnique ==
    ASSUME NEW d \in Nat \ {0}, NEW n \in Int, NEW q \in Int, NEW r \in 0 .. (d - 1),
           n = d * q + r
    PROVE  n \div d = q /\ n % d = r
  BY SMT

\* The operator % finds multiples.
LEMMA ModIsDivides ==
    ASSUME NEW d \in Nat \ {0}, NEW n \in Int
    PROVE  n % d = 0 <=> Divides(d, n)
  <1>1. ASSUME n % d = 0 PROVE Divides(d, n)
    <2>1. n = d * (n \div d) + (n % d) /\ n \div d \in Int
      BY Division
    <2>2. n = d * (n \div d)
      BY <1>1, <2>1
    <2> QED BY <2>1, <2>2 DEF Divides
  <1>2. ASSUME NEW k \in Int, n = d * k
        PROVE  n % d = 0
    BY <1>2, DivisionUnique, 0 \in 0 .. (d - 1), n = d * k + 0
  <1> QED BY <1>1, <1>2 DEF Divides

\* Equal remainders differ by a multiple.
LEMMA SameMod ==
    ASSUME NEW d \in Nat \ {0}, NEW a \in Int, NEW b \in Int
    PROVE  a % d = b % d <=> Divides(d, a - b)
  <1>1. ASSUME a % d = b % d PROVE Divides(d, a - b)
    <2>1. a = d * (a \div d) + (a % d) /\ b = d * (b \div d) + (b % d)
          /\ a \div d \in Int /\ b \div d \in Int
      BY Division
    <2>2. a - b = d * ((a \div d) - (b \div d))
      BY <1>1, <2>1
    <2>3. (a \div d) - (b \div d) \in Int
      BY <2>1
    <2> QED BY <2>2, <2>3 DEF Divides
  <1>2. ASSUME NEW k \in Int, a - b = d * k PROVE a % d = b % d
    <2> DEFINE q == b \div d
               r == b % d
    <2>1. b = d * q + r /\ q \in Int /\ r \in 0 .. (d - 1)
      BY Division
    <2> HIDE DEF q, r
    <2>2. a = d * (q + k) + r
      BY <1>2, <2>1
    <2>3. a % d = r /\ b % d = r
      BY <2>1, <2>2, DivisionUnique
    <2> QED BY <2>3
  <1> QED BY <1>1, <1>2 DEF Divides

\* Sums of multiples are multiples.
LEMMA DividesCombination ==
    ASSUME NEW d \in Int, NEW m \in Int, NEW n \in Int, NEW x \in Int, NEW y \in Int,
           Divides(d, m), Divides(d, n), NEW c, c = x * m + y * n
    PROVE  Divides(d, c)
  <1>1. PICK j \in Int, k \in Int : m = d * j /\ n = d * k
    BY DEF Divides
  <1>2. c = d * (x * j + y * k)
    BY <1>1
  <1>3. x * j + y * k \in Int
    BY <1>1
  <1> QED BY <1>2, <1>3 DEF Divides

\* A divisor is not greater.
LEMMA DivisorBound ==
    ASSUME NEW d \in Nat, NEW n \in Nat \ {0}, Divides(d, n)
    PROVE  d \in 1 .. n
  <1>1. PICK k \in Int : n = d * k
    BY DEF Divides
  <1>2. d # 0
    BY <1>1
  <1>3. k > 0
    BY <1>1, <1>2
  <1>4. d * k >= d
    BY <1>2, <1>3
  <1> QED BY <1>1, <1>2, <1>4

\* d divides both.
CommonDivisor(d, a, b) == d \in Nat /\ Divides(d, a) /\ Divides(d, b)

\* Gcd is a common divisor and the greatest.
LEMMA GcdIs ==
    ASSUME NEW a \in Nat \ {0}, NEW b \in Nat \ {0}
    PROVE  /\ Gcd(a, b) \in Nat \ {0}
           /\ CommonDivisor(Gcd(a, b), a, b)
           /\ \A d : CommonDivisor(d, a, b) => d <= Gcd(a, b)
  <1> DEFINE T == {n \in 1 .. a : a % n = 0 /\ b % n = 0}
  <1>1. \A n \in 1 .. a : n \in T <=> Divides(n, a) /\ Divides(n, b)
    BY ModIsDivides
  <1>2. 1 \in T
    BY SMT
  <1>3. T \subseteq 0 .. a
    OBVIOUS
  <1>4. Gcd(a, b) = Max(T)
    BY DEF Gcd
  <1> HIDE DEF T
  <1>5. Max(T) \in T /\ \A y \in T : y <= Max(T)
    BY <1>2, <1>3, MaxBounded
  <1>6. Gcd(a, b) \in 1 .. a
    BY <1>4, <1>5 DEF T
  <1>7. ASSUME NEW d, CommonDivisor(d, a, b)
        PROVE  d <= Gcd(a, b)
    <2>1. d \in 1 .. a
      BY <1>7, DivisorBound DEF CommonDivisor
    <2> QED BY <1>1, <1>4, <1>5, <1>7, <2>1 DEF CommonDivisor
  <1> QED
    BY <1>1, <1>4, <1>5, <1>6, <1>7 DEF CommonDivisor

\* It does not matter which period comes first.
LEMMA GcdSymmetric ==
    ASSUME NEW a \in Nat \ {0}, NEW b \in Nat \ {0}
    PROVE  Gcd(a, b) = Gcd(b, a)
  <1>1. Gcd(a, b) <= Gcd(b, a)
    BY GcdIs DEF CommonDivisor
  <1>2. Gcd(b, a) <= Gcd(a, b)
    BY GcdIs DEF CommonDivisor
  <1>3. Gcd(a, b) \in Nat /\ Gcd(b, a) \in Nat
    BY GcdIs
  <1> QED BY <1>1, <1>2, <1>3

\* The greatest common divisor is a combination of the two (Bezout).
LEMMA Bezout ==
    ASSUME NEW a \in Nat \ {0}, NEW b \in Nat \ {0}
    PROVE  \E x, y \in Int : Gcd(a, b) = x * a + y * b
  <1> DEFINE T == {n \in Nat \ {0} : \E x, y \in Int : n = x * a + y * b}
  <1>1. a \in T
    <2>1. a = 1 * a + 0 * b
      OBVIOUS
    <2> QED BY <2>1
  <1>2. PICK d \in T : \A n \in T : d <= n
    <2>1. T \subseteq Nat /\ T # {}
      BY <1>1
    <2> HIDE DEF T
    <2> QED BY <2>1, Least
  <1>3. PICK x \in Int, y \in Int : d = x * a + y * b
    BY <1>2
  <1>4. d \in Nat \ {0}
    BY <1>2
  <1>5. ASSUME NEW n \in Int, NEW u \in Int, NEW v \in Int, n = u * a + v * b
        PROVE  Divides(d, n)
    <2> DEFINE q == n \div d
               r == n % d
    <2>1. n = d * q + r /\ q \in Int /\ r \in 0 .. (d - 1)
      BY <1>4, Division
    <2> HIDE DEF q, r
    <2>2. r = (u - q * x) * a + (v - q * y) * b
      BY <1>3, <1>5, <2>1, <1>4
    <2>3. u - q * x \in Int /\ v - q * y \in Int
      BY <2>1
    <2>4. r # 0 => r \in T
      BY <2>1, <2>2, <2>3
    <2>5. r = 0
      <3> HIDE DEF T
      <3> QED BY <1>2, <1>4, <2>1, <2>4
    <2>6. n = d * q
      BY <2>1, <2>5, <1>4
    <2> QED BY <2>1, <2>6 DEF Divides
  <1>6. Divides(d, a)
    <2>1. a = 1 * a + 0 * b /\ 1 \in Int /\ 0 \in Int /\ a \in Int
      OBVIOUS
    <2> HIDE DEF T
    <2> QED BY <1>5, <2>1, Zenon
  <1>7. Divides(d, b)
    <2>1. b = 0 * a + 1 * b /\ 1 \in Int /\ 0 \in Int /\ b \in Int
      OBVIOUS
    <2> HIDE DEF T
    <2> QED BY <1>5, <2>1, Zenon
  <1>8. d <= Gcd(a, b)
    BY <1>4, <1>6, <1>7, GcdIs DEF CommonDivisor
  <1>9. Divides(Gcd(a, b), d)
    <2>1. Divides(Gcd(a, b), a) /\ Divides(Gcd(a, b), b)
          /\ Gcd(a, b) \in Int /\ a \in Int /\ b \in Int
      BY GcdIs DEF CommonDivisor
    <2> QED BY <1>3, <2>1, DividesCombination, Zenon
  <1>10. Gcd(a, b) <= d
    <2>1. Gcd(a, b) \in Nat
      BY GcdIs
    <2>2. Gcd(a, b) \in 1 .. d
      BY <1>4, <1>9, <2>1, DivisorBound
    <2> QED BY <2>1, <2>2
  <1>11. d = Gcd(a, b)
    <2>1. Gcd(a, b) \in Nat
      BY GcdIs
    <2> QED BY <1>4, <1>8, <1>10, <2>1
  <1> QED BY <1>3, <1>11

\* ScheduleComputation::lcm returns a common multiple that divides all others.
LEMMA LcmIs ==
    ASSUME NEW a \in Nat \ {0}, NEW b \in Nat \ {0}
    PROVE  /\ Lcm(a, b) \in Nat \ {0}
           /\ Divides(a, Lcm(a, b)) /\ Divides(b, Lcm(a, b))
           /\ \A n \in Int : Divides(a, n) /\ Divides(b, n) => Divides(Lcm(a, b), n)
  <1> DEFINE T == {n \in 1 .. (a * b) : n % a = 0 /\ n % b = 0}
             L == Lcm(a, b)
  <1>1. \A n \in Nat : n % a = 0 /\ n % b = 0 <=> Divides(a, n) /\ Divides(b, n)
    BY ModIsDivides
  <1>2. a * b \in Nat \ {0}
    OBVIOUS
  <1>3. Divides(a, a * b) /\ Divides(b, a * b)
    BY a * b = b * a DEF Divides
  <1>4. a * b \in T
    BY <1>1, <1>2, <1>3
  <1> HIDE DEF L
  <1>5. L \in T /\ \A n \in T : L <= n
    <2>1. T \subseteq Nat
      OBVIOUS
    <2>2. L = Min(T)
      BY DEF L, Lcm
    <2> HIDE DEF T
    <2> QED BY <1>4, <2>1, <2>2, MinOf
  <1>6. L \in Nat \ {0} /\ Divides(a, L) /\ Divides(b, L) /\ L <= a * b
    BY <1>1, <1>2, <1>5
  <1>7. ASSUME NEW n \in Int, Divides(a, n), Divides(b, n)
        PROVE  Divides(L, n)
    <2> HIDE DEF T
    <2> DEFINE q == n \div L
               r == n % L
    <2>1. n = L * q + r /\ q \in Int /\ r \in 0 .. (L - 1)
      BY <1>6, Division
    <2> HIDE DEF q, r
    <2>2. r = 1 * n + (0 - q) * L
      BY <1>6, <2>1
    <2>3. Divides(a, r) /\ Divides(b, r)
      <3>1. 1 \in Int /\ 0 - q \in Int /\ L \in Int /\ a \in Int /\ b \in Int
        BY <1>6, <2>1
      <3> QED BY <1>6, <1>7, <2>2, <3>1, DividesCombination, Zenon
    <2>4. r # 0 => r \in T
      BY <1>1, <1>2, <1>6, <2>1, <2>3 DEF T
    <2>5. r = 0
      BY <1>5, <1>6, <2>1, <2>4
    <2>6. n = L * q
      BY <1>6, <2>1, <2>5
    <2> QED BY <2>1, <2>6 DEF Divides
  <1>8. L \in Nat \ {0} /\ Divides(a, L) /\ Divides(b, L)
        /\ \A n \in Int : Divides(a, n) /\ Divides(b, n) => Divides(L, n)
    BY <1>6, <1>7
  <1> QED BY <1>8 DEF L

\* Two periodic series of slots that agree modulo what their periods have in common
\* meet, and in the first slots of their common period.
LEMMA SeriesMeet ==
    ASSUME NEW P \in Nat \ {0}, NEW Q \in Nat \ {0}, NEW c \in Int, Divides(Gcd(P, Q), c)
    PROVE  \E i \in Nat : P * i < Lcm(P, Q) /\ Divides(Q, c + P * i)
  <1> DEFINE G == Gcd(P, Q)
             L == Lcm(P, Q)
  <1>1. PICK x \in Int, y \in Int : G = x * P + y * Q
    BY Bezout
  <1>2. /\ L \in Nat \ {0} /\ Divides(P, L) /\ Divides(Q, L)
    BY LcmIs
  <1> HIDE DEF G, L
  <1>3. PICK k \in Int : c = G * k
    BY DEF G, Divides
  <1>4. PICK n \in Int : L = P * n
    BY <1>2 DEF Divides
  <1>5. PICK m \in Int : L = Q * m
    BY <1>2 DEF Divides
  <1>6. n \in Nat \ {0}
    BY <1>2, <1>4
  <1> DEFINE u == 0 - (k * x)
             q == u \div n
             i == u % n
  <1>7. u \in Int
    BY <1>3
  <1>8. u = n * q + i /\ q \in Int /\ i \in 0 .. (n - 1)
    BY <1>6, <1>7, Division
  <1>9. u = 0 - (k * x)
    OBVIOUS
  <1> HIDE DEF u, q, i
  <1>10. P * i < P * n
    BY <1>6, <1>8
  <1>11. c + P * i = Q * (k * y - m * q)
    <2>1. P * i = P * u - (P * n) * q
      BY <1>6, <1>7, <1>8
    <2>2. P * u = 0 - k * (x * P)
      BY <1>9, <1>3
    <2>3. c = k * (x * P) + Q * (k * y)
      BY <1>1, <1>3
    <2>4. (P * n) * q = Q * (m * q)
      BY <1>4, <1>5, <1>6, <1>8
    <2>5. P * i = 0 - k * (x * P) - Q * (m * q)
      BY <2>1, <2>2, <2>4
    <2>6. c + P * i = Q * (k * y) - Q * (m * q)
      BY <1>1, <1>3, <1>5, <1>8, <2>3, <2>5
    <2> QED BY <1>1, <1>3, <1>5, <1>8, <2>6
  <1>12. k * y - m * q \in Int
    BY <1>1, <1>3, <1>5, <1>8
  <1>13. i \in Nat /\ P * i < L /\ Divides(Q, c + P * i)
    BY <1>4, <1>6, <1>8, <1>10, <1>11, <1>12 DEF Divides
  <1> QED BY <1>13 DEF L

\* Transmissions that meet share a slot for checkSlotConflict(), although it looks at the
\* slots of one common period only and at none before the first of either.
LEMMA MeetIsConflict ==
    ASSUME NEW t, NEW e, NEW o \in Nat,
           t.stream.period \in Nat \ {0}, e.stream.period \in Nat \ {0}, e.offset \in Nat,
           o < t.stream.period * SlotsPerTile, e.offset < e.stream.period * SlotsPerTile,
           o % (Gcd(t.stream.period, e.stream.period) * SlotsPerTile)
             = e.offset % (Gcd(t.stream.period, e.stream.period) * SlotsPerTile)
    PROVE  ShareSlot(t, e, o)
  <1> DEFINE P == t.stream.period
             Q == e.stream.period
             b == e.offset
             T == SlotsPerTile
             G == Gcd(P, Q)
             L == Lcm(P, Q)
  <1>1. /\ P \in Nat \ {0} /\ Q \in Nat \ {0} /\ b \in Nat /\ T \in Nat \ {0}
        /\ o < P * T /\ b < Q * T
        /\ o % (G * T) = b % (G * T)
    BY AllocationAssumption
  <1>2. G \in Nat \ {0}
    BY <1>1, GcdIs
  <1>3. L \in Nat \ {0}
    BY <1>1, LcmIs
  <1>4. \A j \in Int : Divides(G, j) => \E i \in Nat : P * i < L /\ Divides(Q, j + P * i)
    BY <1>1, SeriesMeet
  <1>5. Divides(P, L)
    BY <1>1, LcmIs
  <1>6. ShareSlot(t, e, o) <=>
          /\ o % T = b % T
          /\ \E slot \in 0 .. (L * T - 1) :
                /\ slot >= o /\ (slot - o) % (P * T) = 0
                /\ slot >= b /\ (slot - b) % (Q * T) = 0
    BY DEF ShareSlot, SlotConflictPossible, CheckSlotConflict
  <1> HIDE DEF P, Q, b, T, G, L
  <1>7. G * T \in Nat \ {0} /\ P * T \in Nat \ {0} /\ Q * T \in Nat \ {0}
    BY <1>1, <1>2
  <1>8. PICK k \in Int : o - b = (G * T) * k
    <2>1. o \in Int /\ b \in Int
      BY <1>1
    <2> QED BY <1>1, <1>7, <2>1, SameMod, Zenon DEF Divides
  <1>9. o % T = b % T
    <2>1. o - b = T * (G * k) /\ G * k \in Int /\ o \in Int /\ b \in Int
      BY <1>1, <1>2, <1>8
    <2> QED BY <1>1, <2>1, SameMod, Zenon DEF Divides
  <1>10. PICK i \in Nat : P * i < L /\ Divides(Q, G * k + P * i)
    <2>1. G * k \in Int /\ Divides(G, G * k)
      BY <1>2, <1>8 DEF Divides
    <2> QED BY <1>4, <2>1
  <1>11. PICK j \in Int : G * k + P * i = Q * j
    BY <1>10 DEF Divides
  <1> DEFINE slot == o + (P * T) * i
  <1>12. slot \in Int /\ slot >= o /\ slot - o = (P * T) * i
    BY <1>1
  <1>13. slot - b = (Q * T) * j
    <2>1. slot - b = (G * T) * k + (P * T) * i
      BY <1>1, <1>2, <1>8
    <2>2. (G * T) * k + (P * T) * i = T * (G * k + P * i)
      BY <1>1, <1>2, <1>8
    <2> QED BY <1>1, <1>2, <1>11, <2>1, <2>2
  <1>14. slot >= b
    <2>1. (Q * T) * j > 0 - (Q * T)
      BY <1>1, <1>7, <1>12, <1>13
    <2>2. j > 0 - 1
      BY <1>7, <2>1, <1>11
    <2>3. (Q * T) * j >= 0
      BY <1>7, <2>2, <1>11
    <2> QED BY <1>1, <1>12, <1>13, <2>3
  <1>15. slot <= L * T - 1
    <2>1. PICK n \in Int : L = P * n
      BY <1>5 DEF Divides
    <2>2. P * i < P * n
      BY <1>10, <2>1
    <2>3. i <= n - 1
      BY <1>1, <2>1, <2>2
    <2>4. (P * T) * i <= (P * T) * (n - 1)
      BY <1>7, <2>1, <2>3
    <2>5. (P * T) * (n - 1) = L * T - P * T
      BY <1>1, <2>1
    <2> QED BY <1>1, <1>3, <1>7, <2>1, <2>4, <2>5
  <1> HIDE DEF slot
  <1>16. (slot - o) % (P * T) = 0
    <2>1. slot - o \in Int /\ i \in Int
      BY <1>1, <1>12
    <2>2. Divides(P * T, slot - o)
      BY <1>12, <2>1, Zenon DEF Divides
    <2> QED BY <1>7, <2>1, <2>2, ModIsDivides, Zenon
  <1>17. (slot - b) % (Q * T) = 0
    <2>1. Divides(Q * T, slot - b)
      BY <1>11, <1>13, Zenon DEF Divides
    <2>2. slot - b \in Int
      BY <1>1, <1>12
    <2> QED BY <1>7, <2>1, <2>2, ModIsDivides, Zenon
  <1>18. slot \in 0 .. (L * T - 1)
    BY <1>1, <1>3, <1>12, <1>15
  <1> QED
    BY <1>6, <1>9, <1>12, <1>14, <1>16, <1>17, <1>18

-----------------------------------------------------------------------------
(***************************************************************************)
(* Routes.                                                                 *)
(***************************************************************************)
\* The searches meet one path before all others.
LEMMA FirstPath ==
    ASSUME NEW paths, paths \subseteq Seq(Nat), paths # {}
    PROVE  \E p \in paths : \A q \in paths \ {p} : Before(p, q)
  <1> DEFINE Lengths == {Len(p) : p \in paths}
  <1>1. Lengths \subseteq Nat /\ Lengths # {}
    <2>1. \A p \in paths : Len(p) \in Nat
      BY LenProperties
    <2> QED BY <2>1
  <1>2. PICK n \in Lengths : \A m \in Lengths : n <= m
    BY <1>1, Least
  <1> DEFINE shortest == {p \in paths : Len(p) = n}
             Agree(p, q, k) == \A j \in 1 .. k : p[j] = q[j]
             Ahead(p, q, k) == \E i \in 1 .. k : p[i] < q[i] /\ Agree(p, q, i - 1)
             Good(p, k) == \A q \in shortest : Agree(p, q, k) \/ Ahead(p, q, k)
             S == {k \in Nat : k <= n => \E p \in shortest : Good(p, k)}
  <1>3. shortest # {} /\ n \in Nat
    BY <1>1, <1>2
  <1>4. \A p \in shortest : p \in Seq(Nat) /\ Len(p) = n
    OBVIOUS
  <1> HIDE DEF shortest
  <1>5. 0 \in S
    BY <1>3
  <1>6. ASSUME NEW k \in Nat, k \in S
        PROVE  k + 1 \in S
    <2> SUFFICES ASSUME k + 1 <= n
                 PROVE  \E p \in shortest : Good(p, k + 1)
      OBVIOUS
    <2>1. PICK r \in shortest : Good(r, k)
      <3> HIDE DEF Good
      <3> QED BY <1>3, <1>6
    <2> DEFINE C == {q \in shortest : Agree(r, q, k)}
               Values == {q[k + 1] : q \in C}
    <2>2. r \in C
      OBVIOUS
    <2>3. Values \subseteq Nat
      BY <1>3, <1>4
    <2>4. PICK v \in Values : \A w \in Values : v <= w
      BY <2>2, <2>3, Least
    <2>5. PICK p \in C : p[k + 1] = v
      OBVIOUS
    <2>6. ASSUME NEW q \in shortest
          PROVE  Agree(p, q, k + 1) \/ Ahead(p, q, k + 1)
      <3>1. CASE Ahead(r, q, k)
        <4>1. PICK i \in 1 .. k : r[i] < q[i] /\ Agree(r, q, i - 1)
          BY <3>1
        <4>2. p[i] < q[i] /\ Agree(p, q, i - 1)
          BY <2>5, <4>1
        <4>3. i \in 1 .. (k + 1)
          OBVIOUS
        <4> HIDE DEF Agree
        <4> QED BY <4>2, <4>3
      <3>2. CASE Agree(r, q, k)
        <4>1. Agree(p, q, k)
          BY <2>5, <3>2
        <4>2. q[k + 1] \in Values
          BY <3>2
        <4>3. p[k + 1] <= q[k + 1] /\ p[k + 1] \in Nat /\ q[k + 1] \in Nat
          BY <2>3, <2>4, <2>5, <4>2
        <4>4. CASE p[k + 1] = q[k + 1]
          <5>1. \A j \in 1 .. (k + 1) : j \in 1 .. k \/ j = k + 1
            OBVIOUS
          <5>2. \A j \in 1 .. (k + 1) : p[j] = q[j]
            BY <4>1, <4>4, <5>1
          <5> QED BY <5>2
        <4>5. CASE p[k + 1] < q[k + 1]
          <5>1. k + 1 \in 1 .. (k + 1) /\ (k + 1) - 1 = k
            OBVIOUS
          <5> QED BY <4>1, <4>5, <5>1
        <4> QED BY <4>3, <4>4, <4>5
      <3> QED BY <2>1, <3>1, <3>2
    <2>7. p \in shortest
      OBVIOUS
    <2> HIDE DEF C
    <2> QED BY <2>6, <2>7
  <1>7. n \in S
    BY <1>3, <1>5, <1>6, Induction
  <1>8. PICK p \in shortest : Good(p, n)
    BY <1>3, <1>7
  <1>9. ASSUME NEW q \in paths \ {p}
        PROVE  Before(p, q)
    <2>1. Len(q) \in Nat /\ n <= Len(q) /\ q \in Seq(Nat) /\ p \in Seq(Nat) /\ Len(p) = n
      BY <1>2, <1>4
    <2>2. CASE n < Len(q)
      BY <2>1, <2>2 DEF Before
    <2>3. CASE Len(q) = n
      <3>1. q \in shortest
        BY <2>3 DEF shortest
      <3>2. CASE Agree(p, q, n)
        <4>1. p = q
          BY <2>1, <2>3, <3>2, SeqEqual
        <4> QED BY <4>1
      <3>3. CASE Ahead(p, q, n)
        <4>1. DOMAIN p = 1 .. n
          BY <2>1
        <4> QED BY <2>1, <2>3, <3>3, <4>1 DEF Before
      <3> QED BY <1>8, <3>1, <3>2, <3>3
    <2> QED BY <1>3, <2>1, <2>2, <2>3
  <1>10. p \in paths
    BY DEF shortest
  <1> QED BY <1>9, <1>10

\* Paths visit nodes of the network, and at least one.
LEMMA PathsVisitNodes ==
    ASSUME NEW g, NEW a, NEW z
    PROVE  \A p \in Paths(g, a, z) : p \in Seq(Nodes) /\ p \in Seq(Nat) /\ Len(p) \in Nat \ {0}
  <1> SUFFICES ASSUME NEW p \in Paths(g, a, z)
               PROVE  p \in Seq(Nodes) /\ p \in Seq(Nat) /\ Len(p) \in Nat \ {0}
    OBVIOUS
  <1>1. PICK n \in 1 .. Cardinality(Nodes) : p \in [1 .. n -> Nodes]
    BY DEF Paths
  <1>2. n \in Nat \ {0}
    BY RoutingAssumption, FS_CardinalityType
  <1>3. p \in Seq(Nodes) /\ Len(p) = n
    BY <1>1, <1>2
  <1> QED BY <1>2, <1>3, RoutingAssumption, SeqMonotonic

\* The path that a search returns is one of those it looks for.
LEMMA ShortestIsPath ==
    ASSUME NEW paths, paths \subseteq Seq(Nat), paths # {}
    PROVE  ShortestPath(paths) \in paths
  BY FirstPath DEF ShortestPath

TransmissionsOf(s) == [stream : {s}, tx : Nodes, rx : Nodes]

\* Every block that the router returns is a sequence of transmissions of its stream.
LEMMA RouteType ==
    ASSUME NEW g, NEW s \in Requests
    PROVE  Route(g, s) \in Seq(Seq(TransmissionsOf(s)))
  <1> DEFINE all == Paths(g, s.src, s.dst)
             T == Seq(TransmissionsOf(s))
             primary == ShortestPath(all)
             secondary == IF Len(primary) = 2 THEN primary ELSE SecondaryPath(g, s, primary)
             copies == [i \in 1 .. PrimaryCopies(s.redundancy) |-> PathToSchedule(primary, s)]
  <1>1. ASSUME NEW p \in all
        PROVE  PathToSchedule(p, s) \in T
    <2>1. p \in Seq(Nodes) /\ Len(p) - 1 \in Nat
      BY PathsVisitNodes
    <2>2. \A i \in 1 .. (Len(p) - 1) : p[i] \in Nodes /\ p[i + 1] \in Nodes
      BY <2>1
    <2>3. PathToSchedule(p, s) \in [1 .. (Len(p) - 1) -> TransmissionsOf(s)]
      BY <2>2 DEF PathToSchedule, TransmissionsOf
    <2> HIDE DEF all
    <2> QED BY <2>1, <2>3
  <1>2. all \subseteq Seq(Nat)
    BY PathsVisitNodes
  <1>3. SUFFICES ASSUME all # {}
                 PROVE  Route(g, s) \in Seq(T)
    BY DEF Route
  <1> HIDE DEF all
  <1>4. primary \in all
    BY <1>2, <1>3, ShortestIsPath
  <1>5. secondary \in all
    <2> DEFINE found == DepthFirstSearch(g, s, Len(primary) + MoreHops) \ {primary}
               independent == IndependentPaths(found, primary)
    <2>1. found \subseteq all /\ independent \subseteq found
      BY DEF DepthFirstSearch, IndependentPaths, all
    <2>2. SecondaryPath(g, s, primary)
            = IF found = {} THEN primary
              ELSE ShortestPath(IF independent # {} THEN independent ELSE found)
      BY DEF SecondaryPath
    <2> HIDE DEF found, independent
    <2>3. found # {} => ShortestPath(found) \in all
      BY <1>2, <2>1, ShortestIsPath
    <2>4. independent # {} => ShortestPath(independent) \in all
      BY <1>2, <2>1, ShortestIsPath
    <2> QED BY <1>4, <2>1, <2>2, <2>3, <2>4
  <1>6. copies \in Seq(T)
    <2>1. PrimaryCopies(s.redundancy) \in Nat
      <3>1. s.redundancy \in Redundancies
        BY AllocationAssumption
      <3> QED BY <3>1 DEF PrimaryCopies, Redundancies
    <2>2. PathToSchedule(primary, s) \in T
      BY <1>1, <1>4
    <2> HIDE DEF primary, T
    <2>3. copies \in [1 .. PrimaryCopies(s.redundancy) -> T]
      BY <2>2
    <2> QED BY <2>1, <2>3
  <1>7. Append(copies, PathToSchedule(secondary, s)) \in Seq(T)
    <2>1. PathToSchedule(secondary, s) \in T
      BY <1>1, <1>5
    <2> HIDE DEF copies, secondary, T
    <2> QED BY <1>6, <2>1
  <1>8. Route(g, s) \in {<<>>, copies, Append(copies, PathToSchedule(secondary, s))}
    BY DEF Route, all
  <1> HIDE DEF copies, secondary, T
  <1> QED BY <1>6, <1>7, <1>8, EmptySeq

-----------------------------------------------------------------------------
(***************************************************************************)
(* The inductive invariant.                                                *)
(***************************************************************************)
\* What a run has placed: transmissions with a slot that leaves one more in the period.
Elements ==
    {e \in [stream : Requests, tx : Nodes, rx : Nodes, offset : Nat] :
        e.offset + 1 < e.stream.period * SlotsPerTile}
SchedulesOf == [elements : Seq(Elements), tiles : Nat \ {0}, links : SUBSET Links]

Typed ==
    /\ graph \in Graphs /\ weakGraph \in Graphs
    /\ established \subseteq Requests /\ accepted \subseteq Requests /\ todo \subseteq Requests
    /\ schedule \in SchedulesOf /\ newSchedule \in SchedulesOf
    /\ round \in {"idle", "established", "accepted"}
    /\ blocks \in Seq(Seq(Transmissions)) /\ block \in Seq(Transmissions)
    /\ fresh \in Seq(Elements)
    /\ blockSize \in 0 .. Len(fresh) /\ streamErr \in BOOLEAN /\ lastOffset \in Nat
    /\ lastSize \in Nat \ {0} /\ newSize \in Nat \ {0}
    /\ runs \in 0 .. MaxRuns

\* Between runs the scheduler has nothing at hand.
IdleIsEmpty ==
    round = "idle" => todo = {} /\ blocks = <<>> /\ block = Nothing /\ fresh = <<>>

\* A block serves one stream.
OfOneStream(b) == \A i, j \in DOMAIN b : b[i].stream = b[j].stream
OneStreamBlocks == OfOneStream(block) /\ \A k \in DOMAIN blocks : OfOneStream(blocks[k])

\* What the block has placed: in order, before the next slot that is tried, and for
\* the stream that the block serves.
PlacedInOrder ==
    \A i \in DOMAIN fresh :
        i > Len(fresh) - blockSize =>
            /\ fresh[i].offset < lastOffset
            /\ \A k \in DOMAIN block : block[k].stream = fresh[i].stream
            /\ i < Len(fresh) => /\ fresh[i].stream = fresh[i + 1].stream
                                 /\ fresh[i].offset < fresh[i + 1].offset

\* The least common multiple of the superframe and a set of periods.
IsMultiple(n, periods) == n % Len(Superframe) = 0 /\ \A p \in periods : n % p = 0
IsExact(size, periods) ==
    /\ IsMultiple(size, periods)
    /\ \A n \in Nat \ {0} : IsMultiple(n, periods) => size <= n
Periods(elements) == {e.stream.period : e \in ToSet(elements)}

\* The sizes that the scheduler keeps, the one that it returns to included.
SizesAreExact ==
    /\ IsExact(schedule.tiles, Periods(schedule.elements))
    /\ round # "idle" => IsExact(newSize, Periods(newSchedule.elements \o fresh))
    /\ block # Nothing =>
         IsExact(lastSize, Periods(newSchedule.elements
                                    \o SubSeq(fresh, 1, Len(fresh) - blockSize)))

IndInv ==
    /\ Typed /\ IdleIsEmpty
    /\ NewTransmissionsDoNotCollide /\ SharingIsRecorded /\ AllocationAsAssumed
    /\ OneStreamBlocks /\ PlacedInOrder
    /\ SizesAreExact

-----------------------------------------------------------------------------
(***************************************************************************)
(* Types.                                                                  *)
(***************************************************************************)
\* A transmission with its slot.
LEMMA PlacedElement ==
    ASSUME NEW t \in Transmissions, NEW o \in Nat, o + 1 < t.stream.period * SlotsPerTile
    PROVE  /\ ElementAt(t, o) \in Elements
           /\ ElementAt(t, o).offset = o
           /\ ElementAt(t, o).stream = t.stream
           /\ ElementAt(t, o).tx = t.tx
           /\ ElementAt(t, o).rx = t.rx
  BY DEF ElementAt, Elements, Transmissions

\* A subsequence of what is placed, the run's transmissions after those of the schedule,
\* and the schedule that results.
LEMMA FreshType ==
    ASSUME NEW e \in Seq(Elements), NEW f \in Seq(Elements), NEW n \in 0 .. Len(f)
    PROVE  /\ e \o f \in Seq(Elements) /\ Len(e \o f) = Len(e) + Len(f)
           /\ \A i \in 1 .. Len(e) : (e \o f)[i] = e[i]
           /\ \A i \in 1 .. Len(f) : (e \o f)[Len(e) + i] = f[i]
           /\ SubSeq(f, 1, n) \in Seq(Elements) /\ Len(SubSeq(f, 1, n)) = n
           /\ \A i \in 1 .. n : SubSeq(f, 1, n)[i] = f[i]
  <1>1. e \o f \in Seq(Elements) /\ Len(e \o f) = Len(e) + Len(f)
        /\ \A i \in 1 .. Len(e) + Len(f) :
              (e \o f)[i] = IF i <= Len(e) THEN e[i] ELSE f[i - Len(e)]
    BY ConcatProperties
  <1>2. Len(e) \in Nat /\ Len(f) \in Nat
    OBVIOUS
  <1>3. \A i \in 1 .. n : f[i] \in Elements
    BY ElementOfSeq
  <1>4. SubSeq(f, 1, n) \in Seq(Elements) /\ Len(SubSeq(f, 1, n)) = n
        /\ \A i \in 1 .. n : SubSeq(f, 1, n)[i] = f[i]
    BY <1>3, SubSeqProperties
  <1> QED
    BY <1>1, <1>2, <1>4

\* The links that a list of transmissions leaves behind: links of the network.
LEMMA LinksRecorded ==
    ASSUME NEW elements \in Seq(Elements), NEW t \in Transmissions, NEW o \in Nat
    PROVE  /\ LinksCausingInterference(elements, t, o) \subseteq Links
           /\ LinksCausingInterference(elements, t, o) \cap InterferenceGraph = {}
  <1> SUFFICES ASSUME NEW l \in LinksCausingInterference(elements, t, o)
               PROVE  l \in Links /\ l \notin InterferenceGraph
    OBVIOUS
  <1>1. ~CheckAllConflicts(elements, t, o) /\ ChannelSpatialReuse
    BY DEF LinksCausingInterference
  <1>2. PICK e \in ToSet(elements) : ShareSlot(t, e, o) /\ l \in CrossLinks(t, e)
    BY <1>1 DEF LinksCausingInterference
  <1>3. ~CheckUnicityConflict(t, e) /\ ~CheckInterferenceConflict(t, e)
    BY <1>1, <1>2 DEF CheckAllConflicts, InConflict
  <1>4. l \notin InterferenceGraph
    BY <1>2, <1>3 DEF CheckInterferenceConflict, InterferenceGraph
  <1>5. e \in Elements
    BY <1>2 DEF ToSet
  <1>6. t.tx \in Nodes /\ t.rx \in Nodes /\ e.tx \in Nodes /\ e.rx \in Nodes
    BY <1>5 DEF Elements, Transmissions
  <1>7. t.tx # e.rx /\ t.rx # e.tx
    BY <1>3 DEF CheckUnicityConflict
  <1>8. ASSUME NEW a \in Nodes, NEW b \in Nodes, a # b
        PROVE  {a, b} \in Links
    <2> DEFINE A == {a}
    <2>1. IsFiniteSet(A) /\ Cardinality(A) = 1
      BY FS_Singleton, Zenon
    <2>2. b \notin A
      BY <1>8
    <2>3. A \cup {b} = {a, b}
      OBVIOUS
    <2> HIDE DEF A
    <2>4. Cardinality(A \cup {b}) = Cardinality(A) + 1
      BY <2>1, <2>2, FS_AddElement, Zenon
    <2>5. Cardinality(A \cup {b}) = 2
      BY <2>1, <2>4
    <2>6. {a, b} \in SUBSET Nodes
      OBVIOUS
    <2> QED BY <2>3, <2>5, <2>6, Zenon DEF Links
  <1> QED
    BY <1>2, <1>4, <1>6, <1>7, <1>8 DEF CrossLinks

\* The transmission whose turn it is and the offsets that are tried for it.
LEMMA TransmissionType ==
    ASSUME Typed, block # Nothing
    PROVE  /\ Transmission \in Transmissions
           /\ Transmission.stream.period \in Nat \ {0}
           /\ Tail(block) \in Seq(Transmissions)
           /\ Len(Tail(block)) = Len(block) - 1
           /\ \A i \in 1 .. Len(Tail(block)) : Tail(block)[i] = block[i + 1]
           /\ Transmission = block[1] /\ Len(block) \in Nat \ {0}
           /\ \A o \in DataSlots : o \in Nat /\ lastOffset <= o
                                   /\ o + 1 < Transmission.stream.period * SlotsPerTile
           /\ FreeOffsets \subseteq DataSlots /\ TriedOffsets \subseteq DataSlots
  <1>1. block \in Seq(Transmissions) /\ block # <<>>
    BY DEF Typed, Nothing
  <1>2. Transmission \in Transmissions
    BY <1>1, HeadTailProperties DEF Transmission
  <1>3. Transmission.stream.period \in Nat \ {0}
    BY <1>2, AllocationAssumption DEF Transmissions
  <1>4. ASSUME NEW o \in DataSlots
        PROVE  o \in Nat /\ lastOffset <= o /\ o + 1 < Transmission.stream.period * SlotsPerTile
    <2>1. SlotsPerTile \in Nat /\ lastOffset \in Nat
      BY AllocationAssumption DEF Typed
    <2>2. MaxOffset = Transmission.stream.period * SlotsPerTile - 1
      BY DEF MaxOffset
    <2>3. Transmission.stream.period * SlotsPerTile \in Nat
      BY <1>3, <2>1
    <2>4. o \in lastOffset .. (MaxOffset - 1)
      BY DEF DataSlots
    <2> QED BY <2>1, <2>2, <2>3, <2>4
  <1>5. FreeOffsets \subseteq DataSlots /\ TriedOffsets \subseteq DataSlots
    BY DEF FreeOffsets, TriedOffsets
  <1>6. /\ Tail(block) \in Seq(Transmissions) /\ Len(Tail(block)) = Len(block) - 1
        /\ \A i \in 1 .. Len(Tail(block)) : Tail(block)[i] = block[i + 1]
    BY <1>1, HeadTailProperties
  <1>7. Transmission = block[1] /\ Len(block) \in Nat \ {0}
    BY <1>1 DEF Transmission
  <1> QED
    BY <1>2, <1>3, <1>4, <1>5, <1>6, <1>7

\* The size of the schedule with the next transmission.
LEMMA SizeType ==
    ASSUME Typed, block # Nothing
    PROVE  Lcm(newSize, Transmission.stream.period) \in Nat \ {0}
  BY TransmissionType, LcmIs DEF Typed

\* The links of a schedule after a transmission was tried.
LEMMA RecordedType ==
    ASSUME Typed, block # Nothing, RecordLinks
    PROVE  /\ newSchedule' = [newSchedule EXCEPT !.links = newSchedule'.links]
           /\ newSchedule'.links \in SUBSET Links
           /\ newSchedule.links \subseteq newSchedule'.links
           /\ (newSchedule'.links \ newSchedule.links) \cap InterferenceGraph = {}
           /\ \A o \in TriedOffsets :
                /\ LinksCausingInterference(newSchedule.elements, Transmission, o)
                     \subseteq newSchedule'.links
                /\ LinksCausingInterference(fresh, Transmission, o) \subseteq newSchedule'.links
  <1> DEFINE more == UNION {LinksCausingInterference(newSchedule.elements, Transmission, o)
                             \cup LinksCausingInterference(fresh, Transmission, o) :
                               o \in TriedOffsets}
  <1>1. newSchedule \in SchedulesOf /\ newSchedule.elements \in Seq(Elements)
        /\ fresh \in Seq(Elements)
    BY DEF Typed, SchedulesOf
  <1>2. newSchedule' = [newSchedule EXCEPT !.links = @ \cup more]
    BY DEF RecordLinks
  <1>3. Transmission \in Transmissions /\ \A o \in TriedOffsets : o \in Nat
    BY TransmissionType
  <1>4. ASSUME NEW o \in TriedOffsets
        PROVE  /\ LinksCausingInterference(newSchedule.elements, Transmission, o) \subseteq Links
               /\ LinksCausingInterference(fresh, Transmission, o) \subseteq Links
               /\ LinksCausingInterference(newSchedule.elements, Transmission, o)
                     \cap InterferenceGraph = {}
               /\ LinksCausingInterference(fresh, Transmission, o) \cap InterferenceGraph = {}
    BY <1>1, <1>3, LinksRecorded
  <1>5. more \subseteq Links /\ more \cap InterferenceGraph = {}
    BY <1>4
  <1>6. \A o \in TriedOffsets :
           /\ LinksCausingInterference(newSchedule.elements, Transmission, o) \subseteq more
           /\ LinksCausingInterference(fresh, Transmission, o) \subseteq more
    OBVIOUS
  <1> HIDE DEF more
  <1>7. newSchedule'.links = newSchedule.links \cup more
    BY <1>1, <1>2 DEF SchedulesOf
  <1> QED
    BY <1>1, <1>2, <1>5, <1>6, <1>7 DEF SchedulesOf

\* The slot that a transmission takes.
LEMMA Placing ==
    ASSUME Typed, PlaceTransmission
    PROVE  \E o \in FreeOffsets :
              /\ o \in Nat /\ o \in TriedOffsets
              /\ o >= lastOffset /\ o + 1 < Transmission.stream.period * SlotsPerTile
              /\ ElementAt(Transmission, o) \in Elements
              /\ fresh' \in Seq(Elements) /\ Len(fresh') = Len(fresh) + 1
              /\ \A i \in 1 .. Len(fresh) : fresh'[i] = fresh[i]
              /\ fresh'[Len(fresh) + 1] = ElementAt(Transmission, o)
              /\ ToSet(fresh') = ToSet(fresh) \cup {ElementAt(Transmission, o)}
              /\ AdvanceFrom(o)
  <1>1. block # Nothing /\ FreeOffsets # {}
    BY DEF PlaceTransmission
  <1> DEFINE o == Min(FreeOffsets)
             e == ElementAt(Transmission, o)
  <1>2. o \in FreeOffsets
    BY <1>1, TransmissionType, MinOf
  <1>3. fresh' = Append(fresh, e) /\ AdvanceFrom(o)
    BY DEF PlaceTransmission
  <1>4. o \in TriedOffsets
    BY <1>1, <1>2, TransmissionType DEF TriedOffsets
  <1> HIDE DEF o
  <1>5. /\ o \in Nat /\ o >= lastOffset /\ o + 1 < Transmission.stream.period * SlotsPerTile
        /\ Transmission \in Transmissions
    BY <1>1, <1>2, TransmissionType DEF Typed
  <1>6. e \in Elements
    BY <1>5, PlacedElement
  <1> HIDE DEF e
  <1>7. fresh \in Seq(Elements) /\ Len(fresh) \in Nat /\ DOMAIN fresh = 1 .. Len(fresh)
    BY DEF Typed
  <1>8. /\ fresh' \in Seq(Elements) /\ Len(fresh') = Len(fresh) + 1
        /\ \A i \in 1 .. Len(fresh) : fresh'[i] = fresh[i]
        /\ fresh'[Len(fresh) + 1] = e
        /\ DOMAIN fresh' = 1 .. Len(fresh) + 1
    BY <1>3, <1>6, <1>7
  <1>9. ToSet(fresh') = ToSet(fresh) \cup {e}
    <2>1. ToSet(fresh') = {fresh'[i] : i \in 1 .. Len(fresh) + 1}
      BY <1>8 DEF ToSet
    <2>2. ToSet(fresh) = {fresh[i] : i \in 1 .. Len(fresh)}
      BY <1>7 DEF ToSet
    <2>3. \A i : i \in 1 .. Len(fresh) + 1 <=> i \in 1 .. Len(fresh) \/ i = Len(fresh) + 1
      BY <1>7
    <2> QED BY <1>8, <2>1, <2>2, <2>3, Zenon
  <1> QED
    BY <1>2, <1>3, <1>4, <1>5, <1>6, <1>8, <1>9 DEF e

\* The result of a round is a schedule.
LEMMA ResultType ==
    ASSUME Typed
    PROVE  /\ Result \in SchedulesOf
           /\ Result.elements = newSchedule.elements \o fresh
           /\ Result.tiles = newSize /\ Result.links = newSchedule.links
  <1>1. newSchedule \in SchedulesOf /\ newSize \in Nat \ {0}
    BY DEF Typed
  <1>2. newSchedule.elements \o fresh \in Seq(Elements)
    BY ConcatProperties DEF Typed, SchedulesOf
  <1> QED
    BY <1>1, <1>2 DEF Result, SchedulesOf

\* A run may start from nothing.
LEMMA EmptyScheduleType == EmptySchedule \in SchedulesOf /\ Len(Superframe) \in Nat \ {0}
  <1>1. Len(Superframe) \in Nat \ {0}
    BY AllocationAssumption, EmptySeq
  <1>2. <<>> \in Seq(Elements)
    BY EmptySeq
  <1> QED
    BY <1>1, <1>2 DEF EmptySchedule, SchedulesOf

\* The types at the start.
LEMMA InitTyped == Init => Typed
  <1> SUFFICES ASSUME Init PROVE Typed
    OBVIOUS
  <1>1. EmptySchedule \in SchedulesOf /\ Len(Superframe) \in Nat \ {0}
    BY EmptyScheduleType
  <1>2. <<>> \in Seq(Seq(Transmissions)) /\ <<>> \in Seq(Transmissions) /\ <<>> \in Seq(Elements)
        /\ Len(<<>>) = 0
    BY EmptySeq
  <1>3. /\ blocks \in Seq(Seq(Transmissions)) /\ block \in Seq(Transmissions)
        /\ fresh \in Seq(Elements)
    BY <1>2 DEF Init, Nothing
  <1>4. blockSize \in 0 .. Len(fresh)
    BY <1>2 DEF Init
  <1>5. runs \in 0 .. MaxRuns
    BY AllocationAssumption DEF Init
  <1> QED
    BY <1>1, <1>3, <1>4, <1>5 DEF Init, Typed

\* Every step keeps the types.
LEMMA TypedInvariant == Typed /\ [Next]_vars => Typed'
  <1> SUFFICES ASSUME Typed, [Next]_vars PROVE Typed'
    OBVIOUS
  <1>1. <<>> \in Seq(Seq(Transmissions)) /\ <<>> \in Seq(Transmissions) /\ <<>> \in Seq(Elements)
        /\ Len(<<>>) = 0
    BY EmptySeq
  <1>2. EmptySchedule \in SchedulesOf /\ Len(Superframe) \in Nat \ {0}
    BY EmptyScheduleType
  <1>3. ASSUME NEW g \in Graphs, NEW w \in Graphs, NEW closed \in SUBSET established,
               NEW requested \in SUBSET Requests, NEW graphChanged \in BOOLEAN,
               StartRun(g, w, closed, requested, graphChanged)
        PROVE  Typed'
    <2>1. newSchedule' \in {EmptySchedule, schedule} /\ newSchedule' \in SchedulesOf
      BY <1>2, <1>3 DEF StartRun, Typed
    <2>2. newSchedule'.tiles \in Nat \ {0}
      BY <2>1 DEF SchedulesOf
    <2>3. runs' \in 0 .. MaxRuns
      BY <1>3, AllocationAssumption DEF StartRun, Typed
    <2>4. /\ established' \subseteq Requests /\ accepted' \subseteq Requests
          /\ todo' \subseteq Requests
          /\ round' \in {"established", "accepted"}
      BY <1>3 DEF StartRun, Typed
    <2> QED BY <1>3, <2>1, <2>2, <2>3, <2>4 DEF StartRun, Typed, blockVars
  <1>4. ASSUME NEW s \in todo, RouteStream(s)
        PROVE  Typed'
    <2>1. s \in Requests
      BY DEF Typed
    <2>2. Route(graph, s) \in Seq(Seq(TransmissionsOf(s)))
      BY <2>1, RouteType
    <2>3. TransmissionsOf(s) \subseteq Transmissions
      BY <2>1 DEF TransmissionsOf, Transmissions
    <2>4. Seq(TransmissionsOf(s)) \subseteq Seq(Transmissions)
      BY <2>3, SeqMonotonic
    <2>5. Route(graph, s) \in Seq(Seq(Transmissions))
      BY <2>2, <2>4, SeqMonotonic
    <2> QED BY <1>4, <2>5 DEF RouteStream, Typed, networkVars, blockVars
  <1>5. CASE StartBlock
    <2>1. blocks \in Seq(Seq(Transmissions)) /\ blocks # <<>>
      BY <1>5 DEF StartBlock, Typed
    <2> DEFINE B == Seq(Transmissions)
    <2> HIDE DEF B
    <2>2. Head(blocks) \in B /\ Tail(blocks) \in Seq(B)
      BY <2>1, HeadTailProperties DEF B
    <2>3. block' \in Seq(Transmissions) /\ blocks' \in Seq(Seq(Transmissions))
      BY <1>5, <2>2 DEF StartBlock, B
    <2>4. blockSize' \in 0 .. Len(fresh')
      BY <1>5 DEF StartBlock, Typed
    <2> QED BY <1>5, <2>3, <2>4 DEF StartBlock, Typed, networkVars
  <1>6. CASE PlaceTransmission
    <2>1. block # Nothing
      BY <1>6 DEF PlaceTransmission
    <2>2. PICK o \in FreeOffsets :
            /\ o \in Nat /\ AdvanceFrom(o)
            /\ fresh' \in Seq(Elements) /\ Len(fresh') = Len(fresh) + 1
      BY <1>6, Placing
    <2>3. RecordLinks
      BY <1>6 DEF PlaceTransmission
    <2>6. newSchedule' \in SchedulesOf
      BY <2>1, <2>3, RecordedType DEF Typed, SchedulesOf
    <2>7. blockSize' \in 0 .. Len(fresh')
      BY <1>6, <2>2, LenProperties DEF PlaceTransmission, Typed
    <2>8. newSize' \in Nat \ {0}
      BY <1>6, <2>1, SizeType DEF PlaceTransmission
    <2>9. lastOffset' \in Nat /\ streamErr' \in BOOLEAN /\ block' \in Seq(Transmissions)
      BY <2>1, <2>2, TransmissionType DEF AdvanceFrom, Typed
    <2> QED BY <1>6, <2>2, <2>6, <2>7, <2>8, <2>9 DEF PlaceTransmission, Typed, networkVars
  <1>7. CASE SkipTransmission
    <2>1. block # Nothing /\ AdvanceFrom(lastOffset) /\ RecordLinks
      BY <1>7 DEF SkipTransmission
    <2>2. newSchedule' \in SchedulesOf
      BY <2>1, RecordedType DEF Typed, SchedulesOf
    <2>3. lastOffset' \in Nat /\ streamErr' \in BOOLEAN /\ block' \in Seq(Transmissions)
      BY <2>1, TransmissionType DEF AdvanceFrom, Typed
    <2> QED BY <1>7, <2>2, <2>3 DEF SkipTransmission, Typed, networkVars
  <1>8. CASE AbandonBlock
    <2> DEFINE n == Len(fresh) - blockSize
    <2>1. fresh \in Seq(Elements) /\ n \in 0 .. Len(fresh)
      BY DEF Typed
    <2>2. fresh' = SubSeq(fresh, 1, n)
      BY <1>8 DEF AbandonBlock
    <2> HIDE DEF n
    <2>3. fresh' \in Seq(Elements) /\ Len(fresh') \in Nat
      BY <2>1, <2>2, FreshType
    <2>4. block' \in Seq(Transmissions) /\ blockSize' \in 0 .. Len(fresh')
      BY <1>1, <1>8, <2>3 DEF AbandonBlock, Nothing
    <2> QED BY <1>8, <2>3, <2>4 DEF AbandonBlock, Typed, networkVars
  <1>9. CASE EndEstablished
    <2>1. newSchedule' \in SchedulesOf
      BY <1>9, ResultType DEF EndEstablished
    <2>2. fresh' \in Seq(Elements) /\ blockSize' \in 0 .. Len(fresh')
      BY <1>1, <1>9 DEF EndEstablished, ClearLocals
    <2> QED BY <1>2, <1>9, <2>1, <2>2 DEF EndEstablished, ClearLocals, Typed, networkVars
  <1>10. CASE EndRun
    <2>1. schedule' \in SchedulesOf
      BY <1>10, ResultType DEF EndRun, Typed
    <2>2. established' \subseteq Requests
      BY <1>10 DEF EndRun, Typed
    <2>3. fresh' \in Seq(Elements) /\ blockSize' \in 0 .. Len(fresh')
      BY <1>1, <1>10 DEF EndRun, ClearLocals
    <2> QED BY <1>2, <1>10, <2>1, <2>2, <2>3 DEF EndRun, ClearLocals, Typed
  <1>11. CASE UNCHANGED vars
    BY <1>11 DEF vars, networkVars, blockVars, Typed
  <1> QED
    BY <1>3, <1>4, <1>5, <1>6, <1>7, <1>8, <1>9, <1>10, <1>11 DEF Next

\* They are those that TypeOK states.
LEMMA TypedIsTypeOK == Typed => TypeOK
  <1> SUFFICES ASSUME Typed PROVE TypeOK
    OBVIOUS
  <1>1. ASSUME NEW elements \in Seq(Elements), NEW e \in ToSet(elements)
        PROVE  IsElement(e)
    <2>1. e \in Elements
      BY <1>1 DEF ToSet
    <2>2. e.stream.period * SlotsPerTile \in Nat
      BY <2>1, AllocationAssumption DEF Elements
    <2> QED BY <2>1, <2>2 DEF Elements, IsElement, Transmissions
  <1>2. IsSchedule(schedule) /\ IsSchedule(newSchedule)
    BY <1>1 DEF Typed, SchedulesOf, IsSchedule
  <1>3. \A e \in ToSet(fresh) : IsElement(e)
    BY <1>1 DEF Typed
  <1>4. ASSUME NEW b \in Seq(Transmissions)
        PROVE  ToSet(b) \subseteq Transmissions
    BY <1>4 DEF ToSet
  <1>5. \A i \in DOMAIN blocks : ToSet(blocks[i]) \subseteq Transmissions
    <2> DEFINE B == Seq(Transmissions)
    <2>1. blocks \in Seq(B)
      BY DEF Typed
    <2> HIDE DEF B
    <2>2. \A i \in DOMAIN blocks : blocks[i] \in B
      BY <2>1
    <2> QED BY <1>4, <2>2 DEF B
  <1> QED
    BY <1>2, <1>3, <1>4, <1>5 DEF Typed, TypeOK

-----------------------------------------------------------------------------
(***************************************************************************)
(* The scheduler between runs, and the allocation as ScheduleComputation   *)
(* assumes it.                                                             *)
(***************************************************************************)
\* A run ends with nothing at hand.
LEMMA IdleInvariant == Typed /\ IdleIsEmpty /\ [Next]_vars => IdleIsEmpty'
  <1> SUFFICES ASSUME Typed, IdleIsEmpty, [Next]_vars PROVE IdleIsEmpty'
    OBVIOUS
  <1>1. ASSUME NEW g \in Graphs, NEW w \in Graphs, NEW closed \in SUBSET established,
               NEW requested \in SUBSET Requests, NEW graphChanged \in BOOLEAN,
               StartRun(g, w, closed, requested, graphChanged)
        PROVE  IdleIsEmpty'
    BY <1>1 DEF StartRun, IdleIsEmpty
  <1>2. ASSUME NEW s \in todo, RouteStream(s)
        PROVE  IdleIsEmpty'
    BY <1>2 DEF RouteStream, IdleIsEmpty
  <1>3. CASE StartBlock
    BY <1>3 DEF StartBlock, IdleIsEmpty
  <1>4. CASE PlaceTransmission \/ SkipTransmission
    BY <1>4 DEF PlaceTransmission, SkipTransmission, IdleIsEmpty
  <1>5. CASE AbandonBlock
    <2>1. block # Nothing /\ round' = round
      BY <1>5 DEF AbandonBlock
    <2> QED BY <2>1 DEF IdleIsEmpty
  <1>6. CASE EndEstablished
    BY <1>6 DEF EndEstablished, IdleIsEmpty
  <1>7. CASE EndRun
    BY <1>7 DEF EndRun, RoundComplete, ClearLocals, IdleIsEmpty
  <1>8. CASE UNCHANGED vars
    BY <1>8 DEF vars, IdleIsEmpty
  <1> QED
    BY <1>1, <1>2, <1>3, <1>4, <1>5, <1>6, <1>7, <1>8 DEF Next

\* Every step keeps the allocation as it is assumed: a transmission is placed where the
\* nodes are connected and shares slots only across links that are missing.
LEMMA AssumedInvariant ==
    Typed /\ IdleIsEmpty /\ AllocationAsAssumed /\ [Next]_vars => AllocationAsAssumed'
  <1> SUFFICES ASSUME Typed, IdleIsEmpty, AllocationAsAssumed, [Next]_vars
               PROVE  AllocationAsAssumed'
    OBVIOUS
  <1>1. UsedLinks(<<>>) = {}
    BY DEF UsedLinks, ToSet
  <1>2. ASSUME NEW g \in Graphs, NEW w \in Graphs, NEW closed \in SUBSET established,
               NEW requested \in SUBSET Requests, NEW graphChanged \in BOOLEAN,
               StartRun(g, w, closed, requested, graphChanged)
        PROVE  AllocationAsAssumed'
    <2>1. fresh' = <<>>
      BY <1>2 DEF StartRun, IdleIsEmpty
    <2>2. newSchedule'.links \subseteq schedule'.links
      BY <1>2 DEF StartRun, EmptySchedule
    <2> QED BY <1>1, <2>1, <2>2 DEF AllocationAsAssumed
  <1>3. CASE UNCHANGED <<graph, weakGraph, fresh, newSchedule, schedule, round>>
    BY <1>3 DEF AllocationAsAssumed, InterferenceGraph
  <1>4. ASSUME NEW s \in todo, RouteStream(s)
        PROVE  AllocationAsAssumed'
    BY <1>3, <1>4 DEF RouteStream, networkVars
  <1>5. CASE StartBlock
    BY <1>3, <1>5 DEF StartBlock, networkVars
  <1>6. ASSUME block # Nothing, RecordLinks, round # "idle", UsedLinks(fresh') \subseteq graph,
               UNCHANGED <<graph, weakGraph, schedule, round>>
        PROVE  AllocationAsAssumed'
    <2>1. InterferenceGraph' = InterferenceGraph
      BY <1>6 DEF InterferenceGraph
    <2>2. (newSchedule'.links \ newSchedule.links) \cap InterferenceGraph = {}
      BY <1>6, RecordedType
    <2> QED BY <1>6, <2>1, <2>2 DEF AllocationAsAssumed
  <1>7. CASE PlaceTransmission
    <2>1. block # Nothing /\ Connected /\ RecordLinks
      BY <1>7 DEF PlaceTransmission
    <2>2. PICK o \in FreeOffsets : ToSet(fresh') = ToSet(fresh) \cup {ElementAt(Transmission, o)}
      BY <1>7, Placing
    <2>4. UsedLinks(fresh') \subseteq graph
      <3> DEFINE e == ElementAt(Transmission, o)
      <3>1. {e.tx, e.rx} \in graph
        BY <2>1 DEF Connected, ElementAt
      <3>2. \A f \in ToSet(fresh) : {f.tx, f.rx} \in graph
        BY DEF AllocationAsAssumed, UsedLinks
      <3> HIDE DEF e
      <3>3. \A f \in ToSet(fresh') : {f.tx, f.rx} \in graph
        BY <2>2, <3>1, <3>2 DEF e
      <3> QED BY <3>3 DEF UsedLinks
    <2> QED BY <1>6, <1>7, <2>1, <2>4 DEF PlaceTransmission, networkVars, IdleIsEmpty
  <1>8. CASE SkipTransmission
    BY <1>6, <1>8 DEF SkipTransmission, networkVars, IdleIsEmpty, AllocationAsAssumed
  <1>9. CASE AbandonBlock
    <2> DEFINE n == Len(fresh) - blockSize
    <2>1. fresh \in Seq(Elements) /\ n \in 0 .. Len(fresh) /\ fresh' = SubSeq(fresh, 1, n)
      BY <1>9 DEF Typed, AbandonBlock
    <2> HIDE DEF n
    <2>2. fresh' \in Seq(Elements) /\ Len(fresh') = n
          /\ \A i \in 1 .. n : fresh'[i] = fresh[i]
      BY <2>1, FreshType
    <2>3. ToSet(fresh') \subseteq ToSet(fresh)
      BY <2>1, <2>2 DEF ToSet
    <2>4. UsedLinks(fresh') \subseteq UsedLinks(fresh)
      BY <2>3 DEF UsedLinks
    <2> QED BY <1>9, <2>4 DEF AbandonBlock, AllocationAsAssumed, InterferenceGraph, networkVars
  <1>10. CASE EndEstablished
    <2>1. newSchedule'.links = newSchedule.links /\ fresh' = <<>>
      BY <1>10, ResultType DEF EndEstablished, ClearLocals
    <2> QED BY <1>1, <1>10, <2>1
        DEF EndEstablished, AllocationAsAssumed, InterferenceGraph, networkVars
  <1>11. CASE EndRun
    BY <1>1, <1>11 DEF EndRun, ClearLocals, AllocationAsAssumed
  <1>12. CASE UNCHANGED vars
    BY <1>3, <1>12 DEF vars, networkVars
  <1> QED
    BY <1>2, <1>4, <1>5, <1>7, <1>8, <1>9, <1>10, <1>11, <1>12 DEF Next

-----------------------------------------------------------------------------
(***************************************************************************)
(* Collisions.                                                             *)
(***************************************************************************)
\* What NewTransmissionsDoNotCollide and SharingIsRecorded say of two transmissions,
\* given who hears whom and the links that are recorded.
Apart(e, f, heard, links) ==
    /\ ChannelSpatialReuse
    /\ {e.tx, e.rx} \cap {f.tx, f.rx} = {}
    /\ CrossLinks(e, f) \cap heard = {}
    /\ CrossLinks(e, f) \subseteq links
ApartIfMeeting(e, f, heard, links) == Meet(e, f) => Apart(e, f, heard, links)

AllApart ==
    \A p \in NewPairs :
        ApartIfMeeting(First(p), Second(p), InterferenceGraph, newSchedule.links)

\* The same without the arithmetic of concatenation.
SeparateIn(new, old, heard, links) ==
    /\ \A i \in 1 .. Len(new), j \in 1 .. Len(old) : ApartIfMeeting(new[i], old[j], heard, links)
    /\ \A i, j \in 1 .. Len(new) : i # j => ApartIfMeeting(new[i], new[j], heard, links)
Separate == SeparateIn(fresh, newSchedule.elements, InterferenceGraph, newSchedule.links)

\* What the runs check of pairs, taken together.
LEMMA AllApartIs ==
    AllApart <=> NewTransmissionsDoNotCollide /\ SharingIsRecorded
  BY DEF AllApart, ApartIfMeeting, Apart, NewTransmissionsDoNotCollide, SharingIsRecorded,
         MeetingPairs

\* The indices of the concatenation are those of its two parts.
LEMMA SeparateIs ==
    ASSUME Typed
    PROVE  AllApart <=> Separate
  <1> DEFINE n == Len(newSchedule.elements)
             m == Len(fresh)
             both == newSchedule.elements \o fresh
             heard == InterferenceGraph
             links == newSchedule.links
  <1>1. /\ newSchedule.elements \in Seq(Elements) /\ fresh \in Seq(Elements)
        /\ n \in Nat /\ m \in Nat
    BY DEF Typed, SchedulesOf
  <1>2. /\ Len(both) = n + m
        /\ \A i \in 1 .. n : both[i] = newSchedule.elements[i]
        /\ \A i \in 1 .. m : both[n + i] = fresh[i]
    BY <1>1, FreshType, m \in 0 .. m
  <1>3. NewPairs = {p \in (1 .. m) \X (1 .. Len(both)) : p[2] # n + p[1]}
    BY DEF NewPairs
  <1>4. \A p : First(p) = fresh[p[1]] /\ Second(p) = both[p[2]]
    BY DEF First, Second
  <1> HIDE DEF both, n, m, heard, links
  <1>5. AllApart <=> \A i \in 1 .. m, k \in 1 .. (n + m) :
                        k # n + i => ApartIfMeeting(fresh[i], both[k], heard, links)
    <2>1. ASSUME AllApart, NEW i \in 1 .. m, NEW k \in 1 .. (n + m), k # n + i
          PROVE  ApartIfMeeting(fresh[i], both[k], heard, links)
      <3>1. <<i, k>> \in NewPairs
        BY <1>2, <1>3, <2>1
      <3> QED BY <1>4, <2>1, <3>1 DEF AllApart, heard, links
    <2>2. ASSUME \A i \in 1 .. m, k \in 1 .. (n + m) :
                    k # n + i => ApartIfMeeting(fresh[i], both[k], heard, links),
                 NEW p \in NewPairs
          PROVE  ApartIfMeeting(First(p), Second(p), heard, links)
      <3>1. p[1] \in 1 .. m /\ p[2] \in 1 .. (n + m) /\ p[2] # n + p[1]
        BY <1>2, <1>3
      <3> QED BY <1>4, <2>2, <3>1
    <2> QED BY <2>1, <2>2 DEF AllApart, heard, links
  <1>6. ASSUME AllApart
        PROVE  Separate
    <2>1. ASSUME NEW i \in 1 .. m, NEW j \in 1 .. n
          PROVE  ApartIfMeeting(fresh[i], newSchedule.elements[j], heard, links)
      <3>1. j \in 1 .. (n + m) /\ j # n + i
        BY <1>1
      <3> QED BY <1>2, <1>5, <1>6, <3>1
    <2>2. ASSUME NEW i \in 1 .. m, NEW j \in 1 .. m, i # j
          PROVE  ApartIfMeeting(fresh[i], fresh[j], heard, links)
      <3>1. n + j \in 1 .. (n + m) /\ n + j # n + i
        BY <1>1, <2>2
      <3> QED BY <1>2, <1>5, <1>6, <3>1
    <2> QED BY <2>1, <2>2 DEF Separate, SeparateIn, n, m, heard, links
  <1>7. ASSUME Separate
        PROVE  AllApart
    <2>1. ASSUME NEW i \in 1 .. m, NEW k \in 1 .. (n + m), k # n + i
          PROVE  ApartIfMeeting(fresh[i], both[k], heard, links)
      <3>1. CASE k <= n
        <4>1. k \in 1 .. n
          BY <1>1, <3>1
        <4> QED BY <1>2, <1>7, <4>1 DEF Separate, SeparateIn, n, m, heard, links
      <3>2. CASE k > n
        <4>1. k - n \in 1 .. m /\ k = n + (k - n) /\ k - n # i
          BY <1>1, <2>1, <3>2
        <4>2. both[k] = fresh[k - n]
          BY <1>2, <4>1
        <4> QED BY <1>7, <4>1, <4>2 DEF Separate, SeparateIn, m, heard, links
      <3> QED BY <1>1, <3>1, <3>2
    <2> QED BY <1>5, <2>1
  <1> QED
    BY <1>6, <1>7

\* Neither transmission is the first of the two.
LEMMA ApartSymmetric ==
    ASSUME NEW e \in Elements, NEW f \in Elements, NEW heard, NEW links,
           ApartIfMeeting(e, f, heard, links)
    PROVE  ApartIfMeeting(f, e, heard, links)
  <1>1. e.stream.period \in Nat \ {0} /\ f.stream.period \in Nat \ {0}
    BY AllocationAssumption DEF Elements
  <1>2. Gcd(e.stream.period, f.stream.period) = Gcd(f.stream.period, e.stream.period)
    BY <1>1, GcdSymmetric
  <1>3. Meet(e, f) <=> Meet(f, e)
    BY <1>2 DEF Meet
  <1>4. CrossLinks(e, f) = CrossLinks(f, e)
    BY DEF CrossLinks
  <1>5. {e.tx, e.rx} \cap {f.tx, f.rx} = {f.tx, f.rx} \cap {e.tx, e.rx}
    OBVIOUS
  <1> QED
    BY <1>3, <1>4, <1>5 DEF ApartIfMeeting, Apart

\* Where the checks let a transmission take an offset, it is apart from a list that
\* they looked at.
LEMMA ApartFrom ==
    ASSUME NEW elements \in Seq(Elements), NEW t \in Transmissions, NEW o \in Nat,
           o + 1 < t.stream.period * SlotsPerTile,
           ~CheckAllConflicts(elements, t, o),
           NEW links, LinksCausingInterference(elements, t, o) \subseteq links,
           NEW e \in ToSet(elements)
    PROVE  ApartIfMeeting(ElementAt(t, o), e, InterferenceGraph, links)
  <1> DEFINE n == ElementAt(t, o)
  <1>1. e \in Elements
    BY DEF ToSet
  <1>2. n.offset = o /\ n.stream = t.stream /\ n.tx = t.tx /\ n.rx = t.rx
    BY DEF ElementAt
  <1>3. /\ t.stream.period \in Nat \ {0} /\ e.stream.period \in Nat \ {0} /\ e.offset \in Nat
        /\ e.offset + 1 < e.stream.period * SlotsPerTile
    BY <1>1, AllocationAssumption DEF Elements, Transmissions
  <1> HIDE DEF n
  <1>4. SUFFICES ASSUME Meet(n, e)
                 PROVE  Apart(n, e, InterferenceGraph, links)
    BY DEF ApartIfMeeting, n
  <1>5. o < t.stream.period * SlotsPerTile /\ e.offset < e.stream.period * SlotsPerTile
    <2> DEFINE a == t.stream.period * SlotsPerTile
               b == e.stream.period * SlotsPerTile
    <2>1. a \in Nat /\ b \in Nat
      <3>1. \A x, y \in Nat : x * y \in Nat
        OBVIOUS
      <3>2. t.stream.period \in Nat /\ e.stream.period \in Nat /\ SlotsPerTile \in Nat
        BY <1>3, AllocationAssumption
      <3> QED BY <3>1, <3>2, Zenon
    <2>2. o + 1 < a /\ e.offset + 1 < b /\ e.offset \in Nat
      BY <1>3
    <2> HIDE DEF a, b
    <2>3. o < a /\ e.offset < b
      BY <2>1, <2>2
    <2> QED BY <2>3 DEF a, b
  <1>6. ShareSlot(t, e, o)
    BY <1>2, <1>3, <1>4, <1>5, MeetIsConflict DEF Meet
  <1>7. ~InConflict(t, e, o)
    BY DEF CheckAllConflicts
  <1>8. /\ ChannelSpatialReuse
        /\ {t.tx, t.rx} \cap {e.tx, e.rx} = {}
        /\ CrossLinks(t, e) \cap InterferenceGraph = {}
    BY <1>6, <1>7 DEF InConflict, CheckUnicityConflict, CheckInterferenceConflict,
                      InterferenceGraph
  <1>9. CrossLinks(t, e) \subseteq links
    BY <1>6, <1>8 DEF LinksCausingInterference
  <1>10. CrossLinks(n, e) = CrossLinks(t, e)
    BY <1>2 DEF CrossLinks
  <1> QED
    BY <1>2, <1>8, <1>9, <1>10 DEF Apart

\* Recording more links and giving up transmissions keeps apart what is apart.
LEMMA SeparateKept ==
    ASSUME NEW new \in Seq(Elements), NEW old, NEW heard, NEW links,
           SeparateIn(new, old, heard, links),
           NEW fewer, NEW n \in 0 .. Len(new), Len(fewer) = n,
           \A i \in 1 .. n : fewer[i] = new[i],
           NEW more, links \subseteq more
    PROVE  SeparateIn(fewer, old, heard, more)
  <1>1. \A i \in 1 .. n : i \in 1 .. Len(new)
    OBVIOUS
  <1>2. \A e, f : ApartIfMeeting(e, f, heard, links) => ApartIfMeeting(e, f, heard, more)
    BY DEF ApartIfMeeting, Apart
  <1> QED
    BY <1>1, <1>2 DEF SeparateIn

\* One more transmission that is apart from all others.
LEMMA SeparateWith ==
    ASSUME NEW new \in Seq(Elements), NEW old \in Seq(Elements), NEW heard, NEW links,
           SeparateIn(new, old, heard, links),
           NEW more \in Seq(Elements), Len(more) = Len(new) + 1,
           \A i \in 1 .. Len(new) : more[i] = new[i],
           \A e \in ToSet(old) \cup ToSet(new) :
                ApartIfMeeting(more[Len(new) + 1], e, heard, links)
    PROVE  SeparateIn(more, old, heard, links)
  <1> DEFINE n == Len(new)
             e == more[n + 1]
  <1>1. n \in Nat /\ e \in Elements
    BY ElementOfSeq
  <1>2. \A i \in 1 .. (n + 1) : i \in 1 .. n \/ i = n + 1
    BY <1>1
  <1>3. \A j \in 1 .. Len(old) : ApartIfMeeting(e, old[j], heard, links)
    BY DEF ToSet
  <1>4. \A j \in 1 .. n : ApartIfMeeting(e, new[j], heard, links)
    BY DEF ToSet
  <1>5. \A j \in 1 .. n : ApartIfMeeting(new[j], e, heard, links)
    <2>1. \A j \in 1 .. n : new[j] \in Elements
      BY ElementOfSeq
    <2> HIDE DEF e, n
    <2> QED BY <1>1, <1>4, <2>1, ApartSymmetric
  <1>6. \A i \in 1 .. n : more[i] = new[i]
    OBVIOUS
  <1>7. more[n + 1] = e /\ Len(more) = n + 1 /\ Len(new) = n
    OBVIOUS
  <1> HIDE DEF e, n
  <1>8. ASSUME NEW i \in 1 .. (n + 1), NEW j \in 1 .. Len(old)
        PROVE  ApartIfMeeting(more[i], old[j], heard, links)
    BY <1>2, <1>3, <1>6, <1>7 DEF SeparateIn
  <1>9. ASSUME NEW i \in 1 .. (n + 1), NEW j \in 1 .. (n + 1), i # j
        PROVE  ApartIfMeeting(more[i], more[j], heard, links)
    <2>1. CASE i = n + 1
      BY <1>2, <1>4, <1>6, <1>7, <1>9, <2>1
    <2>2. CASE j = n + 1
      BY <1>2, <1>5, <1>6, <1>7, <1>9, <2>2
    <2>3. CASE i \in 1 .. n /\ j \in 1 .. n
      BY <1>6, <1>7, <1>9, <2>3 DEF SeparateIn
    <2> QED BY <1>2, <2>1, <2>2, <2>3
  <1> QED
    BY <1>7, <1>8, <1>9 DEF SeparateIn

\* No step brings together what is apart.
LEMMA SeparateInvariant == Typed /\ IdleIsEmpty /\ Separate /\ [Next]_vars => Separate'
  <1> SUFFICES ASSUME Typed, IdleIsEmpty, Separate, [Next]_vars
               PROVE  Separate'
    OBVIOUS
  <1>1. /\ fresh \in Seq(Elements) /\ newSchedule.elements \in Seq(Elements)
        /\ Len(fresh) \in Nat
    BY DEF Typed, SchedulesOf
  <1>2. CASE fresh' = <<>>
    <2>1. Len(fresh') = 0
      BY <1>2, EmptySeq
    <2> QED BY <2>1 DEF Separate, SeparateIn
  <1>3. CASE UNCHANGED <<graph, weakGraph, fresh, newSchedule>>
    BY <1>3 DEF Separate, InterferenceGraph
  <1>4. ASSUME NEW g \in Graphs, NEW w \in Graphs, NEW closed \in SUBSET established,
               NEW requested \in SUBSET Requests, NEW graphChanged \in BOOLEAN,
               StartRun(g, w, closed, requested, graphChanged)
        PROVE  Separate'
    BY <1>2, <1>4 DEF StartRun, IdleIsEmpty
  <1>5. ASSUME NEW s \in todo, RouteStream(s)
        PROVE  Separate'
    BY <1>3, <1>5 DEF RouteStream, networkVars
  <1>6. CASE StartBlock
    BY <1>3, <1>6 DEF StartBlock, networkVars
  <1>7. ASSUME block # Nothing, RecordLinks, UNCHANGED networkVars
        PROVE  /\ InterferenceGraph' = InterferenceGraph
               /\ newSchedule'.elements = newSchedule.elements
               /\ SeparateIn(fresh, newSchedule.elements, InterferenceGraph, newSchedule'.links)
    <2>1. InterferenceGraph' = InterferenceGraph
      BY <1>7 DEF InterferenceGraph, networkVars
    <2>2. newSchedule'.elements = newSchedule.elements
      BY <1>7, RecordedType DEF Typed, SchedulesOf
    <2>3. newSchedule.links \subseteq newSchedule'.links
      BY <1>7, RecordedType
    <2>4. Len(fresh) \in 0 .. Len(fresh)
      BY <1>1
    <2>5. SeparateIn(fresh, newSchedule.elements, InterferenceGraph, newSchedule'.links)
      BY <1>1, <2>3, <2>4, SeparateKept DEF Separate
    <2> QED BY <2>1, <2>2, <2>5
  <1>8. CASE PlaceTransmission
    <2>1. block # Nothing /\ RecordLinks /\ UNCHANGED networkVars
      BY <1>8 DEF PlaceTransmission
    <2> DEFINE t == Transmission
               links == newSchedule'.links
               heard == InterferenceGraph
               old == newSchedule.elements
    <2>2. PICK o \in FreeOffsets :
            /\ o \in Nat /\ o \in TriedOffsets
            /\ o + 1 < t.stream.period * SlotsPerTile
            /\ fresh' \in Seq(Elements) /\ Len(fresh') = Len(fresh) + 1
            /\ \A i \in 1 .. Len(fresh) : fresh'[i] = fresh[i]
            /\ fresh'[Len(fresh) + 1] = ElementAt(t, o)
      BY <1>8, Placing
    <2>3. ~CheckAllConflicts(old, t, o) /\ ~CheckAllConflicts(fresh, t, o)
      BY DEF FreeOffsets
    <2>4. /\ LinksCausingInterference(old, t, o) \subseteq links
          /\ LinksCausingInterference(fresh, t, o) \subseteq links
      BY <2>1, <2>2, RecordedType
    <2>5. t \in Transmissions
      BY <2>1, TransmissionType
    <2>6. SeparateIn(fresh, old, heard, links)
      BY <1>7, <2>1
    <2>7. old \in Seq(Elements)
      BY <1>1
    <2>8. InterferenceGraph' = heard /\ newSchedule'.elements = old /\ newSchedule'.links = links
      BY <1>7, <2>1
    <2> HIDE DEF t, links, old
    <2>9. \A e \in ToSet(old) : ApartIfMeeting(ElementAt(t, o), e, heard, links)
      BY <2>2, <2>3, <2>4, <2>5, <2>7, ApartFrom
    <2>10. \A e \in ToSet(fresh) : ApartIfMeeting(ElementAt(t, o), e, heard, links)
      BY <1>1, <2>2, <2>3, <2>4, <2>5, ApartFrom
    <2>11. SeparateIn(fresh', old, heard, links)
      <3> HIDE DEF heard
      <3> DEFINE f == fresh'
      <3>1. /\ f \in Seq(Elements) /\ Len(f) = Len(fresh) + 1
            /\ \A i \in 1 .. Len(fresh) : f[i] = fresh[i]
            /\ \A e \in ToSet(old) \cup ToSet(fresh) :
                    ApartIfMeeting(f[Len(fresh) + 1], e, heard, links)
        BY <2>2, <2>9, <2>10
      <3> HIDE DEF f
      <3>2. SeparateIn(f, old, heard, links)
        BY <1>1, <2>6, <2>7, <3>1, SeparateWith
      <3> QED BY <3>2 DEF f
    <2> QED BY <2>8, <2>11 DEF Separate
  <1>9. CASE SkipTransmission
    <2>1. block # Nothing /\ RecordLinks /\ UNCHANGED <<networkVars, fresh>>
      BY <1>9 DEF SkipTransmission
    <2> QED BY <1>7, <2>1 DEF Separate
  <1>10. CASE AbandonBlock
    <2> DEFINE n == Len(fresh) - blockSize
    <2>1. n \in 0 .. Len(fresh) /\ fresh' = SubSeq(fresh, 1, n)
          /\ UNCHANGED <<graph, weakGraph, newSchedule>>
      BY <1>10 DEF Typed, AbandonBlock, networkVars
    <2> HIDE DEF n
    <2>2. Len(fresh') = n /\ \A i \in 1 .. n : fresh'[i] = fresh[i]
      BY <1>1, <2>1, FreshType
    <2> DEFINE f == fresh'
    <2>3. Len(f) = n /\ \A i \in 1 .. n : f[i] = fresh[i]
      BY <2>2
    <2> HIDE DEF f
    <2>4. SeparateIn(f, newSchedule.elements, InterferenceGraph, newSchedule.links)
      BY <1>1, <2>1, <2>3, SeparateKept DEF Separate
    <2> QED BY <2>1, <2>4 DEF Separate, InterferenceGraph, f
  <1>11. CASE EndEstablished \/ EndRun
    BY <1>2, <1>11 DEF EndEstablished, EndRun, ClearLocals
  <1>12. CASE UNCHANGED vars
    BY <1>3, <1>12 DEF vars, networkVars
  <1> QED
    BY <1>4, <1>5, <1>6, <1>8, <1>9, <1>10, <1>11, <1>12 DEF Next

-----------------------------------------------------------------------------
(***************************************************************************)
(* Blocks and the order of their hops.                                     *)
(***************************************************************************)
\* Blocks come from the router, which makes them of one stream.
LEMMA OneStreamInvariant ==
    Typed /\ OneStreamBlocks /\ [Next]_vars => OneStreamBlocks'
  <1> SUFFICES ASSUME Typed, OneStreamBlocks, [Next]_vars PROVE OneStreamBlocks'
    OBVIOUS
  <1>1. OfOneStream(<<>>)
    BY DEF OfOneStream
  <1>2. CASE UNCHANGED <<block, blocks>>
    BY <1>2 DEF OneStreamBlocks, OfOneStream
  <1>3. ASSUME NEW g \in Graphs, NEW w \in Graphs, NEW closed \in SUBSET established,
               NEW requested \in SUBSET Requests, NEW graphChanged \in BOOLEAN,
               StartRun(g, w, closed, requested, graphChanged)
        PROVE  OneStreamBlocks'
    BY <1>2, <1>3 DEF StartRun
  <1>4. ASSUME NEW s \in todo, RouteStream(s)
        PROVE  OneStreamBlocks'
    <2> DEFINE B == Seq(TransmissionsOf(s))
    <2>1. s \in Requests
      BY DEF Typed
    <2>2. blocks' \in Seq(B) /\ block' = block
      BY <1>4, <2>1, RouteType DEF RouteStream
    <2>3. ASSUME NEW b \in B
          PROVE  OfOneStream(b)
      <3>1. \A i \in DOMAIN b : b[i] \in TransmissionsOf(s)
        BY <2>3
      <3>2. \A i \in DOMAIN b : b[i].stream = s
        BY <3>1 DEF TransmissionsOf
      <3> QED BY <3>2 DEF OfOneStream
    <2> HIDE DEF B
    <2>4. \A k \in DOMAIN blocks' : blocks'[k] \in B
      BY <2>2
    <2> QED BY <2>2, <2>3, <2>4 DEF OneStreamBlocks, OfOneStream
  <1>5. CASE StartBlock
    <2> DEFINE B == Seq(Transmissions)
    <2>1. blocks \in Seq(B) /\ blocks # <<>> /\ block' = Head(blocks) /\ blocks' = Tail(blocks)
      BY <1>5 DEF StartBlock, Typed
    <2> HIDE DEF B
    <2>2. block' = blocks[1] /\ 1 \in DOMAIN blocks
      BY <2>1
    <2>3. \A k \in DOMAIN blocks' : blocks'[k] = blocks[k + 1] /\ k + 1 \in DOMAIN blocks
      BY <2>1, HeadTailProperties
    <2> QED BY <2>2, <2>3 DEF OneStreamBlocks, OfOneStream
  <1>6. ASSUME block # Nothing, block' = Tail(block), blocks' = blocks
        PROVE  OneStreamBlocks'
    <2>1. \A i \in DOMAIN block' : block'[i] = block[i + 1] /\ i + 1 \in DOMAIN block
      BY <1>6, HeadTailProperties DEF Typed, Nothing
    <2>2. OfOneStream(block)'
      BY <2>1 DEF OneStreamBlocks, OfOneStream
    <2> QED BY <1>6, <2>2 DEF OneStreamBlocks, OfOneStream
  <1>7. CASE PlaceTransmission
    BY <1>6, <1>7 DEF PlaceTransmission, AdvanceFrom
  <1>8. CASE SkipTransmission
    BY <1>6, <1>8 DEF SkipTransmission, AdvanceFrom
  <1>9. CASE AbandonBlock
    <2>1. block' = <<>> /\ blocks' = blocks
      BY <1>9 DEF AbandonBlock, Nothing
    <2> QED BY <1>1, <2>1 DEF OneStreamBlocks, OfOneStream
  <1>10. CASE EndEstablished
    BY <1>2, <1>10 DEF EndEstablished
  <1>11. CASE EndRun
    BY <1>2, <1>11 DEF EndRun
  <1>12. CASE UNCHANGED vars
    BY <1>2, <1>12 DEF vars
  <1> QED
    BY <1>3, <1>4, <1>5, <1>7, <1>8, <1>9, <1>10, <1>11, <1>12 DEF Next

\* A transmission starts after the one before it; abandoned ones leave nothing behind.
LEMMA OrderInvariant ==
    Typed /\ IdleIsEmpty /\ OneStreamBlocks /\ PlacedInOrder /\ [Next]_vars => PlacedInOrder'
  <1> SUFFICES ASSUME Typed, IdleIsEmpty, OneStreamBlocks, PlacedInOrder, [Next]_vars
               PROVE  PlacedInOrder'
    OBVIOUS
  <1>1. /\ fresh \in Seq(Elements) /\ Len(fresh) \in Nat /\ DOMAIN fresh = 1 .. Len(fresh)
        /\ blockSize \in 0 .. Len(fresh) /\ lastOffset \in Nat
    BY DEF Typed
  <1>2. CASE UNCHANGED <<fresh, blockSize, lastOffset, block>>
    BY <1>2 DEF PlacedInOrder
  <1>3. ASSUME blockSize' = 0, fresh' \in Seq(Elements)
        PROVE  PlacedInOrder'
    <2>1. \A i \in DOMAIN fresh' : ~(i > Len(fresh') - blockSize')
      BY <1>3
    <2> QED BY <2>1 DEF PlacedInOrder
  <1>4. ASSUME NEW g \in Graphs, NEW w \in Graphs, NEW closed \in SUBSET established,
               NEW requested \in SUBSET Requests, NEW graphChanged \in BOOLEAN,
               StartRun(g, w, closed, requested, graphChanged)
        PROVE  PlacedInOrder'
    BY <1>2, <1>4 DEF StartRun, blockVars
  <1>5. ASSUME NEW s \in todo, RouteStream(s)
        PROVE  PlacedInOrder'
    BY <1>2, <1>5 DEF RouteStream, blockVars
  <1>6. CASE StartBlock
    BY <1>1, <1>3, <1>6 DEF StartBlock
  <1>7. ASSUME block # Nothing
        PROVE  /\ \A k \in DOMAIN Tail(block) : Tail(block)[k].stream = Transmission.stream
               /\ \A i \in DOMAIN fresh : i > Len(fresh) - blockSize =>
                        fresh[i].stream = Transmission.stream
    <2>1. \A k \in DOMAIN Tail(block) : Tail(block)[k] = block[k + 1] /\ k + 1 \in DOMAIN block
      BY <1>7, TransmissionType DEF Typed
    <2>2. Transmission = block[1] /\ 1 \in DOMAIN block
      BY <1>7, TransmissionType DEF Typed
    <2>3. \A k \in DOMAIN Tail(block) : Tail(block)[k].stream = Transmission.stream
      BY <2>1, <2>2 DEF OneStreamBlocks, OfOneStream
    <2> QED BY <2>2, <2>3 DEF PlacedInOrder
  <1>8. CASE PlaceTransmission
    <2>1. block # Nothing /\ blockSize' = blockSize + 1
      BY <1>8 DEF PlaceTransmission
    <2> DEFINE n == Len(fresh)
    <2>2. PICK o \in FreeOffsets :
            /\ o \in Nat /\ o >= lastOffset
            /\ fresh' \in Seq(Elements) /\ Len(fresh') = n + 1
            /\ \A i \in 1 .. n : fresh'[i] = fresh[i]
            /\ fresh'[n + 1] = ElementAt(Transmission, o)
            /\ AdvanceFrom(o)
      BY <1>8, Placing
    <2>3. block' = Tail(block) /\ lastOffset' = o + 1
      BY <2>2 DEF AdvanceFrom
    <2>4. fresh'[n + 1].offset = o /\ fresh'[n + 1].stream = Transmission.stream
      BY <2>2 DEF ElementAt
    <2>5. DOMAIN fresh' = 1 .. (n + 1)
      BY <2>2
    <2>6. ASSUME NEW i \in DOMAIN fresh', i > Len(fresh') - blockSize'
          PROVE  /\ fresh'[i].offset < lastOffset'
                 /\ \A k \in DOMAIN block' : block'[k].stream = fresh'[i].stream
                 /\ i < Len(fresh') => /\ fresh'[i].stream = fresh'[i + 1].stream
                                       /\ fresh'[i].offset < fresh'[i + 1].offset
      <3>1. CASE i = n + 1
        BY <1>7, <2>1, <2>2, <2>3, <2>4, <3>1
      <3>2. CASE i \in 1 .. n
        <4>1. i > n - blockSize /\ fresh'[i] = fresh[i] /\ i \in DOMAIN fresh
          BY <1>1, <2>1, <2>2, <2>6, <3>2
        <4>2. fresh[i].offset < lastOffset /\ fresh[i].stream = Transmission.stream
          BY <1>7, <2>1, <4>1 DEF PlacedInOrder
        <4>3. fresh[i].offset \in Nat
          BY <1>1, <4>1 DEF Elements
        <4>4. fresh'[i].offset < o /\ fresh'[i].offset < lastOffset'
          BY <1>1, <2>2, <2>3, <4>1, <4>2, <4>3
        <4>5. CASE i = n
          BY <1>7, <2>1, <2>3, <2>4, <4>1, <4>2, <4>4, <4>5
        <4>6. CASE i < n
          <5>1. fresh'[i + 1] = fresh[i + 1]
            BY <1>1, <2>2, <3>2, <4>6
          <5>2. fresh[i].stream = fresh[i + 1].stream /\ fresh[i].offset < fresh[i + 1].offset
            BY <4>1, <4>6 DEF PlacedInOrder
          <5> QED BY <1>7, <2>1, <2>3, <4>1, <4>2, <4>4, <5>1, <5>2
        <4> QED BY <1>1, <3>2, <4>5, <4>6
      <3> QED BY <1>1, <2>5, <3>1, <3>2
    <2> QED BY <2>6 DEF PlacedInOrder
  <1>9. CASE SkipTransmission
    <2>1. block # Nothing /\ UNCHANGED <<fresh, blockSize>> /\ block' = Tail(block)
          /\ lastOffset' = lastOffset + 1
      BY <1>9 DEF SkipTransmission, AdvanceFrom
    <2>2. \A i \in DOMAIN fresh : fresh[i].offset \in Nat
      BY <1>1 DEF Elements
    <2>3. \A i \in DOMAIN fresh : fresh[i].offset < lastOffset => fresh[i].offset < lastOffset'
      BY <1>1, <2>1, <2>2
    <2> QED BY <1>7, <2>1, <2>3 DEF PlacedInOrder
  <1>10. CASE AbandonBlock
    <2>1. Len(fresh) - blockSize \in 0 .. Len(fresh)
      BY <1>1
    <2>2. fresh' \in Seq(Elements)
      BY <1>1, <1>10, <2>1, FreshType DEF AbandonBlock
    <2> QED BY <1>3, <1>10, <2>2 DEF AbandonBlock
  <1>11. CASE EndEstablished \/ EndRun
    <2>1. fresh' \in Seq(Elements) /\ blockSize' = 0
      BY <1>11, EmptySeq DEF EndEstablished, EndRun, ClearLocals
    <2> QED BY <1>3, <2>1
  <1>12. CASE UNCHANGED vars
    BY <1>2, <1>12 DEF vars, blockVars
  <1> QED
    BY <1>4, <1>5, <1>6, <1>8, <1>9, <1>10, <1>11, <1>12 DEF Next

\* The order is the one that HopsInOrder states.
LEMMA OrderIsHopsInOrder == Typed /\ PlacedInOrder => HopsInOrder
  <1> SUFFICES ASSUME Typed, PlacedInOrder PROVE HopsInOrder
    OBVIOUS
  <1> DEFINE n == Len(fresh)
             placed == SubSeq(fresh, n - blockSize + 1, n)
  <1>1. /\ fresh \in Seq(Elements) /\ n \in Nat /\ DOMAIN fresh = 1 .. n
        /\ blockSize \in 0 .. n
    BY DEF Typed
  <1>2. \A i \in (n - blockSize + 1) .. n : fresh[i] \in Elements
    <2>1. \A i \in (n - blockSize + 1) .. n : i \in 1 .. n
      BY <1>1
    <2> QED BY <1>1, <2>1
  <1> HIDE DEF n
  <1>3. \A i \in 1 .. blockSize : placed[i] = fresh[n - blockSize + i]
    <2>1. n - blockSize + 1 \in Int /\ n \in Int
      BY <1>1
    <2>2. \A i \in 1 .. (n - (n - blockSize + 1) + 1) :
             placed[i] = fresh[(n - blockSize + 1) + i - 1]
      BY <1>2, <2>1, SubSeqProperties
    <2> HIDE DEF placed
    <2> QED BY <1>1, <2>2
  <1> HIDE DEF placed
  <1>4. ASSUME NEW i \in 1 .. (blockSize - 1)
        PROVE  /\ placed[i].stream = placed[i + 1].stream
               /\ placed[i].offset < placed[i + 1].offset
    <2> DEFINE k == n - blockSize + i
    <2>1. k \in 1 .. n /\ k > n - blockSize /\ k < n /\ k + 1 = n - blockSize + (i + 1)
          /\ i \in 1 .. blockSize /\ i + 1 \in 1 .. blockSize
      BY <1>1
    <2>2. placed[i] = fresh[k] /\ placed[i + 1] = fresh[k + 1]
      BY <1>3, <2>1
    <2> HIDE DEF k
    <2> QED BY <1>1, <2>1, <2>2 DEF PlacedInOrder, n
  <1> QED
    BY <1>4 DEF HopsInOrder, placed, n

-----------------------------------------------------------------------------
(***************************************************************************)
(* The size of the schedule.                                               *)
(***************************************************************************)
\* A multiple of a multiple is a multiple.
LEMMA DividesTransitive ==
    ASSUME NEW a \in Int, NEW b \in Int, NEW c \in Int, Divides(a, b), Divides(b, c)
    PROVE  Divides(a, c)
  <1>1. PICK j \in Int, k \in Int : b = a * j /\ c = b * k
    BY DEF Divides
  <1>2. c = a * (j * k) /\ j * k \in Int
    BY <1>1
  <1> QED
    BY <1>2 DEF Divides

\* Common multiples of the superframe and the periods.
LEMMA IsMultipleIs ==
    ASSUME NEW n \in Int, NEW periods \in SUBSET (Nat \ {0})
    PROVE  IsMultiple(n, periods) <=>
             /\ Divides(Len(Superframe), n)
             /\ \A p \in periods : Divides(p, n)
  BY EmptyScheduleType, ModIsDivides DEF IsMultiple

\* The least common multiple divides all others.
LEMMA ExactDivides ==
    ASSUME NEW periods \in SUBSET (Nat \ {0}), NEW size \in Nat \ {0}, IsExact(size, periods),
           NEW n \in Nat, IsMultiple(n, periods)
    PROVE  Divides(size, n)
  <1> DEFINE q == n \div size
             r == n % size
             F == Len(Superframe)
  <1>1. n = size * q + r /\ q \in Int /\ r \in 0 .. (size - 1)
    BY Division
  <1> HIDE DEF q, r
  <1>2. r = 1 * n + (0 - q) * size /\ 1 \in Int /\ 0 - q \in Int /\ size \in Int /\ n \in Int
    BY <1>1
  <1>3. F \in Int /\ \A p \in periods : p \in Int
    BY EmptyScheduleType
  <1>4. /\ Divides(F, n) /\ Divides(F, size)
        /\ \A p \in periods : Divides(p, n) /\ Divides(p, size)
    BY IsMultipleIs DEF IsExact
  <1> HIDE DEF F
  <1>5. Divides(F, r) /\ \A p \in periods : Divides(p, r)
    BY <1>2, <1>3, <1>4, DividesCombination, Zenon
  <1>6. IsMultiple(r, periods)
    BY <1>1, <1>5, IsMultipleIs DEF F
  <1>7. r = 0
    <2>1. r \in Nat \ {0} => size <= r
      BY <1>6 DEF IsExact
    <2> QED BY <1>1, <2>1
  <1>8. n = size * q
    BY <1>1, <1>7
  <1> QED
    BY <1>1, <1>8 DEF Divides

\* The size grows to the least common multiple with one more period.
LEMMA ExactWithPeriod ==
    ASSUME NEW periods \in SUBSET (Nat \ {0}), NEW size \in Nat \ {0}, IsExact(size, periods),
           NEW p \in Nat \ {0}
    PROVE  IsExact(Lcm(size, p), periods \cup {p})
  <1> DEFINE L == Lcm(size, p)
             all == periods \cup {p}
             F == Len(Superframe)
  <1>1. /\ L \in Nat \ {0} /\ Divides(size, L) /\ Divides(p, L)
        /\ \A n \in Int : Divides(size, n) /\ Divides(p, n) => Divides(L, n)
    BY LcmIs
  <1>2. all \in SUBSET (Nat \ {0}) /\ F \in Nat
    BY EmptyScheduleType
  <1>3. Divides(F, size) /\ \A x \in periods : Divides(x, size)
    BY IsMultipleIs DEF IsExact
  <1> HIDE DEF L, F
  <1>4. Divides(F, L) /\ \A x \in all : Divides(x, L)
    BY <1>1, <1>2, <1>3, DividesTransitive
  <1>5. ASSUME NEW n \in Nat \ {0}, IsMultiple(n, all)
        PROVE  L <= n
    <2>1. IsMultiple(n, periods) /\ n % p = 0
      BY <1>5 DEF IsMultiple
    <2>2. Divides(size, n) /\ Divides(p, n)
      BY <2>1, ExactDivides, ModIsDivides
    <2>3. L \in 1 .. n
      BY <1>1, <2>2, DivisorBound
    <2> QED BY <1>1, <2>3
  <1>6. IsMultiple(L, all)
    BY <1>1, <1>2, <1>4, IsMultipleIs DEF F
  <1>7. IsExact(L, all)
    BY <1>5, <1>6 DEF IsExact
  <1> QED
    BY <1>7 DEF L

\* Without streams the schedule lasts a superframe.
LEMMA EmptyIsExact == IsExact(Len(Superframe), {})
  <1> DEFINE F == Len(Superframe)
  <1>1. F \in Nat \ {0}
    BY EmptyScheduleType
  <1> HIDE DEF F
  <1>2. F % F = 0
    <2>1. F = F * 1
      BY <1>1
    <2>2. Divides(F, F)
      BY <2>1 DEF Divides
    <2> QED BY <1>1, <2>2, ModIsDivides
  <1>3. ASSUME NEW n \in Nat \ {0}, n % F = 0
        PROVE  F <= n
    <2>1. Divides(F, n)
      BY <1>1, <1>3, ModIsDivides
    <2>2. F \in 1 .. n
      BY <1>1, <2>1, DivisorBound
    <2> QED BY <1>1, <2>2
  <1> QED
    BY <1>2, <1>3 DEF IsExact, IsMultiple, F

\* The periods of schedules and of their parts.
LEMMA PeriodsIs ==
    ASSUME NEW e \in Seq(Elements), NEW f \in Seq(Elements)
    PROVE  /\ Periods(e) \in SUBSET (Nat \ {0})
           /\ Periods(e \o f) = Periods(e) \cup Periods(f)
           /\ Periods(e \o f) \in SUBSET (Nat \ {0})
  <1>1. ASSUME NEW s \in Seq(Elements)
        PROVE  Periods(s) \in SUBSET (Nat \ {0})
    <2>1. \A x \in ToSet(s) : x \in Elements
      BY DEF ToSet
    <2> QED BY <2>1, AllocationAssumption DEF Periods, Elements
  <1> DEFINE both == e \o f
  <1>2. /\ both \in Seq(Elements) /\ Len(both) = Len(e) + Len(f)
        /\ \A i \in 1 .. Len(e) : both[i] = e[i]
        /\ \A i \in 1 .. Len(f) : both[Len(e) + i] = f[i]
    BY FreshType, Len(f) \in 0 .. Len(f)
  <1>3. /\ Len(e) \in Nat /\ Len(f) \in Nat
        /\ DOMAIN e = 1 .. Len(e) /\ DOMAIN f = 1 .. Len(f)
    OBVIOUS
  <1> HIDE DEF both
  <1>4. ToSet(both) = ToSet(e) \cup ToSet(f)
    <2>1. DOMAIN both = 1 .. (Len(e) + Len(f))
      BY <1>2
    <2>2. ASSUME NEW k \in DOMAIN both
          PROVE  both[k] \in ToSet(e) \cup ToSet(f)
      <3>1. CASE k <= Len(e)
        BY <1>2, <1>3, <2>1, <3>1 DEF ToSet
      <3>2. CASE k > Len(e)
        <4>1. k - Len(e) \in 1 .. Len(f) /\ k = Len(e) + (k - Len(e))
          BY <1>3, <2>1, <3>2
        <4>2. both[k] = f[k - Len(e)]
          BY <1>2, <4>1
        <4> QED BY <1>3, <4>1, <4>2 DEF ToSet
      <3> QED BY <1>3, <2>1, <3>1, <3>2
    <2>3. ASSUME NEW i \in DOMAIN e
          PROVE  e[i] \in ToSet(both)
      <3>1. i \in DOMAIN both /\ both[i] = e[i]
        BY <1>2, <1>3, <2>1
      <3> QED BY <3>1 DEF ToSet
    <2>4. ASSUME NEW i \in DOMAIN f
          PROVE  f[i] \in ToSet(both)
      <3>1. Len(e) + i \in DOMAIN both /\ both[Len(e) + i] = f[i]
        BY <1>2, <1>3, <2>1
      <3> QED BY <3>1 DEF ToSet
    <2> QED BY <2>2, <2>3, <2>4 DEF ToSet
  <1>5. Periods(both) = Periods(e) \cup Periods(f)
    BY <1>4 DEF Periods
  <1> QED
    BY <1>1, <1>2, <1>5 DEF both

\* Two sequences with the same elements in front have the same elements there.
LEMMA PeriodsOfPart ==
    ASSUME NEW f \in Seq(Elements), NEW g \in Seq(Elements), NEW n \in Nat,
           n <= Len(f), n <= Len(g), \A i \in 1 .. n : f[i] = g[i]
    PROVE  Periods(SubSeq(f, 1, n)) = Periods(SubSeq(g, 1, n))
  <1> DEFINE a == SubSeq(f, 1, n)
             b == SubSeq(g, 1, n)
  <1>1. a \in Seq(Elements) /\ Len(a) = n /\ \A i \in 1 .. n : a[i] = f[i]
    BY FreshType
  <1>2. b \in Seq(Elements) /\ Len(b) = n /\ \A i \in 1 .. n : b[i] = g[i]
    BY FreshType
  <1> HIDE DEF a, b
  <1>3. a = b
    BY <1>1, <1>2, SeqEqual
  <1> QED
    BY <1>3 DEF a, b

\* The sizes stay exact, also when a block is abandoned and its size taken back.
LEMMA SizesInvariant ==
    Typed /\ IdleIsEmpty /\ SizesAreExact /\ [Next]_vars => SizesAreExact'
  <1> SUFFICES ASSUME Typed, IdleIsEmpty, SizesAreExact, [Next]_vars
               PROVE  SizesAreExact'
    OBVIOUS
  <1> DEFINE old == newSchedule.elements
             kept == Len(fresh) - blockSize
  <1>1. /\ fresh \in Seq(Elements) /\ old \in Seq(Elements) /\ schedule.elements \in Seq(Elements)
        /\ newSize \in Nat \ {0} /\ lastSize \in Nat \ {0}
        /\ kept \in Nat /\ kept \in 0 .. Len(fresh) /\ blockSize \in 0 .. Len(fresh)
        /\ Len(fresh) \in Nat
    BY DEF Typed, SchedulesOf
  <1>2. CASE UNCHANGED <<schedule, round, newSize, newSchedule, fresh, block, lastSize, blockSize>>
    BY <1>2 DEF SizesAreExact
  <1>3. Periods(<<>>) = {}
    BY DEF Periods, ToSet
  <1>4. \A e \in Seq(Elements) : Periods(e \o <<>>) = Periods(e)
    <2>1. <<>> \in Seq(Elements)
      BY EmptySeq
    <2> QED BY <1>3, <2>1, PeriodsIs
  <1>5. ASSUME NEW g \in Graphs, NEW w \in Graphs, NEW closed \in SUBSET established,
               NEW requested \in SUBSET Requests, NEW graphChanged \in BOOLEAN,
               StartRun(g, w, closed, requested, graphChanged)
        PROVE  SizesAreExact'
    <2>1. /\ fresh' = <<>> /\ block' = Nothing /\ schedule' = schedule
          /\ newSchedule' \in {EmptySchedule, schedule} /\ newSize' = newSchedule'.tiles
      BY <1>5 DEF StartRun, IdleIsEmpty
    <2>2. IsExact(EmptySchedule.tiles, Periods(EmptySchedule.elements))
      BY <1>3, EmptyIsExact DEF EmptySchedule
    <2>3. newSchedule'.elements \in Seq(Elements)
      BY <1>1, <2>1, EmptyScheduleType DEF SchedulesOf
    <2>4. IsExact(newSize', Periods(newSchedule'.elements))
      BY <2>1, <2>2 DEF SizesAreExact
    <2>5. Periods(newSchedule'.elements \o fresh') = Periods(newSchedule'.elements)
      BY <1>4, <2>1, <2>3
    <2> QED BY <2>1, <2>4, <2>5 DEF SizesAreExact
  <1>6. ASSUME NEW s \in todo, RouteStream(s)
        PROVE  SizesAreExact'
    BY <1>2, <1>6 DEF RouteStream, networkVars, blockVars
  <1>7. CASE StartBlock
    <2>1. /\ round # "idle" /\ lastSize' = newSize /\ blockSize' = 0
          /\ UNCHANGED <<schedule, newSchedule, fresh, newSize, round>>
      BY <1>7 DEF StartBlock, IdleIsEmpty, networkVars
    <2>2. SubSeq(fresh', 1, Len(fresh') - blockSize') = fresh
      <3>1. Len(fresh') - blockSize' = Len(fresh)
        BY <1>1, <2>1
      <3> QED BY <1>1, <2>1, <3>1, SubSeqFull
    <2>3. /\ IsExact(newSize, Periods(old \o fresh))
          /\ IsExact(schedule.tiles, Periods(schedule.elements))
      BY <2>1 DEF SizesAreExact
    <2> QED BY <2>1, <2>2, <2>3 DEF SizesAreExact
  <1>8. CASE PlaceTransmission
    <2> DEFINE t == Transmission
               p == Transmission.stream.period
               f == fresh'
    <2>1. /\ block # Nothing /\ RecordLinks /\ round # "idle"
          /\ blockSize' = blockSize + 1 /\ newSize' = Lcm(newSize, p)
          /\ UNCHANGED <<schedule, round, lastSize>>
      BY <1>8 DEF PlaceTransmission, IdleIsEmpty, networkVars
    <2>2. PICK o \in FreeOffsets :
            /\ f \in Seq(Elements) /\ Len(f) = Len(fresh) + 1
            /\ \A i \in 1 .. Len(fresh) : f[i] = fresh[i]
            /\ ToSet(f) = ToSet(fresh) \cup {ElementAt(t, o)}
      BY <1>8, Placing
    <2>3. newSchedule'.elements = old
      BY <2>1, RecordedType DEF Typed, SchedulesOf
    <2>4. p \in Nat \ {0}
      BY <2>1, TransmissionType
    <2>5. Periods(f) = Periods(fresh) \cup {p}
      <3> DEFINE e == ElementAt(t, o)
      <3>1. e.stream.period = p
        BY DEF ElementAt
      <3> HIDE DEF e, p, f
      <3>2. ToSet(f) = ToSet(fresh) \cup {e}
        BY <2>2 DEF e
      <3> QED BY <3>1, <3>2 DEF Periods
    <2> HIDE DEF p, f
    <2>6. Periods(old \o f) = Periods(old \o fresh) \cup {p}
      BY <1>1, <2>2, <2>5, PeriodsIs
    <2>7. IsExact(newSize, Periods(old \o fresh))
      BY <2>1 DEF SizesAreExact
    <2>8. IsExact(newSize', Periods(old \o f))
      <3>1. Periods(old \o fresh) \in SUBSET (Nat \ {0})
        BY <1>1, PeriodsIs
      <3> QED BY <1>1, <2>1, <2>4, <2>6, <2>7, <3>1, ExactWithPeriod
    <2>9. Periods(SubSeq(f, 1, kept)) = Periods(SubSeq(fresh, 1, kept))
      <3>1. kept <= Len(f) /\ kept <= Len(fresh) /\ \A i \in 1 .. kept : f[i] = fresh[i]
        BY <1>1, <2>2
      <3> HIDE DEF kept
      <3> QED BY <1>1, <2>2, <3>1, PeriodsOfPart
    <2>10. Len(f) - blockSize' = kept
      BY <1>1, <2>1, <2>2
    <2>11. Periods(old \o SubSeq(f, 1, kept)) = Periods(old \o SubSeq(fresh, 1, kept))
      <3>1. SubSeq(f, 1, kept) \in Seq(Elements) /\ SubSeq(fresh, 1, kept) \in Seq(Elements)
        BY <1>1, <2>2, FreshType
      <3> QED BY <1>1, <2>9, <3>1, PeriodsIs
    <2>12. IsExact(lastSize, Periods(old \o SubSeq(fresh, 1, kept)))
      BY <2>1 DEF SizesAreExact
    <2>13. IsExact(lastSize', Periods(newSchedule'.elements
                                      \o SubSeq(fresh', 1, Len(fresh') - blockSize')))
      BY <2>1, <2>3, <2>10, <2>11, <2>12 DEF f
    <2>14. IsExact(schedule'.tiles, Periods(schedule'.elements))
      BY <2>1 DEF SizesAreExact
    <2> QED BY <2>3, <2>8, <2>13, <2>14 DEF SizesAreExact, f
  <1>9. CASE SkipTransmission
    <2>1. /\ block # Nothing /\ RecordLinks
          /\ UNCHANGED <<schedule, round, newSize, fresh, lastSize, blockSize>>
      BY <1>9 DEF SkipTransmission, networkVars
    <2>2. newSchedule'.elements = old
      BY <2>1, RecordedType DEF Typed, SchedulesOf
    <2> QED BY <2>1, <2>2 DEF SizesAreExact
  <1>10. CASE AbandonBlock
    <2>1. /\ block # Nothing /\ fresh' = SubSeq(fresh, 1, kept) /\ newSize' = lastSize
          /\ block' = Nothing /\ UNCHANGED <<schedule, newSchedule>>
      BY <1>10 DEF AbandonBlock, networkVars
    <2> QED BY <2>1 DEF SizesAreExact
  <1>11. CASE EndEstablished
    <2>1. /\ round # "idle" /\ block' = Nothing /\ newSchedule'.elements = old \o fresh
          /\ fresh' = <<>> /\ UNCHANGED <<schedule, newSize>>
      BY <1>11, ResultType DEF EndEstablished, RoundComplete, ClearLocals, networkVars
    <2>2. old \o fresh \in Seq(Elements)
      BY <1>1, ConcatProperties
    <2>3. Periods(newSchedule'.elements \o fresh') = Periods(old \o fresh)
      BY <1>4, <2>1, <2>2
    <2> QED BY <2>1, <2>3 DEF SizesAreExact
  <1>12. CASE EndRun
    <2>1. /\ round # "idle" /\ round' = "idle" /\ block' = Nothing
          /\ schedule' = schedule \/ schedule' = Result
      BY <1>12 DEF EndRun, RoundComplete
    <2>2. Result.elements = old \o fresh /\ Result.tiles = newSize
      BY ResultType
    <2>3. IsExact(Result.tiles, Periods(Result.elements))
      BY <2>1, <2>2 DEF SizesAreExact
    <2> QED BY <2>1, <2>3 DEF SizesAreExact
  <1>13. CASE UNCHANGED vars
    BY <1>2, <1>13 DEF vars, networkVars, blockVars
  <1> QED
    BY <1>5, <1>6, <1>7, <1>8, <1>9, <1>10, <1>11, <1>12, <1>13 DEF Next

\* The size is the one that TilesAreExact states.
LEMMA SizesAreTilesAreExact == Typed /\ SizesAreExact => TilesAreExact
  <1> SUFFICES ASSUME Typed, SizesAreExact, round # "idle" PROVE TilesAreExact
    BY DEF TilesAreExact
  <1> DEFINE periods == Periods(newSchedule.elements \o fresh)
             T == {n \in 1 .. newSize : n % Len(Superframe) = 0 /\ \A p \in periods : n % p = 0}
  <1>1. newSize \in Nat \ {0} /\ IsExact(newSize, periods)
    BY DEF Typed, SizesAreExact
  <1> HIDE DEF periods
  <1>2. newSize \in T /\ T \subseteq Nat
    BY <1>1 DEF IsExact, IsMultiple
  <1>3. \A n \in T : newSize <= n
    BY <1>1 DEF IsExact, IsMultiple
  <1> HIDE DEF T
  <1>4. Min(T) \in T /\ Min(T) <= newSize
    BY <1>2, MinOf
  <1>5. newSize = Min(T)
    <2>1. newSize <= Min(T) /\ Min(T) \in Nat
      BY <1>2, <1>3, <1>4
    <2> QED BY <1>1, <1>4, <2>1
  <1> QED
    BY <1>5 DEF TilesAreExact, T, periods, Periods

-----------------------------------------------------------------------------
(***************************************************************************)
(* Results.                                                                *)
(***************************************************************************)
\* What is apart neither collides nor goes unrecorded.
LEMMA SeparateImplies ==
    Typed /\ Separate => NewTransmissionsDoNotCollide /\ SharingIsRecorded
  BY AllApartIs, SeparateIs

\* The invariant holds at the start.
LEMMA InitIndInv == Init => IndInv
  <1> SUFFICES ASSUME Init PROVE IndInv
    OBVIOUS
  <1>1. Typed
    BY InitTyped
  <1>2. fresh = <<>> /\ Len(fresh) = 0 /\ block = Nothing /\ round = "idle" /\ blocks = <<>>
        /\ schedule = EmptySchedule /\ DOMAIN fresh = {} /\ DOMAIN block = {} /\ DOMAIN blocks = {}
    BY EmptySeq DEF Init, Nothing
  <1>3. Separate
    BY <1>2 DEF Separate, SeparateIn
  <1>4. NewTransmissionsDoNotCollide /\ SharingIsRecorded
    BY <1>1, <1>3, AllApartIs, SeparateIs
  <1>5. AllocationAsAssumed
    BY <1>2 DEF AllocationAsAssumed, UsedLinks, ToSet
  <1>6. IdleIsEmpty
    BY DEF Init, IdleIsEmpty
  <1>7. OneStreamBlocks /\ PlacedInOrder
    BY <1>2 DEF OneStreamBlocks, OfOneStream, PlacedInOrder
  <1>8. SizesAreExact
    <2>1. Periods(EmptySchedule.elements) = {} /\ EmptySchedule.tiles = Len(Superframe)
      BY DEF EmptySchedule, Periods, ToSet
    <2> QED BY <1>2, <2>1, EmptyIsExact DEF SizesAreExact
  <1> QED
    BY <1>1, <1>4, <1>5, <1>6, <1>7, <1>8 DEF IndInv

\* Every step keeps it.
LEMMA NextIndInv == IndInv /\ [Next]_vars => IndInv'
  <1> SUFFICES ASSUME IndInv, [Next]_vars PROVE IndInv'
    OBVIOUS
  <1>1. Typed /\ IdleIsEmpty
    BY DEF IndInv
  <1>2. Typed' /\ IdleIsEmpty'
    BY <1>1, TypedInvariant, IdleInvariant
  <1>3. Separate
    BY <1>1, AllApartIs, SeparateIs DEF IndInv
  <1>4. Separate'
    BY <1>1, <1>3, SeparateInvariant
  <1>5. (NewTransmissionsDoNotCollide /\ SharingIsRecorded)'
    BY <1>2, <1>4, SeparateImplies, PTL
  <1>6. AllocationAsAssumed'
    BY <1>1, AssumedInvariant DEF IndInv
  <1>7. OneStreamBlocks' /\ PlacedInOrder'
    BY <1>1, OneStreamInvariant, OrderInvariant DEF IndInv
  <1>8. SizesAreExact'
    BY <1>1, SizesInvariant DEF IndInv
  <1> QED
    BY <1>2, <1>5, <1>6, <1>7, <1>8 DEF IndInv

\* The inductive invariant holds in every state of the scheduler.
THEOREM Invariance == Spec => []IndInv
  BY InitIndInv, NextIndInv, PTL DEF Spec

\* The types of the allocation; what is placed has an offset inside its period.
THEOREM TypeCorrect == Spec => []TypeOK
  <1>1. IndInv => TypeOK
    BY TypedIsTypeOK DEF IndInv
  <1> QED
    BY <1>1, Invariance, PTL

\* scheduleStreams() never places a transmission where it meets another one of the
\* schedule in any slot of any period, however the periods relate, unless the four
\* nodes differ and neither transmitter is heard by the other's receiver.
THEOREM NoCollision == Spec => []NewTransmissionsDoNotCollide
  <1>1. IndInv => NewTransmissionsDoNotCollide
    BY DEF IndInv
  <1> QED
    BY <1>1, Invariance, PTL

\* checkAllConflicts() leaves behind the links of every slot that is shared, so that the
\* topology can tell when one of them appears.
THEOREM SharingRecorded == Spec => []SharingIsRecorded
  <1>1. IndInv => SharingIsRecorded
    BY DEF IndInv
  <1> QED
    BY <1>1, Invariance, PTL

\* An allocation uses links of the graph and relies on links that are not in it.
THEOREM AllocationAssumed == Spec => []AllocationAsAssumed
  <1>1. IndInv => AllocationAsAssumed
    BY DEF IndInv
  <1> QED
    BY <1>1, Invariance, PTL

\* The slots of a block increase along its route, for blocks of any length.
THEOREM HopsOrdered == Spec => []HopsInOrder
  <1>1. IndInv => HopsInOrder
    BY OrderIsHopsInOrder DEF IndInv
  <1> QED
    BY <1>1, Invariance, PTL

\* The schedule lasts as long as it takes its periods and the superframe to come round
\* together, and no longer, whatever was abandoned on the way.
THEOREM TilesExact == Spec => []TilesAreExact
  <1>1. IndInv => TilesAreExact
    BY SizesAreTilesAreExact DEF IndInv
  <1> QED
    BY <1>1, Invariance, PTL

=============================================================================
