--------------------------- MODULE Uplink_proofs ----------------------------
(***************************************************************************)
(* Proofs about the uplink phase, for every network, superframe, capacity  *)
(* of the packets and number of faults.                                    *)
(***************************************************************************)
EXTENDS Uplink, FiniteSetTheorems, SequenceTheorems, WellFoundedInduction, NaturalsInduction,
        TLAPS

-----------------------------------------------------------------------------
(***************************************************************************)
(* Induction, division.                                                    *)
(***************************************************************************)
\* A set of naturals has a least element.
LEMMA LeastOf ==
    ASSUME NEW T, T \subseteq Nat, T # {}
    PROVE  \E x \in T : \A y \in T : x <= y
  <1> DEFINE R == OpToRel(<, Nat)
  <1>1. IsWellFoundedOn(R, Nat)
    BY NatLessThanWellFounded
  <1>2. \A x, y \in Nat : x < y => <<x, y>> \in R
    BY DEF OpToRel
  <1> HIDE DEF R
  <1>3. PICK x \in T : \A y \in T : ~ (<<y, x>> \in R)
    BY <1>1, WFMin
  <1>4. ASSUME NEW y \in T PROVE x <= y
    <2>1. x \in Nat /\ y \in Nat /\ ~ (<<y, x>> \in R)
      BY <1>3
    <2>2. ~ (y < x)
      BY <1>2, <2>1
    <2> QED BY <2>1, <2>2
  <1> QED BY <1>4

\* A set that has 0, and with each number the next, has them all.
LEMMA InductionOver ==
    ASSUME NEW S, 0 \in S, \A n \in Nat : n \in S => n + 1 \in S
    PROVE  Nat \subseteq S
  <1> SUFFICES ASSUME NEW m \in Nat, m \notin S PROVE FALSE
    OBVIOUS
  <1> DEFINE T == {n \in Nat : n \notin S}
  <1>1. PICK x \in T : \A y \in T : x <= y
    BY LeastOf
  <1>2. x - 1 \in Nat /\ x - 1 \in S
    BY <1>1
  <1> QED BY <1>1, <1>2

\* Division with remainder.
LEMMA Division ==
    ASSUME NEW d \in Nat \ {0}, NEW n \in Int
    PROVE  /\ n % d \in 0 .. (d - 1) /\ n \div d \in Int
           /\ n = d * (n \div d) + (n % d)
           /\ n \in Nat => n \div d \in Nat
  BY SMT

LEMMA DivisionNat ==
    ASSUME NEW d \in Nat \ {0}, NEW n \in Nat
    PROVE  n % d \in 0 .. (d - 1) /\ n \div d \in Nat /\ n = d * (n \div d) + (n % d)
  BY SMT

\* There is one quotient and one remainder.
LEMMA DivisionUnique ==
    ASSUME NEW d \in Nat \ {0}, NEW n \in Int, NEW q \in Int, NEW r \in 0 .. (d - 1),
           n = d * q + r
    PROVE  n \div d = q /\ n % d = r
  BY SMT

\* Whole multiples of the divisor add to the quotient only.
LEMMA AddMultiple ==
    ASSUME NEW d \in Nat \ {0}, NEW n \in Int, NEW k \in Int
    PROVE  (n + d * k) \div d = (n \div d) + k /\ (n + d * k) % d = n % d
  <1> DEFINE q == n \div d
             r == n % d
  <1>1. q \in Int /\ r \in 0 .. (d - 1) /\ n = d * q + r
    BY Division
  <1> HIDE DEF q, r
  <1>2. n + d * k = d * (q + k) + r /\ n + d * k \in Int
    BY <1>1
  <1>3. (n + d * k) \div d = q + k /\ (n + d * k) % d = r
    BY <1>1, <1>2, DivisionUnique
  <1> QED BY <1>3 DEF q, r

\* A multiple of a multiple is a multiple.
LEMMA ModTransitive ==
    ASSUME NEW d \in Nat \ {0}, NEW k \in Nat \ {0}, NEW n \in Int, n % (d * k) = 0
    PROVE  n % d = 0
  <1> DEFINE m == d * k
             q == n \div m
  <1>1. m \in Nat \ {0}
    OBVIOUS
  <1>2. m = d * k /\ n % m = 0
    OBVIOUS
  <1> HIDE DEF m
  <1>3. n = m * q + (n % m) /\ q \in Int
    BY <1>1, Division
  <1> HIDE DEF q
  <1>4. n = m * q
    BY <1>1, <1>2, <1>3
  <1>5. n = d * (k * q) + 0 /\ k * q \in Int
    BY <1>2, <1>3, <1>4
  <1> QED BY <1>5, DivisionUnique

-----------------------------------------------------------------------------
(***************************************************************************)
(* The round.                                                              *)
(***************************************************************************)
\* The uplink slots among the first c tiles of the superframe.
UplinksOf(c) == {i \in 1 .. c : Superframe[i] = "UPLINK"}

\* The uplink slots before the tile t.
Phase(t) == (t \div Len(Superframe)) * NumUplinks + Cardinality(UplinksOf(t % Len(Superframe)))

LEMMA SuperframeFacts ==
    /\ Len(Superframe) \in Nat \ {0}
    /\ NumUplinks \in Nat
    /\ NumUplinks = Cardinality(UplinksOf(Len(Superframe)))
    /\ NodesCount \in Nat \ {0}
    /\ ClockSync \in Nat \ {0}
  <1>1. Len(Superframe) \in Nat \ {0}
    BY UplinkAssumption
  <1>2. UplinksOf(Len(Superframe)) = {i \in DOMAIN Superframe : Superframe[i] = "UPLINK"}
    BY UplinkAssumption DEF UplinksOf
  <1>3. IsFiniteSet(1 .. Len(Superframe))
    BY <1>1, FS_Interval
  <1>4. IsFiniteSet(UplinksOf(Len(Superframe)))
    BY <1>3, FS_Subset DEF UplinksOf
  <1>5. NumUplinks = Cardinality(UplinksOf(Len(Superframe)))
    BY <1>2 DEF NumUplinks
  <1> QED
    BY <1>1, <1>4, <1>5, FS_CardinalityType, UplinkAssumption, NeighborAssumption

LEMMA UplinksOfNext ==
    ASSUME NEW c \in Nat
    PROVE  /\ Cardinality(UplinksOf(c)) \in Nat
           /\ Cardinality(UplinksOf(c + 1)) =
                Cardinality(UplinksOf(c)) + (IF Superframe[c + 1] = "UPLINK" THEN 1 ELSE 0)
  <1>1. IsFiniteSet(1 .. c)
    BY FS_Interval
  <1>2. IsFiniteSet(UplinksOf(c))
    BY <1>1, FS_Subset DEF UplinksOf
  <1>3. c + 1 \notin UplinksOf(c)
    BY DEF UplinksOf
  <1>4. CASE Superframe[c + 1] = "UPLINK"
    <2>1. UplinksOf(c + 1) = UplinksOf(c) \cup {c + 1}
      BY <1>4 DEF UplinksOf
    <2> QED BY <1>2, <1>3, <1>4, <2>1, FS_AddElement, FS_CardinalityType
  <1>5. CASE Superframe[c + 1] # "UPLINK"
    <2>1. UplinksOf(c + 1) = UplinksOf(c)
      BY <1>5 DEF UplinksOf
    <2> QED BY <1>2, <1>5, <2>1, FS_CardinalityType
  <1> QED BY <1>4, <1>5

\* An uplink slot adds one to the phase, another tile nothing.
LEMMA PhaseNext ==
    ASSUME NEW t \in Nat
    PROVE  /\ Phase(t) \in Nat
           /\ Phase(t + 1) =
                Phase(t) + (IF Superframe[(t % Len(Superframe)) + 1] = "UPLINK" THEN 1 ELSE 0)
  <1> DEFINE L == Len(Superframe)
             q == t \div L
             r == t % L
             U == NumUplinks
             one_ == IF Superframe[r + 1] = "UPLINK" THEN 1 ELSE 0
             before == Cardinality(UplinksOf(r))
             after == Cardinality(UplinksOf(r + 1))
  <1>1. L \in Nat \ {0} /\ U \in Nat /\ U = Cardinality(UplinksOf(L))
    BY SuperframeFacts
  <1>2. q \in Nat /\ r \in 0 .. (L - 1) /\ t = L * q + r
    BY <1>1, DivisionNat
  <1>3. before \in Nat /\ after = before + one_
    <2>1. r \in Nat
      BY <1>1, <1>2
    <2> HIDE DEF r
    <2> QED BY <2>1, UplinksOfNext
  <1>4. Phase(t) = q * U + before
    BY DEF Phase
  <1>5. Phase(t) \in Nat
    <2> HIDE DEF before, q, U
    <2> QED BY <1>1, <1>2, <1>3, <1>4
  <1>6. Phase(t + 1) = ((t + 1) \div L) * U + Cardinality(UplinksOf((t + 1) % L))
    BY DEF Phase
  <1> HIDE DEF L, q, r, U
  <1>7. CASE r + 1 < L
    <2>1. t + 1 = L * q + (r + 1) /\ r + 1 \in 0 .. (L - 1) /\ t + 1 \in Int
      BY <1>1, <1>2, <1>7
    <2>2. (t + 1) \div L = q /\ (t + 1) % L = r + 1
      <3>1. L \in Nat \ {0} /\ q \in Int
        BY <1>1, <1>2
      <3> QED BY <2>1, <3>1, DivisionUnique
    <2>3. Phase(t + 1) = q * U + after
      BY <1>6, <2>2
    <2> HIDE DEF before, after, one_
    <2>4. q * U \in Nat /\ one_ \in Nat
      BY <1>1, <1>2 DEF one_
    <2>5. Phase(t + 1) = Phase(t) + one_
      BY <1>3, <1>4, <2>3, <2>4
    <2> QED BY <1>5, <2>5 DEF one_, r, L
  <1>8. CASE r + 1 = L
    <2>1. t + 1 = L * (q + 1) + 0 /\ 0 \in 0 .. (L - 1) /\ t + 1 \in Int
      BY <1>1, <1>2, <1>8
    <2>2. (t + 1) \div L = q + 1 /\ (t + 1) % L = 0
      BY <1>1, <1>2, <2>1, DivisionUnique
    <2>3. UplinksOf(0) = {}
      BY DEF UplinksOf
    <2>4. Cardinality(UplinksOf(0)) = 0
      BY <2>3, FS_EmptySet
    <2>5. Phase(t + 1) = (q + 1) * U + 0
      BY <1>6, <2>2, <2>4
    <2>6. U = after
      BY <1>1, <1>8
    <2> HIDE DEF before, after, one_
    <2>7. (q + 1) * U = q * U + U
      BY <1>1, <1>2
    <2>8. q * U \in Nat
      BY <1>1, <1>2
    <2>9. one_ \in Nat
      BY DEF one_
    <2>10. Phase(t + 1) = Phase(t) + one_
      BY <1>3, <1>4, <2>5, <2>6, <2>7, <2>8, <2>9, <1>1
    <2> QED BY <1>5, <2>10 DEF one_, r, L
  <1>9. r + 1 < L \/ r + 1 = L
    BY <1>1, <1>2
  <1> QED BY <1>7, <1>8, <1>9

LEMMA ModulusFacts ==
    /\ TimeModulus \in Nat \ {0}
    /\ TimeModulus = Len(Superframe) * (ClockSync * NodesCount)
    /\ Len(Superframe) * ClockSync \in Nat \ {0}
  BY SuperframeFacts DEF TimeModulus

\* When the time wraps around, the round is where it was at the start.
LEMMA PhaseWraps ==
    Phase(TimeModulus) % NodesCount = 0 /\ Phase(0) = 0
  <1> DEFINE L == Len(Superframe)
             N == NodesCount
             C == ClockSync
             U == NumUplinks
  <1>1. L \in Nat \ {0} /\ U \in Nat /\ N \in Nat \ {0} /\ C \in Nat \ {0}
    BY SuperframeFacts
  <1>2. TimeModulus = L * (C * N) + 0 /\ C * N \in Nat /\ TimeModulus \in Int
    BY <1>1, ModulusFacts
  <1>3. UplinksOf(0) = {}
    BY DEF UplinksOf
  <1>4. Cardinality(UplinksOf(0)) = 0
    BY <1>3, FS_EmptySet
  <1>5. Phase(TimeModulus) = (TimeModulus \div L) * U + Cardinality(UplinksOf(TimeModulus % L))
        /\ Phase(0) = (0 \div L) * U + Cardinality(UplinksOf(0 % L))
    BY DEF Phase
  <1> HIDE DEF L, N, C, U
  <1>6. TimeModulus \div L = C * N /\ TimeModulus % L = 0
    BY <1>1, <1>2, DivisionUnique
  <1>7. 0 = L * 0 + 0 /\ 0 \in 0 .. (L - 1)
    BY <1>1
  <1>8. 0 \div L = 0 /\ 0 % L = 0
    BY <1>1, <1>7, DivisionUnique
  <1>9. Phase(TimeModulus) = (C * N) * U
    BY <1>1, <1>2, <1>4, <1>5, <1>6
  <1>10. (C * N) * U = N * (C * U) + 0 /\ C * U \in Nat /\ N * (C * U) + 0 \in Int
    BY <1>1
  <1>11. 0 \in 0 .. (N - 1)
    BY <1>1
  <1>12. ((C * N) * U) % N = 0
    BY <1>1, <1>10, <1>11, DivisionUnique
  <1>13. Phase(0) = 0
    BY <1>1, <1>4, <1>5, <1>8
  <1> QED BY <1>9, <1>12, <1>13 DEF N

LEMMA AlignIsPhase ==
    ASSUME NEW t \in Nat
    PROVE  /\ AlignToNetworkTime(t) = NodesCount - 1 - (Phase(t) % NodesCount)
           /\ AlignToNetworkTime(t) \in Ids
  <1>1. AlignToNetworkTime(t) = NodesCount - 1 - (Phase(t) % NodesCount)
    BY DEF AlignToNetworkTime, Phase, UplinksOf
  <1>2. Phase(t) \in Nat /\ NodesCount \in Nat \ {0}
    BY PhaseNext, SuperframeFacts
  <1>3. Phase(t) % NodesCount \in 0 .. (NodesCount - 1)
    BY <1>2, DivisionNat
  <1> QED BY <1>1, <1>2, <1>3 DEF Ids

\* One slot later in the round.
LEMMA NextOfAligned ==
    ASSUME NEW p \in Nat
    PROVE  NextInRound(NodesCount - 1 - (p % NodesCount)) = NodesCount - 1 - ((p + 1) % NodesCount)
  <1> DEFINE N == NodesCount
             q == p \div N
             r == p % N
  <1>1. N \in Nat \ {0}
    BY SuperframeFacts
  <1>2. q \in Nat /\ r \in 0 .. (N - 1) /\ p = N * q + r
    BY <1>1, DivisionNat
  <1> HIDE DEF N, q, r
  <1>3. CASE r = N - 1
    <2>1. p + 1 = N * (q + 1) + 0 /\ 0 \in 0 .. (N - 1) /\ p + 1 \in Int
      BY <1>1, <1>2, <1>3
    <2>2. (p + 1) % N = 0
      BY <1>1, <1>2, <2>1, DivisionUnique
    <2>3. NextInRound(N - 1 - r) = N - 1
      BY <1>1, <1>3 DEF NextInRound, N
    <2> QED BY <1>1, <2>2, <2>3 DEF N, r
  <1>4. CASE r < N - 1
    <2>1. p + 1 = N * q + (r + 1) /\ r + 1 \in 0 .. (N - 1) /\ p + 1 \in Int
      BY <1>1, <1>2, <1>4
    <2>2. (p + 1) % N = r + 1
      BY <1>1, <1>2, <2>1, DivisionUnique
    <2>3. NextInRound(N - 1 - r) = N - 1 - r - 1
      BY <1>1, <1>2, <1>4 DEF NextInRound
    <2> QED BY <1>1, <1>2, <2>2, <2>3 DEF N, r
  <1>5. r = N - 1 \/ r < N - 1
    BY <1>1, <1>2
  <1> QED BY <1>3, <1>4, <1>5

\* The round that a node would compute in the next tile.
LEMMA AlignNext ==
    ASSUME NEW t \in 0 .. TimeModulus - 1
    PROVE  /\ (t + 1) % TimeModulus \in 0 .. TimeModulus - 1
           /\ AlignToNetworkTime((t + 1) % TimeModulus) =
                IF Superframe[(t % Len(Superframe)) + 1] = "UPLINK"
                THEN NextInRound(AlignToNetworkTime(t)) ELSE AlignToNetworkTime(t)
  <1> DEFINE M == TimeModulus
             N == NodesCount
             u == (t + 1) % M
  <1>1. M \in Nat \ {0} /\ N \in Nat \ {0} /\ t \in Nat /\ t + 1 \in Nat
    BY ModulusFacts, SuperframeFacts
  <1>2. u \in 0 .. (M - 1)
    BY <1>1, DivisionNat
  <1>3. Phase(u) % N = Phase(t + 1) % N
    <2>1. CASE t + 1 < M
      <3>1. t + 1 = M * 0 + (t + 1) /\ t + 1 \in 0 .. (M - 1)
        BY <1>1, <2>1
      <3> HIDE DEF M
      <3>2. (t + 1) % M = t + 1
        BY <1>1, <3>1, DivisionUnique
      <3> QED BY <3>2
    <2>2. CASE t + 1 = M
      <3>1. t + 1 = M * 1 + 0 /\ 0 \in 0 .. (M - 1)
        BY <1>1, <2>2
      <3>2. u = 0
        <4> HIDE DEF M
        <4> QED BY <1>1, <3>1, DivisionUnique DEF u
      <3>3. Phase(u) = 0 /\ Phase(t + 1) % N = 0
        BY <2>2, <3>2, PhaseWraps
      <3>4. 0 % N = 0
        BY <1>1
      <3> QED BY <3>3, <3>4
    <2> QED BY <1>1, <2>1, <2>2
  <1>4. AlignToNetworkTime(u) = N - 1 - (Phase(t + 1) % N)
    BY <1>2, <1>3, AlignIsPhase
  <1>5. AlignToNetworkTime(t) = N - 1 - (Phase(t) % N) /\ Phase(t) \in Nat
    BY <1>1, AlignIsPhase, PhaseNext
  <1>6. CASE Superframe[(t % Len(Superframe)) + 1] = "UPLINK"
    <2>1. Phase(t + 1) = Phase(t) + 1
      BY <1>1, <1>6, PhaseNext
    <2>2. NextInRound(AlignToNetworkTime(t)) = AlignToNetworkTime(u)
      <3> HIDE DEF u, N
      <3> QED BY <1>4, <1>5, <2>1, NextOfAligned DEF N
    <2> QED BY <1>2, <1>6, <2>2
  <1>7. CASE Superframe[(t % Len(Superframe)) + 1] # "UPLINK"
    <2>1. Phase(t + 1) = Phase(t)
      <3>1. Phase(t + 1) = Phase(t) + 0 /\ Phase(t) \in Nat
        BY <1>1, <1>7, PhaseNext, Zenon
      <3> QED BY <3>1
    <2>2. AlignToNetworkTime(t) = AlignToNetworkTime(u)
      BY <1>4, <1>5, <2>1
    <2> QED BY <1>2, <1>7, <2>2
  <1> QED BY <1>6, <1>7

\* Every node with a clock is where the network time says it is in the round.
RoundInv ==
    /\ tile \in 0 .. TimeModulus - 1
    /\ mode \in [Nodes -> {"synced", "degraded", "lost"}]
    /\ mode[0] = "synced"
    /\ nextNode \in [Nodes -> Ids]
    /\ \A n \in Nodes : mode[n] # "lost" => nextNode[n] = AlignToNetworkTime(tile)

LEMMA NextInRoundIds ==
    ASSUME NEW n \in Ids PROVE NextInRound(n) \in Ids
  BY NeighborAssumption DEF NextInRound, Ids

LEMMA RoundInit == Init => RoundInv
  <1> SUFFICES ASSUME Init PROVE RoundInv
    OBVIOUS
  <1>1. 0 \in 0 .. TimeModulus - 1
    BY ModulusFacts
  <1>2. NodesCount \in Nat \ {0} /\ NodesCount - 1 \in Ids
    BY SuperframeFacts DEF Ids
  <1>3. Phase(0) = 0 /\ 0 % NodesCount = 0
    BY PhaseWraps, <1>2
  <1>4. AlignToNetworkTime(0) = NodesCount - 1
    BY <1>2, <1>3, AlignIsPhase
  <1> QED BY <1>1, <1>2, <1>4, UplinkAssumption DEF Init, RoundInv

LEMMA RoundNext ==
    ASSUME RoundInv, [Next]_vars
    PROVE  RoundInv'
  <1> USE DEF RoundInv
  <1>1. CASE Timesync
    <2>1. PICK f \in Floods, after \in [Nodes -> {"synced", "degraded", "lost"}] :
             LET hears == {n \in Dynamic : f[n] # NoHop}
                 joins == {n \in hears : mode[n] = "lost"}
             IN  /\ \A n \in Nodes : n \in hears \cup {0} => after[n] = "synced"
                 /\ \A n \in Nodes : n \notin hears /\ mode[n] = "lost" => after[n] = "lost"
                 /\ mode' = after
                 /\ nextNode' = [n \in Nodes |->
                       IF n \in joins THEN AlignToNetworkTime(tile) ELSE nextNode[n]]
      BY <1>1 DEF Timesync
    <2>2. tile % Len(Superframe) = 0
      <3>1. tile % (Len(Superframe) * ClockSync) = 0
        BY <1>1 DEF Timesync, IsTimesync
      <3>2. tile \in Int
        BY ModulusFacts
      <3> QED BY <3>1, <3>2, ModTransitive, SuperframeFacts
    <2>3. Superframe[(tile % Len(Superframe)) + 1] # "UPLINK"
      BY <2>2, UplinkAssumption
    <2>4. tile' \in 0 .. TimeModulus - 1 /\ AlignToNetworkTime(tile') = AlignToNetworkTime(tile)
      BY <1>1, <2>3, AlignNext DEF Timesync, NextTile
    <2>5. AlignToNetworkTime(tile) \in Ids
      BY AlignIsPhase
    <2>6. mode' \in [Nodes -> {"synced", "degraded", "lost"}] /\ mode'[0] = "synced"
      BY <2>1, UplinkAssumption
    <2>7. nextNode' \in [Nodes -> Ids]
      BY <2>1, <2>5
    <2>8. ASSUME NEW n \in Nodes, mode'[n] # "lost" PROVE nextNode'[n] = AlignToNetworkTime(tile)
      <3>1. CASE mode[n] # "lost"
        BY <2>1, <3>1
      <3>2. CASE mode[n] = "lost"
        BY <2>1, <2>8, <3>2
      <3> QED BY <3>1, <3>2
    <2> QED BY <2>4, <2>6, <2>7, <2>8
  <1>2. CASE Downlink
    <2>1. tile' \in 0 .. TimeModulus - 1 /\ AlignToNetworkTime(tile') = AlignToNetworkTime(tile)
      BY <1>2, AlignNext DEF Downlink, NextTile, IsUplink
    <2>2. UNCHANGED <<mode, nextNode>>
      BY <1>2 DEF Downlink
    <2> QED BY <2>1, <2>2
  <1>3. CASE Uplink
    <2>1. /\ tile' \in 0 .. TimeModulus - 1
          /\ AlignToNetworkTime(tile') = NextInRound(AlignToNetworkTime(tile))
      BY <1>3, AlignNext DEF Uplink, NextTile, IsUplink
    <2>2. /\ mode' = mode
          /\ nextNode' = [n \in Nodes |->
                IF mode[n] # "lost" THEN NextInRound(nextNode[n]) ELSE nextNode[n]]
      BY <1>3 DEF Uplink, Counts
    <2>3. nextNode' \in [Nodes -> Ids]
      BY <2>2, NextInRoundIds
    <2> QED BY <2>1, <2>2, <2>3
  <1>4. ASSUME NEW x \in Smes, IssueSME(x) PROVE RoundInv'
    BY <1>4 DEF IssueSME
  <1>5. CASE UNCHANGED vars
    BY <1>5 DEF vars
  <1> QED BY <1>1, <1>2, <1>3, <1>4, <1>5 DEF Next, MacStep

\* RoundRobinAgrees: every node that has a clock, one that only counts the slots
\* included, expects the node to talk that the master expects; no two talk in a
\* slot, whatever timesyncs were missed and however often a node joined again.
THEOREM RoundRobinAgreesHolds == Spec => []RoundRobinAgrees
  <1>1. RoundInv => RoundRobinAgrees
    BY UplinkAssumption DEF RoundInv, RoundRobinAgrees
  <1> QED BY <1>1, RoundInit, RoundNext, PTL DEF Spec


-----------------------------------------------------------------------------
(***************************************************************************)
(* The layout of a message.                                                *)
(***************************************************************************)
LEMMA LeastFacts ==
    ASSUME NEW a \in Int, NEW b \in Int
    PROVE  /\ Least(a, b) \in Int /\ Least(a, b) <= a /\ Least(a, b) <= b
           /\ Least(a, b) = a \/ Least(a, b) = b
  BY DEF Least

\* How many elements of a size fit in the room left and in a whole packet.
LEMMA FitFacts ==
    ASSUME NEW size \in Nat \ {0}, NEW room \in Nat, OtherCapacity >= size
    PROVE  room \div size \in Nat /\ OtherCapacity \div size \in Nat \ {0}
  <1> DEFINE m == OtherCapacity \div size
  <1>1. OtherCapacity \in Nat /\ OtherCapacity = size * m + (OtherCapacity % size)
        /\ m \in Nat /\ OtherCapacity % size \in 0 .. (size - 1)
    BY DivisionNat, MessageAssumption
  <1>2. CASE m = 0
    BY <1>1, <1>2
  <1>3. room \div size \in Nat
    BY DivisionNat
  <1> QED BY <1>1, <1>2, <1>3

\* The elements in the packets up to p.
LEMMA PlacedRange ==
    ASSUME NEW n \in Nat, NEW size \in Nat \ {0}, NEW first \in Int, NEW room \in Nat,
           NEW p \in Int, OtherCapacity >= size
    PROVE  Placed(n, size, first, room, p) \in 0 .. n
  <1> DEFINE r == room \div size
             m == OtherCapacity \div size
             x == (p - first) * m
  <1>1. r \in Nat /\ m \in Nat
    BY FitFacts
  <1>2. Placed(n, size, first, room, p) = IF p < first THEN 0 ELSE Least(n, r + x)
    BY DEF Placed
  <1>3. p >= first => x \in Nat
    BY <1>1
  <1> HIDE DEF r, x
  <1> QED BY <1>1, <1>2, <1>3 DEF Least

\* Those of the packet before and as many as fit in one more; no more only if
\* there are no more.
LEMMA PlacedNext ==
    ASSUME NEW n \in Nat, NEW size \in Nat \ {0}, NEW first \in Int, NEW room \in Nat,
           NEW p \in Int, NEW q \in Int, q = p + 1, OtherCapacity >= size, p >= first
    PROVE  /\ Placed(n, size, first, room, q)
                = Least(n, Placed(n, size, first, room, p) + (OtherCapacity \div size))
           /\ Placed(n, size, first, room, q) = Placed(n, size, first, room, p)
                => Placed(n, size, first, room, p) = n
  <1> DEFINE P(i) == Placed(n, size, first, room, i)
             r == room \div size
             m == OtherCapacity \div size
             x == (p - first) * m
  <1>1. r \in Nat /\ m \in Nat \ {0}
    BY FitFacts
  <1>2. P(p) = Least(n, r + x) /\ P(q) = Least(n, r + (q - first) * m)
    BY DEF Placed
  <1>3. x \in Nat /\ (q - first) * m = x + m
    BY <1>1
  <1>4. P(q) = Least(n, r + (x + m))
    BY <1>2, <1>3
  <1> HIDE DEF P, r, m, x
  <1>5. P(q) = Least(n, P(p) + m) /\ (P(q) = P(p) => P(p) = n)
    BY <1>1, <1>2, <1>3, <1>4 DEF Least
  <1> QED BY <1>5 DEF P, m

\* More packets hold more elements, and the layout of those that fit is the
\* layout of those asked for.
LEMMA PlacedOrder ==
    ASSUME NEW n \in Nat, NEW size \in Nat \ {0}, NEW first \in Int, NEW room \in Nat,
           NEW p \in Int, NEW q \in Int, p <= q, OtherCapacity >= size
    PROVE  /\ Placed(n, size, first, room, p) <= Placed(n, size, first, room, q)
           /\ Placed(Placed(n, size, first, room, q), size, first, room, p)
                = Placed(n, size, first, room, p)
  <1> DEFINE r == room \div size
             m == OtherCapacity \div size
             k == Placed(n, size, first, room, q)
  <1>1. r \in Nat /\ m \in Nat
    BY DivisionNat, MessageAssumption
  <1>2. k \in 0 .. n /\ Placed(n, size, first, room, p) \in 0 .. n
    BY PlacedRange
  <1>3. CASE p < first
    <2>1. Placed(n, size, first, room, p) = 0 /\ Placed(k, size, first, room, p) = 0
      BY <1>3 DEF Placed
    <2> QED BY <1>2, <2>1
  <1>4. CASE p >= first
    <2> DEFINE x == (p - first) * m
               y == (q - first) * m
    <2>1. x \in Nat /\ y \in Nat /\ x <= y
      <3> DEFINE d == (q - p) * m
      <3>1. d \in Nat /\ x \in Nat /\ y = x + d
        BY <1>1, <1>4
      <3> HIDE DEF d, x, y
      <3> QED BY <3>1
    <2>2. Placed(n, size, first, room, p) = Least(n, r + x) /\ k = Least(n, r + y)
          /\ Placed(k, size, first, room, p) = Least(k, r + x)
      BY <1>4 DEF Placed
    <2> HIDE DEF x, y, k, r
    <2> QED BY <1>1, <2>1, <2>2 DEF Least, k
  <1> QED BY <1>3, <1>4

\* The least element of a set of numbers between two bounds.
LEMMA MinFacts ==
    ASSUME NEW S, NEW a \in Nat, S \subseteq Nat, S # {}
    PROVE  Min(S) \in S /\ \A x \in S : Min(S) <= x
  <1>1. \E x \in S : \A y \in S : x <= y
    BY LeastOf
  <1> QED BY <1>1 DEF Min

\* The last packet with elements is the first up to which all are placed that
\* fit in the message.
LEMMA LastPacketFacts ==
    ASSUME NEW n \in Nat, NEW size \in Nat \ {0}, NEW first \in 1 .. MaxPackets, NEW room \in Nat,
           OtherCapacity >= size,
           NEW last, last = LastPacket(n, size, first, room)
    PROVE  /\ last \in first .. MaxPackets
           /\ Placed(n, size, first, room, last) = Placed(n, size, first, room, MaxPackets)
           /\ \A p \in first .. MaxPackets :
                 Placed(n, size, first, room, p) = Placed(n, size, first, room, MaxPackets)
                 => last <= p
  <1> DEFINE P(i) == Placed(n, size, first, room, i)
             S == {p \in first .. MaxPackets : P(p) = n} \cup {MaxPackets}
  <1>1. MaxPackets \in Nat \ {0} /\ first \in Nat
    BY MessageAssumption
  <1>2. last = Min(S) /\ S \subseteq Nat /\ S # {}
    BY <1>1 DEF LastPacket
  <1>3. last \in S /\ \A x \in S : last <= x
    BY <1>2, MinFacts
  <1>a. first \in Int
    BY <1>1
  <1>4. ASSUME NEW p \in Int PROVE P(p) \in 0 .. n /\ (p >= first /\ P(p + 1) = P(p) => P(p) = n)
    <2>1. P(p) \in 0 .. n
      BY <1>a, PlacedRange
    <2>2. ASSUME p >= first, P(p + 1) = P(p) PROVE P(p) = n
      BY <1>a, <2>2, PlacedNext
    <2> QED BY <2>1, <2>2
  <1>5. ASSUME NEW p \in Int, NEW q \in Int, p <= q PROVE P(p) <= P(q)
    BY <1>a, <1>5, PlacedOrder
  <1> HIDE DEF P
  <1>6. last \in first .. MaxPackets
    BY <1>1, <1>3
  <1>7. P(last) = P(MaxPackets)
    <2>1. CASE P(last) = n
      <3>1. P(last) <= P(MaxPackets) /\ P(MaxPackets) <= n /\ P(MaxPackets) \in Nat
        BY <1>1, <1>4, <1>5, <1>6
      <3> QED BY <2>1, <3>1
    <2>2. CASE last = MaxPackets
      BY <2>2
    <2> QED BY <1>3, <2>1, <2>2
  <1>8. ASSUME NEW p \in first .. MaxPackets, P(p) = P(MaxPackets) PROVE last <= p
    <2>1. CASE p = MaxPackets
      BY <1>6, <2>1
    <2>2. CASE p < MaxPackets
      <3>1. P(p) <= P(p + 1) /\ P(p + 1) <= P(MaxPackets)
        BY <1>1, <1>5, <2>2
      <3>2. P(p) \in Nat /\ P(p + 1) \in Nat
        BY <1>1, <1>4
      <3>3. P(p + 1) = P(p)
        BY <1>8, <3>1, <3>2
      <3>4. P(p) = n
        BY <1>1, <1>4, <3>3
      <3> QED BY <1>3, <3>4
    <2> QED BY <1>1, <2>1, <2>2
  <1> QED BY <1>6, <1>7, <1>8 DEF P


\* The parts of a layout when T topologies and S SMEs are asked for.
TopologiesUpTo(T, p) == Placed(T, TopologySize, 1, FirstCapacity, p)

Turn(T) == LastPacket(T, TopologySize, 1, FirstCapacity)

Room(T) ==
    Capacity(Turn(T)) - (TopologiesUpTo(T, Turn(T)) - TopologiesUpTo(T, Turn(T) - 1)) * TopologySize

SmesUpTo(T, S, p) == Placed(S, SmeSize, Turn(T), Room(T), p)

LEMMA LayoutIs ==
    ASSUME NEW T, NEW S
    PROVE  Layout(T, S) =
             [topologies |-> TopologiesUpTo(T, MaxPackets),
              smes |-> SmesUpTo(T, S, MaxPackets),
              packets |-> LastPacket(S, SmeSize, Turn(T), Room(T)),
              topologiesIn |-> [p \in 1 .. MaxPackets |->
                                  TopologiesUpTo(T, p) - TopologiesUpTo(T, p - 1)],
              smesIn |-> [p \in 1 .. MaxPackets |-> SmesUpTo(T, S, p) - SmesUpTo(T, S, p - 1)]]
  BY DEF Layout, TopologiesUpTo, Turn, Room, SmesUpTo

\* The topologies take at most the room of the packet in which they end.
LEMMA TurnFacts ==
    ASSUME NEW T \in Nat
    PROVE  /\ Turn(T) \in 1 .. MaxPackets
           /\ TopologiesUpTo(T, Turn(T)) = TopologiesUpTo(T, MaxPackets)
           /\ \A p \in 1 .. MaxPackets :
                 TopologiesUpTo(T, p) = TopologiesUpTo(T, MaxPackets) => Turn(T) <= p
           /\ \A p \in Int : TopologiesUpTo(T, p) \in 0 .. T
           /\ \A p, q \in Int : p <= q => TopologiesUpTo(T, p) <= TopologiesUpTo(T, q)
           /\ TopologiesUpTo(T, 0) = 0
           /\ \A p \in Nat : TopologiesUpTo(T, p + 1)
                 = Least(T, TopologiesUpTo(T, p) + (Capacity(p + 1) \div TopologySize))
           /\ Room(T) \in Nat
  <1> DEFINE P(p) == TopologiesUpTo(T, p)
             turn == Turn(T)
  <1>1. /\ TopologySize \in Nat \ {0} /\ OtherCapacity >= TopologySize /\ FirstCapacity \in Nat
        /\ MaxPackets \in Nat \ {0} /\ 1 \in 1 .. MaxPackets /\ OtherCapacity \in Nat
    BY MessageAssumption
  <1>2. /\ turn \in 1 .. MaxPackets
        /\ P(turn) = P(MaxPackets)
        /\ \A p \in 1 .. MaxPackets : P(p) = P(MaxPackets) => turn <= p
    BY <1>1, LastPacketFacts DEF Turn, TopologiesUpTo
  <1>a. ASSUME NEW p \in Int
        PROVE  /\ P(p) \in 0 .. T
               /\ p < 1 => P(p) = 0
               /\ p >= 1 => P(p + 1) = Least(T, P(p) + (OtherCapacity \div TopologySize))
    <2>1. P(p) \in 0 .. T
      BY <1>1, PlacedRange DEF TopologiesUpTo
    <2>2. p < 1 => P(p) = 0
      BY DEF TopologiesUpTo, Placed
    <2>3. ASSUME p >= 1 PROVE P(p + 1) = Least(T, P(p) + (OtherCapacity \div TopologySize))
      BY <1>1, <2>3, PlacedNext DEF TopologiesUpTo
    <2> QED BY <2>1, <2>2, <2>3
  <1>4. ASSUME NEW p \in Int, NEW q \in Int, p <= q PROVE P(p) <= P(q)
    BY <1>1, <1>4, 1 \in Int, PlacedOrder, Zenon DEF TopologiesUpTo
  <1>3. /\ \A p \in Int : P(p) \in 0 .. T
        /\ P(0) = 0
        /\ P(1) = Least(T, FirstCapacity \div TopologySize)
        /\ \A p \in Int : p >= 1 => P(p + 1) = Least(T, P(p) + (OtherCapacity \div TopologySize))
    <2>1. P(1) = Least(T, FirstCapacity \div TopologySize)
      <3>1. 1 \in Int /\ FirstCapacity \in Nat /\ TopologySize \in Nat \ {0}
            /\ OtherCapacity >= TopologySize
        BY <1>1
      <3>2. Placed(T, TopologySize, 1, FirstCapacity, 1) = Least(T, FirstCapacity \div TopologySize)
        <4> DEFINE q == FirstCapacity \div TopologySize
        <4>1. q \in Nat /\ Placed(T, TopologySize, 1, FirstCapacity, 1)
                 = Least(T, q + (1 - 1) * (OtherCapacity \div TopologySize))
          BY <3>1, FitFacts DEF Placed
        <4>2. q + (1 - 1) * (OtherCapacity \div TopologySize) = q
          BY <3>1, <4>1, FitFacts
        <4> QED BY <4>1, <4>2
      <3> QED BY <3>2 DEF TopologiesUpTo
    <2> HIDE DEF P
    <2> QED BY <1>a, <2>1
  <1>5. FirstCapacity \div TopologySize \in Nat /\ OtherCapacity \div TopologySize \in Nat
    BY <1>1, DivisionNat
  <1>6. ASSUME NEW p \in Nat PROVE P(p + 1) = Least(T, P(p) + (Capacity(p + 1) \div TopologySize))
    <2>1. CASE p = 0
      <3>1. P(0) + (Capacity(1) \div TopologySize) = FirstCapacity \div TopologySize
        BY <1>3, <1>5 DEF Capacity
      <3> QED BY <1>3, <2>1, <3>1
    <2>2. CASE p >= 1
      BY <1>3, <2>2 DEF Capacity
    <2> QED BY <2>1, <2>2
  <1> HIDE DEF P, turn
  <1>7. Capacity(turn) - (P(turn) - P(turn - 1)) * TopologySize \in Nat
    <2> DEFINE c == Capacity(turn)
               d == P(turn) - P(turn - 1)
               k == c \div TopologySize
    <2>1. c \in Nat
      BY <1>1, <1>2 DEF Capacity
    <2>2. k \in Nat /\ c = TopologySize * k + (c % TopologySize) /\ c % TopologySize \in Nat
      <3> HIDE DEF c
      <3> QED BY <1>1, <2>1, DivisionNat
    <2>3. turn - 1 \in Nat /\ turn - 1 \in Int /\ turn \in Int /\ turn - 1 <= turn /\ turn - 1 + 1 = turn
      BY <1>1, <1>2
    <2>4. P(turn) = Least(T, P(turn - 1) + k) /\ P(turn) \in Nat /\ P(turn - 1) \in Nat
          /\ P(turn - 1) <= P(turn)
      BY <1>3, <1>4, <1>6, <2>3
    <2>5. d \in 0 .. k
      <3> HIDE DEF k
      <3> QED BY <2>2, <2>4 DEF Least
    <2> HIDE DEF d, k, c
    <2>6. d * TopologySize <= TopologySize * k
      <3>1. (k - d) * TopologySize \in Nat
        BY <1>1, <2>2, <2>5
      <3> QED BY <1>1, <2>2, <2>5, <3>1
    <2>7. d * TopologySize \in Nat
      BY <1>1, <2>2, <2>5
    <2>8. c - d * TopologySize \in Nat
      <3> DEFINE y == d * TopologySize
                 z == TopologySize * k
      <3>1. y \in Nat /\ z \in Nat /\ y <= z /\ c = z + (c % TopologySize)
        BY <1>1, <2>2, <2>6, <2>7
      <3> HIDE DEF y, z
      <3>2. c - y \in Nat
        BY <2>2, <3>1
      <3> QED BY <3>2 DEF y
    <2> QED BY <2>8 DEF c, d
  <1>8. Room(T) \in Nat
    BY <1>7 DEF P, turn, Room
  <1>9. /\ Turn(T) \in 1 .. MaxPackets
        /\ TopologiesUpTo(T, Turn(T)) = TopologiesUpTo(T, MaxPackets)
        /\ \A p \in 1 .. MaxPackets :
              TopologiesUpTo(T, p) = TopologiesUpTo(T, MaxPackets) => Turn(T) <= p
    BY <1>2 DEF P, turn
  <1>10. \A p \in Int : TopologiesUpTo(T, p) \in 0 .. T
    BY <1>3 DEF P
  <1>11. \A p, q \in Int : p <= q => TopologiesUpTo(T, p) <= TopologiesUpTo(T, q)
    BY <1>4 DEF P
  <1>12. TopologiesUpTo(T, 0) = 0
    BY <1>3 DEF P
  <1>13. \A p \in Nat : TopologiesUpTo(T, p + 1)
            = Least(T, TopologiesUpTo(T, p) + (Capacity(p + 1) \div TopologySize))
    BY <1>6 DEF P
  <1> QED BY <1>8, <1>9, <1>10, <1>11, <1>12, <1>13

\* The SMEs start where the topologies end.
LEMMA SmesFacts ==
    ASSUME NEW T \in Nat, NEW S \in Nat
    PROVE  /\ \A p \in Int : SmesUpTo(T, S, p) \in 0 .. S
           /\ \A p \in Int : p < Turn(T) => SmesUpTo(T, S, p) = 0
           /\ SmesUpTo(T, S, Turn(T)) = Least(S, Room(T) \div SmeSize)
           /\ \A p \in Int : p >= Turn(T) => SmesUpTo(T, S, p + 1)
                = Least(S, SmesUpTo(T, S, p) + (OtherCapacity \div SmeSize))
           /\ \A p, q \in Int : p <= q => SmesUpTo(T, S, p) <= SmesUpTo(T, S, q)
           /\ Layout(T, S).packets \in Turn(T) .. MaxPackets
           /\ SmesUpTo(T, S, Layout(T, S).packets) = SmesUpTo(T, S, MaxPackets)
  <1>1. /\ SmeSize \in Nat \ {0} /\ OtherCapacity >= SmeSize
        /\ Turn(T) \in 1 .. MaxPackets /\ Turn(T) \in Int /\ Room(T) \in Nat
    BY MessageAssumption, TurnFacts
  <1>2. Layout(T, S).packets = LastPacket(S, SmeSize, Turn(T), Room(T))
    BY LayoutIs
  <1>3. ASSUME NEW p \in Int
        PROVE  /\ SmesUpTo(T, S, p) \in 0 .. S
               /\ p < Turn(T) => SmesUpTo(T, S, p) = 0
               /\ p >= Turn(T) => SmesUpTo(T, S, p + 1)
                    = Least(S, SmesUpTo(T, S, p) + (OtherCapacity \div SmeSize))
    <2>1. SmesUpTo(T, S, p) \in 0 .. S
      BY <1>1, PlacedRange DEF SmesUpTo
    <2>2. p < Turn(T) => SmesUpTo(T, S, p) = 0
      BY DEF SmesUpTo, Placed
    <2>3. ASSUME p >= Turn(T)
          PROVE  SmesUpTo(T, S, p + 1) = Least(S, SmesUpTo(T, S, p) + (OtherCapacity \div SmeSize))
      BY <1>1, <2>3, PlacedNext DEF SmesUpTo
    <2> QED BY <2>1, <2>2, <2>3
  <1>4. ASSUME NEW p \in Int, NEW q \in Int, p <= q
        PROVE  SmesUpTo(T, S, p) <= SmesUpTo(T, S, q)
    <2> DEFINE f == Turn(T)
               r == Room(T)
    <2>1. f \in Int /\ r \in Nat
      BY <1>1
    <2> HIDE DEF f, r
    <2>2. Placed(S, SmeSize, f, r, p) <= Placed(S, SmeSize, f, r, q)
      BY <1>1, <1>4, <2>1, PlacedOrder
    <2> QED BY <2>2 DEF SmesUpTo, f, r
  <1>6. SmesUpTo(T, S, Turn(T)) = Least(S, Room(T) \div SmeSize)
    <2>1. SmeSize \in Nat \ {0} /\ OtherCapacity >= SmeSize /\ Turn(T) \in Int /\ Room(T) \in Nat
      BY <1>1
    <2>2. Placed(S, SmeSize, Turn(T), Room(T), Turn(T)) = Least(S, Room(T) \div SmeSize)
      <3> DEFINE f == Turn(T)
                 r == Room(T)
                 n == SmeSize
      <3>1. n \in Nat \ {0} /\ OtherCapacity >= n /\ f \in Int /\ r \in Nat
        BY <2>1
      <3> HIDE DEF f, r, n
      <3>2. Placed(S, n, f, r, f) = Least(S, r \div n)
        <4> DEFINE q == r \div n
                   m == OtherCapacity \div n
        <4>1. q \in Nat /\ m \in Nat
          BY <3>1, FitFacts
        <4>2. Placed(S, n, f, r, f) = Least(S, q + (f - f) * m)
          BY <3>1 DEF Placed
        <4>3. q + (f - f) * m = q
          BY <3>1, <4>1
        <4> QED BY <4>2, <4>3
      <3> QED BY <3>2 DEF f, r, n
    <2> QED BY <2>2 DEF SmesUpTo
  <1>5. /\ Layout(T, S).packets \in Turn(T) .. MaxPackets
        /\ SmesUpTo(T, S, Layout(T, S).packets) = SmesUpTo(T, S, MaxPackets)
    <2> DEFINE f == Turn(T)
               r == Room(T)
               k == Layout(T, S).packets
    <2>1. f \in 1 .. MaxPackets /\ r \in Nat /\ k = LastPacket(S, SmeSize, f, r)
      BY <1>1, <1>2
    <2> HIDE DEF f, r, k
    <2>2. /\ k \in f .. MaxPackets
          /\ Placed(S, SmeSize, f, r, k) = Placed(S, SmeSize, f, r, MaxPackets)
      BY <1>1, <2>1, LastPacketFacts
    <2> QED BY <2>2 DEF SmesUpTo, f, r, k
  <1> QED BY <1>3, <1>4, <1>5, <1>6

\* The same, one by one.
LEMMA TopologiesRange ==
    ASSUME NEW T \in Nat, NEW p \in Int
    PROVE  TopologiesUpTo(T, p) \in 0 .. T
  BY TurnFacts, Zenon

LEMMA TopologiesOrder ==
    ASSUME NEW T \in Nat, NEW p \in Int, NEW q \in Int, p <= q
    PROVE  TopologiesUpTo(T, p) <= TopologiesUpTo(T, q)
  BY TurnFacts, Zenon

LEMMA TurnRange ==
    ASSUME NEW T \in Nat
    PROVE  /\ Turn(T) \in 1 .. MaxPackets /\ Room(T) \in Nat
           /\ TopologiesUpTo(T, Turn(T)) = TopologiesUpTo(T, MaxPackets)
           /\ TopologiesUpTo(T, 0) = 0
  BY TurnFacts, Zenon

LEMMA SmesRange ==
    ASSUME NEW T \in Nat, NEW S \in Nat, NEW p \in Int
    PROVE  SmesUpTo(T, S, p) \in 0 .. S
  BY SmesFacts, Zenon

LEMMA SmesOrder ==
    ASSUME NEW T \in Nat, NEW S \in Nat, NEW p \in Int, NEW q \in Int, p <= q
    PROVE  SmesUpTo(T, S, p) <= SmesUpTo(T, S, q)
  BY SmesFacts, Zenon

LEMMA SmesBefore ==
    ASSUME NEW T \in Nat, NEW S \in Nat, NEW p \in Int, p < Turn(T)
    PROVE  SmesUpTo(T, S, p) = 0
  BY SmesFacts, Zenon

LEMMA SmesAtTurn ==
    ASSUME NEW T \in Nat, NEW S \in Nat
    PROVE  /\ SmesUpTo(T, S, Turn(T)) = Least(S, Room(T) \div SmeSize)
           /\ Layout(T, S).packets \in Turn(T) .. MaxPackets
           /\ SmesUpTo(T, S, Layout(T, S).packets) = SmesUpTo(T, S, MaxPackets)
  BY SmesFacts, Zenon

\* The layout of what a layout announces is the same layout.
LEMMA LayoutAgain ==
    ASSUME NEW T \in Nat, NEW S \in Nat,
           NEW t, t = Layout(T, S).topologies,
           NEW s, s = Layout(T, S).smes
    PROVE  /\ t \in 0 .. T /\ s \in 0 .. S
           /\ \A p \in Int : p <= MaxPackets => TopologiesUpTo(t, p) = TopologiesUpTo(T, p)
           /\ Turn(t) = Turn(T)
           /\ \A p \in Int : p <= MaxPackets => SmesUpTo(t, s, p) = SmesUpTo(T, S, p)
           /\ Layout(t, s).topologies = t
           /\ Layout(t, s).smes = s
           /\ Layout(t, s).topologiesIn = Layout(T, S).topologiesIn
           /\ Layout(t, s).smesIn = Layout(T, S).smesIn
  <1>1. t = TopologiesUpTo(T, MaxPackets) /\ s = SmesUpTo(T, S, MaxPackets)
    BY LayoutIs
  <1>2. /\ MaxPackets \in Nat \ {0} /\ TopologySize \in Nat \ {0} /\ SmeSize \in Nat \ {0}
        /\ OtherCapacity >= TopologySize /\ OtherCapacity >= SmeSize /\ FirstCapacity \in Nat
    BY MessageAssumption
  <1>3. t \in 0 .. T /\ s \in 0 .. S
    BY <1>1, <1>2, TurnFacts, SmesFacts
  <1>4. \A p \in Int : p <= MaxPackets => TopologiesUpTo(t, p) = TopologiesUpTo(T, p)
    BY <1>1, <1>2, PlacedOrder DEF TopologiesUpTo
  <1>5. Turn(t) = Turn(T)
    <2>1. /\ Turn(T) \in 1 .. MaxPackets
          /\ TopologiesUpTo(T, Turn(T)) = TopologiesUpTo(T, MaxPackets)
          /\ \A p \in 1 .. MaxPackets :
                TopologiesUpTo(T, p) = TopologiesUpTo(T, MaxPackets) => Turn(T) <= p
      BY TurnFacts
    <2>2. /\ Turn(t) \in 1 .. MaxPackets
          /\ TopologiesUpTo(t, Turn(t)) = TopologiesUpTo(t, MaxPackets)
          /\ \A p \in 1 .. MaxPackets :
                TopologiesUpTo(t, p) = TopologiesUpTo(t, MaxPackets) => Turn(t) <= p
      <3>1. t \in Nat
        BY <1>3
      <3> QED BY <3>1, TurnFacts
    <2>3. Turn(T) <= Turn(t) /\ Turn(t) <= Turn(T)
      BY <1>2, <1>4, <2>1, <2>2
    <2> QED BY <1>2, <2>1, <2>2, <2>3
  <1>6. Room(t) = Room(T)
    <2>1. Turn(T) \in Int /\ Turn(T) <= MaxPackets /\ Turn(T) - 1 \in Int /\ Turn(T) - 1 <= MaxPackets
      <3>1. Turn(T) \in 1 .. MaxPackets
        BY TurnFacts
      <3> QED BY <1>2, <3>1
    <2>2. TopologiesUpTo(t, Turn(T)) = TopologiesUpTo(T, Turn(T))
          /\ TopologiesUpTo(t, Turn(T) - 1) = TopologiesUpTo(T, Turn(T) - 1)
      BY <1>4, <2>1
    <2> QED BY <1>5, <2>2 DEF Room
  <1>7. \A p \in Int : p <= MaxPackets => SmesUpTo(t, s, p) = SmesUpTo(T, S, p)
    <2>1. Turn(T) \in Int /\ Room(T) \in Nat
      BY TurnFacts
    <2> QED BY <1>1, <1>2, <1>5, <1>6, <2>1, PlacedOrder DEF SmesUpTo
  <1>8. /\ Layout(t, s).topologies = TopologiesUpTo(t, MaxPackets)
        /\ Layout(t, s).smes = SmesUpTo(t, s, MaxPackets)
        /\ Layout(t, s).topologiesIn =
             [p \in 1 .. MaxPackets |-> TopologiesUpTo(t, p) - TopologiesUpTo(t, p - 1)]
        /\ Layout(t, s).smesIn =
             [p \in 1 .. MaxPackets |-> SmesUpTo(t, s, p) - SmesUpTo(t, s, p - 1)]
        /\ Layout(T, S).topologiesIn =
             [p \in 1 .. MaxPackets |-> TopologiesUpTo(T, p) - TopologiesUpTo(T, p - 1)]
        /\ Layout(T, S).smesIn =
             [p \in 1 .. MaxPackets |-> SmesUpTo(T, S, p) - SmesUpTo(T, S, p - 1)]
    BY LayoutIs
  <1>9. \A p \in 1 .. MaxPackets : p \in Int /\ p <= MaxPackets /\ p - 1 \in Int /\ p - 1 <= MaxPackets
    BY <1>2
  <1>10. Layout(t, s).topologiesIn = Layout(T, S).topologiesIn
    BY <1>4, <1>8, <1>9
  <1>11. Layout(t, s).smesIn = Layout(T, S).smesIn
    BY <1>7, <1>8, <1>9
  <1>12. Layout(t, s).topologies = t /\ Layout(t, s).smes = s
    BY <1>1, <1>2, <1>4, <1>7, <1>8
  <1> QED BY <1>3, <1>4, <1>5, <1>7, <1>10, <1>11, <1>12


\* What the sender puts in a packet is what the layout has in it.
LEMMA FilledFacts ==
    ASSUME NEW T \in Nat, NEW S \in Nat, NEW p \in 1 .. MaxPackets
    PROVE  Filled(TopologiesUpTo(T, MaxPackets) - TopologiesUpTo(T, p - 1),
                  SmesUpTo(T, S, MaxPackets) - SmesUpTo(T, S, p - 1), Capacity(p))
             = [topologies |-> TopologiesUpTo(T, p) - TopologiesUpTo(T, p - 1),
                smes |-> SmesUpTo(T, S, p) - SmesUpTo(T, S, p - 1)]
  <1> DEFINE t == TopologiesUpTo(T, MaxPackets)
             a == TopologiesUpTo(T, p - 1)
             b == TopologiesUpTo(T, p)
             s == SmesUpTo(T, S, MaxPackets)
             x == SmesUpTo(T, S, p - 1)
             y == SmesUpTo(T, S, p)
             c == Capacity(p)
             k == c \div TopologySize
             turn == Turn(T)
             filled == Filled(t - a, s - x, c)
  <1>1. /\ MaxPackets \in Nat /\ MaxPackets \in Int /\ p \in Int /\ p - 1 \in Int /\ p - 1 \in Nat
        /\ p - 1 <= p /\ p <= MaxPackets /\ p - 1 + 1 = p
        /\ TopologySize \in Nat \ {0} /\ SmeSize \in Nat \ {0}
        /\ OtherCapacity \in Nat /\ FirstCapacity \in Nat /\ OtherCapacity >= SmeSize
    BY MessageAssumption
  <1>2. c \in Nat /\ k \in Nat
    <2>1. c \in Nat
      BY <1>1 DEF Capacity
    <2> HIDE DEF c
    <2> QED BY <1>1, <2>1, DivisionNat
  <1>3. /\ a \in 0 .. T /\ b \in 0 .. T /\ t \in 0 .. T /\ a <= b /\ b <= t
        /\ b = Least(T, a + k)
        /\ turn \in 1 .. MaxPackets
        /\ TopologiesUpTo(T, turn) = t
        /\ b = t => turn <= p
    BY <1>1, TurnFacts
  <1>4. /\ x \in 0 .. S /\ y \in 0 .. S /\ s \in 0 .. S /\ x <= y /\ y <= s
    BY <1>1, SmesFacts
  <1>5. Least(t - a, k) = b - a
    <2> HIDE DEF t, a, b, k
    <2> QED BY <1>2, <1>3 DEF Least
  <1>6. filled = [topologies |-> b - a,
                  smes |-> IF b - a < t - a THEN 0
                           ELSE Least(s - x, (c - (b - a) * TopologySize) \div SmeSize)]
    <2> HIDE DEF t, a, b, s, x, c
    <2> QED BY <1>5 DEF Filled, filled, k
  <1>7. CASE b < t
    <2>1. p < turn
      <3>1. turn <= p => TopologiesUpTo(T, turn) <= b
        BY <1>1, <1>3, TopologiesOrder
      <3>2. turn \in Int /\ TopologiesUpTo(T, turn) = t
        BY <1>1, <1>3
      <3> HIDE DEF turn, t, b
      <3> QED BY <1>1, <1>3, <1>7, <3>1, <3>2
    <2>2. x = 0 /\ y = 0
      <3>1. p - 1 < Turn(T) /\ p < Turn(T)
        BY <1>1, <1>3, <2>1
      <3> QED BY <1>1, <3>1, SmesBefore
    <2>3. b - a < t - a
      <3> HIDE DEF t, a, b
      <3> QED BY <1>3, <1>7
    <2> QED BY <1>6, <2>2, <2>3
  <1>8. CASE b = t /\ p = turn
    <2> DEFINE room == Room(T)
               r == room \div SmeSize
    <2>1. room = c - (b - a) * TopologySize /\ room \in Nat
      BY <1>8, TurnFacts DEF Room
    <2>2. r \in Nat
      <3> HIDE DEF room
      <3> QED BY <1>1, <2>1, DivisionNat
    <2>3. x = 0 /\ y = Least(S, r)
      <3>1. p - 1 < Turn(T) /\ p = Turn(T)
        BY <1>1, <1>3, <1>8
      <3>2. x = 0
        BY <1>1, <3>1, SmesBefore
      <3>3. SmesUpTo(T, S, Turn(T)) = Least(S, Room(T) \div SmeSize)
        BY SmesAtTurn
      <3> QED BY <3>1, <3>2, <3>3
    <2>4. Least(s - x, r) = y - x
      <3> HIDE DEF s, x, y, r
      <3> QED BY <1>4, <2>2, <2>3 DEF Least
    <2>5. ~ (b - a < t - a)
      <3> HIDE DEF t, a, b
      <3> QED BY <1>3, <1>8
    <2> HIDE DEF room
    <2> QED BY <1>6, <2>1, <2>4, <2>5
  <1>9. CASE b = t /\ p > turn
    <2> DEFINE r == OtherCapacity \div SmeSize
    <2>1. r \in Nat
      BY <1>1, DivisionNat
    <2>2. p # 1 /\ c = OtherCapacity
      BY <1>1, <1>3, <1>9 DEF Capacity
    <2>3. turn <= p - 1
      <3> HIDE DEF turn
      <3> QED BY <1>1, <1>3, <1>9
    <2>4. t <= a
      <3>1. turn \in Int /\ turn <= p - 1 /\ TopologiesUpTo(T, turn) = t
        BY <1>1, <1>3, <2>3
      <3> HIDE DEF turn, t
      <3> QED BY <1>1, <3>1, TopologiesOrder
    <2>5. b - a = 0 /\ t - a = 0
      <3> HIDE DEF t, a, b
      <3> QED BY <1>3, <1>9, <2>4
    <2>6. y = Least(S, x + r)
      <3>1. p - 1 \in Int /\ p - 1 >= Turn(T) /\ p = p - 1 + 1
        BY <1>1, <1>3, <2>3
      <3> QED BY <3>1, SmesFacts
    <2>7. Least(s - x, r) = y - x
      <3> HIDE DEF s, x, y, r
      <3> QED BY <1>4, <2>1, <2>6 DEF Least
    <2>8. c - (b - a) * TopologySize = OtherCapacity
      <3> HIDE DEF b, a, c
      <3> QED BY <1>1, <2>2, <2>5
    <2>9. ~ (b - a < t - a)
      BY <2>5
    <2>10. filled = [topologies |-> b - a, smes |-> y - x]
      <3> HIDE DEF t, a, b, s, x, y, c, filled
      <3> QED BY <1>6, <2>7, <2>8, <2>9
    <2> QED BY <2>10
  <1>10. b < t \/ (b = t /\ p = turn) \/ (b = t /\ p > turn)
    <2> HIDE DEF b, t, turn
    <2> QED BY <1>1, <1>3
  <1> QED BY <1>7, <1>8, <1>9, <1>10

\* The sender has put in the first p packets what the layout has in them.
LEMMA SentFacts ==
    ASSUME NEW T \in Nat, NEW S \in Nat, NEW header, header = Layout(T, S)
    PROVE  Sent(header) = [p \in 0 .. header.packets |->
                             [topologies |-> TopologiesUpTo(T, p), smes |-> SmesUpTo(T, S, p)]]
  <1> DEFINE Up(p) == [topologies |-> TopologiesUpTo(T, p), smes |-> SmesUpTo(T, S, p)]
             Packet(p, r) == Filled(header.topologies - r.topologies, header.smes - r.smes,
                                    Capacity(p))
             Body(f) == [p \in 0 .. MaxPackets |->
                           IF p = 0 THEN [topologies |-> 0, smes |-> 0]
                           ELSE [topologies |-> f[p - 1].topologies + Packet(p, f[p - 1]).topologies,
                                 smes |-> f[p - 1].smes + Packet(p, f[p - 1]).smes]]
             sent == CHOOSE f : f = Body(f)
             g == [p \in 0 .. MaxPackets |-> Up(p)]
  <1>1. Sent(header) = [p \in 0 .. header.packets |-> sent[p]]
    BY DEF Sent
  <1>2. MaxPackets \in Nat
    BY MessageAssumption
  <1>3. Up(0) = [topologies |-> 0, smes |-> 0]
    <2>1. 0 < Turn(T) /\ TopologiesUpTo(T, 0) = 0
      BY TurnFacts
    <2> QED BY <2>1, SmesFacts
  <1>4. ASSUME NEW p \in 1 .. MaxPackets
        PROVE  Up(p) = [topologies |-> Up(p - 1).topologies + Packet(p, Up(p - 1)).topologies,
                        smes |-> Up(p - 1).smes + Packet(p, Up(p - 1)).smes]
    <2>1. header.topologies = TopologiesUpTo(T, MaxPackets) /\ header.smes = SmesUpTo(T, S, MaxPackets)
      BY LayoutIs
    <2>2. Packet(p, Up(p - 1)) = [topologies |-> TopologiesUpTo(T, p) - TopologiesUpTo(T, p - 1),
                                  smes |-> SmesUpTo(T, S, p) - SmesUpTo(T, S, p - 1)]
      BY <2>1, FilledFacts
    <2>3. p \in Int /\ p - 1 \in Int
      BY <1>2
    <2>4. /\ TopologiesUpTo(T, p) \in Int /\ TopologiesUpTo(T, p - 1) \in Int
          /\ SmesUpTo(T, S, p) \in Int /\ SmesUpTo(T, S, p - 1) \in Int
      <3>1. /\ TopologiesUpTo(T, p) \in 0 .. T /\ TopologiesUpTo(T, p - 1) \in 0 .. T
            /\ SmesUpTo(T, S, p) \in 0 .. S /\ SmesUpTo(T, S, p - 1) \in 0 .. S
        BY <2>3, TopologiesRange, SmesRange
      <3> QED BY <3>1
    <2> HIDE DEF Packet
    <2> QED BY <2>2, <2>4
  <1> HIDE DEF Up, Packet
  <1>5. g = Body(g)
    <2>1. ASSUME NEW p \in 0 .. MaxPackets PROVE g[p] = Body(g)[p]
      <3>1. CASE p = 0
        BY <1>3, <3>1
      <3>2. CASE p \in 1 .. MaxPackets
        <4>1. g[p] = Up(p) /\ g[p - 1] = Up(p - 1) /\ p # 0
          BY <1>2, <3>2
        <4> QED BY <1>4, <3>2, <4>1
      <3> QED BY <1>2, <3>1, <3>2
    <2> QED BY <2>1
  <1>6. sent = Body(sent)
    <2> HIDE DEF Body
    <2> QED BY <1>5
  <1> HIDE DEF sent, g
  <1> DEFINE R == {n \in Nat : n <= MaxPackets => sent[n] = Up(n)}
  <1>7. 0 \in R
    <2>1. sent[0] = [topologies |-> 0, smes |-> 0]
      BY <1>2, <1>6
    <2> QED BY <1>3, <2>1
  <1>8. ASSUME NEW n \in Nat, n \in R PROVE n + 1 \in R
    <2> SUFFICES ASSUME n + 1 <= MaxPackets PROVE sent[n + 1] = Up(n + 1)
      OBVIOUS
    <2>1. sent[n] = Up(n) /\ n + 1 \in 1 .. MaxPackets /\ n + 1 - 1 = n /\ n + 1 # 0
      BY <1>2, <1>8
    <2>2. sent[n + 1] = [topologies |-> sent[n].topologies + Packet(n + 1, sent[n]).topologies,
                         smes |-> sent[n].smes + Packet(n + 1, sent[n]).smes]
      BY <1>2, <1>6, <2>1
    <2> QED BY <1>4, <2>1, <2>2
  <1> HIDE DEF R
  <1>9. Nat \subseteq R
    BY <1>7, <1>8, InductionOver
  <1>10. header.packets \in 1 .. MaxPackets
    <2>1. header.packets \in Turn(T) .. MaxPackets /\ Turn(T) \in 1 .. MaxPackets
      BY SmesFacts, TurnFacts
    <2> QED BY <1>2, <2>1
  <1>11. ASSUME NEW p \in 0 .. header.packets PROVE sent[p] = Up(p)
    <2>1. p \in Nat /\ p <= MaxPackets
      BY <1>2, <1>10
    <2> QED BY <1>9, <2>1 DEF R
  <1> QED BY <1>1, <1>11 DEF Up

\* The numbers of topologies and SMEs that are asked for are no more than wait.
LEMMA AllocationFacts ==
    ASSUME NEW m \in Nat, NEW n \in Nat
    PROVE  \E T \in 0 .. m, S \in 0 .. n : Allocation(m, n) = Layout(T, S)
  <1> DEFINE total == FirstCapacity + (MaxPackets - 1) * OtherCapacity
             G == Least(GuaranteedTopologies, m)
             free == total - G * TopologySize
             fit == free \div SmeSize
             S == Least(n, fit)
             unused == free - S * SmeSize
             more == unused \div TopologySize
             T == G + Least(more, m - G)
  <1>1. /\ TopologySize \in Nat \ {0} /\ SmeSize \in Nat \ {0} /\ GuaranteedTopologies \in Nat
        /\ total \in Nat /\ GuaranteedTopologies * TopologySize <= total
    <2>1. (MaxPackets - 1) * OtherCapacity \in Nat
      BY MessageAssumption
    <2> QED BY <2>1, MessageAssumption
  <1>2. Allocation(m, n) = Layout(T, S)
    BY DEF Allocation
  <1>3. G \in Nat /\ G <= GuaranteedTopologies /\ G <= m
    BY <1>1 DEF Least
  <1> HIDE DEF total, G
  <1>4. free \in Nat
    <2>1. (GuaranteedTopologies - G) * TopologySize \in Nat /\ G * TopologySize \in Nat
      BY <1>1, <1>3
    <2>2. GuaranteedTopologies * TopologySize = G * TopologySize + (GuaranteedTopologies - G) * TopologySize
      BY <1>1, <1>3
    <2> DEFINE u == G * TopologySize
               v == (GuaranteedTopologies - G) * TopologySize
               w == GuaranteedTopologies * TopologySize
    <2>3. u \in Nat /\ v \in Nat /\ w = u + v /\ w <= total
      BY <1>1, <2>1, <2>2
    <2> HIDE DEF u, v, w
    <2>4. total - u \in Nat
      BY <1>1, <2>3
    <2> QED BY <2>4 DEF u
  <1> HIDE DEF free
  <1>5. fit \in Nat /\ free = SmeSize * fit + (free % SmeSize) /\ free % SmeSize \in Nat
    BY <1>1, <1>4, DivisionNat
  <1> HIDE DEF fit
  <1>6. S \in Nat /\ S <= n /\ S <= fit
    BY <1>5 DEF Least
  <1> HIDE DEF S
  <1>7. unused \in Nat
    <2> DEFINE u == S * SmeSize
               v == (fit - S) * SmeSize
               w == SmeSize * fit
    <2>1. u \in Nat /\ v \in Nat /\ w = u + v
      BY <1>1, <1>5, <1>6
    <2>2. free = w + (free % SmeSize)
      BY <1>5
    <2> HIDE DEF u, v, w
    <2>3. free - u \in Nat
      BY <1>5, <2>1, <2>2
    <2> QED BY <2>3 DEF u
  <1> HIDE DEF unused
  <1>8. more \in Nat
    BY <1>1, <1>7, DivisionNat
  <1> HIDE DEF more
  <1>9. T \in 0 .. m
    BY <1>3, <1>8 DEF Least
  <1>10. S \in 0 .. n
    BY <1>6
  <1> HIDE DEF T
  <1> QED BY <1>2, <1>9, <1>10

\* What a header of at least one packet announces, in order of the packets.
LEMMA LayoutAgrees ==
    ASSUME NEW T \in Nat, NEW S \in Nat, NEW header, header = Layout(T, S),
           NEW sent, sent = Sent(header)
    PROVE  /\ header.topologies \in 0 .. T /\ header.smes \in 0 .. S
           /\ header.packets \in 1 .. MaxPackets
           /\ DOMAIN sent = 0 .. header.packets
           /\ sent[0] = [topologies |-> 0, smes |-> 0]
           /\ sent[header.packets] = [topologies |-> header.topologies, smes |-> header.smes]
           /\ \A p \in 0 .. header.packets :
                 sent[p].topologies \in 0 .. header.topologies /\ sent[p].smes \in 0 .. header.smes
           /\ \A p \in 1 .. header.packets : Acceptable(sent, p, header.topologies, header.smes)
  <1> DEFINE t == header.topologies
             s == header.smes
             n == header.packets
  <1>1. /\ t = TopologiesUpTo(T, MaxPackets) /\ s = SmesUpTo(T, S, MaxPackets)
        /\ header.topologiesIn = [p \in 1 .. MaxPackets |->
                                    TopologiesUpTo(T, p) - TopologiesUpTo(T, p - 1)]
        /\ header.smesIn = [p \in 1 .. MaxPackets |-> SmesUpTo(T, S, p) - SmesUpTo(T, S, p - 1)]
    BY LayoutIs
  <1>2. sent = [p \in 0 .. n |-> [topologies |-> TopologiesUpTo(T, p), smes |-> SmesUpTo(T, S, p)]]
    BY SentFacts
  <1>3. MaxPackets \in Nat \ {0} /\ MaxPackets \in Int
    BY MessageAssumption
  <1>4. Turn(T) \in 1 .. MaxPackets /\ n \in Turn(T) .. MaxPackets
    BY SmesFacts, TurnFacts
  <1>5. n \in 1 .. MaxPackets /\ Turn(T) \in Int /\ n \in Int /\ 0 \in Int
    BY <1>3, <1>4
  <1>6. TopologiesUpTo(T, 0) = 0 /\ SmesUpTo(T, S, 0) = 0
    <2>1. 0 < Turn(T)
      BY <1>3, <1>4
    <2> QED BY <2>1, <1>5, TurnFacts, SmesFacts
  <1>7. TopologiesUpTo(T, n) = t /\ SmesUpTo(T, S, n) = s
    <2>1. SmesUpTo(T, S, n) = s
      BY <1>1, SmesFacts
    <2>2. TopologiesUpTo(T, Turn(T)) = t /\ TopologiesUpTo(T, Turn(T)) <= TopologiesUpTo(T, n)
          /\ TopologiesUpTo(T, n) <= t /\ TopologiesUpTo(T, n) \in Int /\ t \in Int
      <3>1. Turn(T) <= n /\ n <= MaxPackets
        BY <1>3, <1>4
      <3>2. TopologiesUpTo(T, Turn(T)) <= TopologiesUpTo(T, n)
            /\ TopologiesUpTo(T, n) <= TopologiesUpTo(T, MaxPackets)
        <4> HIDE DEF n
        <4> QED BY <1>3, <1>5, <3>1, TopologiesOrder
      <3>3. TopologiesUpTo(T, n) \in 0 .. T /\ TopologiesUpTo(T, MaxPackets) \in 0 .. T
        BY <1>3, <1>5, TopologiesRange
      <3> QED BY <1>1, <3>2, <3>3, TurnRange
    <2> HIDE DEF n, t
    <2>3. TopologiesUpTo(T, n) = t
      BY <2>2
    <2> QED BY <2>1, <2>3
  <1>8. t \in 0 .. T /\ s \in 0 .. S /\ Layout(t, s).topologies = t /\ Layout(t, s).smes = s
        /\ Layout(t, s).topologiesIn = header.topologiesIn /\ Layout(t, s).smesIn = header.smesIn
    BY LayoutAgain
  <1>9. ASSUME NEW p \in 0 .. n PROVE sent[p].topologies \in 0 .. t /\ sent[p].smes \in 0 .. s
    <2>1. p \in Int /\ p <= MaxPackets
      BY <1>5, <1>3
    <2>2. TopologiesUpTo(T, p) \in 0 .. T /\ TopologiesUpTo(T, p) <= t
          /\ SmesUpTo(T, S, p) \in 0 .. S /\ SmesUpTo(T, S, p) <= s
      <3>1. TopologiesUpTo(T, p) \in 0 .. T
            /\ TopologiesUpTo(T, p) <= TopologiesUpTo(T, MaxPackets)
        BY <1>3, <2>1, TopologiesRange, TopologiesOrder
      <3>2. SmesUpTo(T, S, p) \in 0 .. S /\ SmesUpTo(T, S, p) <= SmesUpTo(T, S, MaxPackets)
        BY <1>3, <2>1, SmesRange, SmesOrder
      <3> QED BY <1>1, <3>1, <3>2
    <2>3. sent[p].topologies = TopologiesUpTo(T, p) /\ sent[p].smes = SmesUpTo(T, S, p)
      BY <1>2
    <2> HIDE DEF t, s
    <2> QED BY <1>8, <2>2, <2>3
  <1>10. ASSUME NEW p \in 1 .. n PROVE Acceptable(sent, p, t, s)
    <2>1. p \in 0 .. n /\ p - 1 \in 0 .. n /\ p \in 1 .. MaxPackets
      BY <1>5, <1>3
    <2>2. /\ sent[p].topologies - sent[p - 1].topologies = header.topologiesIn[p]
          /\ sent[p].smes - sent[p - 1].smes = header.smesIn[p]
      BY <1>1, <1>2, <2>1
    <2> HIDE DEF t, s
    <2> QED BY <1>8, <2>2 DEF Acceptable
  <1>11. DOMAIN sent = 0 .. n /\ 0 \in 0 .. n /\ n \in 0 .. n
    BY <1>2, <1>5
  <1>12. sent[0] = [topologies |-> 0, smes |-> 0] /\ sent[n] = [topologies |-> t, smes |-> s]
    BY <1>2, <1>6, <1>7, <1>11
  <1> QED BY <1>5, <1>8, <1>9, <1>10, <1>11, <1>12

\* PacketsAgree: whatever waits to be sent and whatever the sizes are, the sender
\* sends all that it announces, and the receiver, which works out from the two
\* numbers in the header what each packet holds, refuses none of them.
THEOREM PacketsAgree ==
    \A topologies, smes \in Nat :
        LET header == Allocation(topologies, smes)
            sent == Sent(header)
        IN  /\ sent[header.packets] = [topologies |-> header.topologies, smes |-> header.smes]
            /\ \A p \in 1 .. header.packets :
                  Acceptable(sent, p, header.topologies, header.smes)
  <1> SUFFICES ASSUME NEW topologies \in Nat, NEW smes \in Nat
               PROVE  LET header == Allocation(topologies, smes)
                          sent == Sent(header)
                      IN  /\ sent[header.packets] =
                               [topologies |-> header.topologies, smes |-> header.smes]
                          /\ \A p \in 1 .. header.packets :
                                Acceptable(sent, p, header.topologies, header.smes)
    OBVIOUS
  <1>1. PICK T \in 0 .. topologies, S \in 0 .. smes : Allocation(topologies, smes) = Layout(T, S)
    BY AllocationFacts
  <1>2. T \in Nat /\ S \in Nat
    OBVIOUS
  <1> QED BY <1>1, <1>2, LayoutAgrees

-----------------------------------------------------------------------------
(***************************************************************************)
(* The queues.                                                             *)
(***************************************************************************)
Queue(K, V) == Seq([key : K, val : V])

LEMMA QueueFacts ==
    ASSUME NEW K, NEW V, NEW q \in Queue(K, V)
    PROVE  /\ Len(q) \in Nat /\ DOMAIN q = 1 .. Len(q)
           /\ \A i \in 1 .. Len(q) : q[i] \in [key : K, val : V]
  <1> DEFINE E == [key : K, val : V]
  <1>1. q \in Seq(E)
    BY DEF Queue
  <1> HIDE DEF E
  <1>2. Len(q) \in Nat /\ DOMAIN q = 1 .. Len(q) /\ \A i \in 1 .. Len(q) : q[i] \in E
    BY <1>1, LenProperties, ElementOfSeq
  <1> QED BY <1>2 DEF E

LEMMA EnqueueFacts ==
    ASSUME NEW K, NEW V, NEW q \in Queue(K, V), NEW k \in K, NEW v \in V
    PROVE  /\ Enqueue(q, k, v) \in Queue(K, V)
           /\ KeysOf(Enqueue(q, k, v)) = KeysOf(q) \cup {k}
  <1> DEFINE E == [key : K, val : V]
  <1>1. /\ q \in Seq(E) /\ Len(q) \in Nat /\ DOMAIN q = 1 .. Len(q)
        /\ \A i \in 1 .. Len(q) : q[i] \in E
    BY QueueFacts DEF Queue
  <1>2. CASE Waiting(q, k)
    <2> DEFINE r == Replace(q, {k}, v)
    <2>1. Enqueue(q, k, v) = r
      BY <1>2 DEF Enqueue
    <2>2. DOMAIN r = DOMAIN q
      BY DEF Replace
    <2>3. ASSUME NEW i \in DOMAIN q PROVE r[i] \in E /\ r[i].key = q[i].key
      <3>1. q[i] \in E
        BY <1>1
      <3>2. r[i] = IF q[i].key \in {k} THEN [q[i] EXCEPT !.val = v] ELSE q[i]
        BY DEF Replace
      <3> QED BY <3>1, <3>2
    <2>4. r = [i \in 1 .. Len(q) |-> r[i]]
      BY <1>1 DEF Replace
    <2> HIDE DEF r
    <2>5. r \in Seq(E)
      BY <1>1, <2>3, <2>4, IsASeq
    <2>6. KeysOf(r) = KeysOf(q)
      BY <2>2, <2>3 DEF KeysOf
    <2>7. k \in KeysOf(q)
      BY <1>2 DEF Waiting, KeysOf
    <2> QED BY <2>1, <2>5, <2>6, <2>7 DEF Queue
  <1>3. CASE ~Waiting(q, k)
    <2> DEFINE e == [key |-> k, val |-> v]
               r == Append(q, e)
    <2>1. Enqueue(q, k, v) = r
      BY <1>3 DEF Enqueue
    <2>2. e \in E /\ e.key = k
      OBVIOUS
    <2> HIDE DEF e
    <2>3. /\ r \in Seq(E) /\ DOMAIN r = 1 .. Len(q) + 1
          /\ \A i \in 1 .. Len(q) : r[i] = q[i]
          /\ r[Len(q) + 1] = e
      BY <1>1, <2>2, AppendProperties
    <2> HIDE DEF r, E
    <2>4. KeysOf(r) = KeysOf(q) \cup {k}
      <3>1. ASSUME NEW i \in DOMAIN r PROVE r[i].key \in KeysOf(q) \cup {k}
        <4>1. i \in 1 .. Len(q) \/ i = Len(q) + 1
          BY <1>1, <2>3
        <4> QED BY <1>1, <2>2, <2>3, <4>1 DEF KeysOf
      <3>2. ASSUME NEW i \in DOMAIN q PROVE q[i].key \in KeysOf(r)
        <4>1. i \in DOMAIN r /\ r[i] = q[i]
          BY <1>1, <2>3
        <4> QED BY <4>1 DEF KeysOf
      <3>3. k \in KeysOf(r)
        <4>1. Len(q) + 1 \in DOMAIN r
          BY <1>1, <2>3
        <4> QED BY <2>2, <2>3, <4>1 DEF KeysOf
      <3> QED BY <3>1, <3>2, <3>3 DEF KeysOf
    <2> QED BY <2>1, <2>3, <2>4 DEF Queue, E
  <1> QED BY <1>2, <1>3

\* The queues after each of the first m calls of enqueue().
AfterEach(q, elements, m, after) ==
    after = [i \in 0 .. m |->
        IF i = 0 THEN q ELSE Enqueue(after[i - 1], elements[i].key, elements[i].val)]

LEMMA AfterEachExists ==
    ASSUME NEW q, NEW elements, NEW m \in Nat
    PROVE  \E f : AfterEach(q, elements, m, f)
  <1> DEFINE Up(n, f) == AfterEach(q, elements, n, f)
             S == {n \in Nat : \E f : Up(n, f)}
             After(r, i) == Enqueue(r, elements[i].key, elements[i].val)
  <1>1. \A n, f : Up(n, f) <=> f = [i \in 0 .. n |-> IF i = 0 THEN q ELSE After(f[i - 1], i)]
    BY DEF AfterEach
  <1> HIDE DEF Up, After
  <1>2. 0 \in S
    <2> DEFINE g == [i \in 0 .. 0 |-> q]
    <2>1. g = [i \in 0 .. 0 |-> IF i = 0 THEN q ELSE After(g[i - 1], i)]
      OBVIOUS
    <2> QED BY <1>1, <2>1
  <1>3. ASSUME NEW n \in Nat, n \in S PROVE n + 1 \in S
    <2>1. PICK f : Up(n, f)
      BY <1>3
    <2>2. f = [i \in 0 .. n |-> IF i = 0 THEN q ELSE After(f[i - 1], i)]
      BY <1>1, <2>1
    <2> DEFINE g == [i \in 0 .. n + 1 |-> IF i \in 0 .. n THEN f[i] ELSE After(f[n], n + 1)]
               h == [i \in 0 .. n + 1 |-> IF i = 0 THEN q ELSE After(g[i - 1], i)]
    <2>3. ASSUME NEW i \in 0 .. n + 1 PROVE g[i] = h[i]
      <3>1. CASE i = 0
        BY <2>2, <3>1
      <3>2. CASE i \in 1 .. n
        <4>1. f[i] = After(f[i - 1], i)
          BY <2>2, <3>2
        <4>2. g[i - 1] = f[i - 1] /\ g[i] = f[i] /\ h[i] = After(g[i - 1], i)
          BY <3>2
        <4> QED BY <4>1, <4>2
      <3>3. CASE i = n + 1
        <4>1. g[n] = f[n] /\ g[i] = After(f[n], i) /\ h[i] = After(g[i - 1], i) /\ i - 1 = n
          BY <3>3
        <4> QED BY <4>1
      <3> QED BY <3>1, <3>2, <3>3
    <2>4. g = h
      BY <2>3
    <2> HIDE DEF g
    <2>5. Up(n + 1, g)
      BY <1>1, <2>4
    <2> QED BY <2>5
  <1> HIDE DEF S
  <1>4. m \in S
    BY <1>2, <1>3, InductionOver
  <1> QED BY <1>4 DEF S, Up

\* Enqueueing the elements of a sequence keeps what waits and adds their keys.
LEMMA EnqueueInOrderFacts ==
    ASSUME NEW K, NEW V, NEW q \in Queue(K, V), NEW elements \in Queue(K, V)
    PROVE  /\ EnqueueInOrder(q, elements) \in Queue(K, V)
           /\ KeysOf(EnqueueInOrder(q, elements)) = KeysOf(q) \cup KeysOf(elements)
  <1> DEFINE m == Len(elements)
             f == CHOOSE g : AfterEach(q, elements, m, g)
  <1>1. /\ m \in Nat /\ DOMAIN elements = 1 .. m
        /\ \A i \in 1 .. m : elements[i] \in [key : K, val : V]
    BY QueueFacts
  <1>2. AfterEach(q, elements, m, f)
    <2> HIDE DEF m
    <2> QED BY <1>1, AfterEachExists
  <1>3. EnqueueInOrder(q, elements) = f[m]
    BY DEF EnqueueInOrder, AfterEach
  <1>4. f = [i \in 0 .. m |->
                IF i = 0 THEN q ELSE Enqueue(f[i - 1], elements[i].key, elements[i].val)]
    <2> HIDE DEF f
    <2> QED BY <1>2 DEF AfterEach
  <1> HIDE DEF f, m
  <1> DEFINE KeysUpTo(n) == {elements[i].key : i \in 1 .. n}
             S == {n \in Nat : n <= m => /\ f[n] \in Queue(K, V)
                                          /\ KeysOf(f[n]) = KeysOf(q) \cup KeysUpTo(n)}
  <1>5. 0 \in S
    <2>1. f[0] = q /\ KeysUpTo(0) = {}
      BY <1>1, <1>4
    <2> QED BY <2>1
  <1>6. ASSUME NEW n \in Nat, n \in S PROVE n + 1 \in S
    <2> SUFFICES ASSUME n + 1 <= m
                 PROVE  /\ f[n + 1] \in Queue(K, V)
                        /\ KeysOf(f[n + 1]) = KeysOf(q) \cup KeysUpTo(n + 1)
      OBVIOUS
    <2>1. f[n] \in Queue(K, V) /\ KeysOf(f[n]) = KeysOf(q) \cup KeysUpTo(n)
      BY <1>1, <1>6
    <2>2. elements[n + 1].key \in K /\ elements[n + 1].val \in V
      BY <1>1
    <2>3. f[n + 1] = Enqueue(f[n], elements[n + 1].key, elements[n + 1].val)
      BY <1>1, <1>4
    <2>4. /\ f[n + 1] \in Queue(K, V)
          /\ KeysOf(f[n + 1]) = KeysOf(f[n]) \cup {elements[n + 1].key}
      BY <2>1, <2>2, <2>3, EnqueueFacts
    <2>5. KeysUpTo(n + 1) = KeysUpTo(n) \cup {elements[n + 1].key}
      <3>1. 1 .. n + 1 = (1 .. n) \cup {n + 1}
        OBVIOUS
      <3> QED BY <3>1
    <2> QED BY <2>1, <2>4, <2>5
  <1>7. KeysUpTo(m) = KeysOf(elements)
    BY <1>1 DEF KeysOf
  <1> HIDE DEF S, KeysUpTo
  <1>8. m \in S
    BY <1>1, <1>5, <1>6, InductionOver
  <1> QED BY <1>1, <1>3, <1>7, <1>8 DEF S

\* What is taken from a queue and what is left are the elements of the queue.
LEMMA TakenAndLeft ==
    ASSUME NEW K, NEW V, NEW q \in Queue(K, V), NEW n \in 0 .. Len(q)
    PROVE  /\ SubSeq(q, 1, n) \in Queue(K, V) /\ Len(SubSeq(q, 1, n)) = n
           /\ \A i \in 1 .. n : SubSeq(q, 1, n)[i] = q[i]
           /\ Dequeue(q, n) \in Queue(K, V)
           /\ \A i \in n + 1 .. Len(q) : q[i].key \in KeysOf(Dequeue(q, n))
  <1> DEFINE E == [key : K, val : V]
  <1>1. q \in Seq(E) /\ Len(q) \in Nat /\ DOMAIN q = 1 .. Len(q) /\ n \in Nat
    BY DEF Queue
  <1> HIDE DEF E
  <1>2. /\ SubSeq(q, 1, n) \in Seq(E) /\ Len(SubSeq(q, 1, n)) = n
        /\ \A i \in 1 .. n : SubSeq(q, 1, n)[i] = q[i]
    BY <1>1, SubSeqProperties
  <1> DEFINE d == Dequeue(q, n)
  <1>3. /\ d \in Seq(E) /\ Len(d) = Len(q) - n /\ DOMAIN d = 1 .. Len(q) - n
        /\ \A i \in 1 .. Len(q) - n : d[i] = q[n + i]
    <2>1. \A i \in n + 1 .. Len(q) : q[i] \in E
      BY QueueFacts, <1>1 DEF E
    <2>2. /\ d \in Seq(E)
          /\ Len(d) = IF n + 1 <= Len(q) THEN Len(q) - (n + 1) + 1 ELSE 0
          /\ \A i \in 1 .. Len(q) - (n + 1) + 1 : d[i] = q[n + 1 + i - 1]
      <3>1. n + 1 \in Int /\ Len(q) \in Int
        BY <1>1
      <3> QED BY <2>1, <3>1, SubSeqProperties DEF Dequeue
    <2> HIDE DEF d
    <2>3. Len(d) = Len(q) - n
      <3> DEFINE L == Len(q)
      <3>1. L \in Nat /\ n \in 0 .. L
        BY <1>1
      <3>2. Len(d) = IF n + 1 <= L THEN L - (n + 1) + 1 ELSE 0
        BY <2>2
      <3> HIDE DEF L
      <3>3. Len(d) = L - n
        BY <3>1, <3>2
      <3> QED BY <3>3 DEF L
    <2>4. DOMAIN d = 1 .. Len(q) - n
      BY <2>2, <2>3, LenProperties
    <2>5. ASSUME NEW i \in 1 .. Len(q) - n PROVE d[i] = q[n + i]
      <3>1. i \in 1 .. Len(q) - (n + 1) + 1 /\ n + 1 + i - 1 = n + i
        BY <1>1
      <3> QED BY <2>2, <3>1
    <2> QED BY <2>2, <2>3, <2>4, <2>5
  <1> HIDE DEF d
  <1>4. ASSUME NEW i \in n + 1 .. Len(q) PROVE q[i].key \in KeysOf(d)
    <2>1. i - n \in 1 .. Len(q) - n /\ n + (i - n) = i
      BY <1>1
    <2>2. DOMAIN d = 1 .. Len(q) - n
      BY <1>3
    <2>3. d[i - n] = q[i]
      BY <1>3, <2>1
    <2> QED BY <2>1, <2>2, <2>3 DEF KeysOf
  <1> QED BY <1>2, <1>3, <1>4 DEF Queue, E, d

-----------------------------------------------------------------------------
(***************************************************************************)
(* The neighbor tables.                                                    *)
(***************************************************************************)
Topology == [strong : SUBSET Ids, weak : SUBSET Ids]

Counter == 0 .. Byte - 1

Link == [status : {"UNKNOWN", "WEAK", "STRONG"}, freqTimeoutCtr : Counter, avgRssi : Int]

\* The entry of a predecessor of node n: another node that exists.
Predecessor(n) == [id : Nodes \ {n}, rssi : Int, timeout : Counter]

Table(n) ==
    [hop : 0 .. MaxHops, badAssignee : BOOLEAN,
     strong : SUBSET (Ids \ {n}), weak : SUBSET (Ids \ {n}),
     neighbors : [Ids -> Link], predecessors : SUBSET Predecessor(n)]

\* No node is twice in the heap.
OneEntryEach(predecessors) == \A p, q \in predecessors : p.id = q.id => p = q

GoodTable(t, n) ==
    /\ t \in Table(n)
    /\ t.strong \subseteq t.weak
    /\ IsFiniteSet(t.predecessors)
    /\ OneEntryEach(t.predecessors)

LEMMA DivideCInt == ASSUME NEW x \in Int, NEW d \in Nat \ {0} PROVE DivideC(x, d) \in Int
  <1>1. \A y \in Int : y \div d \in Int
    BY Division
  <1> QED BY <1>1 DEF DivideC

LEMMA ByteFacts == Byte \in Nat \ {0} /\ \A x \in Int : x % Byte \in Counter
  <1>1. Byte \in Nat \ {0}
    BY DEF Byte
  <1> QED BY <1>1, Division DEF Counter

LEMMA CountDownFacts == ASSUME NEW c \in Counter PROVE CountDown(c) \in Counter
  BY DEF Counter, CountDown, Byte, unknownNeighborDecrement

LEMMA UpdateReceivedFacts ==
    ASSUME NEW link \in Link, NEW rssi \in Int, NEW strongRec \in BOOLEAN, NEW weakRec \in BOOLEAN
    PROVE  UpdateReceived(link, rssi, strongRec, weakRec) \in Link
  <1> DEFINE often == link.freqTimeoutCtr + unknownNeighborIncrement
             avg == Filter(link.avgRssi, rssi)
             result == UpdateReceived(link, rssi, strongRec, weakRec)
  <1>1. /\ link.status \in {"UNKNOWN", "WEAK", "STRONG"} /\ link.freqTimeoutCtr \in Counter
        /\ link.avgRssi \in Int /\ 0 \in Counter
    BY DEF Link, Counter, Byte
  <1>2. avg \in Int
    <2>1. link.avgRssi * 12 \in Int /\ (one - 12) * rssi \in Int /\ one \in Nat \ {0}
      BY <1>1 DEF one
    <2>2. DivideC(link.avgRssi * 12, one) \in Int
      BY <2>1, DivideCInt
    <2> QED BY <2>1, <2>2 DEF Filter
  <1>3. \A status \in {"WEAK", "STRONG"} : NewLink(status, rssi) \in Link
    BY <1>1 DEF NewLink, Link, one
  <1>4. CASE link.status = "UNKNOWN"
    <2>1. \/ result = NewLink("STRONG", rssi) \/ result = NewLink("WEAK", rssi)
          \/ often < unknownNeighborThreshold /\ result = [link EXCEPT !.freqTimeoutCtr = often]
          \/ result = [link EXCEPT !.freqTimeoutCtr = CountDown(link.freqTimeoutCtr)]
      <3>1. CASE rssi >= MinStrongRssi \/ strongRec
        BY <1>4, <3>1 DEF UpdateReceived
      <3>2. CASE ~(rssi >= MinStrongRssi \/ strongRec)
        <4>1. rssi < MinStrongRssi /\ ~strongRec
          BY <3>2, NeighborAssumption
        <4> DEFINE heardWeakly == weakRec \/ (rssi >= MinWeakRssi /\ often >= unknownNeighborThreshold)
                   seldom == ~weakRec /\ rssi >= MinWeakRssi /\ often < unknownNeighborThreshold
        <4>2. result = CASE heardWeakly -> NewLink("WEAK", rssi)
                         [] seldom -> [link EXCEPT !.freqTimeoutCtr = often]
                         [] OTHER -> [link EXCEPT !.freqTimeoutCtr = CountDown(@)]
          BY <1>4, <3>2, <4>1 DEF UpdateReceived
        <4>3. heardWeakly => ~seldom
          BY <1>1 DEF Counter, unknownNeighborIncrement, unknownNeighborThreshold
        <4>4. seldom => often < unknownNeighborThreshold
          OBVIOUS
        <4> HIDE DEF heardWeakly, seldom, often, result
        <4> QED BY <4>2, <4>3, <4>4
      <3> QED BY <3>1, <3>2
    <2>2. often < unknownNeighborThreshold => often \in Counter
      BY <1>1 DEF Counter, Byte, unknownNeighborIncrement, unknownNeighborThreshold
    <2>3. CountDown(link.freqTimeoutCtr) \in Counter
      BY <1>1, CountDownFacts
    <2>4. \A c \in Counter : [link EXCEPT !.freqTimeoutCtr = c] \in Link
      BY DEF Link
    <2> HIDE DEF often, result
    <2> QED BY <1>3, <2>1, <2>2, <2>3, <2>4 DEF result
  <1>5. CASE link.status # "UNKNOWN"
    <2>1. \E status \in {"WEAK", "STRONG"} :
             result = [status |-> status, freqTimeoutCtr |-> 0, avgRssi |-> avg]
      BY <1>1, <1>5 DEF UpdateReceived
    <2> HIDE DEF avg, result
    <2>2. result \in Link
      BY <1>1, <1>2, <2>1 DEF Link
    <2> QED BY <2>2 DEF result
  <1> QED BY <1>4, <1>5

LEMMA UpdateMissedFacts ==
    ASSUME NEW link \in Link
    PROVE  UpdateMissed(link) \in Link
  <1>1. link.freqTimeoutCtr \in Counter /\ 0 \in Counter
    BY DEF Link, Counter, Byte
  <1>2. (link.freqTimeoutCtr + 1) % Byte \in Counter
    BY <1>1, ByteFacts DEF Counter
  <1>3. CountDown(link.freqTimeoutCtr) \in Counter
    BY <1>1, CountDownFacts
  <1>4. \A c \in Counter : /\ [link EXCEPT !.freqTimeoutCtr = c] \in Link
                            /\ [link EXCEPT !.status = "UNKNOWN", !.freqTimeoutCtr = c] \in Link
    BY DEF Link
  <1> QED BY <1>1, <1>2, <1>3, <1>4 DEF UpdateMissed

LEMMA UpdateTopologyFacts ==
    ASSUME NEW n, NEW t, GoodTable(t, n), NEW node \in Ids \ {n}, NEW link \in Link,
           NEW u, u = UpdateTopology([t EXCEPT !.neighbors[node] = link], node)
    PROVE  GoodTable(u, n) /\ u.predecessors = t.predecessors /\ u.neighbors[node] = link
  <1>1. t \in Table(n) /\ t.neighbors \in [Ids -> Link] /\ node \in Ids
    BY DEF GoodTable, Table
  <1> DEFINE v == [t EXCEPT !.neighbors[node] = link]
  <1>2. /\ v \in Table(n) /\ v.neighbors[node] = link /\ v.strong = t.strong /\ v.weak = t.weak
        /\ v.predecessors = t.predecessors
    BY <1>1 DEF Table
  <1> HIDE DEF v
  <1> DEFINE strong == IF link.status = "STRONG" THEN v.strong \cup {node} ELSE v.strong \ {node}
             weak == IF link.status \in {"WEAK", "STRONG"} THEN v.weak \cup {node} ELSE v.weak \ {node}
  <1>3. u = [v EXCEPT !.strong = strong, !.weak = weak]
    BY <1>2 DEF UpdateTopology, v
  <1>4. /\ strong \subseteq Ids \ {n} /\ weak \subseteq Ids \ {n} /\ strong \subseteq weak
    BY <1>2 DEF GoodTable, Table
  <1> HIDE DEF strong, weak
  <1>5. /\ u \in Table(n) /\ u.strong = strong /\ u.weak = weak /\ u.neighbors = v.neighbors
        /\ u.predecessors = v.predecessors
    BY <1>2, <1>3, <1>4 DEF Table
  <1> QED BY <1>2, <1>4, <1>5 DEF GoodTable

LEMMA ComputeBadAssigneeFacts ==
    ASSUME NEW n, NEW t, GoodTable(t, n), NEW entries \in SUBSET Predecessor(n),
           IsFiniteSet(entries), OneEntryEach(entries)
    PROVE  GoodTable(ComputeBadAssignee([t EXCEPT !.predecessors = entries], n), n)
  <1> DEFINE v == [t EXCEPT !.predecessors = entries]
  <1>1. v \in Table(n) /\ v.strong = t.strong /\ v.weak = t.weak /\ v.predecessors = entries
    BY DEF GoodTable, Table
  <1> HIDE DEF v
  <1> DEFINE bad == /\ n # 0
                    /\ ~HasPredecessor(v) \/ \E p \in BestPredecessors(v) : p.rssi < MinStrongRssi
             u == [v EXCEPT !.badAssignee = bad]
  <1>2. ComputeBadAssignee(v, n) = u
    BY DEF ComputeBadAssignee
  <1>3. bad \in BOOLEAN
    OBVIOUS
  <1> HIDE DEF bad
  <1>4. /\ u \in Table(n) /\ u.strong = t.strong /\ u.weak = t.weak /\ u.predecessors = entries
    BY <1>1, <1>3 DEF Table
  <1> HIDE DEF u
  <1> QED BY <1>2, <1>4 DEF GoodTable, v

LEMMA ReceivedMessageFacts ==
    ASSUME NEW n, NEW t, GoodTable(t, n), NEW node \in Nodes \ {n}, NEW h,
           NEW rssi \in Int, NEW bad \in BOOLEAN, NEW sender
    PROVE  GoodTable(ReceivedMessage(t, n, node, h, rssi, bad, sender), n)
  <1> DEFINE link == UpdateReceived(t.neighbors[node], rssi, n \in sender.strong, n \in sender.weak)
             known == UpdateTopology([t EXCEPT !.neighbors[node] = link], node)
             entries == PredecessorsAfter(known, node, h, bad)
  <1>1. node \in Ids \ {n}
    BY UplinkAssumption
  <1>2. t.neighbors[node] \in Link
    BY <1>1 DEF GoodTable, Table
  <1>3. link \in Link
    <2> DEFINE strongRec == n \in sender.strong
               weakRec == n \in sender.weak
    <2>1. strongRec \in BOOLEAN /\ weakRec \in BOOLEAN
      OBVIOUS
    <2> HIDE DEF strongRec, weakRec
    <2>2. UpdateReceived(t.neighbors[node], rssi, strongRec, weakRec) \in Link
      BY <1>2, <2>1, UpdateReceivedFacts
    <2> QED BY <2>2 DEF strongRec, weakRec
  <1>4. ReceivedMessage(t, n, node, h, rssi, bad, sender)
           = ComputeBadAssignee([known EXCEPT !.predecessors = entries], n)
    BY DEF ReceivedMessage
  <1> HIDE DEF link
  <1>5. GoodTable(known, n) /\ known.neighbors[node] = link
    BY <1>1, <1>3, UpdateTopologyFacts
  <1> HIDE DEF known
  <1>6. entries \in SUBSET Predecessor(n) /\ IsFiniteSet(entries) /\ OneEntryEach(entries)
    <2> DEFINE old == known.predecessors
               priority == IF bad THEN AvgRssi(link) - 128 ELSE AvgRssi(link)
               new == [id |-> node, rssi |-> priority, timeout |-> StrongTimeout % Byte]
    <2>1. old \in SUBSET Predecessor(n) /\ IsFiniteSet(old) /\ OneEntryEach(old)
      BY <1>5 DEF GoodTable, Table
    <2>2. new \in Predecessor(n) /\ new.id = node
      <3>1. link.avgRssi \in Int /\ one \in Nat \ {0}
        BY <1>3 DEF Link, one
      <3>2. priority \in Int
        BY <3>1, DivideCInt DEF AvgRssi
      <3>3. StrongTimeout % Byte \in Counter
        BY NeighborAssumption, ByteFacts
      <3> HIDE DEF priority
      <3> QED BY <3>2, <3>3 DEF Predecessor
    <2>3. \/ entries = old \/ entries = Others(old, node)
          \/ entries = Others(old, node) \cup {new}
      BY <1>5 DEF PredecessorsAfter
    <2> HIDE DEF old, new, entries
    <2>4. Others(old, node) \subseteq old /\ \A p \in Others(old, node) : p.id # node
      BY DEF Others
    <2>5. IsFiniteSet(Others(old, node)) /\ IsFiniteSet(Others(old, node) \cup {new})
      BY <2>1, <2>4, FS_Subset, FS_AddElement
    <2>6. OneEntryEach(Others(old, node)) /\ OneEntryEach(Others(old, node) \cup {new})
      BY <2>1, <2>2, <2>4 DEF OneEntryEach
    <2>7. Others(old, node) \cup {new} \subseteq Predecessor(n)
      BY <2>1, <2>2, <2>4
    <2> QED BY <2>1, <2>3, <2>4, <2>5, <2>6, <2>7
  <1> HIDE DEF entries
  <1> QED BY <1>4, <1>5, <1>6, ComputeBadAssigneeFacts

LEMMA MissedMessageFacts ==
    ASSUME NEW n, NEW t, GoodTable(t, n), NEW node \in Ids \ {n}
    PROVE  GoodTable(MissedMessage(t, n, node), n)
  <1> DEFINE link == UpdateMissed(t.neighbors[node])
             known == UpdateTopology([t EXCEPT !.neighbors[node] = link], node)
             entries == Expire(known.predecessors, node)
  <1>1. t.neighbors[node] \in Link /\ t.neighbors \in [Ids -> Link]
    BY DEF GoodTable, Table
  <1>2. link \in Link
    BY <1>1, UpdateMissedFacts
  <1>3. MissedMessage(t, n, node) = ComputeBadAssignee([known EXCEPT !.predecessors = entries], n)
    BY DEF MissedMessage
  <1> HIDE DEF link
  <1>4. GoodTable(known, n)
    BY <1>2, UpdateTopologyFacts
  <1> HIDE DEF known
  <1>5. entries \in SUBSET Predecessor(n) /\ IsFiniteSet(entries) /\ OneEntryEach(entries)
    <2> DEFINE old == known.predecessors
               young == {q \in old : q.id = node /\ q.timeout # 1}
               aged == {[p EXCEPT !.timeout = (@ - 1) % Byte] : p \in young}
    <2>1. old \in SUBSET Predecessor(n) /\ IsFiniteSet(old) /\ OneEntryEach(old)
      BY <1>4 DEF GoodTable, Table
    <2>2. entries = Others(old, node) \cup aged
      BY DEF Expire
    <2>3. ASSUME NEW p \in young
          PROVE  /\ [p EXCEPT !.timeout = (@ - 1) % Byte] \in Predecessor(n)
                 /\ [p EXCEPT !.timeout = (@ - 1) % Byte].id = node
      <3>1. p \in Predecessor(n) /\ p.id = node
        BY <2>1
      <3>2. (p.timeout - 1) % Byte \in Counter
        BY <3>1, ByteFacts DEF Predecessor, Counter
      <3> QED BY <3>1, <3>2 DEF Predecessor
    <2>4. aged \subseteq Predecessor(n) /\ \A p \in aged : p.id = node
      BY <2>3
    <2>5. \A p, q \in aged : p = q
      <3>1. \A p, q \in young : p = q
        BY <2>1 DEF OneEntryEach
      <3> QED BY <3>1
    <2>6. IsFiniteSet(aged)
      <3>1. aged = {} \/ \E p \in aged : aged = {p}
        BY <2>5
      <3> HIDE DEF aged
      <3>2. CASE aged = {}
        BY <3>2, FS_EmptySet
      <3>3. ASSUME NEW p \in aged, aged = {p} PROVE IsFiniteSet(aged)
        <4>1. IsFiniteSet({p})
          BY FS_Singleton
        <4> QED BY <3>3, <4>1
      <3> QED BY <3>1, <3>2, <3>3
    <2> HIDE DEF old, aged, entries
    <2>7. Others(old, node) \subseteq old /\ \A p \in Others(old, node) : p.id # node
      BY DEF Others
    <2>8. IsFiniteSet(entries)
      <3>1. IsFiniteSet(Others(old, node))
        BY <2>1, <2>7, FS_Subset
      <3> QED BY <2>2, <2>6, <3>1, FS_Union
    <2>9. OneEntryEach(entries)
      BY <2>1, <2>2, <2>4, <2>5, <2>7 DEF OneEntryEach
    <2> QED BY <2>1, <2>2, <2>4, <2>7, <2>8, <2>9
  <1> HIDE DEF entries
  <1> QED BY <1>3, <1>4, <1>5, ComputeBadAssigneeFacts

LEMMA ClearFacts ==
    ASSUME NEW n, NEW t, GoodTable(t, n), NEW h \in 0 .. MaxHops
    PROVE  GoodTable(Clear(t, h), n)
  <1> DEFINE u == Clear(t, h)
  <1>1. u \in Table(n) /\ u.strong = {} /\ u.weak = {} /\ u.predecessors = {}
    BY DEF Clear, GoodTable, Table
  <1> QED BY <1>1, FS_EmptySet DEF GoodTable, OneEntryEach

LEMMA NewTableFacts ==
    ASSUME NEW n PROVE GoodTable(NewTable(0), n)
  <1>1. UnknownNeighbor \in Link
    BY DEF UnknownNeighbor, Link, Counter, Byte
  <1>2. 0 \in 0 .. MaxHops
    BY UplinkAssumption
  <1>3. [m \in Ids |-> UnknownNeighbor] \in [Ids -> Link]
    BY <1>1
  <1> DEFINE t == NewTable(0)
  <1>4. t \in Table(n) /\ t.strong = {} /\ t.weak = {} /\ t.predecessors = {}
    BY <1>2, <1>3 DEF NewTable, Table
  <1> QED BY <1>4, FS_EmptySet DEF GoodTable, OneEntryEach

-----------------------------------------------------------------------------
(***************************************************************************)
(* Types.                                                                  *)
(***************************************************************************)
UplinkType ==
    /\ hop \in [Nodes -> 0 .. MaxHops]
    /\ table = [n \in Nodes |-> table[n]]
    /\ \A n \in Nodes : GoodTable(table[n], n)
    /\ topologyQueue \in [Nodes -> Queue(Ids, Topology)]
    /\ smeQueue \in [Nodes -> Queue(Smes, Smes)]
    /\ managerQueue \in [Nodes -> Queue(Smes, Smes)]
    /\ arrived \subseteq Smes
    /\ dropped \subseteq Smes
    /\ faults \in 0 .. MaxFaults

UplinkInv == RoundInv /\ UplinkType

LEMMA EmptyQueue == ASSUME NEW K, NEW V PROVE <<>> \in Queue(K, V) /\ KeysOf(<<>>) = {}
  BY DEF Queue, KeysOf

LEMMA KeysOfFacts ==
    ASSUME NEW K, NEW V, NEW q \in Queue(K, V) PROVE KeysOf(q) \subseteq K
  BY QueueFacts DEF KeysOf

LEMMA TopologyOfFacts ==
    ASSUME NEW n, NEW t, GoodTable(t, n) PROVE TopologyOf(t) \in Topology
  BY DEF GoodTable, Table, TopologyOf, Topology

\* The queue of which a message takes the first SMEs: both queues, in order.
LEMMA CollectedFacts ==
    ASSUME UplinkInv, NEW n \in Nodes
    PROVE  Collected(n) \in Queue(Smes, Smes) /\ KeysOf(Collected(n)) = Held(n)
  <1>1. smeQueue[n] \in Queue(Smes, Smes) /\ managerQueue[n] \in Queue(Smes, Smes)
    BY DEF UplinkInv, UplinkType
  <1> QED BY <1>1, EnqueueInOrderFacts DEF Collected, Held

LEMMA LoadFacts ==
    ASSUME UplinkInv, NEW n \in Nodes, NEW load, load = Load(n)
    PROVE  /\ load.header.packets \in 1 .. MaxPackets
           /\ DOMAIN load.sent = 0 .. load.header.packets
           /\ load.sent[0].smes = 0
           /\ \A p \in 0 .. load.header.packets : /\ load.sent[p].topologies \in 0 .. Len(load.topologies)
                                                  /\ load.sent[p].smes \in 0 .. Len(load.smes)
           /\ \E k \in 0 .. Len(topologyQueue[n]) : load.topologies = SubSeq(topologyQueue[n], 1, k)
           /\ \E k \in 0 .. Len(Collected(n)) : load.smes = SubSeq(Collected(n), 1, k)
           /\ load.topologies \in Queue(Ids, Topology) /\ Len(load.topologies) \in 0 .. Len(topologyQueue[n])
           /\ load.smes \in Queue(Smes, Smes) /\ Len(load.smes) \in 0 .. Len(Collected(n))
           /\ \A i \in 1 .. Len(load.smes) : load.smes[i] = Collected(n)[i]
           /\ \A k \in 0 .. load.header.packets : Used(load, k) = k
  <1> DEFINE topologies == topologyQueue[n]
             smes == Collected(n)
             header == load.header
             sent == Sent(header)
  <1>1. topologies \in Queue(Ids, Topology) /\ smes \in Queue(Smes, Smes)
    BY CollectedFacts DEF UplinkInv, UplinkType
  <1> HIDE DEF topologies, smes
  <1>2. Len(topologies) \in Nat /\ Len(smes) \in Nat
    BY <1>1, QueueFacts
  <1>3. /\ header = IF Forwards(n) THEN Allocation(Len(topologies), Len(smes)) ELSE Layout(0, 0)
        /\ load.sent = sent
        /\ load.topologies = SubSeq(topologies, 1, sent[header.packets].topologies)
        /\ load.smes = SubSeq(smes, 1, sent[header.packets].smes)
    BY DEF Load, topologies, smes
  <1>4. PICK T \in 0 .. Len(topologies), S \in 0 .. Len(smes) : header = Layout(T, S)
    <2>1. CASE Forwards(n)
      BY <1>2, <1>3, <2>1, AllocationFacts
    <2>2. CASE ~Forwards(n)
      <3>1. 0 \in 0 .. Len(topologies) /\ 0 \in 0 .. Len(smes)
        BY <1>2
      <3> QED BY <1>3, <2>2, <3>1
    <2> QED BY <2>1, <2>2
  <1>5. T \in Nat /\ S \in Nat
    BY <1>2, <1>4
  <1> HIDE DEF header, sent
  <1>6. /\ header.topologies \in 0 .. T /\ header.smes \in 0 .. S
        /\ header.packets \in 1 .. MaxPackets
        /\ DOMAIN sent = 0 .. header.packets
        /\ sent[0] = [topologies |-> 0, smes |-> 0]
        /\ sent[header.packets] = [topologies |-> header.topologies, smes |-> header.smes]
        /\ \A p \in 0 .. header.packets :
              sent[p].topologies \in 0 .. header.topologies /\ sent[p].smes \in 0 .. header.smes
        /\ \A p \in 1 .. header.packets : Acceptable(sent, p, header.topologies, header.smes)
    BY <1>4, <1>5, LayoutAgrees DEF sent
  <1>7. header.topologies \in 0 .. Len(topologies) /\ header.smes \in 0 .. Len(smes)
    BY <1>2, <1>4, <1>5, <1>6
  <1>8. /\ load.topologies = SubSeq(topologies, 1, header.topologies)
        /\ load.smes = SubSeq(smes, 1, header.smes)
    BY <1>3, <1>6
  <1>9. /\ load.topologies \in Queue(Ids, Topology) /\ Len(load.topologies) = header.topologies
        /\ load.smes \in Queue(Smes, Smes) /\ Len(load.smes) = header.smes
        /\ \A i \in 1 .. header.smes : load.smes[i] = smes[i]
    BY <1>1, <1>7, <1>8, TakenAndLeft
  <1>10. ASSUME NEW k \in 0 .. header.packets PROVE Used(load, k) = k
    <2>1. k \in Nat /\ \A q \in 1 .. k : q \in 1 .. header.packets
      BY <1>6
    <2>2. \A q \in 1 .. k : ~Refused(load, q)
      BY <1>3, <1>6, <2>1 DEF Refused, header
    <2>3. {p - 1 : p \in {q \in 1 .. k : Refused(load, q)}} \cup {k} = {k}
      BY <2>2
    <2>4. Min({k}) = k
      <3>1. {k} \subseteq Nat /\ {k} # {} /\ k \in Nat
        BY <2>1
      <3>2. Min({k}) \in {k}
        BY <3>1, MinFacts
      <3> QED BY <3>2
    <2> QED BY <2>3, <2>4 DEF Used
  <1>11. \A p \in 0 .. header.packets : /\ load.sent[p].topologies \in 0 .. Len(load.topologies)
                                         /\ load.sent[p].smes \in 0 .. Len(load.smes)
    BY <1>3, <1>6, <1>9
  <1>12. load.sent[0].smes = 0 /\ DOMAIN load.sent = 0 .. header.packets
    BY <1>3, <1>6
  <1> QED BY <1>6, <1>7, <1>8, <1>9, <1>10, <1>11, <1>12 DEF header, topologies, smes

-----------------------------------------------------------------------------
(***************************************************************************)
(* An uplink slot.                                                         *)
(***************************************************************************)
Loads == [s \in Talkers |-> Load(s)]

HasFrom(assignee, n) == n \in Hearing /\ assignee[Heard(n)] = n

Wanted(assignee, n) ==
    CASE n \notin Hearing -> 0
      [] HasFrom(assignee, n) -> Loads[Heard(n)].header.packets
      [] OTHER -> 1

UsedOf(heard) ==
    [n \in Listeners |-> IF n \in Hearing THEN Used(Loads[Heard(n)], heard[n]) ELSE 0]

Takes(assignee, heard, n) == n \in Listeners /\ HasFrom(assignee, n) /\ UsedOf(heard)[n] > 0

Sends(n) == n \in Talkers /\ Forwards(n)

TopologiesOf(assignee, heard) ==
    [n \in Nodes |->
        CASE n = 0 /\ n \in Talkers -> Enqueue(topologyQueue[0], 0, TopologyOf(table[0]))
          [] Sends(n) -> Dequeue(topologyQueue[n], Len(Loads[n].topologies))
          [] Takes(assignee, heard, n) ->
               TopologiesAfter(n, Heard(n), Loads[Heard(n)], UsedOf(heard)[n])
          [] OTHER -> topologyQueue[n]]

SmesOf(assignee, heard) ==
    [n \in Nodes |->
        CASE Sends(n) -> Dequeue(Collected(n), Len(Loads[n].smes))
          [] Takes(assignee, heard, n) -> SmesAfter(n, Loads[Heard(n)], UsedOf(heard)[n])
          [] OTHER -> smeQueue[n]]

InTheAir(assignee, heard, s) ==
    IF assignee[s] \in Hearing /\ Heard(assignee[s]) = s THEN heard[assignee[s]] ELSE 0

LostOf(assignee, heard, s) ==
    KeysOf(SubSeq(Loads[s].smes, Loads[s].sent[InTheAir(assignee, heard, s)].smes + 1,
                  Len(Loads[s].smes)))

\* What an uplink slot does, when the talkers choose these assignees and the
\* listeners hear so many packets.
Slot(assignee, heard) ==
    /\ \A s \in Talkers : assignee[s] \in Assignees(s)
    /\ \A n \in Listeners : heard[n] <= Wanted(assignee, n)
    /\ faults' = IF \A n \in Listeners : heard[n] = Wanted(assignee, n) THEN faults ELSE faults + 1
    /\ faults' <= MaxFaults
    /\ table' = [n \in Nodes |->
          IF n \in Listeners THEN TableAfter(n, UsedOf(heard)[n] > 0) ELSE table[n]]
    /\ topologyQueue' = [TopologiesOf(assignee, heard) EXCEPT ![0] = <<>>]
    /\ smeQueue' = [SmesOf(assignee, heard) EXCEPT ![0] = <<>>]
    /\ managerQueue' = [n \in Nodes |-> IF n = 0 \/ Sends(n) THEN <<>> ELSE managerQueue[n]]
    /\ arrived' = arrived \cup KeysOf(SmesOf(assignee, heard)[0]) \cup KeysOf(managerQueue[0])
    /\ dropped' = dropped \cup UNION {LostOf(assignee, heard, s) : s \in Talkers}

LEMMA UplinkEffect ==
    ASSUME Uplink
    PROVE  /\ hop' = hop
           /\ \E assignee \in [Talkers -> Nodes], heard \in [Listeners -> 0 .. MaxPackets] :
                 Slot(assignee, heard)
  <1>1. hop' = hop
    BY DEF Uplink
  <1>2. \E assignee \in [Talkers -> Nodes], heard \in [Listeners -> 0 .. MaxPackets] :
           Slot(assignee, heard)
    <2>1. PICK assignee \in [Talkers -> Nodes], heard \in [Listeners -> 0 .. MaxPackets] :
          LET load == [s \in Talkers |-> Load(s)]
              hasFrom(n) == n \in Hearing /\ assignee[Heard(n)] = n
              wanted(n) == CASE n \notin Hearing -> 0
                             [] hasFrom(n) -> load[Heard(n)].header.packets
                             [] OTHER -> 1
              used == [n \in Listeners |->
                          IF n \in Hearing THEN Used(load[Heard(n)], heard[n]) ELSE 0]
              takes(n) == n \in Listeners /\ hasFrom(n) /\ used[n] > 0
              sends(n) == n \in Talkers /\ Forwards(n)
              topologies == [n \in Nodes |->
                  CASE n = 0 /\ n \in Talkers -> Enqueue(topologyQueue[0], 0, TopologyOf(table[0]))
                    [] sends(n) -> Dequeue(topologyQueue[n], Len(load[n].topologies))
                    [] takes(n) -> TopologiesAfter(n, Heard(n), load[Heard(n)], used[n])
                    [] OTHER -> topologyQueue[n]]
              smes == [n \in Nodes |->
                  CASE sends(n) -> Dequeue(Collected(n), Len(load[n].smes))
                    [] takes(n) -> SmesAfter(n, load[Heard(n)], used[n])
                    [] OTHER -> smeQueue[n]]
              lost(s) == LET inTheAir == IF assignee[s] \in Hearing /\ Heard(assignee[s]) = s
                                         THEN heard[assignee[s]] ELSE 0
                         IN  KeysOf(SubSeq(load[s].smes, load[s].sent[inTheAir].smes + 1,
                                           Len(load[s].smes)))
          IN  /\ \A s \in Talkers : assignee[s] \in Assignees(s)
              /\ \A n \in Listeners : heard[n] <= wanted(n)
              /\ faults' = IF \A n \in Listeners : heard[n] = wanted(n)
                           THEN faults ELSE faults + 1
              /\ faults' <= MaxFaults
              /\ table' = [n \in Nodes |->
                    IF n \in Listeners THEN TableAfter(n, used[n] > 0) ELSE table[n]]
              /\ topologyQueue' = [topologies EXCEPT ![0] = <<>>]
              /\ graph' = FoldLeft(Report, graph, topologies[0])
              /\ smeQueue' = [smes EXCEPT ![0] = <<>>]
              /\ managerQueue' = [n \in Nodes |->
                    IF n = 0 \/ sends(n) THEN <<>> ELSE managerQueue[n]]
              /\ arrived' = arrived \cup KeysOf(smes[0]) \cup KeysOf(managerQueue[0])
              /\ dropped' = dropped \cup UNION {lost(s) : s \in Talkers}
      BY DEF Uplink
    <2>2. Slot(assignee, heard)
      BY <2>1 DEF Slot, Loads, HasFrom, Wanted, UsedOf, Takes, Sends, TopologiesOf, SmesOf,
           InTheAir, LostOf
    <2> QED BY <2>2
  <1> QED BY <1>1, <1>2

LEMMA HearingFacts ==
    ASSUME UplinkInv, NEW n \in Hearing
    PROVE  /\ n \in Nodes /\ n \in Listeners /\ n \notin Talkers
           /\ Heard(n) \in Talkers /\ Heard(n) \in Nodes \ {n} /\ InRange(Heard(n), n)
           /\ nextNode[n] = Heard(n)
  <1>1. n \in Nodes /\ n \in Listeners /\ Cardinality(Audible(n)) = 1
    BY DEF Hearing, Listeners
  <1>2. Audible(n) # {}
    BY <1>1, FS_EmptySet
  <1>3. Heard(n) \in Audible(n)
    BY <1>2 DEF Heard
  <1>4. Heard(n) \in Talkers /\ InRange(Heard(n), n)
    BY <1>3 DEF Audible
  <1> DEFINE s == Heard(n)
  <1> HIDE DEF s
  <1>5. s \in Nodes /\ s # n /\ nextNode[s] = s /\ mode[s] # "lost"
    BY <1>4 DEF Talkers, InRange, s
  <1>6. mode[n] # "lost" /\ n \notin Talkers
    BY <1>1 DEF Listeners, Talkers
  <1>7. nextNode[n] = nextNode[s]
    BY <1>1, <1>5, <1>6 DEF UplinkInv, RoundInv
  <1> QED BY <1>1, <1>4, <1>5, <1>6, <1>7 DEF s

\* A listener uses every packet that it hears and waits for.
LEMMA UsedFacts ==
    ASSUME UplinkInv, NEW assignee, NEW heard \in [Listeners -> 0 .. MaxPackets],
           \A m \in Listeners : heard[m] <= Wanted(assignee, m),
           NEW n \in Hearing
    PROVE  /\ UsedOf(heard)[n] = heard[n]
           /\ heard[n] \in 0 .. Load(Heard(n)).header.packets
           /\ Loads[Heard(n)] = Load(Heard(n))
  <1>1. n \in Listeners /\ Heard(n) \in Talkers /\ Heard(n) \in Nodes
    BY HearingFacts
  <1>2. Loads[Heard(n)] = Load(Heard(n))
    BY <1>1 DEF Loads
  <1> DEFINE load == Load(Heard(n))
             k == heard[n]
  <1> HIDE DEF load, k
  <1>3. load.header.packets \in 1 .. MaxPackets /\ \A i \in 0 .. load.header.packets : Used(load, i) = i
    BY <1>1, LoadFacts DEF load
  <1>4. k \in 0 .. MaxPackets /\ k <= Wanted(assignee, n)
    BY <1>1 DEF k
  <1>5. Wanted(assignee, n) \in {load.header.packets, 1}
    BY <1>2 DEF Wanted, load
  <1>6. MaxPackets \in Nat
    BY MessageAssumption
  <1>7. k \in 0 .. load.header.packets
    BY <1>3, <1>4, <1>5, <1>6
  <1>8. UsedOf(heard)[n] = Used(load, k)
    BY <1>1, <1>2 DEF UsedOf, load, k
  <1> QED BY <1>2, <1>3, <1>7, <1>8 DEF load, k

\* What an assignee that hears a packet does with the SMEs in the first ones.
LEMMA SmesAfterFacts ==
    ASSUME UplinkInv, NEW n \in Nodes, NEW s \in Nodes, NEW used \in 0 .. Load(s).header.packets
    PROVE  /\ SmesAfter(n, Load(s), used) \in Queue(Smes, Smes)
           /\ KeysOf(smeQueue[n]) \subseteq KeysOf(SmesAfter(n, Load(s), used))
           /\ \A i \in 1 .. Load(s).sent[used].smes :
                 Collected(s)[i].key \in KeysOf(SmesAfter(n, Load(s), used))
  <1> DEFINE load == Load(s)
             k == load.sent[used].smes
             taken == SubSeq(load.smes, 1, k)
  <1>1. /\ load.smes \in Queue(Smes, Smes) /\ k \in 0 .. Len(load.smes)
        /\ \A i \in 1 .. Len(load.smes) : load.smes[i] = Collected(s)[i]
    BY LoadFacts
  <1> HIDE DEF load, k
  <1>2. /\ taken \in Queue(Smes, Smes) /\ Len(taken) = k
        /\ \A i \in 1 .. k : taken[i] = load.smes[i]
    BY <1>1, TakenAndLeft
  <1>3. DOMAIN taken = 1 .. k /\ Len(load.smes) \in Nat
    BY <1>1, <1>2, QueueFacts
  <1>4. \A i \in 1 .. k : taken[i] = Collected(s)[i]
    BY <1>1, <1>2, <1>3
  <1> HIDE DEF taken
  <1>5. \A i \in 1 .. k : Collected(s)[i].key \in KeysOf(taken)
    BY <1>3, <1>4 DEF KeysOf
  <1>6. smeQueue[n] \in Queue(Smes, Smes)
    BY DEF UplinkInv, UplinkType
  <1>7. SmesAfter(n, load, used) = EnqueueInOrder(smeQueue[n], taken)
    BY DEF SmesAfter, taken, k
  <1>8. /\ SmesAfter(n, load, used) \in Queue(Smes, Smes)
        /\ KeysOf(SmesAfter(n, load, used)) = KeysOf(smeQueue[n]) \cup KeysOf(taken)
    BY <1>2, <1>6, <1>7, EnqueueInOrderFacts
  <1> QED BY <1>5, <1>8 DEF load, k

LEMMA TopologiesAfterFacts ==
    ASSUME UplinkInv, NEW n \in Nodes, NEW s \in Nodes, NEW used \in 0 .. Load(s).header.packets
    PROVE  TopologiesAfter(n, s, Load(s), used) \in Queue(Ids, Topology)
  <1> DEFINE load == Load(s)
             k == load.sent[used].topologies
             taken == SubSeq(load.topologies, 1, k)
             own == Enqueue(topologyQueue[n], nextNode[n], TopologyOf(table[s]))
  <1>1. load.topologies \in Queue(Ids, Topology) /\ k \in 0 .. Len(load.topologies)
    BY LoadFacts
  <1> HIDE DEF load, k
  <1>2. taken \in Queue(Ids, Topology)
    BY <1>1, TakenAndLeft
  <1>3. /\ topologyQueue[n] \in Queue(Ids, Topology) /\ nextNode[n] \in Ids
        /\ TopologyOf(table[s]) \in Topology
    BY TopologyOfFacts DEF UplinkInv, UplinkType, RoundInv
  <1>4. own \in Queue(Ids, Topology)
    BY <1>3, EnqueueFacts
  <1> HIDE DEF own, taken
  <1>5. TopologiesAfter(n, s, load, used) = EnqueueInOrder(own, taken)
    BY DEF TopologiesAfter, own, taken, k
  <1> QED BY <1>2, <1>4, <1>5, EnqueueInOrderFacts DEF load

LEMMA TableAfterFacts ==
    ASSUME UplinkInv, NEW n \in Listeners, NEW received \in BOOLEAN, received => n \in Hearing
    PROVE  GoodTable(TableAfter(n, received), n)
  <1>1. n \in Nodes /\ nextNode[n] \in Ids \ {n} /\ GoodTable(table[n], n)
    BY DEF Listeners, UplinkInv, UplinkType, RoundInv
  <1>2. CASE received
    <2> DEFINE s == Heard(n)
               bad == s # 0 /\ table[s].badAssignee
    <2>1. s \in Nodes \ {n} /\ nextNode[n] = s
      BY <1>2, HearingFacts
    <2>2. Rssi[s][n] \in Int
      BY <1>1, <2>1, UplinkAssumption
    <2>3. bad \in BOOLEAN
      OBVIOUS
    <2>4. TableAfter(n, received) = ReceivedMessage(table[n], n, nextNode[n], hop[s], Rssi[s][n],
                                                    bad, TopologyOf(table[s]))
      BY <1>2 DEF TableAfter
    <2> HIDE DEF s, bad
    <2> QED BY <1>1, <2>1, <2>2, <2>3, <2>4, ReceivedMessageFacts
  <1>3. CASE ~received
    BY <1>1, <1>3, MissedMessageFacts DEF TableAfter
  <1> QED BY <1>2, <1>3

\* What is left of a queue whose first elements are sent.
LEMMA SendsFacts ==
    ASSUME UplinkInv, NEW n \in Nodes, Sends(n)
    PROVE  /\ Loads[n] = Load(n)
           /\ Dequeue(Collected(n), Len(Load(n).smes)) \in Queue(Smes, Smes)
           /\ \A i \in Len(Load(n).smes) + 1 .. Len(Collected(n)) :
                 Collected(n)[i].key \in KeysOf(Dequeue(Collected(n), Len(Load(n).smes)))
           /\ Dequeue(topologyQueue[n], Len(Load(n).topologies)) \in Queue(Ids, Topology)
  <1>1. Loads[n] = Load(n)
    BY DEF Loads, Sends
  <1>2. Len(Load(n).smes) \in 0 .. Len(Collected(n)) /\ Collected(n) \in Queue(Smes, Smes)
    BY LoadFacts, CollectedFacts
  <1>3. Len(Load(n).topologies) \in 0 .. Len(topologyQueue[n])
    BY LoadFacts
  <1>4. topologyQueue[n] \in Queue(Ids, Topology)
    BY DEF UplinkInv, UplinkType
  <1>5. Dequeue(topologyQueue[n], Len(Load(n).topologies)) \in Queue(Ids, Topology)
    BY <1>3, <1>4, TakenAndLeft
  <1> QED BY <1>1, <1>2, <1>5, TakenAndLeft

\* The queues after a slot: node by node.
LEMMA SmesOfFacts ==
    ASSUME UplinkInv, NEW assignee, NEW heard \in [Listeners -> 0 .. MaxPackets],
           \A m \in Listeners : heard[m] <= Wanted(assignee, m),
           NEW n \in Nodes, NEW q, q = SmesOf(assignee, heard)[n]
    PROVE  /\ q \in Queue(Smes, Smes)
           /\ Sends(n) => q = Dequeue(Collected(n), Len(Load(n).smes))
           /\ Takes(assignee, heard, n) => q = SmesAfter(n, Load(Heard(n)), heard[n])
           /\ ~Sends(n) => KeysOf(smeQueue[n]) \subseteq KeysOf(q)
  <1>1. CASE Sends(n)
    <2>1. ~Takes(assignee, heard, n)
      BY <1>1 DEF Sends, Takes, Talkers, Listeners
    <2>2. q = Dequeue(Collected(n), Len(Loads[n].smes))
      BY <1>1, <2>1 DEF SmesOf
    <2>3. Loads[n] = Load(n) /\ Dequeue(Collected(n), Len(Load(n).smes)) \in Queue(Smes, Smes)
      BY <1>1, SendsFacts
    <2>4. q = Dequeue(Collected(n), Len(Load(n).smes))
      BY <2>2, <2>3
    <2> QED BY <1>1, <2>1, <2>3, <2>4
  <1>2. CASE ~Sends(n) /\ Takes(assignee, heard, n)
    <2>1. n \in Hearing
      BY <1>2 DEF Takes, HasFrom
    <2>2. UsedOf(heard)[n] = heard[n] /\ heard[n] \in 0 .. Load(Heard(n)).header.packets
          /\ Loads[Heard(n)] = Load(Heard(n)) /\ Heard(n) \in Nodes
      BY <2>1, UsedFacts, HearingFacts
    <2>3. q = SmesAfter(n, Loads[Heard(n)], UsedOf(heard)[n])
      BY <1>2 DEF SmesOf
    <2>4. q = SmesAfter(n, Load(Heard(n)), heard[n])
      BY <2>2, <2>3
    <2> QED BY <1>2, <2>2, <2>4, SmesAfterFacts
  <1>3. CASE ~Sends(n) /\ ~Takes(assignee, heard, n)
    <2>1. q = smeQueue[n] /\ smeQueue[n] \in Queue(Smes, Smes)
      BY <1>3 DEF SmesOf, UplinkInv, UplinkType
    <2> QED BY <1>3, <2>1
  <1> QED BY <1>1, <1>2, <1>3

LEMMA TopologiesOfFacts ==
    ASSUME UplinkInv, NEW assignee, NEW heard \in [Listeners -> 0 .. MaxPackets],
           \A m \in Listeners : heard[m] <= Wanted(assignee, m),
           NEW n \in Nodes \ {0}
    PROVE  TopologiesOf(assignee, heard)[n] \in Queue(Ids, Topology)
  <1> DEFINE q == TopologiesOf(assignee, heard)[n]
  <1>1. CASE Sends(n)
    <2>1. q = Dequeue(topologyQueue[n], Len(Loads[n].topologies))
      <3>1. ~Takes(assignee, heard, n)
        BY <1>1 DEF Sends, Takes, Talkers, Listeners
      <3> QED BY <1>1, <3>1 DEF TopologiesOf
    <2>2. /\ Loads[n] = Load(n)
          /\ Dequeue(topologyQueue[n], Len(Load(n).topologies)) \in Queue(Ids, Topology)
      BY <1>1, SendsFacts
    <2> HIDE DEF q
    <2>3. q \in Queue(Ids, Topology)
      BY <2>1, <2>2
    <2> QED BY <2>3 DEF q
  <1>2. CASE ~Sends(n) /\ Takes(assignee, heard, n)
    <2>1. n \in Hearing
      BY <1>2 DEF Takes, HasFrom
    <2>2. UsedOf(heard)[n] = heard[n] /\ heard[n] \in 0 .. Load(Heard(n)).header.packets
          /\ Loads[Heard(n)] = Load(Heard(n)) /\ Heard(n) \in Nodes
      BY <2>1, UsedFacts, HearingFacts
    <2>3. q = TopologiesAfter(n, Heard(n), Loads[Heard(n)], UsedOf(heard)[n])
      BY <1>2 DEF TopologiesOf
    <2>4. q = TopologiesAfter(n, Heard(n), Load(Heard(n)), heard[n])
      BY <2>2, <2>3
    <2> HIDE DEF q
    <2> QED BY <2>2, <2>4, TopologiesAfterFacts DEF q
  <1>3. CASE ~Sends(n) /\ ~Takes(assignee, heard, n)
    <2>1. q = topologyQueue[n] /\ topologyQueue[n] \in Queue(Ids, Topology)
      BY <1>3 DEF TopologiesOf, UplinkInv, UplinkType
    <2> QED BY <2>1
  <1> QED BY <1>1, <1>2, <1>3

LEMMA UplinkTypeUplink ==
    ASSUME UplinkInv, Uplink
    PROVE  UplinkType'
  <1>1. hop' = hop
    BY UplinkEffect
  <1>2. PICK assignee \in [Talkers -> Nodes], heard \in [Listeners -> 0 .. MaxPackets] :
           Slot(assignee, heard)
    BY UplinkEffect
  <1>3. UplinkType
    BY DEF UplinkInv
  <1>4. \A m \in Listeners : heard[m] <= Wanted(assignee, m)
    BY <1>2 DEF Slot
  <1>5. hop' \in [Nodes -> 0 .. MaxHops]
    BY <1>1, <1>3 DEF UplinkType
  <1>6. table' = [n \in Nodes |-> table'[n]] /\ \A n \in Nodes : GoodTable(table'[n], n)
    <2>1. table' = [n \in Nodes |->
              IF n \in Listeners THEN TableAfter(n, UsedOf(heard)[n] > 0) ELSE table[n]]
      BY <1>2 DEF Slot
    <2>2. ASSUME NEW n \in Nodes PROVE GoodTable(table'[n], n)
      <3>1. CASE n \in Listeners
        <4> DEFINE received == UsedOf(heard)[n] > 0
        <4>1. received \in BOOLEAN
          OBVIOUS
        <4>2. received => n \in Hearing
          BY <3>1 DEF UsedOf
        <4>3. table'[n] = TableAfter(n, received)
          BY <2>1, <3>1
        <4> HIDE DEF received
        <4> QED BY <3>1, <4>1, <4>2, <4>3, TableAfterFacts
      <3>2. CASE n \notin Listeners
        BY <1>3, <2>1, <3>2 DEF UplinkType
      <3> QED BY <3>1, <3>2
    <2> QED BY <2>1, <2>2
  <1>7. topologyQueue' \in [Nodes -> Queue(Ids, Topology)]
    <2>1. topologyQueue' = [TopologiesOf(assignee, heard) EXCEPT ![0] = <<>>]
      BY <1>2 DEF Slot
    <2>2. topologyQueue' = [n \in Nodes |-> IF n = 0 THEN <<>> ELSE TopologiesOf(assignee, heard)[n]]
      <3> DEFINE f == TopologiesOf(assignee, heard)
      <3>1. f = [n \in Nodes |-> f[n]]
        BY DEF TopologiesOf
      <3> HIDE DEF f
      <3>2. [f EXCEPT ![0] = <<>>] = [n \in Nodes |-> IF n = 0 THEN <<>> ELSE f[n]]
        BY <3>1
      <3> QED BY <2>1, <3>2 DEF f
    <2>3. ASSUME NEW n \in Nodes \ {0} PROVE TopologiesOf(assignee, heard)[n] \in Queue(Ids, Topology)
      BY <1>4, TopologiesOfFacts
    <2>4. <<>> \in Queue(Ids, Topology)
      BY EmptyQueue
    <2> QED BY <2>2, <2>3, <2>4
  <1>8. smeQueue' \in [Nodes -> Queue(Smes, Smes)]
    <2>1. smeQueue' = [SmesOf(assignee, heard) EXCEPT ![0] = <<>>]
      BY <1>2 DEF Slot
    <2>2. smeQueue' = [n \in Nodes |-> IF n = 0 THEN <<>> ELSE SmesOf(assignee, heard)[n]]
      <3> DEFINE f == SmesOf(assignee, heard)
      <3>1. f = [n \in Nodes |-> f[n]]
        BY DEF SmesOf
      <3> HIDE DEF f
      <3>2. [f EXCEPT ![0] = <<>>] = [n \in Nodes |-> IF n = 0 THEN <<>> ELSE f[n]]
        BY <3>1
      <3> QED BY <2>1, <3>2 DEF f
    <2>3. ASSUME NEW n \in Nodes \ {0} PROVE SmesOf(assignee, heard)[n] \in Queue(Smes, Smes)
      BY <1>4, SmesOfFacts
    <2>4. <<>> \in Queue(Smes, Smes)
      BY EmptyQueue
    <2> QED BY <2>2, <2>3, <2>4
  <1>9. managerQueue' \in [Nodes -> Queue(Smes, Smes)]
    BY <1>2, <1>3, EmptyQueue DEF Slot, UplinkType
  <1>10. arrived' \subseteq Smes
    <2>1. 0 \in Nodes
      BY UplinkAssumption
    <2>2. SmesOf(assignee, heard)[0] \in Queue(Smes, Smes) /\ managerQueue[0] \in Queue(Smes, Smes)
      BY <1>3, <1>4, <2>1, SmesOfFacts DEF UplinkType
    <2>3. KeysOf(SmesOf(assignee, heard)[0]) \subseteq Smes /\ KeysOf(managerQueue[0]) \subseteq Smes
      BY <2>2, KeysOfFacts
    <2>4. arrived \subseteq Smes
      BY <1>3 DEF UplinkType
    <2>5. arrived' = arrived \cup KeysOf(SmesOf(assignee, heard)[0]) \cup KeysOf(managerQueue[0])
      BY <1>2 DEF Slot
    <2> QED BY <2>3, <2>4, <2>5
  <1>11. dropped' \subseteq Smes
    <2>1. ASSUME NEW s \in Talkers PROVE LostOf(assignee, heard, s) \subseteq Smes
      <3> DEFINE smes == Loads[s].smes
                 k == Loads[s].sent[InTheAir(assignee, heard, s)].smes
                 left == SubSeq(smes, k + 1, Len(smes))
      <3>1. s \in Nodes /\ Loads[s] = Load(s)
        BY DEF Loads, Talkers
      <3>2. smes \in Queue(Smes, Smes)
        BY <3>1, LoadFacts
      <3>3. k \in 0 .. Len(smes)
        <4> DEFINE p == InTheAir(assignee, heard, s)
        <4>1. p \in 0 .. Load(s).header.packets
          <5>1. CASE assignee[s] \in Hearing /\ Heard(assignee[s]) = s
            <6>1. heard[assignee[s]] \in 0 .. Load(Heard(assignee[s])).header.packets
              BY <1>4, <5>1, UsedFacts
            <6> QED BY <5>1, <6>1 DEF InTheAir
          <5>2. CASE ~(assignee[s] \in Hearing /\ Heard(assignee[s]) = s)
            <6>1. Load(s).header.packets \in 1 .. MaxPackets
              BY <3>1, LoadFacts
            <6>2. p = 0
              BY <5>2 DEF InTheAir
            <6> QED BY <6>1, <6>2, MessageAssumption
          <5> QED BY <5>1, <5>2
        <4> HIDE DEF p
        <4>2. Load(s).sent[p].smes \in 0 .. Len(Load(s).smes)
          BY <3>1, <4>1, LoadFacts
        <4> QED BY <3>1, <4>2 DEF p
      <3> HIDE DEF smes, k
      <3>4. left \in Queue(Smes, Smes)
        BY <3>2, <3>3, TakenAndLeft DEF Dequeue
      <3> HIDE DEF left
      <3>5. KeysOf(left) \subseteq Smes
        BY <3>4, KeysOfFacts
      <3> QED BY <3>5 DEF LostOf, left, smes, k
    <2>2. dropped \subseteq Smes /\ dropped' = dropped \cup UNION {LostOf(assignee, heard, s) : s \in Talkers}
      BY <1>2, <1>3 DEF Slot, UplinkType
    <2> QED BY <2>1, <2>2
  <1>12. faults' \in 0 .. MaxFaults
    <2>1. faults \in 0 .. MaxFaults /\ MaxFaults \in Nat
      BY <1>3, UplinkAssumption DEF UplinkType
    <2>2. (faults' = faults \/ faults' = faults + 1) /\ faults' <= MaxFaults
      BY <1>2 DEF Slot
    <2> QED BY <2>1, <2>2
  <1> QED BY <1>5, <1>6, <1>7, <1>8, <1>9, <1>10, <1>11, <1>12 DEF UplinkType

-----------------------------------------------------------------------------
(***************************************************************************)
(* The other steps.                                                        *)
(***************************************************************************)
\* What a timesync does to the queues and the tables, when it floods the
\* network as in f and leaves the clocks as in `after'.
Hearers(f) == {n \in Dynamic : f[n] # NoHop}

Joins(f) == {n \in Hearers(f) : mode[n] = "lost"}

Loses(after) == {n \in Dynamic : mode[n] # "lost" /\ after[n] = "lost"}

Flood(f, after) ==
    /\ faults' = faults + Cardinality(Unlucky(f))
    /\ faults' <= MaxFaults
    /\ managerQueue' = [n \in Nodes |-> IF n \in Loses(after) THEN <<>> ELSE managerQueue[n]]
    /\ dropped' = dropped \cup KeysIn(managerQueue, Loses(after)) \cup KeysIn(smeQueue, Joins(f))
    /\ hop' = [n \in Nodes |-> IF n \in Joins(f) THEN f[n] ELSE hop[n]]
    /\ table' = [n \in Nodes |-> IF n \in Joins(f) THEN Clear(table[n], f[n]) ELSE table[n]]
    /\ topologyQueue' = [n \in Nodes |-> IF n \in Joins(f) THEN <<>> ELSE topologyQueue[n]]
    /\ smeQueue' = [n \in Nodes |-> IF n \in Joins(f) THEN <<>> ELSE smeQueue[n]]
    /\ UNCHANGED arrived

LEMMA TimesyncEffect ==
    ASSUME Timesync
    PROVE  \E f \in Floods, after \in [Nodes -> {"synced", "degraded", "lost"}] : Flood(f, after)
  <1>1. UNCHANGED arrived
    BY DEF Timesync, masterVars
  <1>2. PICK f \in Floods, after \in [Nodes -> {"synced", "degraded", "lost"}] :
           LET hears == {n \in Dynamic : f[n] # NoHop}
               joins == {n \in hears : mode[n] = "lost"}
               loses == {n \in Dynamic : mode[n] # "lost" /\ after[n] = "lost"}
           IN  /\ faults' = faults + Cardinality(Unlucky(f))
               /\ faults' <= MaxFaults
               /\ managerQueue' = [n \in Nodes |-> IF n \in loses THEN <<>> ELSE managerQueue[n]]
               /\ dropped' = dropped \cup KeysIn(managerQueue, loses) \cup KeysIn(smeQueue, joins)
               /\ hop' = [n \in Nodes |-> IF n \in joins THEN f[n] ELSE hop[n]]
               /\ table' = [n \in Nodes |-> IF n \in joins THEN Clear(table[n], f[n]) ELSE table[n]]
               /\ topologyQueue' = [n \in Nodes |-> IF n \in joins THEN <<>> ELSE topologyQueue[n]]
               /\ smeQueue' = [n \in Nodes |-> IF n \in joins THEN <<>> ELSE smeQueue[n]]
    BY DEF Timesync
  <1>3. Flood(f, after)
    BY <1>1, <1>2 DEF Flood, Hearers, Joins, Loses
  <1> QED BY <1>3

LEMMA UplinkTypeTimesync ==
    ASSUME UplinkInv, Timesync
    PROVE  UplinkType'
  <1>1. PICK f \in Floods, after \in [Nodes -> {"synced", "degraded", "lost"}] : Flood(f, after)
    BY TimesyncEffect
  <1>2. UplinkType
    BY DEF UplinkInv
  <1>3. \A n \in Joins(f) : n \in Nodes /\ f[n] \in 0 .. MaxHops
    BY DEF Joins, Hearers, Dynamic, Floods
  <1>4. hop' \in [Nodes -> 0 .. MaxHops]
    BY <1>1, <1>2, <1>3 DEF Flood, UplinkType
  <1>5. table' = [n \in Nodes |-> table'[n]] /\ \A n \in Nodes : GoodTable(table'[n], n)
    <2>1. table' = [n \in Nodes |-> IF n \in Joins(f) THEN Clear(table[n], f[n]) ELSE table[n]]
      BY <1>1 DEF Flood
    <2>2. ASSUME NEW n \in Nodes PROVE GoodTable(table'[n], n)
      <3>1. GoodTable(table[n], n)
        BY <1>2 DEF UplinkType
      <3>2. n \in Joins(f) => GoodTable(Clear(table[n], f[n]), n)
        BY <1>3, <3>1, ClearFacts
      <3> QED BY <2>1, <3>1, <3>2
    <2> QED BY <2>1, <2>2
  <1>6. /\ topologyQueue' \in [Nodes -> Queue(Ids, Topology)]
        /\ smeQueue' \in [Nodes -> Queue(Smes, Smes)]
        /\ managerQueue' \in [Nodes -> Queue(Smes, Smes)]
    <2>1. <<>> \in Queue(Ids, Topology) /\ <<>> \in Queue(Smes, Smes)
      BY EmptyQueue
    <2> QED BY <1>1, <1>2, <2>1 DEF Flood, UplinkType
  <1>7. arrived' \subseteq Smes
    BY <1>1, <1>2 DEF Flood, UplinkType
  <1>8. dropped' \subseteq Smes
    <2>1. \A n \in Nodes : KeysOf(managerQueue[n]) \subseteq Smes /\ KeysOf(smeQueue[n]) \subseteq Smes
      BY <1>2, KeysOfFacts DEF UplinkType
    <2>2. Loses(after) \subseteq Nodes /\ Joins(f) \subseteq Nodes
      BY <1>3 DEF Loses, Dynamic
    <2>3. dropped \subseteq Smes
      BY <1>2 DEF UplinkType
    <2>4. dropped' = dropped \cup KeysIn(managerQueue, Loses(after)) \cup KeysIn(smeQueue, Joins(f))
      BY <1>1 DEF Flood
    <2>5. KeysIn(managerQueue, Loses(after)) \subseteq Smes /\ KeysIn(smeQueue, Joins(f)) \subseteq Smes
      BY <2>1, <2>2 DEF KeysIn
    <2> QED BY <2>3, <2>4, <2>5
  <1>9. faults' \in 0 .. MaxFaults
    <2>1. IsFiniteSet(Unlucky(f))
      <3>1. IsFiniteSet(Ids)
        <4>1. 0 \in Int /\ NodesCount - 1 \in Int
          BY NeighborAssumption
        <4> QED BY <4>1, FS_Interval DEF Ids
      <3>2. Unlucky(f) \subseteq Ids
        BY UplinkAssumption DEF Unlucky, Dynamic
      <3> QED BY <3>1, <3>2, FS_Subset
    <2>2. Cardinality(Unlucky(f)) \in Nat
      BY <2>1, FS_CardinalityType
    <2>3. faults \in Nat /\ MaxFaults \in Nat
      BY <1>2, UplinkAssumption DEF UplinkType
    <2>4. faults' = faults + Cardinality(Unlucky(f)) /\ faults' <= MaxFaults
      BY <1>1 DEF Flood
    <2> QED BY <2>2, <2>3, <2>4
  <1> QED BY <1>4, <1>5, <1>6, <1>7, <1>8, <1>9 DEF UplinkType

LEMMA UplinkTypeNext ==
    ASSUME UplinkInv, [Next]_vars
    PROVE  UplinkType'
  <1>1. CASE Timesync
    BY <1>1, UplinkTypeTimesync
  <1>2. CASE Downlink
    BY <1>2 DEF Downlink, queueVars, masterVars, UplinkInv, UplinkType
  <1>3. CASE Uplink
    BY <1>3, UplinkTypeUplink
  <1>4. ASSUME NEW x \in Smes, IssueSME(x) PROVE UplinkType'
    <2>1. Origin[x] \in Nodes
      BY UplinkAssumption
    <2>2. managerQueue[Origin[x]] \in Queue(Smes, Smes)
      BY <2>1 DEF UplinkInv, UplinkType
    <2>3. Enqueue(managerQueue[Origin[x]], x, x) \in Queue(Smes, Smes)
      BY <2>2, EnqueueFacts
    <2>4. managerQueue' \in [Nodes -> Queue(Smes, Smes)]
      BY <1>4, <2>3 DEF IssueSME, UplinkInv, UplinkType
    <2> QED BY <1>4, <2>4 DEF IssueSME, masterVars, UplinkInv, UplinkType
  <1>5. CASE UNCHANGED vars
    BY <1>5 DEF vars, queueVars, masterVars, UplinkInv, UplinkType
  <1> QED BY <1>1, <1>2, <1>3, <1>4, <1>5 DEF Next, MacStep

LEMMA UplinkTypeInit == Init => UplinkType
  <1>1. \A K, V : <<>> \in Queue(K, V)
    BY EmptyQueue
  <1>2. 0 \in 0 .. MaxHops /\ 0 \in 0 .. MaxFaults
    BY UplinkAssumption
  <1>3. \A n \in Nodes : GoodTable(NewTable(0), n)
    BY NewTableFacts
  <1> QED BY <1>1, <1>2, <1>3 DEF Init, UplinkType

LEMMA UplinkInvHolds == Spec => []UplinkInv
  <1>1. Init => UplinkInv
    BY RoundInit, UplinkTypeInit DEF UplinkInv
  <1>2. ASSUME UplinkInv, [Next]_vars PROVE UplinkInv'
    BY <1>2, RoundNext, UplinkTypeNext DEF UplinkInv
  <1> QED BY <1>1, <1>2, PTL DEF Spec

\* The types of what the nodes keep.  The queues hold SMEs that were issued and
\* topologies of known ids; a neighbor table lists as strong only what it lists
\* as weak too, never its own node, and its predecessors are nodes that exist,
\* each once, since an entry is replaced and not added a second time.
THEOREM UplinkTypeCorrect == Spec => []UplinkType
  <1>1. UplinkInv => UplinkType
    BY DEF UplinkInv
  <1> QED BY <1>1, UplinkInvHolds, PTL

-----------------------------------------------------------------------------
(***************************************************************************)
(* Custody.                                                                *)
(***************************************************************************)
\* CustodyIsPassedOn for one SME.
PassedOn(x) == (\E m \in Nodes : x \in Held(m)') \/ x \in arrived' \cup dropped'

\* The SMEs in a message that is sent: those in packets that the assignee hears
\* are in its queue, or the master has consumed them; the others are lost.
LEMMA SentIsPassedOn ==
    ASSUME UplinkInv,
           NEW assignee \in [Talkers -> Nodes], NEW heard \in [Listeners -> 0 .. MaxPackets],
           Slot(assignee, heard),
           NEW n \in Nodes, Sends(n),
           NEW i \in 1 .. Len(Load(n).smes)
    PROVE  PassedOn(Collected(n)[i].key)
  <1> DEFINE load == Load(n)
             a == assignee[n]
             p == InTheAir(assignee, heard, n)
             x == Collected(n)[i].key
  <1>1. n \in Talkers /\ Loads[n] = load /\ a \in Nodes
    BY SendsFacts DEF Sends
  <1>2. /\ load.smes \in Queue(Smes, Smes) /\ load.smes[i] = Collected(n)[i]
        /\ load.sent[0].smes = 0
        /\ \A k \in 0 .. load.header.packets : load.sent[k].smes \in 0 .. Len(load.smes)
        /\ load.header.packets \in 1 .. MaxPackets
    BY LoadFacts
  <1>3. \A m \in Listeners : heard[m] <= Wanted(assignee, m)
    BY DEF Slot
  <1>4. /\ p \in 0 .. load.header.packets
        /\ p > 0 => a \in Hearing /\ Heard(a) = n /\ heard[a] = p
    <2>1. CASE a \in Hearing /\ Heard(a) = n
      <3>1. heard[a] \in 0 .. load.header.packets
        BY <1>3, <2>1, UsedFacts
      <3> QED BY <2>1, <3>1 DEF InTheAir
    <2>2. CASE ~(a \in Hearing /\ Heard(a) = n)
      <3>1. p = 0
        BY <2>2 DEF InTheAir
      <3> HIDE DEF p
      <3> QED BY <1>2, <3>1, MessageAssumption
    <2> QED BY <2>1, <2>2
  <1> DEFINE k == load.sent[p].smes
  <1>5. k \in 0 .. Len(load.smes)
    BY <1>2, <1>4
  <1>6. CASE i > k
    <2> DEFINE left == SubSeq(load.smes, k + 1, Len(load.smes))
    <2>1. LostOf(assignee, heard, n) = KeysOf(left)
      BY <1>1 DEF LostOf
    <2>2. i \in k + 1 .. Len(load.smes)
      BY <1>5, <1>6
    <2> HIDE DEF k, load
    <2>3. load.smes[i].key \in KeysOf(left)
      BY <1>2, <1>5, <2>2, TakenAndLeft DEF Dequeue
    <2>4. x \in LostOf(assignee, heard, n)
      BY <1>2, <2>1, <2>3
    <2>5. dropped' = dropped \cup UNION {LostOf(assignee, heard, s) : s \in Talkers}
      BY DEF Slot
    <2>6. x \in dropped'
      BY <1>1, <2>4, <2>5
    <2> HIDE DEF x
    <2>7. PassedOn(x)
      BY <2>6 DEF PassedOn
    <2> QED BY <2>7 DEF x
  <1>7. CASE i <= k
    <2>1. p > 0
      <3>1. p # 0
        BY <1>2, <1>7
      <3> HIDE DEF p
      <3> QED BY <1>2, <1>4, <3>1
    <2>2. a \in Hearing /\ Heard(a) = n /\ heard[a] = p
      BY <1>4, <2>1
    <2>3. a \in Listeners /\ ~Sends(a)
      BY <2>2, HearingFacts DEF Sends
    <2>4. UsedOf(heard)[a] = heard[a]
      BY <1>3, <2>2, UsedFacts
    <2>5. Takes(assignee, heard, a)
      BY <2>1, <2>2, <2>3, <2>4 DEF Takes, HasFrom
    <2> DEFINE q == SmesOf(assignee, heard)[a]
    <2>6. q = SmesAfter(a, load, p)
      BY <1>1, <1>3, <2>2, <2>5, SmesOfFacts
    <2>7. i \in 1 .. k
      BY <1>5, <1>7
    <2>8. x \in KeysOf(q)
      <3> HIDE DEF p, q
      <3> QED BY <1>1, <1>4, <2>6, <2>7, SmesAfterFacts
    <2> HIDE DEF q, x
    <2>9. CASE a = 0
      <3>1. arrived' = arrived \cup KeysOf(SmesOf(assignee, heard)[0]) \cup KeysOf(managerQueue[0])
        BY DEF Slot
      <3>2. x \in arrived'
        BY <2>8, <2>9, <3>1 DEF q
      <3>3. PassedOn(x)
        BY <3>2 DEF PassedOn
      <3> QED BY <3>3 DEF x
    <2>10. CASE a # 0
      <3>1. smeQueue' = [SmesOf(assignee, heard) EXCEPT ![0] = <<>>]
        BY DEF Slot
      <3>2. smeQueue'[a] = q
        <4> DEFINE f == SmesOf(assignee, heard)
        <4>1. f = [m \in Nodes |-> f[m]]
          BY DEF SmesOf
        <4> HIDE DEF f
        <4> QED BY <1>1, <2>10, <3>1, <4>1 DEF f, q
      <3>3. x \in Held(a)'
        BY <2>8, <3>2 DEF Held
      <3>4. PassedOn(x)
        BY <1>1, <3>3 DEF PassedOn
      <3> QED BY <3>4 DEF x
    <2> QED BY <2>9, <2>10
  <1>8. i > k \/ i <= k
    <2>1. i \in Nat /\ k \in Nat
      BY <1>2, <1>5, QueueFacts
    <2> QED BY <2>1
  <1> QED BY <1>6, <1>7, <1>8

LEMMA CustodyUplink ==
    ASSUME UplinkInv, Uplink, NEW n \in Nodes, NEW x \in Held(n), x \notin Held(n)'
    PROVE  PassedOn(x)
  <1>1. PICK assignee \in [Talkers -> Nodes], heard \in [Listeners -> 0 .. MaxPackets] :
           Slot(assignee, heard)
    BY UplinkEffect
  <1>2. \A m \in Listeners : heard[m] <= Wanted(assignee, m)
    BY <1>1 DEF Slot
  <1> DEFINE q == SmesOf(assignee, heard)[n]
  <1>3. /\ smeQueue' = [m \in Nodes |-> IF m = 0 THEN <<>> ELSE SmesOf(assignee, heard)[m]]
        /\ managerQueue' = [m \in Nodes |-> IF m = 0 \/ Sends(m) THEN <<>> ELSE managerQueue[m]]
        /\ arrived' = arrived \cup KeysOf(SmesOf(assignee, heard)[0]) \cup KeysOf(managerQueue[0])
    <2> DEFINE f == SmesOf(assignee, heard)
    <2>1. f = [m \in Nodes |-> f[m]]
      BY DEF SmesOf
    <2>2. smeQueue' = [f EXCEPT ![0] = <<>>]
      BY <1>1 DEF Slot
    <2> HIDE DEF f
    <2>3. smeQueue' = [m \in Nodes |-> IF m = 0 THEN <<>> ELSE f[m]]
      BY <2>1, <2>2
    <2> QED BY <1>1, <2>3 DEF Slot, f
  <1>4. CASE Sends(n)
    <2> DEFINE k == Len(Load(n).smes)
               L == Len(Collected(n))
    <2>1. PICK i \in 1 .. L : x = Collected(n)[i].key
      <3>1. x \in KeysOf(Collected(n)) /\ DOMAIN Collected(n) = 1 .. L
        BY CollectedFacts, QueueFacts
      <3> QED BY <3>1 DEF KeysOf
    <2>2. k \in 0 .. L /\ L \in Nat
      BY LoadFacts, CollectedFacts, QueueFacts
    <2>3. CASE i <= k
      <3>1. i \in 1 .. k
        BY <2>2, <2>3
      <3> QED BY <1>1, <1>4, <2>1, <3>1, SentIsPassedOn
    <2>4. CASE i > k
      <3>1. i \in k + 1 .. L
        BY <2>2, <2>4
      <3>2. x \in KeysOf(Dequeue(Collected(n), k))
        BY <1>4, <2>1, <3>1, SendsFacts
      <3>3. q = Dequeue(Collected(n), k)
        BY <1>2, <1>4, SmesOfFacts
      <3>4. n # 0
        BY <1>4 DEF Sends, Forwards
      <3>5. smeQueue'[n] = q
        BY <1>3, <3>4
      <3> HIDE DEF q
      <3>6. x \in Held(n)'
        BY <3>2, <3>3, <3>5 DEF Held
      <3> QED BY <3>6
    <2>5. i <= k \/ i > k
      BY <2>2
    <2> QED BY <2>3, <2>4, <2>5
  <1>5. CASE ~Sends(n)
    <2>1. KeysOf(smeQueue[n]) \subseteq KeysOf(q)
      BY <1>2, <1>5, SmesOfFacts
    <2>2. x \in KeysOf(managerQueue[n]) \/ x \in KeysOf(smeQueue[n])
      BY DEF Held
    <2>3. CASE n = 0
      <3>1. x \in arrived'
        BY <1>3, <2>1, <2>2, <2>3
      <3> QED BY <3>1 DEF PassedOn
    <2>4. CASE n # 0
      <3>1. smeQueue'[n] = q /\ managerQueue'[n] = managerQueue[n]
        BY <1>3, <1>5, <2>4
      <3> HIDE DEF q
      <3>2. x \in Held(n)'
        BY <2>1, <2>2, <3>1 DEF Held
      <3> QED BY <3>2
    <2> QED BY <2>3, <2>4
  <1> QED BY <1>4, <1>5

LEMMA CustodyStep ==
    ASSUME UplinkInv, [Next]_vars, NEW n \in Nodes, NEW x \in Held(n), x \notin Held(n)'
    PROVE  PassedOn(x)
  <1>1. CASE Timesync
    <2>1. PICK f \in Floods, after \in [Nodes -> {"synced", "degraded", "lost"}] : Flood(f, after)
      BY <1>1, TimesyncEffect
    <2>2. managerQueue' = [m \in Nodes |-> IF m \in Loses(after) THEN <<>> ELSE managerQueue[m]]
      BY <2>1 DEF Flood
    <2>3. smeQueue' = [m \in Nodes |-> IF m \in Joins(f) THEN <<>> ELSE smeQueue[m]]
      BY <2>1 DEF Flood
    <2>4. \/ n \in Loses(after) /\ x \in KeysOf(managerQueue[n])
          \/ n \in Joins(f) /\ x \in KeysOf(smeQueue[n])
      BY <2>2, <2>3 DEF Held
    <2>5. x \in KeysIn(managerQueue, Loses(after)) \/ x \in KeysIn(smeQueue, Joins(f))
      BY <2>4 DEF KeysIn
    <2>6. x \in dropped'
      BY <2>1, <2>5 DEF Flood
    <2> QED BY <2>6 DEF PassedOn
  <1>2. CASE Downlink
    BY <1>2 DEF Downlink, queueVars, Held
  <1>3. CASE Uplink
    BY <1>3, CustodyUplink
  <1>4. ASSUME NEW y \in Smes, IssueSME(y) PROVE PassedOn(x)
    <2>1. Origin[y] \in Nodes
      BY UplinkAssumption
    <2>2. managerQueue[Origin[y]] \in Queue(Smes, Smes)
      BY <2>1 DEF UplinkInv, UplinkType
    <2>3. KeysOf(managerQueue[Origin[y]]) \subseteq KeysOf(Enqueue(managerQueue[Origin[y]], y, y))
      BY <2>2, EnqueueFacts
    <2>4. managerQueue' = [managerQueue EXCEPT ![Origin[y]] = Enqueue(managerQueue[Origin[y]], y, y)]
          /\ smeQueue' = smeQueue
      BY <1>4 DEF IssueSME
    <2>5. managerQueue'[n] = IF n = Origin[y] THEN Enqueue(managerQueue[Origin[y]], y, y)
                             ELSE managerQueue[n]
      BY <2>1, <2>4 DEF UplinkInv, UplinkType
    <2>6. x \in Held(n)'
      BY <2>3, <2>4, <2>5 DEF Held
    <2> QED BY <2>6
  <1>5. CASE UNCHANGED vars
    BY <1>5 DEF vars, queueVars, Held
  <1> QED BY <1>1, <1>2, <1>3, <1>4, <1>5 DEF Next, MacStep

\* CustodyIsPassedOn: whatever packets are lost, whatever the hops and tables of
\* the nodes are and however the SMEs are divided between the packets, a node
\* that parts with an SME gave it to another node or to the master, unless a
\* packet of its message was not heard or the node was reset.
THEOREM CustodyIsPassedOnHolds == Spec => CustodyIsPassedOn
  <1>1. ASSUME UplinkInv, [Next]_vars
        PROVE  [\A n \in Nodes : \A x \in Held(n) \ Held(n)' :
                    \/ \E m \in Nodes : x \in Held(m)'
                    \/ x \in arrived' \cup dropped']_vars
    <2>1. \A n \in Nodes : \A x \in Held(n) \ Held(n)' : PassedOn(x)
      BY <1>1, CustodyStep
    <2> QED BY <2>1 DEF PassedOn
  <1> QED BY <1>1, UplinkInvHolds, PTL DEF Spec, CustodyIsPassedOn

\* What was issued is held by a node, has arrived or was lost: whatever happens
\* in one step, no SME disappears without a trace.
THEOREM NoSmeVanishes == Spec => [][Issued \subseteq Issued']_vars
  <1>1. ASSUME UplinkInv, [Next]_vars PROVE [Issued \subseteq Issued']_vars
    <2>1. arrived \subseteq arrived' /\ dropped \subseteq dropped'
      <3>1. CASE Timesync
        <4>1. PICK f \in Floods, after \in [Nodes -> {"synced", "degraded", "lost"}] : Flood(f, after)
          BY <3>1, TimesyncEffect
        <4> QED BY <4>1 DEF Flood
      <3>2. CASE Downlink
        BY <3>2 DEF Downlink, masterVars
      <3>3. CASE Uplink
        <4>1. PICK assignee \in [Talkers -> Nodes], heard \in [Listeners -> 0 .. MaxPackets] :
                 Slot(assignee, heard)
          BY <3>3, UplinkEffect
        <4> QED BY <4>1 DEF Slot
      <3>4. ASSUME NEW y \in Smes, IssueSME(y) PROVE arrived \subseteq arrived' /\ dropped \subseteq dropped'
        BY <3>4 DEF IssueSME, masterVars
      <3>5. CASE UNCHANGED vars
        BY <3>5 DEF vars, masterVars
      <3> QED BY <1>1, <3>1, <3>2, <3>3, <3>4, <3>5 DEF Next, MacStep
    <2>2. ASSUME NEW n \in Nodes, NEW x \in Held(n) PROVE x \in Issued'
      <3>1. CASE x \in Held(n)'
        BY <3>1 DEF Issued
      <3>2. CASE x \notin Held(n)'
        <4>1. PassedOn(x)
          BY <1>1, <3>2, CustodyStep
        <4> QED BY <4>1 DEF PassedOn, Issued
      <3> QED BY <3>1, <3>2
    <2> QED BY <2>1, <2>2 DEF Issued
  <1> QED BY <1>1, UplinkInvHolds, PTL DEF Spec

-----------------------------------------------------------------------------
(***************************************************************************)
(* Assignees.                                                              *)
(***************************************************************************)
LEMMA BestExists ==
    ASSUME NEW S, IsFiniteSet(S), S # {}, \A p \in S : p.rssi \in Int
    PROVE  \E p \in S : \A q \in S : q.rssi <= p.rssi
  <1> DEFINE Better(p) == {q \in S : q.rssi > p.rssi}
             T == {Cardinality(Better(p)) : p \in S}
  <1>1. \A p \in S : IsFiniteSet(Better(p)) /\ Cardinality(Better(p)) \in Nat
    BY FS_Subset, FS_CardinalityType
  <1>2. T \subseteq Nat /\ T # {}
    BY <1>1
  <1>3. PICK c \in T : \A d \in T : c <= d
    BY <1>2, LeastOf
  <1>4. PICK p \in S : c = Cardinality(Better(p))
    OBVIOUS
  <1>5. ASSUME NEW q \in S, ~(q.rssi <= p.rssi) PROVE FALSE
    <2>1. q \in Better(p) /\ Better(q) \subseteq Better(p) /\ q \notin Better(q)
      BY <1>5
    <2>2. Cardinality(Better(q)) \in T /\ Cardinality(Better(q)) \in Nat /\ c \in Nat
      BY <1>1, <1>4
    <2>3. c <= Cardinality(Better(q))
      BY <1>3, <2>2
    <2> HIDE DEF Better, T
    <2>4. Cardinality(Better(q)) < Cardinality(Better(p))
      <3>1. Better(q) # Better(p)
        BY <2>1
      <3>2. Cardinality(Better(q)) <= Cardinality(Better(p))
            /\ (Cardinality(Better(q)) = Cardinality(Better(p)) => Better(q) = Better(p))
        BY <1>1, <2>1, FS_Subset
      <3> QED BY <1>1, <3>1, <3>2
    <2> QED BY <1>4, <2>2, <2>3, <2>4
  <1> QED BY <1>5

\* A node that has something to hand on has to whom.
AssigneeExists ==
    \A n \in Nodes : /\ Assignees(n) # {} /\ Assignees(n) \subseteq Nodes
                     /\ Forwards(n) => n \notin Assignees(n)

\* AssigneeExists: whatever was heard and missed, the best predecessors of a
\* node that collects SMEs are nodes that exist and not the node itself.
THEOREM AssigneeExistsHolds == Spec => []AssigneeExists
  <1>1. ASSUME UplinkInv PROVE AssigneeExists
    <2> SUFFICES ASSUME NEW n \in Nodes
                 PROVE  /\ Assignees(n) # {} /\ Assignees(n) \subseteq Nodes
                        /\ Forwards(n) => n \notin Assignees(n)
      BY DEF AssigneeExists
    <2>1. CASE ~Forwards(n)
      BY <2>1 DEF Assignees
    <2>2. CASE Forwards(n)
      <3> DEFINE S == table[n].predecessors
      <3>1. IsFiniteSet(S) /\ S # {} /\ S \in SUBSET Predecessor(n)
        BY <1>1, <2>2 DEF Forwards, HasPredecessor, UplinkInv, UplinkType, GoodTable, Table
      <3>2. \A p \in S : p.rssi \in Int /\ p.id \in Nodes \ {n}
        BY <3>1 DEF Predecessor
      <3> HIDE DEF S
      <3>3. \E p \in S : \A q \in S : q.rssi <= p.rssi
        BY <3>1, <3>2, BestExists
      <3>4. BestPredecessors(table[n]) # {} /\ BestPredecessors(table[n]) \subseteq S
        BY <3>3 DEF BestPredecessors, S
      <3>5. Assignees(n) = {p.id : p \in BestPredecessors(table[n])}
        BY <2>2 DEF Assignees
      <3> QED BY <3>2, <3>4, <3>5
    <2> QED BY <2>1, <2>2
  <1> QED BY <1>1, UplinkInvHolds, PTL

=============================================================================
