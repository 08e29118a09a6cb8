--------------------- MODULE NetworkConfiguration_proofs ---------------------
(***************************************************************************)
(* Whatever the configuration, if control slots fit in a tile then tiles   *)
(* of both kinds end at the same time, and the tile and slot computed from *)
(* a time are right as long as the clock is wrong by less than half a slot.*)
(***************************************************************************)
EXTENDS NetworkConfiguration, TLAPS

-----------------------------------------------------------------------------
(***************************************************************************)
(* Division.                                                               *)
(***************************************************************************)
\* The quotient of a division is the number whose multiple is reached, and
\* the next one's is not.
LEMMA Quotient ==
    ASSUME NEW a \in Int, NEW d \in Nat \ {0}, NEW q \in Int,
           q * d <= a, a < q * d + d
    PROVE  a \div d = q
<1>1. a = d * (a \div d) + (a % d) /\ a % d \in 0 .. d - 1 /\ a \div d \in Int
    BY Z3
<1>. DEFINE p == a \div d
<1>2. p \in Int /\ d * p <= a /\ a < d * p + d
    BY <1>1
<1>. HIDE DEF p
<1>3. ~ (p < q)
    <2>. SUFFICES ASSUME p + 1 <= q PROVE FALSE
        BY <1>2
    <2>1. d * (p + 1) <= d * q
        BY <1>2
    <2>. QED BY <2>1, <1>2
<1>4. ~ (q < p)
    <2>. SUFFICES ASSUME q + 1 <= p PROVE FALSE
        BY <1>2
    <2>1. d * (q + 1) <= d * p
        BY <1>2
    <2>. QED BY <2>1, <1>2
<1>. QED BY <1>2, <1>3, <1>4 DEF p

\* What is left by a division is less than the divisor.
LEMMA Remainder ==
    ASSUME NEW a \in Int, NEW d \in Nat \ {0}
    PROVE  /\ a \div d \in Int
           /\ (a \div d) * d <= a
           /\ a < (a \div d) * d + d
           /\ a % d = a - (a \div d) * d
BY Z3

\* align() gives a multiple of the boundary, the first one from the value on.
LEMMA AlignIsMultiple ==
    ASSUME NEW v \in Nat, NEW b \in Nat \ {0}
    PROVE  \E k \in Nat : Align(v, b) = k * b /\ v <= k * b /\ k * b < v + b
<1>. DEFINE k == (v + b - 1) \div b
<1>1. k \in Int /\ k * b <= v + b - 1 /\ v + b - 1 < k * b + b
    BY Remainder
<1>. HIDE DEF k
<1>2. k >= 0
    <2>. SUFFICES ASSUME k + 1 <= 0 PROVE FALSE
        BY <1>1
    <2>1. (k + 1) * b <= 0
        BY <1>1
    <2>. QED BY <2>1, <1>1
<1>3. Align(v, b) = k * b
    BY DEF Align, k
<1>. QED BY <1>1, <1>2, <1>3

\* Without k whole boundaries a number has k boundaries less.
LEMMA LessWholeSlots ==
    ASSUME NEW a \in Int, NEW d \in Nat \ {0}, NEW k \in Int
    PROVE  (a - k * d) \div d = (a \div d) - k
<1>. DEFINE q == a \div d
<1>1. q \in Int /\ q * d <= a /\ a < q * d + d
    BY Remainder
<1>. HIDE DEF q
<1>2. (q - k) * d = q * d - k * d
    BY <1>1
<1>3. (q - k) * d <= a - k * d /\ a - k * d < (q - k) * d + d
    BY <1>1, <1>2
<1>4. (a - k * d) \div d = q - k
    BY <1>1, <1>3, Quotient
<1>. QED BY <1>4 DEF q

-----------------------------------------------------------------------------
(***************************************************************************)
(* Durations.                                                              *)
(***************************************************************************)
LEMMA Durations ==
    ASSUME NEW c \in Configurations
    PROVE  /\ DataSlotDuration(c) \in Nat \ {0}
           /\ c.tileDuration \in Nat
           /\ \A control \in {"downlink", "uplink"} :
                 \E k \in Nat : k >= 1 /\ ControlSlotDuration(c, control) = k * DataSlotDuration(c)
<1>. DEFINE d == DataSlotDuration(c)
<1>1. /\ c.maxHops \in Nat /\ c.numUplinkPackets \in Nat /\ c.tileDuration \in Nat
      /\ c.maxAdmittedRcvWindow \in Nat /\ c.callbacksExecutionTime \in Nat
    BY DEF Configurations
<1>2. d \in Nat \ {0}
    <2>. DEFINE v == RadioTime(MaxPktSize) + DataPhaseDuration(c)
    <2>1. v \in Nat /\ v > 0
        BY <1>1 DEF RadioTime, MaxPktSize, DataPhaseDuration
    <2>2. d = Align(v, 1000)
        BY DEF DataSlotDuration
    <2>. HIDE DEF v, d
    <2>. DEFINE b == 1000
    <2>3. b \in Nat \ {0}
        OBVIOUS
    <2>. HIDE DEF b
    <2>4. PICK k \in Nat : Align(v, b) = k * b /\ v <= k * b
        BY <2>1, <2>3, AlignIsMultiple
    <2>. QED BY <2>1, <2>2, <2>4 DEF b
<1>. HIDE DEF d
<1>3. ASSUME NEW v \in Nat, v > 0
      PROVE  \E k \in Nat : k >= 1 /\ Align(v, d) = k * d
    <2>1. PICK k \in Nat : Align(v, d) = k * d /\ v <= k * d
        BY <1>2, AlignIsMultiple
    <2>2. k # 0
        BY <2>1, <1>2, <1>3
    <2>. QED BY <2>1, <2>2
<1>4. \E k \in Nat : k >= 1 /\ UplinkSlotDuration(c) = k * d
    <2>1. UplinkPhaseDuration(c) \in Nat /\ UplinkPhaseDuration(c) > 0
        BY <1>1 DEF UplinkPhaseDuration
    <2>. QED BY <2>1, <1>3 DEF UplinkSlotDuration, d
<1>5. \E k \in Nat : k >= 1 /\ DownlinkSlotDuration(c) = k * d
    <2>. DEFINE s == ScheduleDownlinkDuration(c)
                t == TimesyncDuration(c)
    <2>1. RebroadcastInterval(c) \in Nat
        BY <1>1 DEF RebroadcastInterval, MaxPktSize
    <2>2. s \in Nat /\ s > 0
        <3>1. c.maxHops * RebroadcastInterval(c) \in Nat
            BY <1>1, <2>1
        <3>. QED BY <3>1, <1>1 DEF ScheduleDownlinkDuration
    <2>3. t \in Nat /\ t > 0
        BY <1>1 DEF TimesyncDuration
    <2>4. DownlinkSlotDuration(c) = Align(IF s > t THEN s ELSE t, d)
        BY DEF DownlinkSlotDuration, d
    <2>. HIDE DEF s, t
    <2>5. (IF s > t THEN s ELSE t) \in Nat /\ (IF s > t THEN s ELSE t) > 0
        BY <2>2, <2>3
    <2>. QED BY <2>4, <2>5, <1>3
<1>. QED BY <1>1, <1>2, <1>4, <1>5 DEF ControlSlotDuration, d

\* The data slots of a tile and the slots its control slot takes.
LEMMA SlotsOfTile ==
    ASSUME NEW c \in Configurations, NEW control \in {"downlink", "uplink"}
    PROVE  /\ NumSlotInTile(c) \in Int /\ NumDataSlots(c, control) \in Int
           /\ ControlSlots(c, control) \in Nat /\ ControlSlots(c, control) >= 1
           /\ ControlSlots(c, control) * DataSlotDuration(c) = ControlSlotDuration(c, control)
<1>. DEFINE d == DataSlotDuration(c)
            T == c.tileDuration
<1>1. d \in Nat \ {0} /\ T \in Nat
    BY Durations
<1>2. PICK k \in Nat : k >= 1 /\ ControlSlotDuration(c, control) = k * d
    BY Durations
<1>3. NumSlotInTile(c) = T \div d
    BY DEF NumSlotInTile
<1>4. NumDataSlots(c, control) = (T - k * d) \div d
    BY <1>2 DEF NumDataSlots
<1>. HIDE DEF d, T
<1>5. T \div d \in Int
    BY <1>1, Remainder
<1>6. (T - k * d) \div d = (T \div d) - k
    <2>1. T \in Int /\ k \in Int
        BY <1>1
    <2>. QED BY <1>1, <2>1, LessWholeSlots, Zenon
<1>7. ControlSlots(c, control) = k
    BY <1>3, <1>4, <1>5, <1>6 DEF ControlSlots
<1>. QED BY <1>2, <1>3, <1>4, <1>5, <1>6, <1>7 DEF d

-----------------------------------------------------------------------------
(***************************************************************************)
(* The results.                                                            *)
(***************************************************************************)
\* The assertion of calculateDurations(): a tile with a downlink and a tile
\* with an uplink are equally long up to the end of their data slots.
THEOREM TilesEndTogether ==
    ASSUME NEW c \in Configurations
    PROVE  DownlinkSlotDuration(c) + NumDataSlots(c, "downlink") * DataSlotDuration(c)
             = UplinkSlotDuration(c) + NumDataSlots(c, "uplink") * DataSlotDuration(c)
<1>. DEFINE d == DataSlotDuration(c)
            n == NumSlotInTile(c)
<1>1. d \in Nat \ {0}
    BY Durations
<1>2. ASSUME NEW control \in {"downlink", "uplink"}
      PROVE  ControlSlotDuration(c, control) + NumDataSlots(c, control) * d = n * d
    <2>. DEFINE r == ControlSlots(c, control)
                m == NumDataSlots(c, control)
    <2>1. n \in Int /\ m \in Int /\ r \in Nat /\ r * d = ControlSlotDuration(c, control)
        BY SlotsOfTile
    <2>2. n = r + m
        BY <2>1 DEF ControlSlots
    <2>. HIDE DEF d, n, r, m
    <2>3. n * d = r * d + m * d
        BY <1>1, <2>1, <2>2
    <2>. QED BY <2>1, <2>3 DEF m
<1>. QED BY <1>2 DEF ControlSlotDuration

\* The slack at the end of a tile is what its slots leave, and less than a slot.
THEOREM SlackIsLessThanASlot ==
    ASSUME NEW c \in Configurations
    PROVE  /\ TileSlackTime(c) \in 0 .. DataSlotDuration(c) - 1
           /\ NumSlotInTile(c) * DataSlotDuration(c) + TileSlackTime(c) = c.tileDuration
<1>. DEFINE d == DataSlotDuration(c)
            n == NumSlotInTile(c)
            r == ControlSlots(c, "uplink")
            m == NumDataSlots(c, "uplink")
<1>1. d \in Nat \ {0} /\ c.tileDuration \in Nat
    BY Durations
<1>2. n \in Int /\ m \in Int /\ r \in Nat /\ r * d = UplinkSlotDuration(c)
    BY SlotsOfTile DEF ControlSlotDuration
<1>3. n = r + m
    BY <1>2 DEF ControlSlots
<1>4. n * d <= c.tileDuration /\ c.tileDuration < n * d + d
    <2>. DEFINE T == c.tileDuration
    <2>1. n = T \div d /\ T \in Int
        BY <1>1 DEF NumSlotInTile
    <2>. HIDE DEF d, n, T
    <2>2. n * d <= T /\ T < n * d + d
        BY <1>1, <2>1, Remainder
    <2>. QED BY <2>2 DEF T
<1>5. TileSlackTime(c) = c.tileDuration - (UplinkSlotDuration(c) + m * d)
    BY DEF TileSlackTime
<1>. HIDE DEF d, n, r, m
<1>6. n * d = r * d + m * d /\ n * d \in Int /\ m * d \in Int /\ r * d \in Int
    BY <1>1, <1>2, <1>3
<1>7. TileSlackTime(c) = c.tileDuration - n * d
    BY <1>1, <1>2, <1>5, <1>6
<1>8. TileSlackTime(c) \in 0 .. d - 1 /\ n * d + TileSlackTime(c) = c.tileDuration
    BY <1>1, <1>4, <1>6, <1>7
<1>. QED BY <1>8 DEF d, n

\* getCurrentTileAndSlot(): of a data slot of a tile whose control slot fits, it
\* gives the tile and the slot when the clock is wrong by half a slot at most.
THEOREM CurrentSlotIsRight ==
    ASSUME NEW c \in Configurations, NEW control \in {"downlink", "uplink"},
           Fits(c, control),
           NEW tile \in Nat, NEW i \in 0 .. NumDataSlots(c, control) - 1,
           NEW error \in Int,
           - (DataSlotDuration(c) \div 2) <= error,
           error < DataSlotDuration(c) - (DataSlotDuration(c) \div 2)
    PROVE  CurrentTileAndSlot(c, DataSlotStart(c, tile, control, i) + error)
             = <<tile, ControlSlots(c, control) + i>>
<1>. DEFINE d == DataSlotDuration(c)
            h == d \div 2
            T == c.tileDuration
            n == NumSlotInTile(c)
            r == ControlSlots(c, control)
            m == NumDataSlots(c, control)
            in == (r + i) * d + (error + h)
            time == DataSlotStart(c, tile, control, i) + error + h
<1>1. d \in Nat \ {0} /\ T \in Nat
    BY Durations
<1>2. h \in Int /\ - h <= error /\ error < d - h
    BY <1>1, Remainder
<1>3. n \in Int /\ m \in Int /\ r \in Nat /\ r * d = ControlSlotDuration(c, control) /\ n = r + m
    BY SlotsOfTile DEF ControlSlots
<1>4. n * d <= T
    <2>1. n = T \div d
        BY DEF NumSlotInTile
    <2>. HIDE DEF d, n, T
    <2>. QED BY <1>1, <2>1, Remainder
<1>5. T > 0
    <2>1. ControlSlotDuration(c, control) + d <= T
        BY DEF Fits
    <2>. HIDE DEF d, T
    <2>2. r * d >= 0
        BY <1>1, <1>3
    <2>. QED BY <2>1, <2>2, <1>1, <1>3
<1>6. time = tile * T + in
    <2>1. DataSlotStart(c, tile, control, i) = tile * T + r * d + i * d
        BY <1>3 DEF DataSlotStart
    <2>. HIDE DEF d, T, r, h
    <2>2. (r + i) * d = r * d + i * d /\ tile * T \in Int /\ r * d \in Int /\ i * d \in Int
        BY <1>1, <1>3
    <2>. QED BY <2>1, <2>2, <1>2
<1>. HIDE DEF d, h, T, n, r, m
<1>7. (r + i) * d <= in /\ in < (r + i) * d + d /\ in \in Int
    BY <1>1, <1>2, <1>3
<1>8. 0 <= in /\ in < T
    <2>1. i \in Nat /\ r + i + 1 <= n
        BY <1>3 DEF m
    <2>2. (r + i + 1) * d <= n * d /\ 0 <= (r + i) * d /\ (r + i + 1) * d = (r + i) * d + d
        BY <2>1, <1>1, <1>3
    <2>. QED BY <2>2, <1>1, <1>3, <1>4, <1>7
<1>. HIDE DEF in
<1>9. time \in Int /\ tile * T <= time /\ time < tile * T + T
    BY <1>1, <1>6, <1>7, <1>8
<1>. HIDE DEF time
<1>10. time \div T = tile
    BY <1>1, <1>5, <1>9, Quotient
<1>11. time % T = in
    <2>1. T \in Nat \ {0}
        BY <1>1, <1>5
    <2>2. time % T = time - (time \div T) * T
        BY <1>9, <2>1, Remainder
    <2>3. tile * T \in Int
        BY <1>1
    <2>. QED BY <1>6, <1>7, <1>10, <2>2, <2>3
<1>12. in \div d = r + i
    <2>1. r + i \in Int
        BY <1>3
    <2>. QED BY <1>1, <1>7, <2>1, Quotient, Zenon
<1>13. CurrentTileAndSlot(c, DataSlotStart(c, tile, control, i) + error)
         = <<time \div T, (time % T) \div d>>
    BY DEF CurrentTileAndSlot, time, T, h, d
<1>. QED BY <1>10, <1>11, <1>12, <1>13 DEF r

\* getCurrentTile(): of the control slot of a tile it gives the tile, also for
\* a clock that is behind by half a slot.
THEOREM CurrentTileIsRight ==
    ASSUME NEW c \in Configurations, NEW control \in {"downlink", "uplink"},
           Fits(c, control), NEW tile \in Nat, NEW error \in Int,
           - (DataSlotDuration(c) \div 2) <= error,
           error < DataSlotDuration(c) - (DataSlotDuration(c) \div 2)
    PROVE  CurrentTile(c, tile * c.tileDuration + error) = tile
<1>. DEFINE d == DataSlotDuration(c)
            h == d \div 2
            T == c.tileDuration
            r == ControlSlots(c, control)
<1>1. d \in Nat \ {0} /\ T \in Nat
    BY Durations
<1>2. h \in Int /\ - h <= error /\ error < d - h
    BY <1>1, Remainder
<1>3. r \in Nat /\ r * d + d <= T
    BY SlotsOfTile DEF Fits
<1>4. CurrentTile(c, tile * T + error) = (tile * T + error + h) \div T
    BY DEF CurrentTile
<1>. HIDE DEF d, h, T, r
<1>5. r * d >= 0
    BY <1>1, <1>3
<1>6. 0 <= error + h /\ error + h < T /\ T > 0
    BY <1>1, <1>2, <1>3, <1>5
<1>7. tile * T \in Int
    BY <1>1
<1>8. (tile * T + error + h) \div T = tile
    BY <1>1, <1>2, <1>6, <1>7, Quotient
<1>. QED BY <1>4, <1>8 DEF T

=============================================================================
