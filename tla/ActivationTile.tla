--------------------------- MODULE ActivationTile ---------------------------
(***************************************************************************)
(* The arithmetic of tiles.  A tile is a downlink or an uplink of the      *)
(* control superframe, which repeats for ever; every tilesPerTimesync      *)
(* tiles a downlink is taken by the time synchronization.  The master      *)
(* computes from it the tile in which a schedule becomes active:           *)
(* downlink_phase/master_schedule_distribution.cpp, mac_context.h.         *)
(*                                                                         *)
(* A configuration cs is a record [size, downlinks, superframesPerSync]:   *)
(* ControlSuperframeStructure and getNumSuperframesPerClockSync().         *)
(***************************************************************************)
EXTENDS Naturals, FiniteSets

\* ControlSuperframeStructure::validate(): the first tile is a downlink and
\* one tile is an uplink.
ValidStructure(cs) ==
    /\ cs.size \in Nat \ {0, 1}
    /\ cs.downlinks \subseteq 0 .. cs.size - 1
    /\ 0 \in cs.downlinks
    /\ cs.downlinks # 0 .. cs.size - 1
    /\ cs.superframesPerSync \in Nat \ {0}

CountDownlinks(cs) == Cardinality(cs.downlinks)

IsDownlink(cs, t) == t % cs.size \in cs.downlinks

TilesPerTimesync(cs) == cs.size * cs.superframesPerSync

\* The timesyncs before tile t.
NumTimesyncs(cs, t) == (t + TilesPerTimesync(cs) - 1) \div TilesPerTimesync(cs)

IsTimesync(cs, t) == NumTimesyncs(cs, t + 1) - NumTimesyncs(cs, t) = 1

\* The next downlink after tile t: it may lie in the next superframe.
NextDownlink(cs, t) ==
    CHOOSE n \in t + 1 .. t + cs.size :
        /\ IsDownlink(cs, n)
        /\ \A u \in t + 1 .. n - 1 : ~IsDownlink(cs, u)

\* The smallest multiple of boundary that is at least v.
Align(v, boundary) == ((v + boundary - 1) \div boundary) * boundary

-----------------------------------------------------------------------------
\* The first superframe boundary from tile t on, and the downlinks still
\* needed once those before it are used.
ToBoundary(cs, t, needed) ==
    LET phase == t % cs.size
        free  == IF phase = 0 THEN 0
                 ELSE Cardinality({p \in cs.downlinks : p >= phase})
    IN  [tile  |-> Align(t, cs.size),
         need  |-> IF free > needed THEN 0 ELSE needed - free,
         begin |-> t,
         done  |-> FALSE]

\* Mutant: the downlinks that the timesyncs take are not made up for.
Round_NoTimesyncs(cs, r) ==
    LET D    == CountDownlinks(cs)
        tile == r.tile + cs.size * ((r.need + D - 1) \div D)
    IN  [r EXCEPT !.tile = IF IsTimesync(cs, tile) THEN tile + cs.size ELSE tile, !.done = TRUE]

\* One round of the loop of getActivationTile(): whole superframes for the
\* downlinks that are needed, then the timesyncs among them are counted; they
\* need downlinks of their own unless the last superframe has some left.
Round(cs, r) ==
    LET D         == CountDownlinks(cs)
        tile      == r.tile + cs.size * ((r.need + D - 1) \div D)
        remaining == (D - (r.need % D)) % D
        timesyncs == NumTimesyncs(cs, tile) - NumTimesyncs(cs, r.begin)
    IN  IF timesyncs > remaining
        THEN [tile |-> tile, need |-> timesyncs - remaining, begin |-> tile, done |-> FALSE]
        ELSE [r EXCEPT !.tile = IF IsTimesync(cs, tile) THEN tile + cs.size ELSE tile,
                       !.done = TRUE]

\* assert(i < 10)
MaxRounds == 10

\* getActivationTile(): the superframe boundary at which `needed' downlinks
\* after the tile `current' are over, timesyncs not counted.
GetActivationTile(cs, current, needed) ==
    LET rounds[i \in 0 .. MaxRounds] ==
            IF i = 0 THEN ToBoundary(cs, current + 1, needed)
            ELSE IF rounds[i - 1].done THEN rounds[i - 1]
            ELSE Round(cs, rounds[i - 1])
    IN  rounds[MaxRounds]

\* Mutant: a timesync is not avoided once more after the alignment.
AlignToSchedule_OnTimesync(cs, tile, old) ==
    IF old.scheduleTiles = 0 THEN tile
    ELSE old.activationTile + Align(tile - old.activationTile, old.scheduleTiles)

\* Mutant: the period of the schedule in use is ignored.
AlignToSchedule_Unaligned(cs, tile, old) == tile

\* getScheduleAndComputeActivation(): the activation must also be at the end
\* of a period of the schedule in use, [activationTile, scheduleTiles].
AlignToSchedule(cs, tile, old) ==
    IF old.scheduleTiles = 0 THEN tile
    ELSE LET aligned == old.activationTile
                            + Align(tile - old.activationTile, old.scheduleTiles)
         IN  IF IsTimesync(cs, aligned) THEN aligned + old.scheduleTiles ELSE aligned

=============================================================================
