-------------------------- MODULE MCSlotAllocation --------------------------
(***************************************************************************)
(* Small instances of SlotAllocation: four nodes that can form a line, a   *)
(* line with a short cut or a ring, and up to three streams.               *)
(***************************************************************************)
EXTENDS SlotAllocation

MCNodes == 0..3
MCLine == {{0, 1}, {1, 2}, {2, 3}}
MCDiamond == {{0, 1}, {0, 2}, {1, 3}, {2, 3}}
MCGraphs == {MCLine, MCLine \cup {{0, 2}}, MCDiamond}
MCLineOnly == {MCLine}

MCStream(i, a, b, p, r) == [id |-> i, src |-> a, dst |-> b, period |-> p, redundancy |-> r]

MCRequests ==
    {MCStream(1, 0, 1, 3, "DOUBLE_SPATIAL"), MCStream(1, 0, 2, 1, "NONE"),
     MCStream(2, 3, 2, 2, "TRIPLE"),
     MCStream(3, 0, 3, 2, "DOUBLE_SPATIAL"), MCStream(3, 0, 3, 4, "TRIPLE_SPATIAL")}
MCFewRequests == {MCStream(1, 0, 1, 1, "NONE"), MCStream(3, 0, 3, 2, "NONE")}

Config == INSTANCE NetworkConfiguration

ReservedIn(configuration) ==
    [control \in {"downlink", "uplink"} |-> Config!ControlSlots(configuration, control)]

\* A period of two tiles does not divide the superframe; a schedule downlink over
\* three hops takes two slots of long callbacks.
MCLong ==
    [Config!DefaultConfiguration EXCEPT !.maxHops = 3, !.callbacksExecutionTime = 2000,
            !.size = 3, !.tileDuration = 45000, !.clockSyncPeriod = 45000 * 3 * 10]

MCLongSuperframe == Config!TileKinds(MCLong)
MCLongSlotsPerTile == Config!NumSlotInTile(MCLong)
MCLongReservedSlots == ReservedIn(MCLong)

\* Three uplink packets take longer than a downlink.
MCShort ==
    [Config!DefaultConfiguration EXCEPT !.maxHops = 3, !.callbacksExecutionTime = 6000,
            !.numUplinkPackets = 3, !.tileDuration = 56000, !.clockSyncPeriod = 56000 * 2 * 10]

MCShortSuperframe == Config!TileKinds(MCShort)
MCShortSlotsPerTile == Config!NumSlotInTile(MCShort)
MCShortReservedSlots == ReservedIn(MCShort)

ASSUME MCConfigurationsAreValid ==
    \A configuration \in {MCLong, MCShort} :
        /\ configuration \in Config!Configurations
        /\ Config!Valid(configuration)
        /\ Config!ValidStructure(Config!Structure(configuration))
        /\ \A control \in {"downlink", "uplink"} : ~Config!TooLarge(configuration, control)

=============================================================================
