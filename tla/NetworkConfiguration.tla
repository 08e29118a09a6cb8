------------------------ MODULE NetworkConfiguration ------------------------
(***************************************************************************)
(* What a network configuration makes of a tile: the durations of slots,   *)
(* how many data slots follow the control slot of each kind of tile, and   *)
(* which tile and slot a time belongs to (network_configuration.{h,cpp},   *)
(* MACContext::calculateDurations() and the getDuration() of each phase).  *)
(*                                                                         *)
(* Times are in microseconds: the code counts nanoseconds, but all its     *)
(* constants are multiples of a microsecond, and so are configured times.  *)
(* CRYPTO is defined, FLOOD_TYPE is 1, and debug output is not compiled.   *)
(***************************************************************************)
EXTENDS ActivationTile, Integers

\* The members of NetworkConfiguration that the durations, or the checks of the
\* constructor, depend on.
Configurations ==
    [size : 2 .. 32, downlinks : SUBSET (0 .. 31),
     maxHops : Nat, maxNodes : Nat, numUplinkPackets : Nat, guaranteedTopologies : Nat,
     useWeakTopologies : BOOLEAN, authenticateControlMessages : BOOLEAN,
     clockSyncPeriod : Nat, tileDuration : Nat,
     maxAdmittedRcvWindow : Nat, callbacksExecutionTime : Nat]

CountUplinkSlots(c) == c.size - CountDownlinks(c)

ControlSuperframeDuration(c) == c.tileDuration * c.size

NumSuperframesPerClockSync(c) == c.clockSyncPeriod \div ControlSuperframeDuration(c)

\* The kinds of the tiles of a control superframe.
TileKinds(c) == [i \in 1 .. c.size |-> IF i - 1 \in c.downlinks THEN "downlink" ELSE "uplink"]

\* The control superframe as ActivationTile has it.
Structure(c) ==
    [size |-> c.size, downlinks |-> c.downlinks,
     superframesPerSync |-> NumSuperframesPerClockSync(c)]

-----------------------------------------------------------------------------
(***************************************************************************)
(* Uplink packets, in bytes.                                               *)
(***************************************************************************)
MaxPktSize == 125
PanHeaderSize == 5
TagSize(c) == IF c.authenticateControlMessages THEN 16 ELSE 0

NeighborBitmaskSize(c) == (c.maxNodes + 7) \div 8
TopologyBits(c) == (IF c.useWeakTopologies THEN 2 ELSE 1) * NeighborBitmaskSize(c)

\* The sender's own topology is in the first packet, behind the UplinkHeader.
FirstUplinkPacketCapacity(c) == MaxPktSize - (PanHeaderSize + 4 + TopologyBits(c)) - TagSize(c)
OtherUplinkPacketCapacity(c) == MaxPktSize - PanHeaderSize - TagSize(c)

TopologyElementMaxSize(c) == 1 + TopologyBits(c)

\* The constructors of ControlSuperframeStructure and of NetworkConfiguration do
\* not throw.
ValidSuperframe(c) ==
    /\ c.downlinks \subseteq 0 .. c.size - 1
    /\ 0 \in c.downlinks
    /\ c.downlinks # 0 .. c.size - 1

Valid(c) ==
    /\ ValidSuperframe(c)
    /\ c.guaranteedTopologies * TopologyElementMaxSize(c)
         <= FirstUplinkPacketCapacity(c)
              + (c.numUplinkPackets - 1) * OtherUplinkPacketCapacity(c)
    /\ c.tileDuration > 0
    /\ c.clockSyncPeriod % ControlSuperframeDuration(c) = 0
    /\ c.maxNodes % 8 = 0

\* How many topologies the application has guaranteed.
GuaranteedTopologies(maxNodes, useWeakTopologies) ==
    LET bitmask == IF useWeakTopologies THEN maxNodes \div 4 ELSE maxNodes \div 8
        half == ((125 - 4 - bitmask) \div (1 + bitmask)) \div 2
    IN  IF half < maxNodes - 2 THEN half ELSE maxNodes - 2

\* The configuration of the application of the repository.
DefaultConfiguration ==
    [size |-> 2, downlinks |-> {0}, maxHops |-> 6, maxNodes |-> 16,
     numUplinkPackets |-> 1, guaranteedTopologies |-> GuaranteedTopologies(16, TRUE),
     useWeakTopologies |-> TRUE, authenticateControlMessages |-> TRUE,
     clockSyncPeriod |-> 10000000, tileDuration |-> 100000,
     maxAdmittedRcvWindow |-> 150, callbacksExecutionTime |-> 0]

-----------------------------------------------------------------------------
(***************************************************************************)
(* Slots.                                                                  *)
(***************************************************************************)
\* To start the radio and send a payload with its overhead.
RadioTime(payloadBytes) == 192 + (payloadBytes + 8) * 32

DataPhaseDuration(c) == 847 + 2 * c.callbacksExecutionTime + 179 + 197

UplinkPhaseDuration(c) == (5000 + 1000) * c.numUplinkPackets + 197 * c.numUplinkPackets + 179

\* A node that rebroadcasts a packet must be ready to send, or to receive, again.
RebroadcastInterval(c) ==
    LET send == 500
        receive == 450 + c.maxAdmittedRcvWindow
    IN  (MaxPktSize + 8) * 32 + 244 + (IF send > receive THEN send ELSE receive)

ScheduleDownlinkDuration(c) ==
    450 + c.maxAdmittedRcvWindow * 2 + c.maxHops * RebroadcastInterval(c) + 179 + 197

TimesyncDuration(c) == 450 + 133 + 139 + c.maxHops * ((11 + 4 + 4 + 16 + 8) * 32 + 736)

\* calculateDurations(): control slots are whole numbers of data slots.
DataSlotDuration(c) == Align(RadioTime(MaxPktSize) + DataPhaseDuration(c), 1000)

UplinkSlotDuration(c) == Align(UplinkPhaseDuration(c), DataSlotDuration(c))

DownlinkSlotDuration(c) ==
    LET schedule == ScheduleDownlinkDuration(c)
        timesync == TimesyncDuration(c)
    IN  Align(IF schedule > timesync THEN schedule ELSE timesync, DataSlotDuration(c))

ControlSlotDuration(c, control) ==
    IF control = "downlink" THEN DownlinkSlotDuration(c) ELSE UplinkSlotDuration(c)

NumSlotInTile(c) == c.tileDuration \div DataSlotDuration(c)

\* A control slot too large for the tile: the exception that is thrown.  The
\* difference it compares is unsigned, and large when the control slot is longer
\* than the tile, in which case nothing is thrown.
TooLarge(c, control) ==
    /\ ControlSlotDuration(c, control) <= c.tileDuration
    /\ c.tileDuration - ControlSlotDuration(c, control) < DataSlotDuration(c)

\* What the check is for.
Fits(c, control) ==
    ControlSlotDuration(c, control) + DataSlotDuration(c) <= c.tileDuration

\* The data slots of a tile, and those that its control slot takes the place of.
NumDataSlots(c, control) ==
    (c.tileDuration - ControlSlotDuration(c, control)) \div DataSlotDuration(c)

ControlSlots(c, control) == NumSlotInTile(c) - NumDataSlots(c, control)

TileSlackTime(c) ==
    c.tileDuration - (UplinkSlotDuration(c) + NumDataSlots(c, "uplink") * DataSlotDuration(c))

-----------------------------------------------------------------------------
(***************************************************************************)
(* The time of a tile.                                                     *)
(***************************************************************************)
\* MACContext::run(): data slot i of a tile begins after its control slot.
DataSlotStart(c, tile, control, i) ==
    tile * c.tileDuration + ControlSlotDuration(c, control) + i * DataSlotDuration(c)

\* getCurrentTile(), from the network time at which a slot is believed to begin:
\* half a slot is added, for the error of the clock.
CurrentTile(c, time) == (time + DataSlotDuration(c) \div 2) \div c.tileDuration

\* getCurrentTileAndSlot()
CurrentTileAndSlot(c, time) ==
    LET rounded == time + DataSlotDuration(c) \div 2
    IN  <<rounded \div c.tileDuration,
          (rounded % c.tileDuration) \div DataSlotDuration(c)>>

=============================================================================
