SPECIFICATION FairSpec
CONSTANTS
    Superframe <- MCSuperframe
    SlotsPerTile <- MCSlotsPerTile
    SlotDuration = 1
    DownlinkDuration = 1
    TileSlack = 0
    Nodes = {0, 1, 2, 3}
    Streams = {1, 2}
    Packets = {"a", "b"}
    NoPacket = "none"
    ReservedSlots <- MCReservedSlots
    Scenarios <- MCScenarios
INVARIANTS EndsInStep
PROPERTIES OneCopySuffices  BlockedCallsReturn
