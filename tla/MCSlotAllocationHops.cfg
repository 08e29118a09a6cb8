SPECIFICATION Spec
CONSTANTS
    Nodes <- MCNodes
    MaxHops = 3
    Requests <- MCFewRequests
    Graphs <- MCLineOnly
    Superframe <- MCShortSuperframe
    SlotsPerTile <- MCShortSlotsPerTile
    ReservedSlots <- MCShortReservedSlots
    ChannelSpatialReuse = FALSE
    UseWeakTopologies = FALSE
    MaxRuns = 2
INVARIANTS WholeStreamsOnly
CHECK_DEADLOCK FALSE
