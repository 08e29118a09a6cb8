SPECIFICATION Spec
CONSTANTS
    Nodes <- MCNodes
    MaxHops = 3
    Requests <- MCRequests
    Graphs <- MCGraphs
    Superframe <- MCLongSuperframe
    SlotsPerTile <- MCLongSlotsPerTile
    ReservedSlots <- MCLongReservedSlots
    ChannelSpatialReuse = TRUE
    UseWeakTopologies = TRUE
    MaxRuns = 2
INVARIANTS NewTransmissionsDoNotCollide SharingIsRecorded AllocationAsAssumed HopsInOrder TilesAreExact
CHECK_DEADLOCK FALSE
