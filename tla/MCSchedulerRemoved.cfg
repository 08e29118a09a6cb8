SPECIFICATION Spec
CONSTANTS
    s1 = s1
    s2 = s2
    srv = srv
    Streams = {s1, s2}
    Servers = {srv}
    ServerOf <- MCServerOf
    Params <- MCSingle
    MaxSmes = 4
    Nodes <- MCPair
    InitialLinks <- MCPairLinks
    Routes <- MCPairRoutes
    MaxTopologies = 0
    ChannelSpatialReuse = FALSE
    UseWeakTopologies = FALSE
    RekeyingPeriod = 2
INVARIANTS RemovedStreamsLeaveSchedule
