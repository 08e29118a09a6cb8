SPECIFICATION Spec
CONSTANTS
    s1 = s1
    s2 = s2
    srv = srv
    Streams = {s1}
    Servers = {srv}
    ServerOf <- MCServerOf
    Params <- MCSingle
    MaxSmes = 4
    Nodes <- MCTriangle
    InitialLinks <- MCTriangleLinks
    Routes <- MCTriangleRoutes
    MaxTopologies = 2
    ChannelSpatialReuse = TRUE
    UseWeakTopologies = FALSE
    RekeyingPeriod = 2
INVARIANTS TypeOK RelianceCurrent NewRoutesWatched NewConflictsWatched
