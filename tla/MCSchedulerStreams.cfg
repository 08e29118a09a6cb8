SPECIFICATION FairSpec
CONSTANTS
    s1 = s1
    s2 = s2
    srv = srv
    Streams = {s1, s2}
    Servers = {srv}
    ServerOf <- MCServerOf
    Params <- MCPeriods
    MaxSmes = 5
    Nodes <- MCPair
    InitialLinks <- MCPairLinks
    Routes <- MCPairRoutes
    MaxTopologies = 0
    ChannelSpatialReuse = FALSE
    UseWeakTopologies = FALSE
    RekeyingPeriod = 2
INVARIANTS EstablishedScheduled NoLostRequest DistributedIsCurrent IndInv
PROPERTIES AcceptedResolved EstablishedDistributed ServiceImplemented
