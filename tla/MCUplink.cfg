CONSTANTS
    NodesCount = 8
    Nodes = {0, 1, 2}
    UseWeakTopologies = TRUE
    StrongTimeout = 2
    WeakTimeout = 3
    MinStrongRssi <- MCMinStrongRssi
    MinWeakRssi <- MCMinWeakRssi
    FirstCapacity = 4
    OtherCapacity = 9
    TopologySize = 5
    SmeSize = 4
    MaxPackets = 2
    GuaranteedTopologies = 1
    Superframe <- MCSuperframe
    ClockSync = 2
    MaxHops = 2
    Rssi <- MCRssi
    NoSignal <- MCNoSignal
    Smes = {"x2", "y2"}
    Origin <- MCOrigin
    MaxFaults = 1
SPECIFICATION FairSpec
INVARIANT RoundRobinAgrees
PROPERTY CustodyIsPassedOn
PROPERTY ReachesMaster
PROPERTY MasterLearnsLinks
