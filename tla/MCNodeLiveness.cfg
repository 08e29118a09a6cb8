SPECIFICATION FairSpec
CONSTANTS
    a = a
    b = b
    c = c
    Me = 1
    Peer = 2
    maxPorts = 1
    Threads = {a, b}
    SmeTimeoutMax = 1
    FailTimeoutMax = 2
    WakeupAdvances = {"fits"}
    MasterChallenge = FALSE
    RejectsAreFinal = FALSE
    MaxEndpoints = 2
    MaxSchedules = 1
    MaxDesyncs = 1
PROPERTIES ConnectReturns ClosedIsRepeated 
CHECK_DEADLOCK FALSE
