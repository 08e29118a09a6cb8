SPECIFICATION Spec
CONSTANTS
    a = a
    b = b
    c = c
    Me = 1
    Peer = 2
    maxPorts = 1
    Threads = {a, b}
    SmeTimeoutMax = 1
    FailTimeoutMax = 2
    WakeupAdvances = {"fits", "tooLong"}
    MasterChallenge = TRUE
    RejectsAreFinal = FALSE
    MaxEndpoints = 3
    MaxSchedules = 2
    MaxDesyncs = 1
INVARIANTS TypeOK EstablishedIsScheduled PortsReleased
PROPERTIES HandlesStayOpen KeptUntilAcknowledged
SYMMETRY ThreadSymmetry
CHECK_DEADLOCK FALSE
