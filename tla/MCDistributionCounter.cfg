SPECIFICATION Spec
CONSTANTS
    Networks <- OneNetwork
    Sizes <- OneLong
    scheduleRepetitions = 4
    packetCapacity = 2
    maxHashesPerSlot = 5
    expansionsPerSlot = 5
    MaxMissedTimesyncs = 2
    IncompleteTimeout = 4
    ChallengeTimeout = 5
    MaxSchedules = 1
INVARIANT NoScheduleBeforeActivation
CHECK_DEADLOCK FALSE
