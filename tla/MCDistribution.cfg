SPECIFICATION Spec
CONSTANTS
    Networks <- ThreeNetworks
    Sizes <- TwoSizes
    scheduleRepetitions = 2
    packetCapacity = 2
    maxHashesPerSlot = 5
    expansionsPerSlot = 5
    MaxMissedTimesyncs = 2
    IncompleteTimeout = 4
    ChallengeTimeout = 5
    MaxSchedules = 2
INVARIANTS RekeyingIsPaired MasterIsInTime SameSlot SwitchesTogether
PROPERTIES SwitchesAtBoundary NoKeyAhead
CHECK_DEADLOCK FALSE
