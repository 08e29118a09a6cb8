SPECIFICATION FairSpec
CONSTANTS
    Superframe <- MCSuperframe
    SlotsPerTile = 3
    SlotDuration = 1
    DownlinkDuration = 1
    TileSlack = 0
    Streams = {1, 2}
    Schedules <- MCSchedules
    Node = 1
    Advance <- MCAdvance
    MaxLead = 18
    None = 0
PROPERTIES  WaitReturns
