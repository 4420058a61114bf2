CONSTANTS
    a = a
    b = b
    c = c
    Packets <- MCPackets
    CancelLevels = {1, 2}
    MaxRuns = 3
SPECIFICATION FairSpec
INVARIANTS
    DeviceTypeOK
    InOrder
    NothingLost
    WorkIsStarted
PROPERTIES
    GivenIsWritten
    QuitEnds
CHECK_DEADLOCK FALSE
