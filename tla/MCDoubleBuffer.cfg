CONSTANTS
    MaxTransfers = 5
    Transfers <- MCTransfers
    Count = 3
    CancelLevels = {1, 2}
SPECIFICATION FairSpec
INVARIANTS
    ContextOutlivesUrb
    CollectedInOrder
PROPERTIES
    CancelledBufferEnds
CHECK_DEADLOCK FALSE
