CONSTANTS
    MaxTransfers = 2
    Transfers <- MCTransfers
    Count = 2
    CancelLevels = {1, 2}
SPECIFICATION Spec
INVARIANTS
    CancelWaits
CHECK_DEADLOCK FALSE
