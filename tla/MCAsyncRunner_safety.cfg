CONSTANTS
    p1 = p1
    p2 = p2
    Free = Free
    Promises <- MCPromises
    CancelLevels = {1, 3}
    StopLevel = 2
    Continuations = {"waiting", "ready"}
    RunMayThrow = TRUE
SPECIFICATION Spec
SYMMETRY MCSymmetry
INVARIANTS
    TypeOK
    NoUseAfterFree
    EveryPromiseReleased
    NoLostWakeup
PROPERTIES
    ImplementsFuture
CHECK_DEADLOCK FALSE
