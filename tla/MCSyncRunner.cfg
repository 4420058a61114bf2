CONSTANTS
    Fds <- MCFds
    GiveUp <- MCGiveUp
    Moves <- MCMoves
    Then <- MCThen
    Body <- MCBody
    Promises = {"p", "s"}
    Tokens = {"t"}
    Start <- MCStart
    Levels = {1, 2}
    Stubborn = {"s"}
    NoPromise = "nobody"
SPECIFICATION FairSpec
INVARIANTS
    ItemsReachTheirWaits
PROPERTIES
    ImplementsTaskSet
    AbortEndsTask
    ReadIsWritten
CHECK_DEADLOCK FALSE
