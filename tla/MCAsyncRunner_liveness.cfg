CONSTANTS
    p1 = p1
    p2 = p2
    Free = Free
    Promises <- MCPromises
    CancelLevels = {3}
    StopLevel = 3
    Continuations = {"waiting"}
    RunMayThrow = FALSE
SPECIFICATION FairSpec
INVARIANTS
    AppliedIsDelivered
PROPERTIES
    KillEndsWait
    SubmissionTakenOver
    StopEnds
