CONSTANTS
    o1 = o1
    o2 = o2
    r1 = r1
    r2 = r2
    d1 = d1
    d2 = d2
    MaxSize = 8
    GuidSize = 1
    Opens = {o1, o2}
    Reads = {r1, r2}
    Readers = {d1, d2}
    Pipes = {1, 2}
    Descriptors <- MCDescriptors
    Noise = {8}
    MaxData = 2
    MaxCalls = 3
    MaxMixed = 2
    MaxCuts = 2
SYMMETRY Symmetry
SPECIFICATION Spec
INVARIANTS
    PacketsArriveAsSent
    AnswersMatch
    DescriptorIntact
CHECK_DEADLOCK FALSE
