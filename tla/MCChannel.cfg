CONSTANTS
    v1 = v1
    v2 = v2
    v3 = v3
    r1 = r1
    r2 = r2
    Raw = Raw
    Value <- MCValue
    Receives <- MCReceives
    Capacity = 2
    MaxHandles = 2
SPECIFICATION FairChannelSpec
INVARIANTS
    ChannelTypeOK
    SlotsAgree
    Conserved
    ReceiveTellsTruth
    BufferOutlivesUsers
    NoMissedRendezvous
PROPERTIES
    ImplementsFifo
    NoStandoff
