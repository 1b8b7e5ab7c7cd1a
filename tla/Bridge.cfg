SPECIFICATION FairSpec
CONSTANTS
    v1 = v1
    v2 = v2
    p = p
    q = q
    Signers <- MCSigners
    Faulty <- MCFaulty
    Payload <- MCPayload
    Event <- MCEvent
    Threshold = 2
    RecentCap = 1
    RingCap = 2
    BatchCap = 2
    GiveUp = 2
    MaxOuts = 3
    MaxCrashes = 1
    MaxFaults = 1
INVARIANTS
    RowsTrue
    GapsClosed
PROPERTIES
    ImplementsTransfers
    Delivered
