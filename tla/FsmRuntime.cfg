SPECIFICATION FairSpec
CONSTANTS
    a = a
    b = b
    Nil = Nil
    Hash <- Blocks
    RoundMax = 9
    RoundCap = 1
    HeightCap = 1
    CacheCap = 1
    MaxEvents = 64
INVARIANTS
    TypeOK
    NoQuorumLost
    NeverAhead
PROPERTIES
    CommitReleases
