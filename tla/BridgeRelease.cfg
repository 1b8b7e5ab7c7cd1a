SPECIFICATION FairSpec
CONSTANTS
    Account = {"u1", "u2", "admin"}
    Admin = "admin"
    Burn <- Two
    Locked = 3
    StartBlock = 1
    Confirmations = 1
    Chunk = 1
    GiveUp = 2
    MaxBlocks = 3
    MaxReorgs = 1
    MaxCrashes = 1
    MaxFaults = 1
INVARIANTS
    CursorTrue
    Solvent
    ConfirmedPays
PROPERTIES
    ReleasesTransfers
    Settled
