SPECIFICATION FairSpec
CONSTANTS
    Account = {"u1", "u2", "admin"}
    Admin = "admin"
    Burn <- OneTx
    Locked = 3
    StartBlock = 1
    Confirmations = 1
    Chunk = 1
    GiveUp = 2
    MaxBlocks = 3
    MaxReorgs = 0
    MaxCrashes = 0
    MaxFaults = 0
INVARIANT ConfirmedIsPaid
