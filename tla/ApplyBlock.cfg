SPECIFICATION ViewSpec
CONSTANTS
    a1 = a1
    b1 = b1
    a2 = a2
    a3 = a3
    x3 = x3
    genesis = genesis
    inbound = inbound
    producer = producer
    None = None
    Genesis = genesis
    Block <- Blocks
    Parent <- Parents
    Height <- HeightOf
    MaxHeight = 3
    Parts = 2
    Writers <- Follower
    Offered <- ToFollower
    RaceWriters <- OnValidator
    RaceOffered <- ToValidator
    Account = {"a", "b"}
    Tx <- Txs
    Endowment = 4
    MinTxFee = 1
    NonceGap = 1
    MaxSize = 2
    MaxTxs = 2
    LastHeight = 2
    MaxSubmits = 4
INVARIANTS
    UnmarkedIsClean
    StoredChain
    TipStoredInRace
    LedgerRight
PROPERTIES
    ImplementsLedger
CHECK_DEADLOCK FALSE
