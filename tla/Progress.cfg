SPECIFICATION PartsSpec
CONSTANTS
    Tx <- Txs
    Account = {"a", "b"}
    Genesis = 4
    MinTxFee = 1
    NonceGap = 1
    MaxSize = 2
    MaxTxs = 2
    MaxHeight = 2
    MaxSubmits = 4
PROPERTIES
    RoundsEnd
    ChainGrows
    NodeGrows
    Settles
CHECK_DEADLOCK FALSE
