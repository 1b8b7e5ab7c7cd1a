SPECIFICATION PartsSpec
CONSTANTS
    Account = {"c", "v"}
    Creator = "c"
    FeeNum = 1
    FeeDen = 4
    MinLiquidity = 1
    Wealth = 6
    Amounts = {1, 2, 3, 4, 5}
    MaxSteps = 4
    Delegator = {"d1", "d2"}
    Validator = {"v1", "v2"}
    Founder = "d1"
    StakeAmounts = {2, 3}
    MinSelfBond = 3
    MinDelegation = 2
    UnbondingEpochs = 1
    SlashBps = 1
    CommissionBps = 1
    BpsDen = 3
    Reward = 4
    StakeSteps = 5
    Owner = {"o1", "o2", "o3"}
    Treasury = "m"
    Other = {"x"}
    Threshold = 2
    Funds = 1
    MaxFunds = 1
    MaxProposals = 2
    MaxExpiry = 1
    MaxHeight = 2
    Voter = {"a", "b"}
    Value = {"on", "off"}
    TestBlocks = 1
    VoteBlocks = 2
    MinQuorum = 2
    PassBps = 9
    PassDen = 10
    MaxActive = 1
    GovProposals = 2
    GovHeight = 4
    MaxFaults = 1
    Key = {"a", "b"}
    Reader = {"r1", "r2"}
    Writer = {"w1", "w2"}
    Keys <- SettingsKeys
    Valid = {"w1", "w2"}
    CacheTTL = 2
    Latency = 1
    MaxTime = 3
    MaxReads = 2
    Builtin = {"b1", "b2"}
    Custom = {"c"}
    Request = {"q1", "q2"}
    MaxItems = 5
    MaxResets = 1
    Wallet = {"w1", "w2"}
    Legacy = {"w1"}
    Tab = {t1, t2}
    MaxKeys = 2
    MaxTasks = 2
    MaxExits = 1
    Role = {"dashboard", "mobile"}
    Socket = {"d1", "d2", "d3", "m1", "m2"}
    RoleOf <- Sockets
INVARIANTS
    PoolSound
    StakesSound
    MultisigPays
    ProposalsRight
    SettingsFresh
    LegacyKept
    RelayRight
PROPERTIES
    ShareKeepsValue
    NavKept
SYMMETRY TabSymmetry
CHECK_DEADLOCK FALSE
