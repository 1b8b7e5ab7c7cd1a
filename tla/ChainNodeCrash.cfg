SPECIFICATION Spec
CONSTANTS
    v1 = v1
    v2 = v2
    v3 = v3
    genesis = genesis
    a1 = a1
    a2 = a2
    b1 = b1
    b2 = b2
    Genesis = genesis
    Validators <- Two
    Power <- TwoPower
    Order <- TwoOrder
    Nodes <- Two
    Byz <- NoneFaulty
    Block <- Fork
    Parent <- ForkParent
    Height <- ForkHeight
    Proposer <- TwoPropose
    GateHeight = 1
    CrashCap = 2
INVARIANTS
    NoFalseSlash
PROPERTIES
    ImplementsFinalChain
