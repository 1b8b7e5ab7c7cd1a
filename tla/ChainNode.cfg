SPECIFICATION Spec
CONSTANTS
    v1 = v1
    v2 = v2
    v3 = v3
    genesis = genesis
    a1 = a1
    a2 = a2
    b1 = b1
    b2 = b2
    Genesis = genesis
    Validators <- Three
    Power <- ThreePower
    Order <- ThreeOrder
    Nodes <- ThreeHonest
    Byz <- V3Faulty
    Block <- Fork
    Parent <- ForkParent
    Height <- ForkHeight
    Proposer <- ThreePropose
    GateHeight = 1
    CrashCap = 0
INVARIANTS
    CommitsBacked
    Finality
