SPECIFICATION Spec
CONSTANTS
    v1 = v1
    v2 = v2
    v3 = v3
    a = a
    b = b
    Nil = Nil
    Validators <- Trio
    Byz <- V3Faulty
    Power <- UnequalTrio
    Hash <- TwoBlocks
    Proposable <- AnyBlock
    RoundMax = 9
    RoundCap = 1
    HeightCap = 1
SYMMETRY BlockSymmetry
INVARIANTS
    TypeOK
    OneVotePerSlot
    PrevotesRespectLock
    Agreement
PROPERTIES
    Forward
