SPECIFICATION Spec
CONSTANTS
    Wallet = {"w1", "w2"}
    Legacy = {"w1"}
    Tab = {"t1"}
    MaxKeys = 1
    MaxTasks = 1
    MaxExits = 0
INVARIANTS
    KeptSomewhere
CHECK_DEADLOCK FALSE
