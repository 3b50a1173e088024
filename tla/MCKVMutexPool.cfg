SPECIFICATION FairSpec
CONSTANTS
    t1 = t1
    t2 = t2
    c1 = c1
    c2 = c2
    k1 = k1
    k2 = k2
    BadFd = BadFd
    NoFd = NoFd
    MaxAcceptErrors = 1
    MaxCommands = 2
    Workers <- MCWorkers
    Conns <- MCConns
    Keys <- MCKeys
CHECK_DEADLOCK FALSE
INVARIANTS
    CondNeverWaited
    InStep
PROPERTIES
    ServedUnlessLooping
