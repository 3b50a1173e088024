SPECIFICATION FairSpec
CONSTANTS
    c1 = c1
    c2 = c2
    x1 = x1
    k1 = k1
    NumFds = 2
    MaxCommands = 2
    Conns <- MCConns
    Failed <- MCFailed
    Keys <- MCKeys
CHECK_DEADLOCK FALSE
INVARIANTS
    InStep
    DiesOfLostClient
PROPERTIES
    Answered
