SPECIFICATION FairSessionSpec
CONSTANTS
    c1 = c1
    c2 = c2
    k1 = k1
    k2 = k2
    NoClient = NoClient
    MaxCommands = 4
    Conns <- MCConns
    Keys <- MCKeys
CHECK_DEADLOCK FALSE
INVARIANTS
    RepliesMatch
    DiesOfLostClient
PROPERTIES
    Answered
