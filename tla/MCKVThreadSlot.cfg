SPECIFICATION Spec
CONSTANTS
    c1 = c1
    c2 = c2
    x1 = x1
    k1 = k1
    NumFds = 2
    MaxCommands = 2
    Conns <- MCConns
    Failed <- MCNoneFailed
    Keys <- MCKeys
CHECK_DEADLOCK FALSE
INVARIANTS
    GotOwnDescriptor
