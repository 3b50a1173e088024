SPECIFICATION Spec
CONSTANTS
    t1 = t1
    t2 = t2
    c1 = c1
    c2 = c2
    k1 = k1
    k2 = k2
    v1 = v1
    v2 = v2
    m1 = m1
    m2 = m2
    m3 = m3
    m4 = m4
    m5 = m5
    NULL = NULL
    Uninit = Uninit
    Damaged = Damaged
    Absent = Absent
    Endings = {TRUE}
    BadFd = BadFd
    NoFd = NoFd
    MaxAcceptErrors = 1
    Workers <- MCWorkers
    Conns <- MCConns
    Keys <- MCKeys
    Values <- MCValues
    Cells <- MCCells
SYMMETRY Symmetric
INVARIANT
    CreatedIsReadable
