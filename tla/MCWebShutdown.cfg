SPECIFICATION FairServerSpec
CONSTANTS
    t1 = t1
    t2 = t2
    u1 = u1
    u2 = u2
    NoConn = NoConn
    Workers <- MCWorkers
    Users <- MCUsers
    QUEUE_MAX = 1
    MaxRequests = 1
    WorkersTakeSignals = FALSE
PROPERTIES
    ShutdownEnds
