SPECIFICATION MCSpec
CONSTANTS
    t1 = t1
    t2 = t2
    t3 = t3
    c1 = c1
    c2 = c2
    c3 = c3
    c4 = c4
    r1 = r1
    r2 = r2
    w1 = w1
    w2 = w2
    w3 = w3
    BadFd = BadFd
    NoFd = NoFd
    MaxAcceptErrors = 2
    Workers <- MCWorkers
    Conns <- MCConns
    NUM_PHILOSOPHERS = 5
    total_items = 5
    max_buf_size = 2
    num_workers = 3
    num_masters = 3
    N = 3
    LENGTH = 4
    Threads <- MCThreads
    Readers <- MCReaders
    Writers <- MCWriters
INVARIANTS
    EachConnectionOncePlaced
    WokenCoverQueue
    NeighboursExclude
    ParkedBehindEater
    EachItemOnce
    NoBufferWakeupLost
    TurnsGoOn
    NoWakeupLost
    WriterStampsConsecutive
PROPERTIES
    MasterWorkerEnds
    DeliveredUnlessRaced
    ImplementsReadWriteLock
    WritersFirst
    TestEnds
CHECK_DEADLOCK FALSE
