SPECIFICATION TestSpec
CONSTANTS
    r1 = r1
    r2 = r2
    w1 = w1
    w2 = w2
    w3 = w3
    Threads <- MCThreads
    Readers <- MCReaders
    Writers <- MCWriters
INVARIANTS
    TypeOK
    NoWakeupLost
PROPERTIES
    ImplementsReadWriteLock
    Termination
