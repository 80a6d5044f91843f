\* Both readers: every interleaving of loop, workers and shutdown.
SPECIFICATION FairSpec
CONSTANTS
    w1 = w1
    w2 = w2
    Topic <- SixRecords
    Worker <- TwoWorkers
INVARIANTS
    TypeOK
    NeverSendsOnClosed
    NeverReceivesNil
    TakenInOrder
    Drained
PROPERTIES
    ReaderStops
    WorkersStop
CHECK_DEADLOCK FALSE
