\* The server from start to exit, with signals at every moment.
SPECIFICATION FairSpec
CONSTANTS
    MaxSignals = 2
    MaxRecords = 3
INVARIANTS
    TypeOK
    NeverLeftOpen
    LeavesForAReason
    FlushedFirst
PROPERTY SignalHeeded
CHECK_DEADLOCK FALSE
