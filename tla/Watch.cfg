\* Two objects, three changes, two faults.
SPECIFICATION FairSpec
CONSTANTS
    Key = {a, b}
    MaxRevision = 3
    MaxFaults = 2
INVARIANTS TypeOK NothingDropped ToldAtRest
PROPERTY Settles
CHECK_DEADLOCK FALSE
