\* Three kinds of objects, with fairness.
SPECIFICATION FairSpec
CONSTANTS
    spec = spec
    status = status
    v0 = v0
    v1 = v1
    Field <- OneField
    Value <- TwoValues
    NoObject = NoObject
    Setups <- AllKinds
    maxMessageDepth = 5
    MaxRevision = 2
    MaxFaults = 1
INVARIANTS TypeOK ChangesArrive
PROPERTIES ComesToRest Repaired
CHECK_DEADLOCK FALSE
