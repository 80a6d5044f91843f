\* A deletion, without any fault.
SPECIFICATION Spec
CONSTANTS
    spec = spec
    status = status
    v0 = v0
    v1 = v1
    Field <- TwoFields
    Value <- TwoValues
    NoObject = NoObject
    Setups <- PatchedDeleted
    maxMessageDepth = 8
    MaxRevision = 3
    MaxFaults = 0
SYMMETRY DataSymmetry
INVARIANT DeletionsArrive
CHECK_DEADLOCK FALSE
