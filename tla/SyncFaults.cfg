\* One fault at any time, two fields; three writes, or two with batches or a deletion.
SPECIFICATION Spec
CONSTANTS
    spec = spec
    status = status
    v0 = v0
    v1 = v1
    Field <- TwoFields
    Value <- TwoValues
    NoObject = NoObject
    Setups <- ThreePatched
    maxMessageDepth = 8
    MaxRevision = 3
    MaxFaults = 1
SYMMETRY DataSymmetry
INVARIANTS FaithfulCopy 
PROPERTIES  CopyKept
CHECK_DEADLOCK FALSE
