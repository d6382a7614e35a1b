SPECIFICATION Spec
CONSTANTS
    Requests = {r1, r2, r3, r4}
    Size = 2
    NoBuffer = NoBuffer
INVARIANTS
    TypeOK
    BufferExclusive
    OwnPage
    PoolInv
PROPERTIES
    UncrowdedRendersEnd
CHECK_DEADLOCK FALSE
