SPECIFICATION Spec
CONSTANTS
    Workers = {w1, w2, w3}
    DataSize = 7
    PartsPerWorker = 1
INVARIANTS
    TypeOK
    NoRowShared
    ReturnsComplete
    ParallelInv
PROPERTIES
    Returns
CHECK_DEADLOCK FALSE
