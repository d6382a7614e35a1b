SPECIFICATION Spec
CONSTANTS
    Conns = {c1, c2, c3}
    Limited = TRUE
INVARIANTS
    ManagedAreServed
    NothingIsCut
    GracefulInv
PROPERTIES
    ServeReturns
CHECK_DEADLOCK FALSE
