SPECIFICATION Spec
CONSTANTS
    Uploads = {u1}
    Inputs <- AllInputs
    RandomNames = {"r1", "r2"}
    ArchiveBucket = archive
    PublicBucket = public
    NoBucket = none
INVARIANTS
    OrientationErrorIsAnswered
CHECK_DEADLOCK FALSE
