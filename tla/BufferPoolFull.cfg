SPECIFICATION Spec
CONSTANTS
    Requests = {r1, r2, r3}
    Size = 2
    NoBuffer = NoBuffer
PROPERTIES
    RendersEnd
CHECK_DEADLOCK FALSE
