SPECIFICATION MCSpec
CONSTANTS
    MaxWidth = 4
    MaxHeight = 4
INVARIANTS
    PoseTracksPixels
    EndsUpright
CHECK_DEADLOCK FALSE
