CONSTANTS
    MaxSegments = 2
    SegCap = 1
    UttCap = 1
    Errors = FALSE
SPECIFICATION Spec
INVARIANT EndedCleanly
CHECK_DEADLOCK FALSE
