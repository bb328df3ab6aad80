CONSTANTS
    MaxSegments = 2
    SegCap = 1
    UttCap = 1
    Errors = TRUE
SPECIFICATION Spec
INVARIANT IngestUnderLease
CHECK_DEADLOCK FALSE
