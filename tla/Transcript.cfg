CONSTANTS
    MaxSegments = 5
    SegCap = 1
    UttCap = 1
    Errors = TRUE
SPECIFICATION FairSpec
INVARIANTS TypeOK EndedIsComplete WindowsInOrder
PROPERTIES RefinesTranscript Drains
CHECK_DEADLOCK FALSE
