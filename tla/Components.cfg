SPECIFICATION Spec
CONSTANTS
    Workers = {a, b}
    Requests = {a, b}
    People = {a, b}
    Names = {a, b}
    Other = Other
    None = None
    Null = Null
    MaxId = 2
    MaxAttempts = 2
    Shortest = 2
    MaxUtterances = 5
    MinS = 3
    MaxS = 7
    MaxWords = 5
    MinSilence = 2
    Limit = 2
INVARIANTS
    GapsAddUp GapsDrained OneProcess
    PiecesTile SpeechKept
    LimitsKept SilenceBetweenWindows
    OneWatcher BeatsOnce DoneHasBeats FinalsBounded
    UnconsentedIsOvertaken PrintsAreOwn
    CatchUpComplete OverviewNear VoteHeeded OvershootBounded
    NamesUnique
PROPERTIES
    OutcomesCovered MergesStand
SYMMETRY Symmetry
CHECK_DEADLOCK FALSE
