CONSTANTS
    MaxFrames = 13
    Shortest = 2
    Silence = 3
    Cap = 8
    Tail5 = 5
    Loudness = 2
SPECIFICATION Spec
INVARIANT SilenceCutsAreSilent
CHECK_DEADLOCK FALSE
