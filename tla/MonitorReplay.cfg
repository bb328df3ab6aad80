CONSTANTS
    w1 = w1
    w2 = w2
    c1 = c1
    s1 = s1
    s2 = s2
    s3 = s3
    Workers = {w1, w2}
    Channels = {c1}
    Sessions = {s1, s3}
    ReplaySessions = {s3}
    None = None
    TTL = 2
    PromptTasks = TRUE
    PromptHandlers = TRUE
    DbErrors = TRUE
SPECIFICATION Spec
INVARIANT MonitoredIsLive
SYMMETRY Symmetry
CHECK_DEADLOCK FALSE
