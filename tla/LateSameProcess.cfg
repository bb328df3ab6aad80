CONSTANTS
    w1 = w1
    w2 = w2
    c1 = c1
    s1 = s1
    s2 = s2
    s3 = s3
    Workers = {w1, w2}
    Channels = {c1}
    Sessions = {s1, s2}
    ReplaySessions = {}
    None = None
    TTL = 2
    PromptTasks = FALSE
    PromptHandlers = TRUE
    DbErrors = FALSE
SPECIFICATION Spec
INVARIANT NoDuplicateInProcess
CHECK_DEADLOCK FALSE
