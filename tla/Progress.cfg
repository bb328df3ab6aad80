SPECIFICATION Spec
CONSTANTS
    Workers = {w1}
    None = None
    MaxAttempts = 2
PROPERTIES
    OfflineEnds HoursDealtWith FinalsSettled
CHECK_DEADLOCK FALSE
