SPECIFICATION Spec
CONSTANTS
    People = {ann, bob}
    None = None
    MaxId = 2
INVARIANT PrintsNeedConsent
CHECK_DEADLOCK FALSE
