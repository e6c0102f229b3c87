SPECIFICATION Spec
CHECK_DEADLOCK FALSE
CONSTANTS
    MaxTimeout = 3
    MaxU32 = 4
    DebugAssertions = TRUE
    Invalid = Invalid
    NonUnicode = NonUnicode
    MaxSet = 2
    Changing = {"RATE_LIMIT_PER_SECOND"}
    MaxReloads = 2
    Request = {r1, r2}

    
PROPERTIES
    WatcherCatchesUp
