SPECIFICATION HorizonSpec
CONSTANTS
    Caller = {c1, c2}
    FailureThreshold = 1
    OpenDuration = 1
    HalfOpenMaxCalls = 1
    MaxCount = 3
    MaxTrips = 1
    None = None
    MaxRetries = 1
    MaxConcurrents = {0, 1}
    Memo = {"hash", "return"}
INVARIANTS
    HorizonTypeOK
    VerdictSound
PROPERTIES
    FailureNeedsEveryAttempt
    VerificationEnds
