SPECIFICATION FairSpec
CONSTANTS
    Caller = {c1, c2}
    FailureThreshold = 2
    OpenDuration = 1
    HalfOpenMaxCalls = 2
    MaxCount = 5
    MaxTrips = 3
    None = None
INVARIANTS
    TypeOK
    TripsCoverRecoveries
    ClosedBelowThreshold
PROPERTIES
    StaysOpen
    NeverStuck
    Recovers
