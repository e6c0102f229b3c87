SPECIFICATION Spec
CONSTANTS
    Caller = {c1, c2, c3}
    Issuer = {i1}
    GlobalBurst = 2
    GlobalPerSecond = 1
    Burst = 2
    PerSecond = 1
    Ttl = 2
    MaxLate = 1
    None = None
INVARIANTS
    TypeOK
    RetryAfterSuffices
PROPERTIES
    EvictionHarmless
    UntilReadyReturns
