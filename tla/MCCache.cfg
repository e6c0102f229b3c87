SPECIFICATION Spec
CONSTANTS
    Task = {t1, t2}
    Key = {k1, k2}
    RedisKey = {k1}
    Value = {v1, v2}
    MemoryValue = {v1}
    Ttl = {1}
    MaxTtl = 1
    MaxBatch = 2
    FailureThreshold = 2
    HalfOpenMaxCalls = 1
    BackoffBase = 1
    BackoffMax = 1
    MaxConcurrent = 2
    ExponentCap = 1
    HealthMax = 2
    MaxSizes = {1}
    None = None
INVARIANTS
    TypeOK
    LruTracksStore
    MirrorExact
    ServedWithinTtl
PROPERTIES
    CallsReturn
    RedisUsedAgain
