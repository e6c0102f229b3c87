SPECIFICATION Spec
CONSTANTS
    Address = {a1, a2}
    Issuer = {a1, a2}
    Owner = {a1}
    Hash = {h1, h2}
    Flag = {}
    Wasm = {w1}
    RateLimitConfigs <- TightConfigs
    DefaultConfig <- AddressTight
    CONTRACT_VERSION = 1
    MAX_BATCH_SIZE = 1
    U32 = 64
    MaxTime = 2
    MaxEvents = 3
    WindowStarts = {}
    None = None
INVARIANT RetryAfterIsReported
