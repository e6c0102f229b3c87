SPECIFICATION Spec
CONSTANTS
    Address = {a1, a2}
    Issuer = {a1}
    Owner = {a1}
    Hash = {h1, h2}
    Flag = {f1}
    Wasm = {w1}
    RateLimitConfigs <- TightConfigs
    DefaultConfig <- AddressTight
    CONTRACT_VERSION = 1
    MAX_BATCH_SIZE = 1
    U32 = 64
    MaxTime = 3
    MaxEvents = 1
    WindowStarts = {1}
    None = None
SYMMETRY Symmetry
INVARIANTS TypeOK GrantsBounded RefilledAfterASecond AdminAndVersionTogether
PROPERTIES AdminGoverns
