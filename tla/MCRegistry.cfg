SPECIFICATION Spec
CONSTANTS
    Address = {a1, a2}
    Issuer = {a1, a2}
    Owner = {a2}
    Hash = {h1, h2}
    WindowStarts = {}
    Flag = {}
    Wasm = {}
    RateLimitConfigs <- OnlyGenerous
    DefaultConfig <- Generous
    CONTRACT_VERSION = 1
    MAX_BATCH_SIZE = 2
    U32 = 256
    MaxTime = 1
    MaxEvents = 6
    None = None
INVARIANTS LogMatchesDocuments
PROPERTIES RefinesRegistry
SYMMETRY Symmetry
