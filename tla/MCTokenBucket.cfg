SPECIFICATION Spec
CONSTANTS
    Thread = {t1, t2, t3}
    Burst = 2
    PerSecond = 1
    MaxTime = 2
SYMMETRY Symmetry
INVARIANTS
    TypeOK
    GrantsAccounted
    NoRefillLost
