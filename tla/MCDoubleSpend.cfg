SPECIFICATION Spec
CONSTANTS
    Thread = {t1, t2}
    Burst = 2
    PerSecond = 1
    MaxTime = 3
SYMMETRY Symmetry
INVARIANTS
    NoDoubleSpend
