CONSTANTS
    Generations = {g1, g2}
    Count = 1
    MaxIndex = 3
    MaxActive = 1
    MaxFaults = 0
    MaxCrashes = 1
    Ticks = {t1, t2}
    MinReplicas = 1
    MaxReplicas = 3
    Overlap = FALSE
    NoTimer = NoTimer
SPECIFICATION ScaleSpec
INVARIANTS
    NeverBelowMin
    PromiseKept
SYMMETRY Symmetry
CHECK_DEADLOCK FALSE
