CONSTANTS
    Generations = {g1, g2}
    Count = 1
    MaxIndex = 2
    MaxActive = 1
    MaxFaults = 0
    MaxCrashes = 0
    Ticks = {t1}
    MinReplicas = 1
    MaxReplicas = 2
    Overlap = TRUE
    NoTimer = NoTimer
SPECIFICATION ScaleSpec
PROPERTIES
    ScalingKeepsGeneration
CHECK_DEADLOCK FALSE
