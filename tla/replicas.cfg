CONSTANTS
    Generations = {g1, g2, g3}
    Count = 2
    MaxIndex = 2
    MaxActive = 1
    MaxFaults = 1
    MaxCrashes = 1
SPECIFICATION Spec
INVARIANTS
    TypeOK
    PromiseKept
    RouteServes
    NothingLeftRunning
PROPERTIES
    RollsOutOrBack
SYMMETRY Symmetry
CHECK_DEADLOCK FALSE
