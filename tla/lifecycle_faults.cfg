SPECIFICATION LiveSpec
CONSTANTS
    Deployments = {d1, d2}
    Earlier = {d2}
    Attempts = 2
    Concurrency = 2
    MaxStalls = 1
    MaxLost = 1
    MaxCrashes = 1
CONSTRAINT EarlierStay
INVARIANTS
    TypeOK
    ReadyIsServing
    OnePromoter
    NotForgotten
    PhaseTellsOutcome
PROPERTIES
    ServingStays
CHECK_DEADLOCK FALSE
