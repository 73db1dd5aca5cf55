SPECIFICATION Spec
CONSTANTS
    Deployments = {d1}
    Earlier = {}
    Attempts = 2
    Concurrency = 2
    MaxStalls = 1
    MaxLost = 0
    MaxCrashes = 0
INVARIANTS
    LiveIsServing
CHECK_DEADLOCK FALSE
