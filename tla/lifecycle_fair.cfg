SPECIFICATION FairSpec
CONSTANTS
    Deployments = {d1}
    Earlier = {}
    Attempts = 2
    Concurrency = 1
    MaxStalls = 1
    MaxLost = 1
    MaxCrashes = 1
PROPERTIES
    JobsFinish
    DeploymentsSettle
    OrphansPickedUp
CHECK_DEADLOCK FALSE
