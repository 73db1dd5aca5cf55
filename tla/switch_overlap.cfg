CONSTANTS
    Calls = {c1, c2, c3}
    None = None
    RuntimeName = RuntimeName
    MaxActive = 2
    MaxFaults = 0
    MaxCrashes = 0
SPECIFICATION SwitchSpec
PROPERTY HandoffToRunning
CHECK_DEADLOCK FALSE
