SPECIFICATION PartsSpec
CONSTANTS
    Ids = {d1}
    Jobs = {j1, j2, j3, j4, j5}
    Requested = 2
    Calls = {c1, c2, c3}
    None = None
    RuntimeName = RuntimeName
    MaxActive = 1
    MaxFaults = 1
    MaxCrashes = 1
    Nodes = {n1, n2}
    Local = n1
    Deployed = {d1}
    Expired = 2
    NoNode = NoNode
    Processes = {p1, p2}
    Databases <- StartedBefore
    Environments <- OneWrong
    MaxEnds = 2
    Rows = {d1, d2}
    Slots = {s1, s2}
    NoRow = NoRow
INVARIANTS
    PartsTypeOK
    LiveWasCheckedOrFailed
    QueueKeepsOrder
    RouteServes
    NothingLeftRunning
    RunsAtHome
    ListensSoundly
    ShowsOwnLatest
PROPERTIES
    EveryJobSettles
    KeepsPromise
    StaysAvailable
    PickedUp
    EventuallyListens
    ShowsOutcome
CHECK_DEADLOCK FALSE
