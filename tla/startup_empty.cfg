SPECIFICATION StartupSpec
CONSTANTS
    Processes = {p1, p2}
    Databases <- EmptyDatabase
    Environments <- OneWrong
    MaxEnds = 2
PROPERTIES
    EventuallyListens
CHECK_DEADLOCK FALSE
