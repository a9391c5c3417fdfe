SPECIFICATION BackgroundSpec
CONSTANTS
    a = a
    b = b
    c = c
    e1 = e1
    e2 = e2
    d1 = d1
    Accounts = {account}
    Dispatchers = {d1, d2}
    MaxAttempts = 2
    MaxFaults = 1
    NoEvent = NoEvent
    BackoffCap = 1
    Pairs <- ThreePairs
    Interval <- Intervals
    Batch = 2
    MaxEdits = 1
INVARIANTS
    ChainIsWhole
PROPERTIES
    PairsKeepTheirInterval
    PairsAreServed
    EventsSettle
    EveryoneIsHoused
CHECK_DEADLOCK FALSE
