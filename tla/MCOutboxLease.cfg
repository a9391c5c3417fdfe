CONSTANTS
    Events = {e1, e2}
    Dispatchers = {d1, d2}
    NHandlers = 2
    Batch = 2
    Lease = 2
    MaxAttempts = 2
    Backoff <- DefaultBackoff
    BackoffCap = 1
    MaxFaults = 1
    NoEvent = NoEvent
SPECIFICATION LeaseSpec
INVARIANTS
    NothingLost
    BuriedIsExhausted
    ChainOrder
    ExclusiveUntilOverrun
PROPERTY DeliversAtLeastOnce
CHECK_DEADLOCK FALSE
