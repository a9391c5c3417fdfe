CONSTANTS
    Accounts = {a1}
    Dispatchers = {d1, d2}
    MaxAttempts = 2
    MaxFaults = 2
SPECIFICATION Spec
CHECK_DEADLOCK FALSE
INVARIANT NeverWithoutAWorkspace
