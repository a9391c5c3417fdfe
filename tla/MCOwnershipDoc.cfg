CONSTANTS
    Accounts = {x, y}
    Requests = {q1, q2}
    Dispatchers = {d1}
    Roles = {"owner", "admin"}
    MaxTries = 2
SPECIFICATION Spec
CHECK_DEADLOCK FALSE
INVARIANT NobodyIsStranded
