CONSTANTS
    Contents = {c1}
    Sources = {s1, s2}
    Workspaces = {s1, s2}
    HomeOf <- OwnHomes
    Requests = {q1, q2}
    Sweeps = {w1, w2}
    MaxCaptures = 2
    MaxAsked = 3
    MaxPlaced = 2
SPECIFICATION Spec
SYMMETRY Symmetry
CHECK_DEADLOCK FALSE
INVARIANTS
    LossIsARace
    HoldsAreKept
    LedgerIsTrue
PROPERTIES
    PurgedForGood
    NoTwinUnderBlock
