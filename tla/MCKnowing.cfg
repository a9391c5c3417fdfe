SPECIFICATION KnowingSpec
CONSTANTS
    i1 = i1
    i2 = i2
    s1 = s1
    p1 = p1
    p2 = p2
    p3 = p3
    Invocations = {i1, i2}
    Subjects = {1, 2, 3, 4}
    Says <- Spoken
    Cites <- Cited
    Covered = {2}
    Unfit = {4}
    Page = 2
    Problems <- SightedAt
    Passes = {1, 2}
    Rulers <- One
    SeatOfRuler <- OneSeat
    Matched <- Sighted
    TargetsMade = {"t", "u"}
    TargetNames = {"a", "b"}
    RootsMade = {"e"}
    Retargeting <- Three
    LastOfTarget = 3
    ToolsMade = {"t"}
    ToolNames = {"n"}
    ToolIntensities = {"loud", "light"}
    ToolRoles = {}
    Keepers <- Three
    RoleOfKeeper <- ThreeAdmins
    FieldsMapped = {"f"}
    RolesMapped = {"plain", "derived_from"}
    RolesOfOne = {"derived_from"}
    Promoters <- Three
    LastOfField = 2
    SpacesMade = {"v", "w"}
    SpaceNames = {"m", "n"}
    Managers = {"owner", "admin"}
    RoleOfManager <- Titles
    MostAsked = 2
    MaxAttempts = 2
    MaxFaults = 1
SYMMETRY Symmetry
CHECK_DEADLOCK FALSE
INVARIANTS
    GraphIsWhole
    FindingsAreCurrent
    ToldIsSo
    CatalogIsKept
    LedgerIsWhole
PROPERTIES
    StandingIsKept
    NarrowingPermitsNothing
