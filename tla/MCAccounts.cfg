SPECIFICATION AccountsSpec
CONSTANTS
    x1 = x1
    x2 = x2
    y1 = y1
    y2 = y2
    z1 = z1
    z2 = z2
    s1 = s1
    s2 = s2
    q1 = q1
    q2 = q2
    Nobody = Nobody
    Persons = {"ana"}
    Addresses <- TwoInvitations
    Passwords <- TwoPasswords
    Letters = {"link"}
    Visits <- TwoVisits
    Accounts <- TwoAccounts
    Invitations <- TwoInvitations
    Requests <- TwoRequests
    SeatRoles = {"owner", "member", "client"}
    Given = {1}
SYMMETRY Symmetry
CHECK_DEADLOCK FALSE
INVARIANTS
    OnceEach
    StoredIsChosen
    RowsTellTheSeats
PROPERTY DoneForGood
