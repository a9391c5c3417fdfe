SPECIFICATION AuthoringSpec
CONSTANTS
    p1 = p1
    p2 = p2
    o1 = o1
    q1 = q1
    k1 = k1
    c1 = c1
    e1 = e1
    e2 = e2
    r1 = r1
    r2 = r2
    n1 = n1
    p3 = p3
    Watchers <- Three
    Pages = {1, 2}
    MaxTime = 3
    MaxDeaths = 1
    Candidates = {"c", "d"}
    Imports = {"c"}
    Reviewers <- Three
    OpenQuestions = {"q"}
    OpenRecords = {"t"}
    Evidence <- OneOrBoth
    MaySee <- ToOne
    Readers = {"ana", "bob"}
    MaxChanges = 2
    MaxRefreshes = 2
    Issuers <- Two
    Whose <- OfAna
    SeatOf <- Writers
    Jotted = {n1}
    Moments <- TwoMoments
    Toggled = {"raw_artifacts", "invocation_log"}
    MaxToggles = 2
    MaxRevisions = 1
    Askers <- Two
    SeatOfAsker <- Admins
    Selectable = {"hidden", "seen"}
    Quotes = {"said", "unsaid"}
    InCapture = {"said"}
    MaxResults = 2
    MaxAttempts = 2
    MaxOperations = 2
    MaxReviews = 2
    MaxMoves = 1
    Passages = {1, 2, 3}
    SourceOf <- OneAndTwo
    Confidential = {"b"}
    Groupings = {k1}
    Analysts = {"eve"}
    SeatOfAnalyst <- EveWrites
    Cleared = {"eve"}
    MaxLinks = 3
    MaxReads = 2
    Subjects = {r1, r2}
    Citable = {o1}
    CitedBy <- SecondCites
    Editors <- Two
    SeatOfEditor <- Writers
    MaxCited = 1
    MaxAliases = 2
    MaxClaims = 2
    MaxAsked = 1
    Entries = {1, 2, 3}
    EntryCites <- ThirdHides
    Datable = {"hidden"}
    Chroniclers <- Two
    SeatOfChronicler <- Writers
    neighborhoodLimit = 2
    MaxConnections = 2
    MaxEvents = 2
    MaxGroups = 1
    MaxEdited = 2
    Observations = {o1}
    Questions = {q1}
    Clusters = {k1}
    Connections = {c1}
    Events = {e1, e2}
    Relationships = {r1}
    Ends <- BothEnds
    Drafts <- FewDrafts
    People <- Two
    MaxEdits = 2
    MaxSnapshots = 1
    MaxDecisions = 2
SYMMETRY Symmetry
CHECK_DEADLOCK FALSE
INVARIANTS
    BriefsAreTrue
    ReportsAreTrue
    RecordsAreWhole
    GraphsAreDrawn
    AnswersAreGrounded
    WatchIsKept
    InboxIsTrue
