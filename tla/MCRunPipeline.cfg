SPECIFICATION PipelineSpec
CONSTANTS
    host = host
    sub = sub
    w1 = w1
    w2 = w2
    NSteps <- Short
    Feeds <- ShortFeeds
    Values = {host, sub}
    Target = host
    Executors = {w1, w2}
    MaxFaults = 2
    MaxEdits = 1
INVARIANTS
    GateAllowed
    Lineage
    OnceEach
    RowsAreTrue
PROPERTIES
    RunsComplete
