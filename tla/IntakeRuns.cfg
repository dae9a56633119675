SPECIFICATION IntakeSpec
CONSTANTS
    Run = {r1}
    Losses = {{}}
    NoManifest = NoManifest
    NoCursor = NoCursor
    SealAfter = 2
    SyncEvery = 1
    MaxSegs = 10
    MaxTaken = 9
    MaxEnds = 1
    MaxUnnamed = 0
    Kinds = {"own", "other"}
    Batch = 1
    MaxLines = 3
    MaxRotate = 1
    Requests <- ThreeRequests
    Conn = {c1, c2, c3}
    MaxConnections = 2
    MaxRequests = 1
    MaxBody = 3
    MaxInflight = 4
    MaxPending = 2
    Routable = TRUE
    PollBudget = 2
    MaxVisits = 3
    Keys = {k1, k2}
    Pin = k1
    MaxSeals = 2
    Times = {1, 2}
    MaxIoFaults = 1
CHECK_DEADLOCK FALSE
INVARIANTS
    CursorIsInBounds
    IntakeIsAccounted
    QueueIsKept
PROPERTIES
    LinesAreSealed
    IngestComesToItsEnd
    RootsAreSigned
