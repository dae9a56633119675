SPECIFICATION FairSpec
CONSTANTS
    Run = {r1, r2}
    Losses = {{}, {"edge", "payload"}}
    NoManifest = NoManifest
    SealAfter = 2
    SyncEvery = 1
    MaxSegs = 4
    MaxTaken = 3
    MaxEnds = 2
    MaxUnnamed = 1
INVARIANTS
    SealedHistoryIsWhole
    NotesBesideRecords
PROPERTIES
    ShardIsOneLog
    EverythingIsSealed
