SPECIFICATION Spec
CONSTANTS
    Run = {r1}
    Losses = {{}, {"payload"}}
    NoManifest = NoManifest
    SealAfter = 2
    SyncEvery = 1
    MaxSegs = 3
    MaxTaken = 2
    MaxEnds = 1
    MaxUnnamed = 0
INVARIANT
    EveryLossIsNoted
