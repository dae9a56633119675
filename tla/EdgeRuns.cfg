SPECIFICATION EdgeSpec
CONSTANTS
    JwkSets <- SomeJwkSets
    Presented <- SomeCredentials
    Window = 2
    Leeway = 1
    ReplayCap = 2
    MaxNow = 11
    Sent <- SomeStreams
    Lengths = {0, 2, 3}
    MaxHeaderSection = 7
    ReadChunk = 2
    MaxBodyLength = 2
    Ours = s1
    Theirs = s2
    Bodies = {"a", "b"}
    MaxLog <- ThreeAndOne
    ShardIds = {s1, s2}
    RecordLen = 2
    SyncEvery = 1
    MaxDelay = 1
    MaxQueue = 2
    MaxSteps = 3
CHECK_DEADLOCK FALSE
INVARIANTS
    DoorIsSound
    RequestsAreWhatWasSent
    SourcesAreAccounted
    AnchorsAreOurs
    ReplicaIsTheLog
    ShardKeepsItsPromise
PROPERTIES
    ReadsAreProved
    ParsersAgree
    RecordsAgree
    AttestationsAgree
