SPECIFICATION Spec
CONSTANTS
    Id = {a, b}
    NoId = NoId
    Header = Header
    OtherOwner = OtherOwner
    NotJournal = NotJournal
    Junk = Junk
    DedupCap = 1
    MaxSeq = 3
    MaxLies = 1
    MaxRot = 2
    LiveRecovery = TRUE
SYMMETRY IdSymmetry
INVARIANTS
    MemoryMatchesFile
    RecoveredIsSound
PROPERTIES
    RecoveryDestroysNoEvidence
    OneLieIsReported
    AckedOnlyGrows
