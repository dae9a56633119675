SPECIFICATION Spec
CONSTANTS
    Id = {a, b, c}
    NoId = NoId
    Header = Header
    OtherOwner = OtherOwner
    NotJournal = NotJournal
    Junk = Junk
    DedupCap = 2
    MaxSeq = 4
    MaxLies = 0
    MaxRot = 0
    LiveRecovery = FALSE
SYMMETRY IdSymmetry
INVARIANTS
    TypeOK
    AckedSurvives
    NoFalseAlarm
    WindowIsExact
PROPERTY
    ImplementsContract
