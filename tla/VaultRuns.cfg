SPECIFICATION FairSpec
CONSTANTS
    r1 = r1
    r2 = r2
    s1 = s1
    s2 = s2
    Record = {r1, r2}
    Subject = {s1, s2}
    About <- OneShared
    None = None
    Custodian = {"persisted", "scheduling"}
    Window = 1
    MaxEnds = 1
    MaxFaults = 1
    MayMiss = {r1}
INVARIANTS
    VaultTypeOK
    ErasedStaysErased
    SealedOpens
    RowOutlivesKeys
    NoEarlyDate
PROPERTY
    AskedIsForgotten
