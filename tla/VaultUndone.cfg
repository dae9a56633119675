SPECIFICATION Spec
CONSTANTS
    r1 = r1
    r2 = r2
    s1 = s1
    s2 = s2
    Record = {r1, r2}
    Subject = {s1, s2}
    About <- OneShared
    None = None
    Custodian = {"persisted"}
    Window = 1
    MaxEnds = 1
    MaxFaults = 0
    MayMiss = {r1}
INVARIANT
    DestructionIsDurable
