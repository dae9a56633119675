SPECIFICATION FairSpec
CONSTANTS
    Node = {n1}
    Content = {c1, c2}
    Nothing = Nothing
    MaxSegment = 2
    Attempts = 2
    KeepHot = 1
    MaxChanges = 2
    Expiry = TRUE
INVARIANT
    AnswersAreCommitted
PROPERTY
    EveryCallReturns
