SPECIFICATION Spec
CONSTANTS
    Node = {n1, n2}
    Content = {c1, c2}
    Nothing = Nothing
    MaxSegment = 2
    Attempts = 2
    KeepHot = 1
    MaxChanges = 0
    Expiry = FALSE
SYMMETRY Symmetry
INVARIANTS
    PublishedIsReadable
    OneRivalWins
