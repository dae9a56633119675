SPECIFICATION Spec
CONSTANTS
    Node = {n1}
    Content = {c1, c2}
    Nothing = Nothing
    MaxSegment = 1
    Attempts = 2
    KeepHot = 1
    MaxChanges = 0
    Expiry = FALSE
SYMMETRY Symmetry
INVARIANT
    UnavailableMeansNothing
