SPECIFICATION Spec
CONSTANTS
    f1 = f1
    f2 = f2
    k1 = k1
    k2 = k2
    k3 = k3
    a = a
    b = b
    NoKey = NoKey
    Spot <- MCSpot
    MaxTries = 1
    Instances = {a, b}
    Sources = {f1}
    Labelled = {}
    Keys = {k1, k3}
    HasAction = TRUE
    Bulk = FALSE
    ChunkSize = 1
    MaxRuns = 2
    MaxEdits = 1
    MaxForeign = 0
INVARIANTS AtMostOnce
PROPERTIES KeepsOnce
CHECK_DEADLOCK FALSE
