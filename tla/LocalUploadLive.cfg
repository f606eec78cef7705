SPECIFICATION LiveSpec
CONSTANTS
    f1 = f1
    f2 = f2
    k1 = k1
    k2 = k2
    k3 = k3
    a = a
    b = b
    NoKey = NoKey
    Spot <- MCSpot
    MaxTries = 2
    Instances = {a}
    Sources = {f1, f2}
    Labelled = {f1}
    Keys = {k1, k2}
    HasAction = TRUE
    Bulk = TRUE
    ChunkSize = 2
    MaxRuns = 1
    MaxEdits = 1
    MaxForeign = 1
INVARIANTS LabelsAreNotRecreated
 
CHECK_DEADLOCK FALSE
