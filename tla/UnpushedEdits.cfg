SPECIFICATION Spec
CONSTANTS
    c1 = c1
    c2 = c2
    u1 = u1
    x1 = x1
    ann = ann
    bob = bob
    None = None
    Nobody = Nobody
    Creates <- MCOneCreate
    Changes <- MCChange
    Deletes <- MCNothing
    Accounts <- MCAnn
    Faults <- MCNoFaults
    MaxPayload = 1
    MaxSaves = 2
    MaxDocs = 2
    MaxCrashes = 1
    Uploads = TRUE
    EmptySaves = FALSE
    Reopens = TRUE
    Sessions = TRUE
CHECK_DEADLOCK FALSE
INVARIANTS JournalTypeOK   
