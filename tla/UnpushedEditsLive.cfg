SPECIFICATION Spec
CONSTANTS
    c1 = c1
    c2 = c2
    u1 = u1
    x1 = x1
    ann = ann
    bob = bob
    None = None
    Nobody = Nobody
    Creates <- MCTwoCreates
    Changes <- MCNothing
    Deletes <- MCNothing
    Accounts <- MCAnnAndBob
    Faults <- MCAllFaults
    MaxPayload = 1
    MaxSaves = 1
    MaxDocs = 2
    MaxCrashes = 0
    Uploads = TRUE
    EmptySaves = TRUE
    Reopens = FALSE
    Sessions = FALSE
CHECK_DEADLOCK FALSE
INVARIANTS UploadIsWhatWasChecked UploadIsDurablyUncertain
PROPERTIES UploadEnds ClaimIsReleased
