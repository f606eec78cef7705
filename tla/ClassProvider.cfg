SPECIFICATION ProviderSpec
CONSTANTS
    c1 = c1
    c2 = c2
    u1 = u1
    x1 = x1
    None = None
    Creates <- MCCreates
    Changes <- MCChanges
    Deletes <- MCDeletes
    MaxPayload = 2
    MaxSaves = 3
CHECK_DEADLOCK FALSE
INVARIANTS TypeOK NoDuplicateRow AckedIsOnServer RefusalIsWholeStory
PROPERTIES SaveEnds
