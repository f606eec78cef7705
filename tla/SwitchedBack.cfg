SPECIFICATION Spec
CONSTANTS
    ann = ann
    bob = bob
    Nobody = Nobody
    Accounts <- MCBoth
    First <- MCFirst
    Faults <- MCRenewal
    Cancels <- MCNothing
    HasAction = TRUE
    MaxGen = 1
    MaxAsks = 1
INVARIANTS EditsSavedAsOwner
CHECK_DEADLOCK FALSE
