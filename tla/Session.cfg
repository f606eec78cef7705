SPECIFICATION LiveSpec
CONSTANTS
    ann = ann
    bob = bob
    Nobody = Nobody
    Accounts <- MCBoth
    First <- MCFirst
    Faults <- MCNothing
    Cancels <- MCOthers
    HasAction = TRUE
    MaxGen = 2
    MaxAsks = 2
INVARIANTS TypeOK EditsSavedAsOwner CredentialsAreOwn AskedOnce OnePublish
 
CHECK_DEADLOCK FALSE
