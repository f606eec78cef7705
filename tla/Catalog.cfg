SPECIFICATION Spec
CONSTANTS
    now = now
    then = then
    Latest = now
    a = a
    b = b
    here = here
    there = there
    x = x
    y = y
    NoTrack = NoTrack
    Nobody = Nobody
    Absent = Absent
    Tracks = {a, b}
    Backends = {here, there}
    Accounts = {ann}
    Dates = {now}
    Layers = {x}
    Loads = {}
    Projects <- OneLayer
    Deployments <- Served
    Faults = {"cancel", "upgrade"}
    MaxReads = 2
INVARIANTS TypeOK RegistryIsCurrent PendingIsUnderway  PublishKeepsTrack
PROPERTIES NoEditLost
