SPECIFICATION Spec
CONSTANTS
    now = now
    then = then
    Latest = now
    a = a
    b = b
    here = here
    there = there
    x = x
    y = y
    NoTrack = NoTrack
    Nobody = Nobody
    Absent = Absent
    Tracks = {a, b}
    Backends = {here}
    Accounts = {}
    Dates = {now, then}
    Layers = {x, y}
    Loads = {"reading"}
    Projects <- TwoPlaces
    Deployments <- Archived
    Faults <- SwapFaults
    MaxReads = 1
INVARIANTS ViewsStayReadOnly
PROPERTIES ViewIsWhole
CHECK_DEADLOCK FALSE
