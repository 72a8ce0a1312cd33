SPECIFICATION Spec
CONSTANTS
    Events = {e1, e2}
    Remotes = {r1, r2}
    Pullers = {p1}
    None = None
    MaxTries = 2
    MaxEdits = 3
    MaxRestores = 0
    MaxBinds = 1
    MaxFaults = 1
    MaxLost = 1
SYMMETRY Interchangeable
INVARIANTS QuietAgrees NothingForgotten NoDoubles
PROPERTIES PendingYieldsToNewer
CHECK_DEADLOCK FALSE
