SPECIFICATION Spec
CONSTANTS
    Events = {e1, e2}
    Remotes = {r1, r2}
    Pullers = {p1, p2}
    None = None
    MaxTries = 2
    MaxEdits = 3
    MaxRestores = 0
    MaxBinds = 1
    MaxFaults = 0
    MaxLost = 0
SYMMETRY Interchangeable
INVARIANTS QuietAgrees
CHECK_DEADLOCK FALSE
