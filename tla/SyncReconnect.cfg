SPECIFICATION Spec
CONSTANTS
    Events = {e1, e2}
    Remotes = {r1, r2}
    Pullers = {p1}
    None = None
    MaxTries = 2
    MaxEdits = 2
    MaxRestores = 0
    MaxBinds = 2
    MaxFaults = 0
    MaxLost = 0
SYMMETRY Interchangeable
INVARIANTS NoDoubles
CHECK_DEADLOCK FALSE
