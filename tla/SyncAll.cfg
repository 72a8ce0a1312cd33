SPECIFICATION Spec
CONSTANTS
    Events = {e1, e2}
    Remotes = {r1, r2}
    Pullers = {p1}
    None = None
    MaxTries = 2
    MaxEdits = 2
    MaxRestores = 1
    MaxBinds = 2
    MaxFaults = 1
    MaxLost = 1
SYMMETRY Interchangeable
INVARIANTS TypeOK CleanIsSynced
CHECK_DEADLOCK FALSE
