SPECIFICATION FairSpec
CONSTANTS
    Events = {e1, e2}
    Remotes = {r1, r2}
    Pullers = {p1}
    None = None
    MaxTries = 2
    MaxEdits = 3
    MaxRestores = 0
    MaxBinds = 1
    MaxFaults = 1
    MaxLost = 0

PROPERTIES SyncSettles
CHECK_DEADLOCK FALSE
