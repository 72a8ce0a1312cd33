SPECIFICATION Spec
CONSTANTS
    Procs = {p1, p2}
    Lanes = {l1}
    Keys = {k1, k2}
    Periodic = {}
    Ids = {i1, i2, i3}
    NoKey = NoKey
    NoId = NoId
    MaxAttempts = 2
    BaseBackoff = 2
    MaxBackoff = 1
    JobTimeout = 1
    ReportTimeout = 0
    LockTimeout = 1
    MaxDelay = 0
    MaxLate = 0
    MaxFaults = 2
SYMMETRY Interchangeable
INVARIANTS TypeOK ExclusiveRun NoLostRequest
