SPECIFICATION FairSpec
CONSTANTS
    Procs = {p1}
    Lanes = {l1}
    Keys = {k1}
    Periodic = {k1}
    Ids = {i1, i2, i3}
    NoKey = NoKey
    NoId = NoId
    MaxAttempts = 2
    BaseBackoff = 1
    MaxBackoff = 1
    JobTimeout = 1
    ReportTimeout = 0
    LockTimeout = 1
    MaxDelay = 0
    MaxLate = 0
    MaxFaults = 1
PROPERTIES QueuedIsClaimed OrphanIsRecovered
