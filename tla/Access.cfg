\* Two requests, viewers, clients or processes at a time; the other bounds are with the instances.
SPECIFICATION Spec
CONSTANTS
    Pair = {p1, p2}
    Attempts = {a1, a2, a3}
    NoBody = NoBody
    Sessions = {1, 2}
    Links = {1, 2}
    Passwords = {"p", "weak"}
    Rejected = "weak"
    SessionTTL = 2
    AbsoluteTTL = 3
    TouchInterval = 1
    SudoWindow = 1
    LinkTTL = 1
    MaxCalls = 2
    MaxTime = 1
    ReqKeys = {"key"}
    Bodies = {"a", "b"}
    MaxCrashes = 1
    MaxPurges = 1
    Period = 5
    Interval = 2
    SweepEvery = 2
    MaxKeys = 2
    EvictFraction = 2
    MaxHits = 4
    MaxClock = 4
    Builds = {"old", "new", "more"}
    BuildLatest <- OneOlder
    Newest = 2
    MaxCommands = 3
    Boxes = {1, 2}
    SleepDays = {1, 2}
    Windows = {1}
    DefaultWindow = 1
    MaxBoxes = 2
    MaxStamp = 2
    Streams = {"s"}
    Kinds <- TwoKinds
    ViewFrom = 1
    ViewTo = 3
    ShareCals = {1}
    ShareTodos = FALSE
    ShareID = 1
    SubBuffer = 1
    MaxSubsPerOwner = 1
    ReplayLimit = 1
    MaxChanges = 3
    MaxDrops = 1
    Grants = {{"calendars:write"}, {"todos:read"}}
    AskedLimits = {0, 9}
    MaxChangeLimit = 2
    MaxSeq = 4
    ShareIDs = {1}
    Cals = {1, 2}
    Details = {"titles"}
    Viewers = {1, 2}
    MaxShares = 1
    MaxEdits = 1
    MaxFiles = 1
    MaxViews = 2
    Remotes = {"x"}
    ReadOnly = {}
    Dirs = {"both"}
    Locals = {1, 2}
    BindIds = {1, 2}
    Channels = {1, 2}
    MaxLocals = 2
    MaxLinkCalls = 3
    Todos = {t1, t2}
    Tasks = {g1, g2}
SYMMETRY Alike
INVARIANTS
    TypeOK
    AccountIsSafe
    RateIsKept
    
    
    WatchIsAlive
    
PROPERTIES
    RetriesAreSafe
    WritesWhatWasSeen
    StartsOnItsSchema
CHECK_DEADLOCK FALSE
