\* Two requests, workers or runs at a time; what follows Pair are the bounds of the parts, in their order.
SPECIFICATION Spec
CONSTANTS
    Pair = {p1, p2}
    Ids = {1, 2, 3, 4}
    TodoLists = {"A", "B"}
    DefaultList = "A"
    Count = 2
    MaxTodoCalls = 2
    ListItems = {1, 2, 3}
    Checks = {1, 2}
    Base = 4
    MaxLen = 4
    MaxMoves = 6
    Scanners = {"worker"}
    Copies = {1, 2, 3, 4}
    Uid <- TwoUids
    Looks = {"x", "blank"}
    NoLook = "blank"
    Far = {4}
    Linked = {2}
    MaxPairs = 4
    MaxDedupCalls = 1
    ImportIDs = {1, 2}
    Events = {"e"}
    Todos = {"t"}
    Plain = {"p"}
    Subtasks = {"s"}
    MaxImportFaults = 1
    Timed = {1, 2}
    TodoIds = {2}
    Starts = {2, 3}
    Minutes = {1}
    Devices = {"d"}
    Lookback = 2
    MaxItems = 1
    MaxNow = 2
    MaxRemEdits = 1
    MaxDeaths = 1
    Masters = {"m"}
    Overrides = {"o"}
    MasterOf <- UnderOne
    Contents = {1, 2}
    Every = 1
    Day = 2
    MaxFailures = 2
    MaxSubCalls = 2
SYMMETRY Alike
INVARIANTS
    TypeOK
    OneLevel
    RepeatsExactly
    DropsBetween
    ImportIsExact
    
    FeedAgrees
    PageIsWhole
    
PROPERTIES
    
    DuplicatesSettled
CHECK_DEADLOCK FALSE
