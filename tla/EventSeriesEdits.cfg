SPECIFICATION Spec
CONSTANTS
    Ids = {1, 2, 3, 4}
    Nil = Nil
    Horizon = 4
    Contents = {"a", "b", "x"}
    Cancelled = "x"
    Keep = Keep
    Creations <- MCCreations
    Patches <- MCPatches
    MaxEdits = 3
    MaxDeletes = 2
    MaxTrashOps = 1
    LoneTrash = FALSE
INVARIANTS TypeOK OverridesOccur
PROPERTIES TouchesOne PastStays FutureKeepsTimes  RestoreIsExact
CHECK_DEADLOCK FALSE
