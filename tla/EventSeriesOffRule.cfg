SPECIFICATION Spec
CONSTANTS
    Ids = {1, 2, 3, 4}
    Nil = Nil
    Horizon = 5
    Contents = {"a", "b", "x"}
    Cancelled = "x"
    Keep = Keep
    Creations <- OffRule
    Patches <- MCPatches
    MaxEdits = 3
    MaxDeletes = 0
    MaxTrashOps = 0
    LoneTrash = FALSE
CHECK_DEADLOCK FALSE
INVARIANT EditDropsStrays
