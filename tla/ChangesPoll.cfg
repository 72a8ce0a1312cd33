SPECIFICATION ChangesSpec
CONSTANTS
    Grants = {{"calendars:write"}, {"todos:read"}}
    AskedLimits = {0, 2, 9}
    MaxChangeLimit = 3
    Follow = "latest"
    MaxSeq = 5
INVARIANT PollSkipsNothing
CHECK_DEADLOCK FALSE
