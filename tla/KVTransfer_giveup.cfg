SPECIFICATION FairSpec
CONSTANTS
    Workers = {w1, w2}
    Requests = {r1}
    MaxChunks = 2
    HeartbeatMayFail = TRUE
CHECK_DEADLOCK FALSE
INVARIANTS FreedByAll
PROPERTIES EventuallyFreed
