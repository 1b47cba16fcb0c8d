SPECIFICATION Spec
CONSTANTS
    Workers = {w1, w2}
    Requests = {r1, r2}
    MaxChunks = 2
    HeartbeatMayFail = FALSE
SYMMETRY Symmetry
CHECK_DEADLOCK FALSE
INVARIANTS TypeOK FreedQuiet EngineAlive RunsLoaded
PROPERTIES LeaseKept
