SPECIFICATION FairSpec
CONSTANTS
    Requests = {r1, r2}
    MaxStores = 3
CHECK_DEADLOCK FALSE
INVARIANTS TypeOK EventHeldWhileHealthy NeverRaises ResultOnce
PROPERTIES EveryResultRead
