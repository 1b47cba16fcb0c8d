SPECIFICATION Spec
CONSTANTS
    Requests = {r1, r2}
    MaxStores = 1
CHECK_DEADLOCK FALSE
INVARIANTS EventOutlivesTransfer
SYMMETRY Symmetry
