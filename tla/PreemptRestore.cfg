SPECIFICATION FairSpec
CONSTANTS
    Requests = {r1, r2, r3}
    MaxPreempts = 2
CHECK_DEADLOCK FALSE
INVARIANTS TypeOK OneShot WaitsForAnswer
PROPERTIES Resumes GuardReopensUnlessAborted
