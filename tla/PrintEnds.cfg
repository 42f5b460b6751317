SPECIFICATION FairSpec
CONSTANTS
    Jobs = {j1, j2}
    MaxAttempts = 2
    BufferSize = 1
    Slots = {1}
    MaxRequeues = 1
    MaxCrashes = 1
    Troubles = {"offline", "publish", "throw", "device"}
    None = None
INVARIANTS TypeOK  
PROPERTIES JobsEnd
\* When every job is over, nothing is left to do.
CHECK_DEADLOCK FALSE
