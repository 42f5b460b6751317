CONSTANTS
    Requests = {r1}
    Keys = {k1}
    NoKey = NoKey
    MaxAttempts = 2
    MaxStalls = 1
    Faults = {"attempt"}
SPECIFICATION Spec
INVARIANT SkippedWasProcessed
\* When the job of the one call is over, nothing is left to do.
CHECK_DEADLOCK FALSE
