CONSTANTS
    Orders = {o1, o2}
    Calls = {r1}
    Events = {e1, e2}
    Drains = {d1, d2}
    None = None
    Faults = {"ack", "attempt", "cache", "evict", "fetch", "import", "items", "paper",
              "printer", "stall", "unpaired"}
SPECIFICATION Spec
PROPERTIES OutboxDrains QueuedJobsEnd
\* When every queue of the instance has drained, nothing is left to do.
CHECK_DEADLOCK FALSE
