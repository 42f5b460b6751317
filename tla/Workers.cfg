CONSTANTS
    MaxAttempts = 2
    MaxStalls = 1
    MaxMishaps = 1
    MaxAsked = 1
    Sales = {s1}
    Items = {p1, p2}
    Taps = {"sell", "open", "append", "settle", "fire", "retry"}
    Refusable = {"append"}
    SetupJobs = {"first", "again"}
    FirstJob = "first"
    SetupAttempts = 3
    MaxDemands = 1
    Editors = {p1, p2}
    Guests = {g1}
    MaxEdits = 2
    MaxClock = 2
    Syncs = {"sync"}
    Slots = {p1, p2}
    Workers = 1
    MaxSyncs = 1
    MaxDeletes = 1
    MaxDeaths = 1
    None = None
    Faults = {"delete", "die", "kill", "lost", "mail", "number", "queue",
              "stall", "storage", "suspended", "timeout", "transcript", "vendor"}
SPECIFICATION Spec
SYMMETRY Alike
INVARIANTS
    TypeOK
    HeardInOrder
    RetryAddsNothing
    SetupHolds
    ReadsAreFresh
    EditsReachTheAgent
    BilledOnce
PROPERTY
    ImplementsGuestBill
\* When every job of the instance is over, nothing is left to do.
CHECK_DEADLOCK FALSE
