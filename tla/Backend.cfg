\* Two of the lines are alike, and so are the plans; the rest is two of a kind.
CONSTANTS
    MaxAttempts = 2
    MaxStalls = 1
    Calls = {a1, a2}
    CallKeys = {"call"}
    MaxMoves = 1
    Plans = {p1, p2}
    MaxEvents = 3
    Keys = {"key"}
    Stores = {"raw", "managed"}
    Servings = {1, 2}
    FirstServing = 1
    MaxPrints = 2
    Events = {a1, a2}
    Clerks = {c1}
    Requests = {q1, q2, q3}
    Subs = {a1, a2}
    Rows = {i1}
    Items = {p1, p2, p3}
    Handlers = {a1, a2}
    Taps = {t1}
    None = None
    Faults = {"ack", "attempt", "cache", "deliver", "die", "evict", "expire", "fetch",
              "http", "import", "items", "queue", "refuse", "stall", "throw"}
SPECIFICATION Spec
SYMMETRY Alike
INVARIANTS
    TypeOK
    CallsBecomeOrders
    RegisterHears
    PlanFollowsStripe
    KeyIsHonoured
PROPERTY FiresAreKept
\* When every call, event and request of the instance is over, nothing is left to do.
CHECK_DEADLOCK FALSE
