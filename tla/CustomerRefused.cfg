CONSTANTS
    Guests = {g1}
    Phoned = {g1}
    Malformed = {}
    Locals = {l1}
    Profiles = {s1}
    Orders = {o1}
    None = None
    MaxLost = 0
    MaxCallers = 0
    Faults = {}
SPECIFICATION Spec
INVARIANT OnlyKnownIds
CHECK_DEADLOCK FALSE
