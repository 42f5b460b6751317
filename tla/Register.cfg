\* Checks and profiles are three of a kind, drains, lines, sales and customers two of a kind.
CONSTANTS
    None = None
    Faults = {"printer", "paper", "unpaired", "kill", "timeout"}
    Jobs = {1, 2, 3}
    Drains = {b1, b2}
    MaxAttempts = 2
    MaxTaps = 2
    MaxKills = 1
    Tabs = {t1}
    CartLines = {1, 2}
    Variants = {"plain", "spicy"}
    MaxQty = 2
    MaxCarts = 3
    Checks = {a1, a2, a3}
    Lines = {b1, b2}
    Counts = {2, 3}
    MaxUnits = 3
    Prices = {5, 7}
    Sales = {b1, b2}
    Dates = {1, 2}
    MaxOpens = 3
    MaxDays = 3
    Guests = {"regular", "mistyped"}
    Phoned = {"regular"}
    Malformed = {"mistyped"}
    Locals = {b1, b2}
    Profiles = {a1, a2, a3}
    MaxLost = 1
    MaxCallers = 1
SPECIFICATION Spec
SYMMETRY Alike
INVARIANTS
    TypeOK
    KitchenIsServed
    
    
    CustomersFollow
 
\* A register on which every order is paid and every ticket printed may stop.
CHECK_DEADLOCK FALSE
