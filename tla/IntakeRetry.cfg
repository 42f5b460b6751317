SPECIFICATION FairSpec
CONSTANTS
    Attempts = {a1, a2, a3}
    Channels = {"pos"}
    Keys = {k1}
    NoKey = NoKey
    Locations = {l1}
    NoLocation = NoLocation
    Phones = {p1}
    NoPhone = NoPhone
    Stake = 1
    Redeems = {0, 1}
    Earned = 1
    NoOrder = NoOrder
INVARIANTS
    TicketPrintedOnce
    PointsAddUp
PROPERTY RequestsEnd
\* Each attempt is one transmission: when all are over, nothing is left to do.
CHECK_DEADLOCK FALSE
