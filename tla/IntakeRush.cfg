SPECIFICATION Spec
CONSTANTS
    Attempts = {a1, a2, a3}
    Channels = {"ai", "pos"}
    Keys = {k1, NoKey}
    NoKey = NoKey
    Locations = {l1}
    NoLocation = NoLocation
    Phones = {NoPhone}
    NoPhone = NoPhone
    Stake = 1
    Redeems = {0, 1}
    Earned = 0
    NoOrder = NoOrder
INVARIANTS
    OneOrderPerKey
    TicketsIdentify
    AnswersAreOwn
PROPERTY ImplementsOrderBook
SYMMETRY AttemptSymmetry
\* Each attempt is one transmission: when all are over, nothing is left to do.
CHECK_DEADLOCK FALSE
