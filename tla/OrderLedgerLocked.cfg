SPECIFICATION Spec
CONSTANTS
    Orders = {o1}
    Requests = {r1, r2}
    Endpoints <- LockedEndpoints
    Prices = {1, 2}
    Surcharges = {0}
    Tips = {0, 1}
    MutationIds = {m1}
    NoMutation = NoMutation
    MaxGoods = 2
    MaxTip = 1
    MaxTaken = 3
INVARIANTS
    HeldWithinBill
    PaidIsCovered
    BillMatchesLines
PROPERTY ImplementsTill
