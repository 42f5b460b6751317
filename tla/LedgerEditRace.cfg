SPECIFICATION Spec
CONSTANTS
    Orders = {o1}
    Requests = {r1, r2}
    Endpoints = {"remote", "pay", "edit"}
    Prices = {1, 2}
    Surcharges = {0}
    Tips = {0, 1}
    MutationIds = {m1}
    NoMutation = NoMutation
    MaxGoods = 2
    MaxTip = 1
    MaxTaken = 3
INVARIANT HeldWithinBill
\* An order that is closed takes no further step.
CHECK_DEADLOCK FALSE
