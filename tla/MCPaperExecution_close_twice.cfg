SPECIFICATION PaperSpec
CONSTANTS
    Threads = {monitor, operator}
    Orders = {o1}
    Manual = {}
    Directions = {"BUY"}
    Prices = {1, 2}
    Quantities = {1}
    Deposits = {}
    Default = 3
    AllowUnfunded = TRUE
    MaxOps = 3
    MaxFailures = 0
INVARIANTS
    CreditedOnce
\* Nobody has to trade.
CHECK_DEADLOCK FALSE
