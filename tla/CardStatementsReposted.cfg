SPECIFICATION Spec
CONSTANTS
    NumCycles = 4
    Expense = {e1}
    Refund = {f1}
    Payment = {p1}
    MaxAmount = 2
    CreditLimit = 5
    Opening = 0
    Repost = TRUE
    Straddle = FALSE
CHECK_DEADLOCK FALSE
PROPERTIES
    ClosedWindowFrozen
