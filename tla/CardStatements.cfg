SPECIFICATION Spec
CONSTANTS
    NumCycles = 4
    Expense = {e1, e2}
    Refund = {f1}
    Payment = {p1, p2}
    MaxAmount = 1
    CreditLimit = 5
    Opening = 0
    Repost = FALSE
    Straddle = FALSE
SYMMETRY Symmetric
CHECK_DEADLOCK FALSE
INVARIANTS
    TypeOK
    DebtCarried
    SettledIffPaid
    PaidWithDebt
    ReportedDebt
PROPERTIES
    ClosedWindowFrozen
