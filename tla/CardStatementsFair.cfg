SPECIFICATION FairSpec
CONSTANTS
    NumCycles = 4
    Expense = {e1}
    Refund = {f1}
    Payment = {p1}
    MaxAmount = 2
    CreditLimit = 5
    Opening = 0
    Repost = TRUE
    Straddle = TRUE
CHECK_DEADLOCK FALSE
INVARIANTS
    MoneyConserved
PROPERTIES
    RecordedOnce
    EveryCycleRecorded
