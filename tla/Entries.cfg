CONSTANTS
    NumEntries = 2
    Group <- OneGroup
    NumAccounts = 2
    NumCards = 2
    Request = {r1, r2}
    MaxAmount = 2
    MaxLimit = 1
    Overlap = FALSE
SPECIFICATION Spec
SYMMETRY Symmetric
INVARIANTS TypeOK BalanceKept SpentKept CirclesHaveAMarker
PROPERTIES SettledFrozen ImplementsBook
CONSTRAINT Bounds
