CONSTANTS
    NumEntries = 2
    Group <- OneGroup
    NumAccounts = 1
    NumCards = 1
    Request = {r1, r2}
    MaxAmount = 2
    MaxLimit = 2
    Overlap = TRUE
SPECIFICATION Spec
SYMMETRY Symmetric
INVARIANT SpentKept
