SPECIFICATION FairSpec
CONSTANTS
    NumAccounts = 2
    Opening <- MCOpening
    Transfer = {t1, t2}
    Request = {r1, r2, r3}
    MaxAmount = 1
    NoId = NoId
    NoOne = NoOne
INVARIANTS
    TypeOK
    BalanceConserved
    SnapshotCurrent
    NoDeadlock
    EventAfterCommit
PROPERTIES
    ImplementsLedger
    RequestsEnd
