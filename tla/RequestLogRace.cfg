\* Three requests, two records there: ids are purged and used again.
SPECIFICATION Spec
CONSTANTS
    i1 = i1
    i2 = i2
    Requests = {r1, r2, r3}
    LogIds = {i1, i2}
    Times = {0, 1}
    BatchSizes = {1, 2}
    Existing = {i1, i2}
    FinishedAt <- MCFinishedAt
    Absent = Absent
    NoCall = NoCall
    NoTxn = NoTxn
SYMMETRY Symmetry
INVARIANTS TypeOK DecisionHasLog AllOrNothing PurgesCounted
PROPERTIES ConflictIsReal ImplementsLedger
