\* Two state changes decide on the same version of the row.
SPECIFICATION FairSpec
CONSTANTS
    n1 = n1
    n2 = n2
    n3 = n3
    u1 = u1
    u2 = u2
    u3 = u3
    Requests = {r1, r2}
    Names = {n1, n2}
    Urls = {u1, u2}
    MaxBackends = 1
    Batches <- MCNoBatch
    Existing <- MCOneRow
    UniqueColumns = {"name"}
    NoRow = NoRow
    NoUrl = NoUrl
    NoCall = NoCall
    NoTxn = NoTxn
PROPERTIES StateTransitionsEnforced
