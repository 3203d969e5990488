\* Three requests of every kind, one backend there, names and URLs are indexed.
SPECIFICATION Spec
CONSTANTS
    n1 = n1
    n2 = n2
    n3 = n3
    u1 = u1
    u2 = u2
    u3 = u3
    Requests = {r1, r2, r3}
    Names = {n1, n2, n3}
    Urls = {u1, u2, u3}
    MaxBackends = 4
    Batches <- MCBatches
    Existing <- MCCrossRow
    UniqueColumns = {"name", "url"}
    NoRow = NoRow
    NoUrl = NoUrl
    NoCall = NoCall
    NoTxn = NoTxn
SYMMETRY Symmetry
INVARIANTS TypeOK NameUnique InsertedCounted BulkComplete UrlUnique
PROPERTIES ConflictIsReal ImplementsCatalogue
