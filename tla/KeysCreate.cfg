\* Creations and bootstrap jobs that draw colliding tokens and prefixes.
SPECIFICATION Spec
CONSTANTS
    k1 = k1
    k2 = k2
    k3 = k3
    k4 = k4
    Requests = {r1, r2, r3}
    Tokens = {k1, k2, k3, k4}
    Presented = {k1}
    PrefixOf <- MCSharedPrefix
    Existing = {k1}
    InitialRow <- MCSimilarKey
    Ops = {"create", "bootstrap", "revoke"}
    Grants <- MCGrants
    Expiries = {1}
    Names = {"bootstrap-admin", "similar"}
    AuthRequired = TRUE
    JobsOverlap = FALSE
    MaxTime = 1
    Throttle = 0
    MaxWait = 1
    MaxAttempts = 2
    ListLimit = 2
    NoRow = NoRow
    NoCall = NoCall
    NoKey = NoKey
    Never = Never
    NoTxn = NoTxn
SYMMETRY Symmetry
INVARIANTS TypeOK OneKeyEach BootstrapOnce
PROPERTIES ImplementsLifecycle
