\* Two requests: one revokes the key, the other comes with it.
SPECIFICATION Spec
CONSTANTS
    k1 = k1
    k2 = k2
    k3 = k3
    k4 = k4
    Requests = {r1, r2}
    Tokens = {k1}
    Presented = {k1}
    PrefixOf <- MCPrefixes
    Existing = {k1}
    InitialRow <- MCOneKey
    Ops = {"infer", "revoke"}
    Grants <- MCGrants
    Expiries <- MCExpiries
    Names = {"other"}
    AuthRequired = TRUE
    JobsOverlap = TRUE
    MaxTime = 1
    Throttle = 1
    MaxWait = 1
    MaxAttempts = 2
    ListLimit = 2
    NoRow = NoRow
    NoCall = NoCall
    NoKey = NoKey
    Never = Never
    NoTxn = NoTxn
SYMMETRY Symmetry
INVARIANTS RevokedOnceAnswered
