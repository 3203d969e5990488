\* Three requests that use, verify and revoke a key over time.
SPECIFICATION Spec
CONSTANTS
    k1 = k1
    k2 = k2
    k3 = k3
    k4 = k4
    Requests = {r1, r2, r3}
    Tokens = {k1}
    Presented = {k1, NoKey}
    PrefixOf <- MCPrefixes
    Existing = {k1}
    InitialRow <- MCExpiringKey
    Ops = {"infer", "revoke", "verify"}
    Grants <- MCGrants
    Expiries <- MCExpiries
    Names = {"other"}
    AuthRequired = TRUE
    JobsOverlap = TRUE
    MaxTime = 4
    Throttle = 1
    MaxWait = 1
    MaxAttempts = 2
    ListLimit = 2
    NoRow = NoRow
    NoCall = NoCall
    NoKey = NoKey
    Never = Never
    NoTxn = NoTxn
SYMMETRY Symmetry
INVARIANTS RevokedKeyRefused RevokeEffective RevokedOnPurpose LastUsedLag
