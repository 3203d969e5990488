\* Three requests on one backend; model 3 is not in the catalogue yet.
SPECIFICATION Spec
CONSTANTS
    b1 = b1
    b2 = b2
    Requests = {r1, r2, r3}
    Backends = {b1, b2}
    Models = {1, 2, 3}
    ExistingBackends = {b1}
    ExistingModels = {1, 2}
    InitiallyBound <- MCBound
    Bodies <- MCBodies
    Absent = Absent
    NoCall = NoCall
    NoTxn = NoTxn
SYMMETRY Symmetry
INVARIANTS TypeOK BoundExists OnlyDeletesCircle OutcomeExplained
