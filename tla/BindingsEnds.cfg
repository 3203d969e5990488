\* Liveness: no wait has to be cut off but that of DELETEs in a circle.
SPECIFICATION FairSpec
CONSTANTS
    b1 = b1
    b2 = b2
    Requests = {r1, r2}
    Backends = {b1, b2}
    Models = {1, 2, 3, 4}
    ExistingBackends = {b1}
    ExistingModels = {1, 2, 3, 4}
    InitiallyBound <- MCBoundTwo
    Bodies <- MCSlidingBodies
    Absent = Absent
    NoCall = NoCall
    NoTxn = NoTxn
PROPERTIES EveryRequestEnds
