\* One reader; three entries at the start, two more come, all may be purged.
SPECIFICATION FairSpec
CONSTANTS
    i1 = i1
    i2 = i2
    i3 = i3
    i4 = i4
    w1 = w1
    w2 = w2
    w3 = w3
    w4 = w4
    w5 = w5
    b1 = b1
    b2 = b2
    LogIds = {i1, i2, i3, i4}
    Times = {0, 1, 2}
    Writers = {w1, w2, w3, w4, w5}
    Existing = {i1, i2, i3}
    WrittenBy <- MCWrittenBy
    Values <- MCValues
    Backends = {b1, b2}
    DefaultPageSize = 2
    MaxPageSize = 3
    Calls <- MCCalls
    Absent = Absent
    None = None
INVARIANTS TypeOK WalkDrift DetailWhole SummaryDrift
PROPERTIES EveryReadEnds
