CONSTANTS
    e1 = e1
    e2 = e2
    e3 = e3
    p1 = p1
    p2 = p2
    w1 = w1
    w2 = w2
    Events = {e1, e2}
    Paddocks = {p1}
    PaddockOf <- TwoEvents
    Workers = {w1}
    BatchMax = 2
    MaxLen = 2
    QuotaMax = 2
    Deletable = {}
    Faults = {"crash"}
    FaultBound = 1

SPECIFICATION FairSpec
PROPERTIES
    NeverUnderCounts
CHECK_DEADLOCK FALSE
