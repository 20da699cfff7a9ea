CONSTANTS
    e1 = e1
    e2 = e2
    e3 = e3
    p1 = p1
    p2 = p2
    w1 = w1
    w2 = w2
    Events = {e1, e2, e3}
    Paddocks = {p1, p2}
    PaddockOf <- ThreeEvents
    Workers = {w1, w2}
    BatchMax = 2
    MaxLen = 1
    QuotaMax = 1
    Deletable = {p1}
    Faults = {"crash", "emit", "resend", "reply", "db", "ack", "redis"}
    FaultBound = 2

SPECIFICATION Spec
INVARIANTS
    TypeOK
    CountedAtMostOnce
    AckedOnlyIfCounted
SYMMETRY WorkerSymmetry
CHECK_DEADLOCK FALSE
