CONSTANTS
    k5 = k5
    k10 = k10
    Conns <- Connections
    Secrets = {"x"}
    Savers = {w1}
    Tests = {t1}
    None = None
    MaxSaves = 1
    MaxTests = 1
    MaxRotations = 1
    MaxFaults = 1
    Licences = {k5, k10}
    SeatsOf <- FiveAndTen
    BaseSeats = 3
    Calls = {"pass", "c1"}
    Pass = "pass"
    NoLicence = NoLicence
    Grace = 1
    MaxTime = 1
    MaxInstances = 2
    MaxOutages = 0
    Procs = {p1, p2, p3}
    Nil = Nil
    MaxOps = 3
    MaxLogins = 1
    MaxMishaps = 1

SPECIFICATION AllSpec
INVARIANTS
    StoreIsCurrent
PROPERTIES
    HealthCatchesUp
    ExpiredLapses
    EveryoneGetsThrough
CHECK_DEADLOCK FALSE
