CONSTANTS
    MaxFaults = 1
    Browsers = {"b1", "b2"}
    Users = {"ann", "bob"}
    Callbacks = {"h1", "h2"}
    Nobody = Nobody
    MaxTransactions = 2
    MaxLogins = 2
    MaxEvents = 1
    Tabs = {"t1", "t2"}
    Slugs = {"s1", "s2"}
    Null = Null
    MaxApprovals = 2
    MaxChanges = 1
    Kennels = {"f1", "f2"}
    Templates = {"w1", "w2"}
    Limits = {"l1"}
    Edits = {"e1", "e2"}
    MaxEdits = 4
    NumFlocks = 2
    Conns <- Connections
    Secrets = {"x", "y"}
    Savers = {w1}
    Tests = {t1}
    None = None
    MaxSaves = 2
    MaxTests = 1
    MaxRotations = 1
    k5 = k5
    k10 = k10
    Licences = {k5, k10}
    SeatsOf <- FiveAndTen
    BaseSeats = 3
    Calls = {"pass", "c1"}
    Pass = "pass"
    NoLicence = NoLicence
    Forms = {"f1", "f2"}
    MaxFailures = 2
    Window = 2
    NoBucket = NoBucket
    LastTime = 3
    Grace = 1
    MaxTime = 1
    MaxInstances = 2
    MaxOutages = 1

SPECIFICATION AllSpec
INVARIANTS
    NothingWasGranted
CHECK_DEADLOCK FALSE
