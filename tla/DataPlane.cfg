CONSTANTS
    c1 = c1
    c2 = c2
    Checks = {c1, c2}
    Limits <- LoweredLimit
    Second = 2
    Skew = 1
    MaxDelay = 0
    MaxTime = 5
    MaxLost = 1
    s1 = s1
    s2 = s2
    q1 = q1
    q2 = q2
    ann = ann
    bob = bob
    k1 = k1
    a = a
    b = b
    r1 = r1
    r2 = r2
    i1 = i1
    Nothing = Nothing
    Requests = {r1, r2}
    Max = 1
    Cap = 1
    MaxImages = 2
    MaxChanges = 2
    MaxGateFaults = 1
    Nil = Nil
    Every = Every
    m1 = m1
    m2 = m2
    Keys = {k1}
    Slugs = {"s1", "s2"}
    Paddocks = {a, b}
    NoPaddock = NoPaddock
    Grants <- GrantA
    ExpiresAt <- Expiring
    Instances = {i1}
    ServedBy <- OneProcess
    Ttl = 1
    MaxEntries = 1
    MaxLookup = 1
    MaxClock = 2
    MaxWrites = 2
    MaxCacheFaults = 1
    NoId = NoId
    NoOne = NoOne
    Submits = {s1, s2}
    Polls = {q1, q2}
    KeyOf <- TwoKeys
    JobIds = {"j1", "j2"}
    MaxReused = 1
    MaxFaults = 2

SPECIFICATION AllSpec
INVARIANTS
    TypeOK
    RateHolds
    JobsAreOwned
    AnswersAreTimely
    GatesHold
    ServedIsMetered
    ToolsKeepTheirWord
PROPERTIES
    RetryAfterSuffices
    RowsAreKept
SYMMETRY Twins
CHECK_DEADLOCK FALSE
