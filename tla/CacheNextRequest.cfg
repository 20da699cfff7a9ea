CONSTANTS
    k1 = k1
    a = a
    b = b
    r1 = r1
    r2 = r2
    i1 = i1
    Keys = {k1}
    Slugs = {"s1"}
    Paddocks = {a}
    NoPaddock = NoPaddock
    Grants <- GrantA
    ExpiresAt <- Unexpiring
    Instances = {i1}
    Requests = {r1, r2}
    At <- OneInstance
    Ttl = 2
    MaxEntries = 2
    MaxLookup = 1
    MaxTime = 2
    MaxWrites = 1
    MaxFaults = 0

SPECIFICATION Spec
INVARIANTS
    NextRequestRefused
CHECK_DEADLOCK FALSE
