CONSTANTS
    ann = ann
    bob = bob
    cat = cat
    r1 = r1
    r2 = r2
    r3 = r3
    a1 = a1
    a2 = a2
    p1 = p1
    p2 = p2
    v1 = v1
    v2 = v2
    Nil = Nil
    Nothing = Nothing
    Every = Every
    NoOne = NoOne
    Emails = {ann, bob, cat}
    InviteIds = {"i1", "i2"}
    Requests = {r1, r2}
    Accepts = {a1, a2}
    Roles = {"admin"}
    Ops = {"invite", "activate"}
    Limits = {1, 2}
    InviteTtl = 1
    MaxTime = 1
    MaxChanges = 1
    Procs = {p1, p2}
    MaxRows = 4
    PageSize = 2
    Home = "console"
    Elsewhere = "another"
    MaxCalls = 4
    MaxTokens = 2
    MaxWrites = 2
    MaxFaults = 1
    Verifications = {v1, v2}
    Life = 3
    MaxAge = 2
    Cooldown = 1
    MaxFetch = 1
    MaxKeys = 2
    LastTick = 4

SPECIFICATION AllSpec
INVARIANTS
    SeatsHeldUnlessCrossed
    InviteJoinsOnce
    CallsAreHonest
    ListingsAreWhole
    ReportsAgree
PROPERTIES
    VerdictsStand
SYMMETRY RequestSymmetry
CHECK_DEADLOCK FALSE
