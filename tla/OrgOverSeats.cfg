CONSTANTS
    ann = ann
    bob = bob
    cat = cat
    r1 = r1
    r2 = r2
    r3 = r3
    a1 = a1
    a2 = a2
    NoOne = NoOne
    Emails = {ann, bob, cat}
    InviteIds = {"i1", "i2"}
    Requests = {r1, r2}
    Accepts = {a1}
    Roles = {"admin"}
    Ops = {"invite"}
    Limits = {2}
    InviteTtl = 2
    MaxTime = 0
    MaxChanges = 0

SPECIFICATION Spec
INVARIANTS
    SeatsHeld
SYMMETRY RequestSymmetry
CHECK_DEADLOCK FALSE
