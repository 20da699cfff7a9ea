CONSTANTS
    ann = ann
    bob = bob
    cat = cat
    r1 = r1
    r2 = r2
    r3 = r3
    a1 = a1
    a2 = a2
    NoOne = NoOne
    Emails = {ann, bob}
    InviteIds = {"i1"}
    Requests = {r1, r2}
    Accepts = {a1}
    Roles = {"admin", "member", "viewer"}
    Ops = {"deactivate", "mint"}
    Limits = {2}
    InviteTtl = 1
    MaxTime = 0
    MaxChanges = 0

SPECIFICATION Spec
INVARIANTS
    NoKeyWithoutStanding
SYMMETRY RequestSymmetry
CHECK_DEADLOCK FALSE
