CONSTANTS
    ann = ann
    bob = bob
    cat = cat
    r1 = r1
    r2 = r2
    r3 = r3
    a1 = a1
    a2 = a2
    NoOne = NoOne
    Emails = {ann, bob}
    InviteIds = {"i1"}
    Requests = {r1, r2}
    Accepts = {a1}
    Roles = {"admin", "member", "viewer"}
    Ops = {"invite", "role", "activate", "deactivate", "mint"}
    Limits = {2}
    InviteTtl = 1
    MaxTime = 1
    MaxChanges = 1

SPECIFICATION Spec
INVARIANTS
    TypeOK
    AdminRemains
    ConsentKeysStand
PROPERTIES
    StatusChangedByActive
SYMMETRY RequestSymmetry
CHECK_DEADLOCK FALSE
