-------------------------------- MODULE Org --------------------------------
(***************************************************************************)
(* The members of an organization: users, invites, seats, and the oauth    *)
(* keys a member has approved.  Every mutation that reads a count before   *)
(* it writes takes the per-org row lock first (org-lock.ts).  Two do not:  *)
(* acceptInvite and revokeInvite, and a key can be revoked without it.     *)
(* Every statement of a transaction sees what was committed before it      *)
(* (READ COMMITTED), so an unlocked write falls between two counts.        *)
(*                                                                         *)
(* An email names a user (user.email is unique).  An oauth key is one      *)
(* (user, client, paddock) combination's; only its number is kept.         *)
(***************************************************************************)
EXTENDS Naturals, FiniteSets

CONSTANTS
    Emails,       \* who may be a user
    InviteIds,    \* invite rows
    Requests,     \* locked requests: one operation each
    Accepts,      \* acceptInvite requests
    NoOne,        \* nobody holds the org lock
    Roles,        \* the roles users and invites may have
    Ops,          \* the operations the requests may be
    Limits,       \* the seat limits the licence may give
    InviteTtl,    \* how long an invite lasts (7 days)
    MaxTime,      \* bound on the clock
    MaxChanges    \* bound on licence changes

AllOps == {"invite", "role", "activate", "deactivate", "mint"}
AllRoles == {"admin", "member", "viewer"}

ASSUME OrgAssumption ==
    /\ NoOne \notin Requests
    /\ IsFiniteSet(Emails)
    /\ IsFiniteSet(InviteIds) /\ InviteIds # {}
    /\ Ops \subseteq AllOps
    /\ "admin" \in Roles /\ Roles \subseteq AllRoles
    /\ Limits # {} /\ Limits \subseteq Nat
    /\ InviteTtl \in Nat \ {0}
    /\ {MaxTime, MaxChanges} \subseteq Nat

VARIABLES
    now,
    user,        \* [Emails -> [status, role]]
    invite,      \* [InviteIds -> [state, email, role, expiresAt]]
    keys,        \* [Emails -> active oauth keys of the user, on one client and paddock]
    limit,       \* seats the licence gives now
    changes,     \* licence changes so far
    lock,        \* the request that holds the org row lock, or NoOne
    req,         \* [Requests -> the request's local state]
    acc,         \* [Accepts -> the accept's local state]
    highest,     \* history: the highest seat limit so far
    crossed,     \* history: invites accepted where no seat check could count them
    joined,      \* history: [InviteIds -> users the invite created]
    late         \* history: users whose key was minted after they lost the right

vars == <<now, user, invite, keys, limit, changes, lock, req, acc, highest, crossed, joined, late>>
licence == <<limit, changes, highest>>
history == <<crossed, joined, late>>

Active(u) == user[u].status = "active"
ActiveAdmins == {u \in Emails : Active(u) /\ user[u].role = "admin"}
Exists(u) == user[u].status # "none"

\* countActiveUsers, countPendingInvites.
ActiveUsers == Cardinality({u \in Emails : Active(u)})
Pending(i, at) == invite[i].state = "pending" /\ invite[i].expiresAt > at
PendingInvites(at) == Cardinality({i \in InviteIds : Pending(i, at)})

\* authorize: `user.manage' is an admin's, `resource.write' a member's too.
Manages(role) == role = "admin"
Writes(role) == role \in {"admin", "member"}
MayApprove(u) == Active(u) /\ Writes(user[u].role)

AnyEmail == CHOOSE u \in Emails : TRUE
NoRequest == [pc |-> "idle", op |-> "invite", actor |-> AnyEmail, on |-> AnyEmail,
              role |-> "admin", seats |-> 0, at |-> 0, active |-> 0, found |-> FALSE]
NoAccept == [pc |-> "idle", invite |-> CHOOSE i \in InviteIds : TRUE]

\* Any membership an org can have grown to: an active admin, no more active
\* users than seats, and keys only for those who may approve.
Init ==
    /\ now = 0
    /\ limit \in Limits
    /\ user \in [Emails -> [status : {"active", "deactivated"}, role : Roles]
                             \cup {[status |-> "none", role |-> "admin"]}]
    /\ ActiveAdmins # {}
    /\ ActiveUsers <= limit
    /\ keys \in [Emails -> {0, 1}]
    /\ \A u \in Emails : keys[u] = 1 => MayApprove(u)
    /\ invite = [i \in InviteIds |-> [state |-> "none", email |-> AnyEmail, role |-> "admin", expiresAt |-> 0]]
    /\ changes = 0
    /\ lock = NoOne
    /\ req = [r \in Requests |-> NoRequest]
    /\ acc = [a \in Accepts |-> NoAccept]
    /\ highest = limit
    /\ crossed = {}
    /\ joined = [i \in InviteIds |-> 0]
    /\ late = {}

----------------------------------------------------------------------------
(* The locked operations: load the actor, lock and read, read on, write. *)

\* The actor is loaded, and the seat limit read, before the transaction.
Load(r, op, u, on, role) ==
    /\ req[r].pc = "idle"
    /\ Active(u)
    /\ IF op = "mint" THEN Writes(user[u].role) /\ on = u ELSE Manages(user[u].role)
    /\ op = "deactivate" => on # u
    /\ op \in {"invite", "role"} \/ role = "admin"
    /\ req' = [req EXCEPT ![r] =
                 [pc |-> "lock", op |-> op, actor |-> u, on |-> on, role |-> role,
                  seats |-> limit, at |-> now, active |-> 0, found |-> FALSE]]
    /\ UNCHANGED <<now, user, invite, keys, licence, lock, acc, history>>

\* acquireOrgLock waits until nobody holds the row lock.
\* Mutation: a SELECT without FOR UPDATE waits for nobody.
OrgLockIgnored == lock \in Requests \cup {NoOne}
OrgLockFree == lock = NoOne

\* What the transaction goes on to, and the lock with it.
Refuses(r) == req' = [req EXCEPT ![r].pc = "refused"] /\ UNCHANGED lock
GoesOn(r, state) == req' = [req EXCEPT ![r] = state] /\ lock' = r

\* No active admin but this user, who is about to stop being one.
LastAdmin(u) == user[u].role = "admin" /\ Active(u) /\ ActiveAdmins = {u}

BeginInvite(r) == GoesOn(r, [req[r] EXCEPT !.pc = "pending", !.active = ActiveUsers])

BeginRole(r) ==
    IF ~Exists(req[r].on) \/ (req[r].role # "admin" /\ LastAdmin(req[r].on))
      THEN Refuses(r) ELSE GoesOn(r, [req[r] EXCEPT !.pc = "write"])

\* setUserStatus: the actor must still be active.
BeginDeactivate(r) ==
    IF ~Active(req[r].actor) \/ ~Exists(req[r].on) \/ LastAdmin(req[r].on)
      THEN Refuses(r) ELSE GoesOn(r, [req[r] EXCEPT !.pc = "write"])

\* Mutation: the actor's standing is not looked at again under the lock.
BeginActivateUnchecked(r) ==
    IF ~Exists(req[r].on) THEN Refuses(r)
    ELSE GoesOn(r, IF Active(req[r].on) THEN [req[r] EXCEPT !.pc = "write"]
                   ELSE [req[r] EXCEPT !.pc = "pending", !.active = ActiveUsers])

BeginActivate(r) ==
    IF ~Active(req[r].actor) \/ ~Exists(req[r].on) THEN Refuses(r)
    ELSE GoesOn(r, IF Active(req[r].on) THEN [req[r] EXCEPT !.pc = "write"]
                   ELSE [req[r] EXCEPT !.pc = "pending", !.active = ActiveUsers])

\* mintOauthKey looks for the (user, client, paddock)'s active key.
BeginMint(r) == GoesOn(r, [req[r] EXCEPT !.pc = "write", !.found = keys[req[r].on] > 0])

Begin(r) ==
    /\ req[r].pc = "lock"
    /\ OrgLockFree
    /\ \/ req[r].op = "invite" /\ BeginInvite(r)
       \/ req[r].op = "role" /\ BeginRole(r)
       \/ req[r].op = "deactivate" /\ BeginDeactivate(r)
       \/ req[r].op = "activate" /\ BeginActivate(r)
       \/ req[r].op = "mint" /\ BeginMint(r)
    /\ UNCHANGED <<now, user, invite, keys, licence, acc, history>>

\* The second count, then the seat check; inviteUser also refuses a member.
\* Mutation: off by one.
SeatTakenAfter(r) == req[r].active + PendingInvites(req[r].at) > req[r].seats
SeatTaken(r) == req[r].active + PendingInvites(req[r].at) >= req[r].seats
CountPending(r) ==
    /\ req[r].pc = "pending"
    /\ IF SeatTaken(r) \/ (req[r].op = "invite" /\ Active(req[r].on))
         THEN req' = [req EXCEPT ![r].pc = "refused"] /\ lock' = NoOne
         ELSE req' = [req EXCEPT ![r].pc = "write"] /\ UNCHANGED lock
    /\ UNCHANGED <<now, user, invite, keys, licence, acc, history>>

Commits(r) ==
    /\ req' = [req EXCEPT ![r].pc = "done"]
    /\ lock' = NoOne

\* revokeOauthKeysForUser, in the same transaction.
RevokeKeysOf(u) == keys' = [keys EXCEPT ![u] = 0]

\* The rest of inviteUser: no second pending invite, and the row.
WriteInvite(r, i) ==
    /\ invite[i].state = "none"
    /\ \/ /\ \E j \in InviteIds : Pending(j, req[r].at) /\ invite[j].email = req[r].on
          /\ req' = [req EXCEPT ![r].pc = "refused"]
          /\ lock' = NoOne
          /\ UNCHANGED invite
       \/ /\ ~\E j \in InviteIds : Pending(j, req[r].at) /\ invite[j].email = req[r].on
          /\ Commits(r)
          /\ invite' = [invite EXCEPT ![i] =
                [state |-> "pending", email |-> req[r].on, role |-> req[r].role,
                 expiresAt |-> req[r].at + InviteTtl]]
    /\ UNCHANGED <<user, keys, late>>

\* Mutation: a demotion leaves the user's keys alone.
WriteRoleOnly(r) ==
    /\ Commits(r)
    /\ user' = [user EXCEPT ![req[r].on].role = req[r].role]
    /\ UNCHANGED <<invite, keys, late>>

WriteRole(r) ==
    /\ Commits(r)
    /\ user' = [user EXCEPT ![req[r].on].role = req[r].role]
    /\ IF req[r].role = "viewer" THEN RevokeKeysOf(req[r].on) ELSE UNCHANGED keys
    /\ UNCHANGED <<invite, late>>

WriteDeactivate(r) ==
    /\ Commits(r)
    /\ user' = [user EXCEPT ![req[r].on].status = "deactivated"]
    /\ RevokeKeysOf(req[r].on)
    /\ UNCHANGED <<invite, late>>

WriteActivate(r) ==
    /\ Commits(r)
    /\ user' = [user EXCEPT ![req[r].on].status = "active"]
    /\ UNCHANGED <<invite, keys, late>>

\* The key found is rebound to the new grant; otherwise one is created.
WriteMint(r) ==
    /\ Commits(r)
    /\ keys' = [keys EXCEPT ![req[r].on] = IF req[r].found THEN @ ELSE @ + 1]
    /\ late' = IF MayApprove(req[r].on) THEN late ELSE late \cup {req[r].on}
    /\ UNCHANGED <<user, invite>>

Write(r) ==
    /\ req[r].pc = "write"
    /\ \/ req[r].op = "invite" /\ \E i \in InviteIds : WriteInvite(r, i)
       \/ req[r].op = "role" /\ WriteRole(r)
       \/ req[r].op = "deactivate" /\ WriteDeactivate(r)
       \/ req[r].op = "activate" /\ WriteActivate(r)
       \/ req[r].op = "mint" /\ WriteMint(r)
    /\ UNCHANGED <<now, licence, acc, crossed, joined>>

\* Mutation: the lock outlives its transaction.
AbortKeepsLock(r) ==
    /\ req[r].pc \in {"lock", "pending", "write"}
    /\ req' = [req EXCEPT ![r].pc = "refused"]
    /\ UNCHANGED <<now, user, invite, keys, licence, lock, acc, history>>

\* The connection or the process dies: the transaction is rolled back.
Abort(r) ==
    /\ req[r].pc \in {"lock", "pending", "write"}
    /\ req' = [req EXCEPT ![r].pc = "refused"]
    /\ lock' = IF lock = r THEN NoOne ELSE lock
    /\ UNCHANGED <<now, user, invite, keys, licence, acc, history>>

----------------------------------------------------------------------------
(* What does not take the lock. *)

\* acceptInvite reads the invite, and hashes the password ...
AcceptRead(a, i) ==
    /\ acc[a].pc = "idle"
    /\ Pending(i, now)
    /\ acc' = [acc EXCEPT ![a] = [pc |-> "check", invite |-> i]]
    /\ UNCHANGED <<now, user, invite, keys, licence, lock, req, history>>

\* ... reads it again in a transaction: a row not accepted, expired or not ...
AcceptCheck(a) ==
    /\ acc[a].pc = "check"
    /\ acc' = [acc EXCEPT ![a].pc = IF invite[acc[a].invite].state = "pending" THEN "insert" ELSE "failed"]
    /\ UNCHANGED <<now, user, invite, keys, licence, lock, req, history>>

\* ... and inserts the user, if the email is free (user.email is unique).  An
\* invite deleted since is not there to mark.
\* Mutation: user.email is not unique.
EmailAny(u) == u \in Emails
EmailFree(u) == ~Exists(u)
CountedElsewhere(i) == Pending(i, now) /\ ~\E r \in Requests : req[r].pc = "pending"
AcceptInsert(a) ==
    LET i == acc[a].invite
        u == invite[i].email
    IN
    /\ acc[a].pc = "insert"
    /\ IF EmailFree(u)
         THEN /\ user' = [user EXCEPT ![u] = [status |-> "active", role |-> invite[i].role]]
              /\ invite' = [invite EXCEPT ![i].state = IF @ = "pending" THEN "accepted" ELSE @]
              /\ joined' = [joined EXCEPT ![i] = @ + 1]
              /\ crossed' = IF CountedElsewhere(i) THEN crossed ELSE crossed \cup {i}
              /\ acc' = [acc EXCEPT ![a].pc = "done"]
         ELSE /\ acc' = [acc EXCEPT ![a].pc = "failed"]
              /\ UNCHANGED <<user, invite, joined, crossed>>
    /\ UNCHANGED <<now, keys, licence, lock, req, late>>

\* revokeInvite deletes an invite nobody has accepted.
RevokeInvite(i) ==
    /\ invite[i].state = "pending"
    /\ invite' = [invite EXCEPT ![i].state = "revoked"]
    /\ UNCHANGED <<now, user, keys, licence, lock, req, acc, history>>

\* revokeKey, by any member.
RevokeKey(u) ==
    /\ keys[u] > 0
    /\ keys' = [keys EXCEPT ![u] = @ - 1]
    /\ UNCHANGED <<now, user, invite, licence, lock, req, acc, history>>

\* The licence gives another number of seats, or lapses.
Relicense(seats) ==
    /\ changes < MaxChanges
    /\ changes' = changes + 1
    /\ limit' = seats
    /\ highest' = IF seats > highest THEN seats ELSE highest
    /\ UNCHANGED <<now, user, invite, keys, lock, req, acc, history>>

Tick ==
    /\ now < MaxTime
    /\ now' = now + 1
    /\ UNCHANGED <<user, invite, keys, licence, lock, req, acc, history>>

Request(r) ==
    \/ \E op \in Ops, u, on \in Emails, role \in Roles : Load(r, op, u, on, role)
    \/ Begin(r) \/ CountPending(r) \/ Write(r) \/ Abort(r)
Accept(a) == (\E i \in InviteIds : AcceptRead(a, i)) \/ AcceptCheck(a) \/ AcceptInsert(a)

Next ==
    \/ \E r \in Requests : Request(r)
    \/ \E a \in Accepts : Accept(a)
    \/ \E i \in InviteIds : RevokeInvite(i)
    \/ \E u \in Emails : RevokeKey(u)
    \/ \E seats \in Limits : Relicense(seats)
    \/ Tick

Spec == Init /\ [][Next]_vars

----------------------------------------------------------------------------
(* Properties *)

UserRows == [status : {"none", "active", "deactivated"}, role : Roles]
InviteRows == [state : {"none", "pending", "accepted", "revoked"},
               email : Emails, role : Roles, expiresAt : Nat]
RequestStates ==
    [pc : {"idle", "lock", "pending", "write", "done", "refused"}, op : AllOps,
     actor : Emails, on : Emails, role : Roles, seats : Nat, at : Nat, active : Nat,
     found : BOOLEAN]
AcceptStates == [pc : {"idle", "check", "insert", "done", "failed"}, invite : InviteIds]

TypeOK ==
    /\ now \in 0..MaxTime
    /\ user \in [Emails -> UserRows]
    /\ invite \in [InviteIds -> InviteRows]
    /\ keys \in [Emails -> Nat]
    /\ limit \in Limits /\ highest \in Limits
    /\ changes \in 0..MaxChanges
    /\ lock \in Requests \cup {NoOne}
    /\ req \in [Requests -> RequestStates]
    /\ \A r \in Requests : lock = r <=> req[r].pc \in {"pending", "write"}
    /\ acc \in [Accepts -> AcceptStates]
    /\ crossed \subseteq InviteIds
    /\ joined \in [InviteIds -> Nat]
    /\ late \subseteq Emails

\* An org never loses its last active admin, however demotions and deactivations
\* race: the count and the write are under one lock (LastAdminError).
AdminRemains == ActiveAdmins # {}

SeatsUsed == ActiveUsers + PendingInvites(now)

\* Active users and pending invites never outnumber the seats the licence gave at
\* most, but for accepts that no seat check could count: those of an invite
\* revoked or expired meanwhile, and those between a check's two counts.
SeatsHeldUnlessCrossed == SeatsUsed <= highest + Cardinality(crossed)

\* An invite creates one user at most, however often its link is used.
InviteJoinsOnce == \A i \in InviteIds : joined[i] <= 1

\* Consents that race mint one active key between them, not one each.
OneActiveKey == \A u \in Emails : keys[u] <= 1

\* A user who may no longer approve apps has none approved, but for a mint that
\* was already past its own check of the user's role.
KeysNeedStanding == \A u \in Emails : keys[u] > 0 => MayApprove(u) \/ u \in late

\* The keys that consents leave: one for a user, client and paddock, however many
\* race, and none without standing, whatever changes of role and status they race.
ConsentKeysStand == OneActiveKey /\ KeysNeedStanding

\* users-service.ts, setUserStatus: only an active member changes a status.
StatusChangedByActive ==
    [][\A u \in Emails : Exists(u) /\ user'[u].status # user[u].status =>
          \E r \in Requests : req[r].pc = "write" /\ req'[r].pc = "done" /\ Active(req[r].actor)]_vars

\* org-lock.ts: taking the lock first keeps concurrent requests from reading a
\* stale count and over-provisioning seats.
SeatsHeld == SeatsUsed <= highest

\* keys-service.ts: "a user who can no longer approve apps no longer has any approved".
NoKeyWithoutStanding == \A u \in Emails : keys[u] > 0 => MayApprove(u)
=============================================================================
