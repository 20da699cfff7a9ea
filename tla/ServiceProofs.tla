--------------------------- MODULE ServiceProofs ---------------------------
(***************************************************************************)
(* Proofs about what the Service run checks: the organization, the admin   *)
(* calls about it and the key set their tokens are verified with, each for *)
(* any values of its constants that its assumption allows.                 *)
(*                                                                         *)
(* Of Org: any people, invites, concurrent requests and accepts, any roles *)
(* and operations, any licences and any bounds.                            *)
(***************************************************************************)
EXTENDS MCService, Sequences, FiniteSetTheorems, NaturalsInduction, TLAPS

(***************************************************************************)
(* The inductive invariant.  What a locked request decided on still holds  *)
(* when it writes: the lock keeps the other locked requests out, and an    *)
(* accept, which it does not keep out, only adds a user who was not there. *)
(***************************************************************************)
Holds(r) == req[r].pc \in {"pending", "write"}

\* What each locked operation has checked, until it ends.
Decided ==
    \A r \in Requests : Holds(r) =>
        /\ req[r].op = "role" => req[r].role = "admin" \/ ~LastAdmin(req[r].on)
        /\ req[r].op = "deactivate" => ~LastAdmin(req[r].on) /\ Active(req[r].actor)
        /\ req[r].op = "activate" => Active(req[r].actor)
        /\ req[r].op \in {"role", "deactivate", "activate"} => Exists(req[r].on)
        /\ req[r].op = "mint" /\ ~req[r].found => keys[req[r].on] = 0

\* An invite that made a user is written, as is one that is being accepted, and
\* its email is taken: by the user it made.
Written ==
    /\ \A a \in Accepts : acc[a].pc \in {"check", "insert"} => invite[acc[a].invite].state # "none"
    /\ \A i \in InviteIds : joined[i] > 0 =>
          invite[i].state # "none" /\ Exists(invite[i].email)

IInv ==
    /\ TypeOK /\ Decided /\ Written
    /\ AdminRemains /\ InviteJoinsOnce /\ OneActiveKey /\ KeysNeedStanding

----------------------------------------------------------------------------
\* The counts of a seat check are numbers.
LEMMA CountsAreNumbers ==
  /\ ActiveUsers \in Nat
  /\ \A at : PendingInvites(at) \in Nat
<1>1. IsFiniteSet({u \in Emails : Active(u)})
  BY OrgAssumption, FS_Subset, {u \in Emails : Active(u)} \subseteq Emails
<1>2. ASSUME NEW at PROVE IsFiniteSet({i \in InviteIds : Pending(i, at)})
  BY OrgAssumption, FS_Subset, {i \in InviteIds : Pending(i, at)} \subseteq InviteIds
<1>3. QED
  BY <1>1, <1>2, FS_CardinalityType DEF ActiveUsers, PendingInvites

\* A fresh org satisfies the invariant.
LEMMA InitIInv == Init => IInv
<1> SUFFICES ASSUME Init PROVE IInv
  OBVIOUS
<1> USE OrgAssumption DEF Init
<1>1. AnyEmail \in Emails
  BY DEF AnyEmail, ActiveAdmins
<1>2. NoRequest \in RequestStates /\ NoRequest.pc = "idle"
  BY <1>1 DEF NoRequest, RequestStates, AllOps
<1>3. NoAccept \in AcceptStates /\ NoAccept.pc = "idle"
  BY DEF NoAccept, AcceptStates
<1>4. TypeOK
  <2>1. user \in [Emails -> UserRows]
    BY DEF UserRows
  <2>2. invite \in [InviteIds -> InviteRows]
    BY <1>1 DEF InviteRows
  <2>3. req \in [Requests -> RequestStates] /\ \A r \in Requests : req[r].pc = "idle"
    BY <1>2
  <2>4. acc \in [Accepts -> AcceptStates]
    BY <1>3
  <2>5. keys \in [Emails -> Nat] /\ joined \in [InviteIds -> Nat]
    OBVIOUS
  <2>6. now \in 0..MaxTime /\ changes \in 0..MaxChanges /\ limit \in Limits /\ highest \in Limits
    OBVIOUS
  <2>7. \A r \in Requests : lock = r <=> req[r].pc \in {"pending", "write"}
    BY <2>3
  <2>8. QED
    BY <2>1, <2>2, <2>3, <2>4, <2>5, <2>6, <2>7 DEF TypeOK
<1>5. Decided
  BY <1>2 DEF Decided, Holds
<1>6. Written
  BY <1>3 DEF Written
<1>7. AdminRemains /\ InviteJoinsOnce /\ OneActiveKey /\ KeysNeedStanding
  BY DEF AdminRemains, InviteJoinsOnce, OneActiveKey, KeysNeedStanding
<1>8. QED
  BY <1>4, <1>5, <1>6, <1>7 DEF IInv

----------------------------------------------------------------------------
\* A step that only moves request r, and perhaps takes or frees the lock for it,
\* keeps the invariant if what r goes on to is what it decided.
LEMMA RequestMovesIInv ==
  ASSUME IInv, NEW r \in Requests, NEW s \in RequestStates,
         req' = [req EXCEPT ![r] = s],
         UNCHANGED <<now, user, invite, keys, licence, acc, history>>,
         s.pc \in {"pending", "write"} => lock \in {r, NoOne} /\ lock' = r,
         s.pc \notin {"pending", "write"} => lock' = IF lock = r THEN NoOne ELSE lock,
         s.pc \in {"pending", "write"} =>
             /\ s.op = "role" => s.role = "admin" \/ ~LastAdmin(s.on)
             /\ s.op = "deactivate" => ~LastAdmin(s.on) /\ Active(s.actor)
             /\ s.op = "activate" => Active(s.actor)
             /\ s.op \in {"role", "deactivate", "activate"} => Exists(s.on)
             /\ s.op = "mint" /\ ~s.found => keys[s.on] = 0
  PROVE  IInv'
<1> USE DEF IInv
<1>1. /\ UNCHANGED <<now, user, invite, keys, limit, changes, highest, acc, crossed, joined, late>>
      /\ req \in [Requests -> RequestStates]
      /\ req' \in [Requests -> RequestStates]
      /\ req'[r] = s
      /\ \A q \in Requests \ {r} : req'[q] = req[q]
  BY DEF licence, history, TypeOK
<1>2. /\ NoOne \notin Requests
      /\ lock \in Requests \cup {NoOne}
      /\ \A q \in Requests : lock = q <=> Holds(q)
  BY OrgAssumption DEF TypeOK, Holds
<1>3. /\ lock' \in Requests \cup {NoOne}
      /\ \A q \in Requests : lock' = q <=> Holds(q)'
  <2>1. CASE s.pc \in {"pending", "write"}
    BY <1>1, <1>2, <2>1 DEF Holds
  <2>2. CASE s.pc \notin {"pending", "write"}
    BY <1>1, <1>2, <2>2 DEF Holds
  <2>3. QED
    BY <2>1, <2>2
<1>4. TypeOK'
  BY <1>1, <1>3 DEF TypeOK, Holds
<1>5. Decided'
  <2> SUFFICES ASSUME NEW q \in Requests, Holds(q)'
               PROVE  (/\ req[q].op = "role" => req[q].role = "admin" \/ ~LastAdmin(req[q].on)
                       /\ req[q].op = "deactivate" => ~LastAdmin(req[q].on) /\ Active(req[q].actor)
                       /\ req[q].op = "activate" => Active(req[q].actor)
                       /\ req[q].op \in {"role", "deactivate", "activate"} => Exists(req[q].on)
                       /\ req[q].op = "mint" /\ ~req[q].found => keys[req[q].on] = 0)'
    BY DEF Decided
  <2>1. \A u : /\ LastAdmin(u)' <=> LastAdmin(u)
               /\ Active(u)' <=> Active(u)
               /\ Exists(u)' <=> Exists(u)
    BY <1>1 DEF LastAdmin, Active, Exists, ActiveAdmins
  <2>2. CASE q = r
    BY <1>1, <2>1, <2>2 DEF Holds
  <2>3. CASE q # r
    <3>1. Holds(q) /\ req'[q] = req[q]
      BY <1>1, <2>3 DEF Holds
    <3>2. QED
      BY <1>1, <2>1, <3>1 DEF Decided
  <2>4. QED
    BY <2>2, <2>3
<1>6. Written'
  BY <1>1 DEF Written, Exists
<1>7. AdminRemains' /\ InviteJoinsOnce' /\ OneActiveKey' /\ KeysNeedStanding'
  BY <1>1 DEF AdminRemains, ActiveAdmins, InviteJoinsOnce, OneActiveKey, KeysNeedStanding,
              MayApprove, Active
<1>8. QED
  BY <1>4, <1>5, <1>6, <1>7

\* Loading an actor decides nothing yet.
LEMMA LoadIInv ==
  ASSUME IInv, NEW r \in Requests, NEW op \in Ops, NEW u \in Emails, NEW on \in Emails,
         NEW role \in Roles, Load(r, op, u, on, role)
  PROVE  IInv'
<1> DEFINE s == [pc |-> "lock", op |-> op, actor |-> u, on |-> on, role |-> role,
                 seats |-> limit, at |-> now, active |-> 0, found |-> FALSE]
<1>1. limit \in Nat /\ now \in Nat /\ op \in AllOps
  BY OrgAssumption DEF IInv, TypeOK
<1>2. s \in RequestStates
  BY <1>1 DEF RequestStates
<1>3. lock # r
  BY DEF IInv, TypeOK, Load
<1>4. QED
  BY <1>2, <1>3, RequestMovesIInv DEF Load

\* Under the lock, each operation decides on what it has just read.
LEMMA BeginIInv ==
  ASSUME IInv, NEW r \in Requests, Begin(r)
  PROVE  IInv'
<1> USE DEF OrgLockFree
<1>1. /\ req[r] \in RequestStates /\ req[r].pc = "lock"
      /\ lock = NoOne /\ r # NoOne
      /\ UNCHANGED <<now, user, invite, keys, licence, acc, history>>
      /\ req[r].on \in Emails /\ keys[req[r].on] \in Nat
  BY OrgAssumption DEF IInv, TypeOK, Begin, RequestStates
<1>2. ASSUME Refuses(r) PROVE IInv'
  <2> DEFINE s == [req[r] EXCEPT !.pc = "refused"]
  <2>1. s \in RequestStates /\ s.pc = "refused"
    BY <1>1 DEF RequestStates
  <2>2. req' = [req EXCEPT ![r] = s] /\ lock' = lock
    BY <1>2 DEF Refuses
  <2> HIDE DEF s
  <2>3. QED
    BY <1>1, <2>1, <2>2, RequestMovesIInv
<1>3. CASE req[r].op = "invite" /\ BeginInvite(r)
  <2> DEFINE s == [req[r] EXCEPT !.pc = "pending", !.active = ActiveUsers]
  <2>1. s \in RequestStates /\ s.pc = "pending" /\ s.op = "invite"
    BY <1>1, <1>3, CountsAreNumbers DEF RequestStates
  <2>2. req' = [req EXCEPT ![r] = s] /\ lock' = r
    BY <1>3 DEF BeginInvite, GoesOn
  <2> HIDE DEF s
  <2>3. QED
    BY <1>1, <2>1, <2>2, RequestMovesIInv
<1>4. CASE req[r].op = "role" /\ BeginRole(r)
  <2> DEFINE s == [req[r] EXCEPT !.pc = "write"]
  <2>1. s \in RequestStates /\ s.pc = "write" /\ s.op = "role" /\ s.on = req[r].on /\ s.role = req[r].role
    BY <1>1, <1>4 DEF RequestStates
  <2>2. CASE Refuses(r)
    BY <1>2, <2>2
  <2>3. CASE Exists(req[r].on) /\ ~(req[r].role # "admin" /\ LastAdmin(req[r].on)) /\ GoesOn(r, s)
    <3>1. req' = [req EXCEPT ![r] = s] /\ lock' = r
      BY <2>3 DEF GoesOn
    <3> HIDE DEF s
    <3>2. QED
      BY <1>1, <2>1, <2>3, <3>1, RequestMovesIInv
  <2>4. QED
    BY <1>4, <2>2, <2>3 DEF BeginRole
<1>5. CASE req[r].op = "deactivate" /\ BeginDeactivate(r)
  <2> DEFINE s == [req[r] EXCEPT !.pc = "write"]
  <2>1. s \in RequestStates /\ s.pc = "write" /\ s.op = "deactivate" /\ s.on = req[r].on /\ s.actor = req[r].actor
    BY <1>1, <1>5 DEF RequestStates
  <2>2. CASE Refuses(r)
    BY <1>2, <2>2
  <2>3. CASE Active(req[r].actor) /\ Exists(req[r].on) /\ ~LastAdmin(req[r].on) /\ GoesOn(r, s)
    <3>1. req' = [req EXCEPT ![r] = s] /\ lock' = r
      BY <2>3 DEF GoesOn
    <3> HIDE DEF s
    <3>2. QED
      BY <1>1, <2>1, <2>3, <3>1, RequestMovesIInv
  <2>4. QED
    BY <1>5, <2>2, <2>3 DEF BeginDeactivate
<1>6. CASE req[r].op = "activate" /\ BeginActivate(r)
  <2> DEFINE s == IF Active(req[r].on) THEN [req[r] EXCEPT !.pc = "write"]
                  ELSE [req[r] EXCEPT !.pc = "pending", !.active = ActiveUsers]
  <2>1. /\ s \in RequestStates /\ s.pc \in {"pending", "write"} /\ s.op = "activate"
        /\ s.on = req[r].on /\ s.actor = req[r].actor
    BY <1>1, <1>6, CountsAreNumbers DEF RequestStates
  <2>2. CASE Refuses(r)
    BY <1>2, <2>2
  <2>3. CASE Active(req[r].actor) /\ Exists(req[r].on) /\ GoesOn(r, s)
    <3>1. req' = [req EXCEPT ![r] = s] /\ lock' = r
      BY <2>3 DEF GoesOn
    <3> HIDE DEF s
    <3>2. QED
      BY <1>1, <2>1, <2>3, <3>1, RequestMovesIInv
  <2>4. QED
    BY <1>6, <2>2, <2>3 DEF BeginActivate
<1>7. CASE req[r].op = "mint" /\ BeginMint(r)
  <2>1. ASSUME NEW b \in BOOLEAN, (keys[req[r].on] > 0) = b PROVE IInv'
    <3> DEFINE s == [req[r] EXCEPT !.pc = "write", !.found = b]
    <3>1. /\ s \in RequestStates /\ s.pc = "write" /\ s.op = "mint" /\ s.on = req[r].on
          /\ s.found = b
      BY <1>1, <1>7 DEF RequestStates
    <3>2. b = FALSE => keys[req[r].on] = 0
      BY <1>1, <2>1
    <3>3. req' = [req EXCEPT ![r] = s] /\ lock' = r
      BY <1>7, <2>1, Zenon DEF BeginMint, GoesOn
    <3> HIDE DEF s
    <3>4. QED
      BY <1>1, <3>1, <3>2, <3>3, RequestMovesIInv
  <2>2. QED
    BY <2>1, (keys[req[r].on] > 0) \in BOOLEAN
<1>8. req[r].op \in AllOps
  BY <1>1 DEF RequestStates
<1>9. QED
  BY <1>3, <1>4, <1>5, <1>6, <1>7, <1>8 DEF Begin, AllOps

\* The seat check changes nothing that was decided.
LEMMA CountPendingIInv ==
  ASSUME IInv, NEW r \in Requests, CountPending(r)
  PROVE  IInv'
<1>1. /\ req[r] \in RequestStates /\ req[r].pc = "pending"
      /\ lock = r
      /\ UNCHANGED <<now, user, invite, keys, licence, acc, history>>
  BY DEF IInv, TypeOK, CountPending
<1>2. CASE req' = [req EXCEPT ![r].pc = "refused"] /\ lock' = NoOne
  <2> DEFINE s == [req[r] EXCEPT !.pc = "refused"]
  <2>1. s \in RequestStates /\ s.pc = "refused"
    BY <1>1 DEF RequestStates
  <2>2. req' = [req EXCEPT ![r] = s]
    BY <1>2
  <2> HIDE DEF s
  <2>3. QED
    BY <1>1, <1>2, <2>1, <2>2, RequestMovesIInv
<1>3. CASE req' = [req EXCEPT ![r].pc = "write"] /\ lock' = lock
  <2> DEFINE s == [req[r] EXCEPT !.pc = "write"]
  <2>1. /\ s \in RequestStates /\ s.pc = "write"
        /\ s.op = req[r].op /\ s.on = req[r].on /\ s.actor = req[r].actor
        /\ s.role = req[r].role /\ s.found = req[r].found
    BY <1>1 DEF RequestStates
  <2>2. req' = [req EXCEPT ![r] = s]
    BY <1>3
  <2> HIDE DEF s
  <2>3. /\ s.op = "role" => s.role = "admin" \/ ~LastAdmin(s.on)
        /\ s.op = "deactivate" => ~LastAdmin(s.on) /\ Active(s.actor)
        /\ s.op = "activate" => Active(s.actor)
        /\ s.op \in {"role", "deactivate", "activate"} => Exists(s.on)
        /\ s.op = "mint" /\ ~s.found => keys[s.on] = 0
    BY <1>1, <2>1 DEF IInv, Decided, Holds
  <2>4. QED
    BY <1>1, <1>3, <2>1, <2>2, <2>3, RequestMovesIInv
<1>4. QED
  BY <1>2, <1>3 DEF CountPending

\* A rolled-back request frees the lock and changes nothing else.
LEMMA AbortIInv ==
  ASSUME IInv, NEW r \in Requests, Abort(r)
  PROVE  IInv'
<1> DEFINE s == [req[r] EXCEPT !.pc = "refused"]
<1>1. req[r] \in RequestStates
  BY DEF IInv, TypeOK
<1>2. s \in RequestStates /\ s.pc = "refused"
  BY <1>1 DEF RequestStates
<1>3. req' = [req EXCEPT ![r] = s]
  BY DEF Abort
<1> HIDE DEF s
<1>4. QED
  BY <1>2, <1>3, RequestMovesIInv DEF Abort

----------------------------------------------------------------------------
\* A request that commits or is refused at its write leaves nobody holding.
LEMMA Released ==
  ASSUME TypeOK, NEW r \in Requests, req[r].pc = "write", lock' = NoOne,
         \/ req' = [req EXCEPT ![r].pc = "done"]
         \/ req' = [req EXCEPT ![r].pc = "refused"]
  PROVE  /\ req' \in [Requests -> RequestStates]
         /\ lock' \in Requests \cup {NoOne}
         /\ \A q \in Requests : ~Holds(q)'
         /\ \A q \in Requests : lock' = q <=> req'[q].pc \in {"pending", "write"}
         /\ Decided'
<1>1. /\ req \in [Requests -> RequestStates]
      /\ \A q \in Requests : lock = q <=> Holds(q)
      /\ lock = r /\ NoOne \notin Requests
  BY OrgAssumption DEF TypeOK, Holds
<1>2. PICK to \in {"done", "refused"} : req' = [req EXCEPT ![r].pc = to]
  OBVIOUS
<1>3. req' \in [Requests -> RequestStates]
  BY <1>1, <1>2 DEF RequestStates
<1>4. \A q \in Requests : ~Holds(q)'
  BY <1>1, <1>2 DEF Holds, RequestStates
<1>5. QED
  BY <1>1, <1>3, <1>4 DEF Holds, Decided

\* An invitation writes a row that no accept can have read yet.
LEMMA WriteInviteIInv ==
  ASSUME IInv, NEW r \in Requests, req[r].pc = "write", NEW i \in InviteIds, WriteInvite(r, i),
         UNCHANGED <<now, licence, acc, crossed, joined>>
  PROVE  IInv'
<1> USE DEF IInv
<1>1. /\ UNCHANGED <<now, user, keys, limit, changes, highest, acc, crossed, joined, late>>
      /\ req[r] \in RequestStates /\ now \in Nat /\ InviteTtl \in Nat
      /\ invite[i].state = "none" /\ invite \in [InviteIds -> InviteRows]
  BY OrgAssumption DEF WriteInvite, licence, TypeOK
<1>2. /\ lock' = NoOne
      /\ \/ req' = [req EXCEPT ![r].pc = "done"]
         \/ req' = [req EXCEPT ![r].pc = "refused"]
  BY DEF WriteInvite, Commits
<1>3. /\ invite' \in [InviteIds -> InviteRows]
      /\ \A j \in InviteIds : invite[j].state # "none" => invite'[j] = invite[j]
  <2>1. CASE UNCHANGED invite
    BY <1>1, <2>1
  <2>2. CASE invite' = [invite EXCEPT ![i] =
                 [state |-> "pending", email |-> req[r].on, role |-> req[r].role,
                  expiresAt |-> req[r].at + InviteTtl]]
    <3>1. [state |-> "pending", email |-> req[r].on, role |-> req[r].role,
           expiresAt |-> req[r].at + InviteTtl] \in InviteRows
      BY <1>1 DEF InviteRows, RequestStates
    <3>2. QED
      BY <1>1, <2>2, <3>1
  <2>3. QED
    BY <2>1, <2>2 DEF WriteInvite
<1>4. TypeOK'
  BY <1>1, <1>2, <1>3, Released DEF TypeOK
<1>5. Decided'
  BY <1>2, Released
<1>6. Written'
  BY <1>1, <1>3 DEF Written, Exists, TypeOK, AcceptStates
<1>7. AdminRemains' /\ InviteJoinsOnce' /\ OneActiveKey' /\ KeysNeedStanding'
  BY <1>1 DEF AdminRemains, ActiveAdmins, InviteJoinsOnce, OneActiveKey, KeysNeedStanding,
              MayApprove, Active
<1>8. QED
  BY <1>4, <1>5, <1>6, <1>7

\* A write to one existing user, who is not the last admin if it stops being one.
LEMMA WriteUserIInv ==
  ASSUME IInv, NEW r \in Requests, req[r].pc = "write", Commits(r),
         NEW u \in Emails, NEW row \in UserRows,
         Exists(u), row.status # "none",
         user' = [user EXCEPT ![u] = row],
         (row.status = "active" /\ row.role = "admin") \/ ~LastAdmin(u),
         \/ RevokeKeysOf(u)
         \/ UNCHANGED keys /\ (MayApprove(u) => row.status = "active" /\ Writes(row.role)),
         UNCHANGED <<now, licence, acc, crossed, joined, invite, late>>
  PROVE  IInv'
<1> USE DEF IInv
<1>1. /\ UNCHANGED <<now, invite, limit, changes, highest, acc, crossed, joined, late>>
      /\ user \in [Emails -> UserRows] /\ user' \in [Emails -> UserRows]
      /\ keys \in [Emails -> Nat] /\ keys' \in [Emails -> Nat]
      /\ user'[u] = row
      /\ \A v \in Emails \ {u} : user'[v] = user[v] /\ keys'[v] = keys[v]
      /\ keys'[u] = 0 \/ keys'[u] = keys[u]
  BY DEF licence, TypeOK, RevokeKeysOf
<1>2. lock' = NoOne /\ req' = [req EXCEPT ![r].pc = "done"]
  BY DEF Commits
<1>3. TypeOK'
  BY <1>1, <1>2, Released DEF TypeOK
<1>4. Decided'
  BY <1>2, Released
<1>5. \A v \in Emails : Exists(v)' <=> Exists(v)
  BY <1>1 DEF Exists
<1>6. Written'
  BY <1>1, <1>5 DEF Written, TypeOK, InviteRows
<1>7. AdminRemains'
  <2>1. CASE row.status = "active" /\ row.role = "admin"
    BY <1>1, <2>1 DEF AdminRemains, ActiveAdmins, Active
  <2>2. CASE ~LastAdmin(u)
    <3>1. PICK v \in ActiveAdmins : v # u
      BY <2>2 DEF AdminRemains, ActiveAdmins, LastAdmin
    <3>2. QED
      BY <1>1, <3>1 DEF AdminRemains, ActiveAdmins, Active
  <2>3. QED
    BY <2>1, <2>2
<1>8. InviteJoinsOnce' /\ OneActiveKey'
  BY <1>1 DEF InviteJoinsOnce, OneActiveKey
<1>9. KeysNeedStanding'
  <2> SUFFICES ASSUME NEW v \in Emails, keys'[v] > 0 PROVE MayApprove(v)' \/ v \in late
    BY <1>1 DEF KeysNeedStanding
  <2>1. CASE v # u
    BY <1>1, <2>1 DEF KeysNeedStanding, MayApprove, Active
  <2>2. CASE v = u
    <3>1. keys[u] > 0 /\ (MayApprove(u) => row.status = "active" /\ Writes(row.role))
      BY <1>1, <2>2 DEF RevokeKeysOf, TypeOK
    <3>2. MayApprove(u)' <=> row.status = "active" /\ Writes(row.role)
      BY <1>1 DEF MayApprove, Active, Writes
    <3>3. QED
      BY <2>2, <3>1, <3>2 DEF KeysNeedStanding
  <2>3. QED
    BY <2>1, <2>2
<1>10. QED
  BY <1>3, <1>4, <1>6, <1>7, <1>8, <1>9

\* changeUserRole: a demotion to viewer takes the user's keys with it.
LEMMA WriteRoleIInv ==
  ASSUME IInv, NEW r \in Requests, req[r].pc = "write", req[r].op = "role", WriteRole(r),
         UNCHANGED <<now, licence, acc, crossed, joined>>
  PROVE  IInv'
<1> DEFINE u == req[r].on
           row == [user[u] EXCEPT !.role = req[r].role]
<1>1. /\ req[r] \in RequestStates /\ u \in Emails /\ user[u] \in UserRows
      /\ user \in [Emails -> UserRows]
      /\ req[r].role \in Roles /\ Roles \subseteq AllRoles
  BY OrgAssumption DEF IInv, TypeOK, RequestStates
<1>2. Exists(u) /\ (req[r].role = "admin" \/ ~LastAdmin(u))
  BY DEF IInv, Decided, Holds
<1>3. row \in UserRows /\ row.status = user[u].status /\ row.role = req[r].role
  BY <1>1 DEF UserRows
<1>4. user' = [user EXCEPT ![u] = row]
  BY DEF WriteRole
<1>5. /\ (row.status = "active" /\ row.role = "admin") \/ ~LastAdmin(u)
      /\ row.status # "none"
  BY <1>2, <1>3 DEF LastAdmin, Active, Exists
<1>6. \/ RevokeKeysOf(u)
      \/ UNCHANGED keys /\ (MayApprove(u) => row.status = "active" /\ Writes(row.role))
  BY <1>1, <1>3 DEF WriteRole, MayApprove, Active, Writes, AllRoles
<1>7. UNCHANGED <<invite, late>> /\ Commits(r)
  BY DEF WriteRole
<1> HIDE DEF row, u
<1>8. QED
  BY <1>1, <1>2, <1>3, <1>4, <1>5, <1>6, <1>7, WriteUserIInv

\* setUserStatus, deactivating: the keys go in the same transaction.
LEMMA WriteDeactivateIInv ==
  ASSUME IInv, NEW r \in Requests, req[r].pc = "write", req[r].op = "deactivate",
         WriteDeactivate(r), UNCHANGED <<now, licence, acc, crossed, joined>>
  PROVE  IInv'
<1> DEFINE u == req[r].on
           row == [user[u] EXCEPT !.status = "deactivated"]
<1>1. u \in Emails /\ user[u] \in UserRows /\ user \in [Emails -> UserRows]
  BY DEF IInv, TypeOK, RequestStates
<1>2. Exists(u) /\ ~LastAdmin(u)
  BY DEF IInv, Decided, Holds
<1>3. row \in UserRows /\ row.status # "none"
  BY <1>1 DEF UserRows
<1>4. user' = [user EXCEPT ![u] = row]
  BY DEF WriteDeactivate
<1>5. RevokeKeysOf(u) /\ UNCHANGED <<invite, late>> /\ Commits(r)
  BY DEF WriteDeactivate
<1> HIDE DEF row, u
<1>6. QED
  BY <1>1, <1>2, <1>3, <1>4, <1>5, WriteUserIInv

\* setUserStatus, reactivating: the role, and with it the keys, stay.
LEMMA WriteActivateIInv ==
  ASSUME IInv, NEW r \in Requests, req[r].pc = "write", req[r].op = "activate",
         WriteActivate(r), UNCHANGED <<now, licence, acc, crossed, joined>>
  PROVE  IInv'
<1> DEFINE u == req[r].on
           row == [user[u] EXCEPT !.status = "active"]
<1>1. u \in Emails /\ user[u] \in UserRows /\ user \in [Emails -> UserRows]
  BY DEF IInv, TypeOK, RequestStates
<1>2. Exists(u)
  BY DEF IInv, Decided, Holds
<1>3. row \in UserRows /\ row.status = "active" /\ row.role = user[u].role
  BY <1>1 DEF UserRows
<1>4. user' = [user EXCEPT ![u] = row]
  BY DEF WriteActivate
<1>5. (row.status = "active" /\ row.role = "admin") \/ ~LastAdmin(u)
  BY <1>3 DEF LastAdmin
<1>6. MayApprove(u) => row.status = "active" /\ Writes(row.role)
  BY <1>3 DEF MayApprove
<1>7. UNCHANGED <<invite, keys, late>> /\ Commits(r)
  BY DEF WriteActivate
<1> HIDE DEF row, u
<1>8. QED
  BY <1>1, <1>2, <1>3, <1>4, <1>5, <1>6, <1>7, WriteUserIInv

\* mintOauthKey: a key that was not there is still not there, and a user who lost
\* the right meanwhile is remembered.
LEMMA WriteMintIInv ==
  ASSUME IInv, NEW r \in Requests, req[r].pc = "write", req[r].op = "mint",
         WriteMint(r), UNCHANGED <<now, licence, acc, crossed, joined>>
  PROVE  IInv'
<1> USE DEF IInv
<1>1. /\ UNCHANGED <<now, user, invite, limit, changes, highest, acc, crossed, joined>>
      /\ req[r].on \in Emails /\ keys \in [Emails -> Nat]
      /\ lock' = NoOne /\ req' = [req EXCEPT ![r].pc = "done"]
  BY DEF WriteMint, Commits, licence, TypeOK, RequestStates
<1>2. req[r].found \in BOOLEAN /\ (~req[r].found => keys[req[r].on] = 0)
  BY DEF Decided, Holds, TypeOK, RequestStates
<1>3. /\ keys' \in [Emails -> Nat]
      /\ \A u \in Emails \ {req[r].on} : keys'[u] = keys[u]
      /\ keys'[req[r].on] <= 1
  <2>1. CASE req[r].found
    BY <1>1, <2>1 DEF WriteMint, OneActiveKey
  <2>2. CASE ~req[r].found
    BY <1>1, <1>2, <2>2 DEF WriteMint
  <2>3. QED
    BY <2>1, <2>2
<1>4. /\ late' \subseteq Emails /\ late \subseteq late'
      /\ MayApprove(req[r].on) \/ req[r].on \in late'
  BY <1>1 DEF WriteMint, TypeOK
<1>5. TypeOK'
  BY <1>1, <1>3, <1>4, Released DEF TypeOK
<1>6. Decided'
  BY <1>1, Released
<1>7. Written' /\ AdminRemains' /\ InviteJoinsOnce'
  BY <1>1 DEF Written, Exists, AdminRemains, ActiveAdmins, Active, InviteJoinsOnce
<1>8. OneActiveKey'
  BY <1>1, <1>3 DEF OneActiveKey
<1>9. KeysNeedStanding'
  <2>1. \A u \in Emails : MayApprove(u)' <=> MayApprove(u)
    BY <1>1 DEF MayApprove, Active
  <2>2. QED
    BY <1>1, <1>3, <1>4, <2>1 DEF KeysNeedStanding
<1>10. QED
  BY <1>5, <1>6, <1>7, <1>8, <1>9

----------------------------------------------------------------------------
\* acceptInvite, while it only reads.
LEMMA AcceptReadsIInv ==
  ASSUME IInv, NEW a \in Accepts, (\E i \in InviteIds : AcceptRead(a, i)) \/ AcceptCheck(a)
  PROVE  IInv'
<1> USE DEF IInv
<1>1. UNCHANGED <<now, user, invite, keys, limit, changes, highest, lock, req, crossed, joined, late>>
  BY DEF AcceptRead, AcceptCheck, licence, history
<1>2. /\ acc \in [Accepts -> AcceptStates]
      /\ acc' \in [Accepts -> AcceptStates]
      /\ \A b \in Accepts : acc'[b].pc \in {"check", "insert"} => invite[acc'[b].invite].state # "none"
  <2>1. ASSUME NEW i \in InviteIds, AcceptRead(a, i)
        PROVE  /\ acc' \in [Accepts -> AcceptStates]
               /\ \A b \in Accepts : acc'[b].pc \in {"check", "insert"} => invite[acc'[b].invite].state # "none"
    BY <2>1 DEF AcceptRead, Pending, TypeOK, AcceptStates, Written
  <2>2. ASSUME AcceptCheck(a)
        PROVE  /\ acc' \in [Accepts -> AcceptStates]
               /\ \A b \in Accepts : acc'[b].pc \in {"check", "insert"} => invite[acc'[b].invite].state # "none"
    BY <2>2 DEF AcceptCheck, TypeOK, AcceptStates, Written
  <2>3. QED
    BY <2>1, <2>2 DEF TypeOK
<1>3. TypeOK'
  BY <1>1, <1>2 DEF TypeOK
<1>4. Written'
  BY <1>1, <1>2 DEF Written, Exists
<1>5. Decided'
  BY <1>1 DEF Decided, Holds, LastAdmin, ActiveAdmins, Active, Exists
<1>6. AdminRemains' /\ InviteJoinsOnce' /\ OneActiveKey' /\ KeysNeedStanding'
  BY <1>1 DEF AdminRemains, ActiveAdmins, InviteJoinsOnce, OneActiveKey, KeysNeedStanding,
              MayApprove, Active
<1>7. QED
  BY <1>3, <1>4, <1>5, <1>6

\* acceptInvite adds a user who was not there: nobody's admin is the last for it,
\* and no request that holds the lock has decided anything about that user.
LEMMA AcceptInsertIInv ==
  ASSUME IInv, NEW a \in Accepts, AcceptInsert(a)
  PROVE  IInv'
<1> USE DEF IInv
<1>1. PICK i \in InviteIds : i = acc[a].invite
  BY DEF TypeOK, AcceptStates
<1>2. PICK u \in Emails : u = invite[i].email
  BY DEF TypeOK, InviteRows
<1>3. /\ UNCHANGED <<now, keys, limit, changes, highest, lock, req, late>>
      /\ i = acc[a].invite /\ u = invite[i].email /\ invite[i].state # "none"
      /\ acc[a].pc = "insert"
  BY <1>1, <1>2 DEF AcceptInsert, licence, Written
<1>4. CASE ~EmailFree(u)
  <2>1. UNCHANGED <<user, invite, joined, crossed>> /\ acc' = [acc EXCEPT ![a].pc = "failed"]
    BY <1>3, <1>4 DEF AcceptInsert
  <2>2. /\ acc' \in [Accepts -> AcceptStates]
        /\ \A b \in Accepts : acc'[b].pc \in {"check", "insert"} => invite[acc'[b].invite].state # "none"
    BY <2>1 DEF TypeOK, AcceptStates, Written
  <2>3. TypeOK' /\ Written'
    BY <1>3, <2>1, <2>2 DEF TypeOK, Written, Exists
  <2>4. Decided'
    BY <1>3, <2>1 DEF Decided, Holds, LastAdmin, ActiveAdmins, Active, Exists
  <2>5. AdminRemains' /\ InviteJoinsOnce' /\ OneActiveKey' /\ KeysNeedStanding'
    BY <1>3, <2>1 DEF AdminRemains, ActiveAdmins, InviteJoinsOnce, OneActiveKey,
                      KeysNeedStanding, MayApprove, Active
  <2>6. QED
    BY <2>3, <2>4, <2>5
<1>5. CASE EmailFree(u)
  <2>1. /\ user' = [user EXCEPT ![u] = [status |-> "active", role |-> invite[i].role]]
        /\ invite' = [invite EXCEPT ![i].state = IF @ = "pending" THEN "accepted" ELSE @]
        /\ joined' = [joined EXCEPT ![i] = @ + 1]
        /\ crossed' \in {crossed, crossed \cup {i}}
        /\ acc' = [acc EXCEPT ![a].pc = "done"]
    BY <1>3, <1>5 DEF AcceptInsert
  <2>2. /\ user' \in [Emails -> UserRows] /\ Active(u)'
        /\ \A v \in Emails \ {u} : user'[v] = user[v]
    BY <1>3, <2>1 DEF TypeOK, UserRows, InviteRows, Active
  <2>3. /\ invite' \in [InviteIds -> InviteRows]
        /\ \A j \in InviteIds : invite'[j].email = invite[j].email
        /\ \A j \in InviteIds : invite[j].state # "none" => invite'[j].state # "none"
    <3>1. \A j \in InviteIds : j # i => invite'[j] = invite[j]
      BY <2>1 DEF TypeOK
    <3>2. PICK to \in {"none", "pending", "accepted", "revoked"} :
             /\ invite' = [invite EXCEPT ![i].state = to]
             /\ invite[i].state # "none" => to # "none"
      BY <1>3, <2>1 DEF TypeOK, InviteRows
    <3>3. /\ invite'[i] \in InviteRows
          /\ invite'[i].email = invite[i].email
          /\ invite'[i].state = to
      BY <1>3, <3>2 DEF TypeOK, InviteRows
    <3>4. QED
      BY <3>1, <3>2, <3>3 DEF TypeOK
  <2>4. /\ acc' \in [Accepts -> AcceptStates]
        /\ \A b \in Accepts : acc'[b].pc \in {"check", "insert"} =>
              acc[b].pc \in {"check", "insert"} /\ acc'[b].invite = acc[b].invite
    BY <2>1 DEF TypeOK, AcceptStates
  <2>5. ~Exists(u) /\ \A v \in Emails : Exists(v) => v # u /\ Exists(v)'
    BY <1>5, <2>2 DEF EmailFree, Exists
  <2>6. /\ joined[i] = 0 /\ joined'[i] = 1
        /\ joined' \in [InviteIds -> Nat]
        /\ \A j \in InviteIds \ {i} : joined'[j] = joined[j]
    BY <1>3, <2>1, <2>5 DEF Written, TypeOK
  <2>7. TypeOK'
    BY <1>3, <2>1, <2>2, <2>3, <2>4, <2>6 DEF TypeOK
  <2>8. Written'
    <3>1. \A b \in Accepts : acc'[b].pc \in {"check", "insert"} => invite'[acc'[b].invite].state # "none"
      BY <2>3, <2>4 DEF Written, TypeOK, AcceptStates
    <3>2. ASSUME NEW j \in InviteIds, joined'[j] > 0
          PROVE  invite'[j].state # "none" /\ Exists(invite[j].email)'
      <4>1. CASE j = i
        BY <1>3, <2>2, <2>3, <4>1 DEF Exists, Active
      <4>2. CASE j # i
        <5>1. joined[j] > 0 /\ invite[j].email \in Emails
          BY <2>6, <3>2, <4>2 DEF TypeOK, InviteRows
        <5>2. Exists(invite[j].email) /\ invite'[j].email = invite[j].email /\ invite'[j].state # "none"
          BY <2>3, <5>1 DEF Written
        <5>3. QED
          BY <2>5, <5>1, <5>2 DEF Exists
      <4>3. QED
        BY <4>1, <4>2
    <3>3. QED
      BY <2>3, <3>1, <3>2 DEF Written, Exists
  <2>9. ActiveAdmins \subseteq ActiveAdmins'
    BY <1>3, <2>2, <2>5 DEF ActiveAdmins, Active, Exists
  <2>10. ASSUME NEW v \in Emails, Exists(v)
         PROVE  (LastAdmin(v)' => LastAdmin(v)) /\ (Active(v)' <=> Active(v))
    <3>1. user'[v] = user[v] /\ (Active(v)' <=> Active(v))
      BY <2>2, <2>5, <2>10 DEF Active
    <3>2. QED
      BY <2>9, <2>10, <3>1 DEF LastAdmin, ActiveAdmins
  <2>11. \A v \in Emails : Active(v) => Active(v)'
    <3>1. ASSUME NEW v \in Emails, Active(v) PROVE Active(v)'
      BY <2>2, <3>1, v = u \/ v # u DEF Active
    <3>2. QED
      BY <3>1
  <2>12. Decided'
    BY <1>3, <2>5, <2>10, <2>11 DEF Decided, Holds, TypeOK, RequestStates
  <2>13. AdminRemains' /\ InviteJoinsOnce' /\ OneActiveKey'
    BY <1>3, <2>6, <2>9 DEF AdminRemains, InviteJoinsOnce, OneActiveKey
  <2>14. KeysNeedStanding'
    <3>1. ASSUME NEW v \in Emails, keys[v] > 0 PROVE MayApprove(v)' \/ v \in late
      <4>1. CASE v = u
        BY <2>5, <3>1, <4>1 DEF KeysNeedStanding, MayApprove, Active, Exists
      <4>2. CASE v # u
        BY <2>2, <3>1, <4>2 DEF KeysNeedStanding, MayApprove, Active
      <4>3. QED
        BY <4>1, <4>2
    <3>2. QED
      BY <1>3, <3>1 DEF KeysNeedStanding
  <2>15. QED
    BY <2>7, <2>8, <2>12, <2>13, <2>14
<1>6. QED
  BY <1>4, <1>5

\* Revoking an invite makes no row new, and every accept still finds its own.
LEMMA RevokeInviteIInv ==
  ASSUME IInv, NEW i \in InviteIds, RevokeInvite(i)
  PROVE  IInv'
<1> USE DEF IInv
<1>1. UNCHANGED <<now, user, keys, limit, changes, highest, lock, req, acc, crossed, joined, late>>
  BY DEF RevokeInvite, licence, history
<1>2. /\ invite' \in [InviteIds -> InviteRows]
      /\ \A j \in InviteIds : /\ invite'[j].email = invite[j].email
                              /\ invite[j].state # "none" => invite'[j].state # "none"
  BY DEF RevokeInvite, TypeOK, InviteRows
<1>3. TypeOK'
  BY <1>1, <1>2 DEF TypeOK
<1>4. Written'
  BY <1>1, <1>2 DEF Written, Exists, TypeOK, AcceptStates
<1>5. Decided'
  BY <1>1 DEF Decided, Holds, LastAdmin, ActiveAdmins, Active, Exists
<1>6. AdminRemains' /\ InviteJoinsOnce' /\ OneActiveKey' /\ KeysNeedStanding'
  BY <1>1 DEF AdminRemains, ActiveAdmins, InviteJoinsOnce, OneActiveKey, KeysNeedStanding,
              MayApprove, Active
<1>7. QED
  BY <1>3, <1>4, <1>5, <1>6

\* revokeKey takes a key away: who has none still needs none.
LEMMA RevokeKeyIInv ==
  ASSUME IInv, NEW u \in Emails, RevokeKey(u)
  PROVE  IInv'
<1> USE DEF IInv
<1>1. UNCHANGED <<now, user, invite, limit, changes, highest, lock, req, acc, crossed, joined, late>>
  BY DEF RevokeKey, licence, history
<1>2. /\ keys' \in [Emails -> Nat]
      /\ \A v \in Emails : keys'[v] <= keys[v] /\ (keys'[v] > 0 => keys[v] > 0)
  BY DEF RevokeKey, TypeOK
<1>3. TypeOK'
  BY <1>1, <1>2 DEF TypeOK
<1>4. Written' /\ AdminRemains' /\ InviteJoinsOnce'
  BY <1>1 DEF Written, Exists, AdminRemains, ActiveAdmins, Active, InviteJoinsOnce
<1>5. Decided'
  <2>1. \A q \in Requests : keys[req[q].on] = 0 => keys'[req[q].on] = 0
    BY <1>2 DEF TypeOK, RequestStates
  <2>2. QED
    BY <1>1, <2>1 DEF Decided, Holds, LastAdmin, ActiveAdmins, Active, Exists
<1>6. OneActiveKey'
  BY <1>2 DEF OneActiveKey, TypeOK
<1>7. KeysNeedStanding'
  BY <1>1, <1>2 DEF KeysNeedStanding, MayApprove, Active
<1>8. QED
  BY <1>3, <1>4, <1>5, <1>6, <1>7

\* The licence, the clock and a stutter touch nothing the invariant relates.
LEMMA ElsewhereIInv ==
  ASSUME IInv, UNCHANGED <<user, invite, keys, lock, req, acc, crossed, joined, late>>,
         now' \in 0..MaxTime, limit' \in Limits, highest' \in Limits, changes' \in 0..MaxChanges
  PROVE  IInv'
<1> USE DEF IInv
<1>1. TypeOK' /\ Written'
  BY DEF TypeOK, Written, Exists
<1>2. Decided'
  BY DEF Decided, Holds, LastAdmin, ActiveAdmins, Active, Exists
<1>3. AdminRemains' /\ InviteJoinsOnce' /\ OneActiveKey' /\ KeysNeedStanding'
  BY DEF AdminRemains, ActiveAdmins, InviteJoinsOnce, OneActiveKey, KeysNeedStanding,
         MayApprove, Active
<1>4. QED
  BY <1>1, <1>2, <1>3

----------------------------------------------------------------------------
\* A write, whichever of the five it is.
LEMMA WriteIInv ==
  ASSUME IInv, NEW r \in Requests, Write(r)
  PROVE  IInv'
<1>1. req[r].pc = "write" /\ UNCHANGED <<now, licence, acc, crossed, joined>>
  BY DEF Write
<1>2. CASE req[r].op = "invite" /\ \E i \in InviteIds : WriteInvite(r, i)
  BY <1>1, <1>2, WriteInviteIInv
<1>3. CASE req[r].op = "role" /\ WriteRole(r)
  BY <1>1, <1>3, WriteRoleIInv
<1>4. CASE req[r].op = "deactivate" /\ WriteDeactivate(r)
  BY <1>1, <1>4, WriteDeactivateIInv
<1>5. CASE req[r].op = "activate" /\ WriteActivate(r)
  BY <1>1, <1>5, WriteActivateIInv
<1>6. CASE req[r].op = "mint" /\ WriteMint(r)
  BY <1>1, <1>6, WriteMintIInv
<1>7. QED
  BY <1>2, <1>3, <1>4, <1>5, <1>6 DEF Write

\* Every step keeps the invariant.
LEMMA NextIInv == IInv /\ [Next]_vars => IInv'
<1> SUFFICES ASSUME IInv, [Next]_vars PROVE IInv'
  OBVIOUS
<1>1. TypeOK
  BY DEF IInv
<1>2. ASSUME NEW r \in Requests, Request(r) PROVE IInv'
  <2>1. CASE \E op \in Ops, u, on \in Emails, role \in Roles : Load(r, op, u, on, role)
    BY <2>1, LoadIInv
  <2>2. CASE Begin(r)
    BY <2>2, BeginIInv
  <2>3. CASE CountPending(r)
    BY <2>3, CountPendingIInv
  <2>4. CASE Write(r)
    BY <2>4, WriteIInv
  <2>5. CASE Abort(r)
    BY <2>5, AbortIInv
  <2>6. QED
    BY <1>2, <2>1, <2>2, <2>3, <2>4, <2>5 DEF Request
<1>3. ASSUME NEW a \in Accepts, Accept(a) PROVE IInv'
  BY <1>3, AcceptReadsIInv, AcceptInsertIInv DEF Accept
<1>4. ASSUME NEW i \in InviteIds, RevokeInvite(i) PROVE IInv'
  BY <1>4, RevokeInviteIInv
<1>5. ASSUME NEW u \in Emails, RevokeKey(u) PROVE IInv'
  BY <1>5, RevokeKeyIInv
<1>6. ASSUME NEW seats \in Limits, Relicense(seats) PROVE IInv'
  <2>1. UNCHANGED <<now, user, invite, keys, lock, req, acc, crossed, joined, late>>
    BY <1>6 DEF Relicense, history
  <2>2. limit' \in Limits /\ highest' \in Limits /\ changes' \in 0..MaxChanges
    BY <1>1, <1>6, OrgAssumption DEF Relicense, TypeOK
  <2>3. QED
    BY <1>1, <2>1, <2>2, ElsewhereIInv DEF TypeOK
<1>7. CASE Tick
  <2>1. UNCHANGED <<user, invite, keys, limit, changes, highest, lock, req, acc, crossed, joined, late>>
    BY <1>7 DEF Tick, licence, history
  <2>2. now' \in 0..MaxTime
    BY <1>1, <1>7, OrgAssumption DEF Tick, TypeOK
  <2>3. QED
    BY <1>1, <2>1, <2>2, ElsewhereIInv DEF TypeOK
<1>8. CASE UNCHANGED vars
  BY <1>1, <1>8, ElsewhereIInv DEF vars, TypeOK
<1>9. QED
  BY <1>2, <1>3, <1>4, <1>5, <1>6, <1>7, <1>8 DEF Next

\* The invariant holds in every reachable state.
THEOREM Invariance == Spec => []IInv
<1>1. QED
  BY InitIInv, NextIInv, PTL DEF Spec

\* Every state is well typed, and the org lock is held by the one request that
\* is between its first read and its end.
THEOREM TypeCorrect == Spec => []TypeOK
<1>1. IInv => TypeOK
  BY DEF IInv
<1>2. QED
  BY <1>1, Invariance, PTL

\* However many demotions and deactivations race, an org keeps an active admin.
THEOREM AnAdminRemains == Spec => []AdminRemains
<1>1. IInv => AdminRemains
  BY DEF IInv
<1>2. QED
  BY <1>1, Invariance, PTL

\* An invite creates one user at most, however many accepts use its link at once.
THEOREM AnInviteJoinsOnce == Spec => []InviteJoinsOnce
<1>1. IInv => InviteJoinsOnce
  BY DEF IInv
<1>2. QED
  BY <1>1, Invariance, PTL

\* Consents that race for one user, client and paddock leave one active key, and
\* a user without standing has one only through a mint already under way.
THEOREM ConsentKeys == Spec => []ConsentKeysStand
<1>1. IInv => ConsentKeysStand
  BY DEF IInv, ConsentKeysStand
<1>2. QED
  BY <1>1, Invariance, PTL

\* An existing user's status is changed only by a locked request whose actor is
\* an active member at that moment, though it was loaded before the lock.
THEOREM OnlyActiveChangeStatus == Spec => StatusChangedByActive
<1> DEFINE ByActive ==
      \A u \in Emails : Exists(u) /\ user'[u].status # user[u].status =>
          \E r \in Requests : req[r].pc = "write" /\ req'[r].pc = "done" /\ Active(req[r].actor)
<1>1. IInv /\ [Next]_vars => [ByActive]_vars
  <2> SUFFICES ASSUME IInv, Next, NEW u \in Emails, Exists(u), user'[u].status # user[u].status
               PROVE  \E r \in Requests :
                          req[r].pc = "write" /\ req'[r].pc = "done" /\ Active(req[r].actor)
    OBVIOUS
  <2>1. user' # user
    OBVIOUS
  <2>2. ASSUME NEW r \in Requests, Request(r)
        PROVE  req[r].pc = "write" /\ req'[r].pc = "done" /\ Active(req[r].actor)
    <3>1. Write(r)
      BY <2>1, <2>2 DEF Request, Load, Begin, CountPending, Abort
    <3>2. CASE req[r].op = "role" /\ WriteRole(r)
      <4>1. user'[u].status = user[u].status
        BY <3>2 DEF WriteRole, IInv, TypeOK, UserRows
      <4>2. QED
        BY <4>1
    <3>3. CASE /\ req[r].op \in {"activate", "deactivate"}
               /\ WriteActivate(r) \/ WriteDeactivate(r)
      <4>1. req'[r].pc = "done"
        BY <3>3 DEF WriteActivate, WriteDeactivate, Commits, IInv, TypeOK, RequestStates
      <4>2. Active(req[r].actor)
        BY <3>1, <3>3 DEF Write, IInv, Decided, Holds
      <4>3. QED
        BY <3>1, <4>1, <4>2 DEF Write
    <3>4. QED
      BY <2>1, <3>1, <3>2, <3>3 DEF Write, WriteInvite, WriteMint
  <2>3. ASSUME NEW a \in Accepts, Accept(a) PROVE FALSE
    <3>1. AcceptInsert(a) /\ EmailFree(invite[acc[a].invite].email)
      BY <2>1, <2>3 DEF Accept, AcceptRead, AcceptCheck, AcceptInsert
    <3>2. user'[u] = user[u]
      BY <3>1 DEF AcceptInsert, EmailFree, IInv, TypeOK
    <3>3. QED
      BY <3>2
  <2>4. QED
    BY <2>1, <2>2, <2>3 DEF Next, RevokeInvite, RevokeKey, Relicense, Tick
<1>2. QED
  BY <1>1, Invariance, PTL DEF Spec, StatusChangedByActive

----------------------------------------------------------------------------
(***************************************************************************)
(* The seats of the org, which take counting.                              *)
(***************************************************************************)

(***************************************************************************)
(* The inductive invariant.  A seat check counts users first and pending   *)
(* invites later, and writes later still, without keeping accepts out.  An *)
(* accept between the two counts adds a user the first one missed, and is  *)
(* recorded as crossed; one after them moves a seat from the invites to    *)
(* the users, so the seat found free is still free at the write.           *)
(***************************************************************************)
Crossings == Cardinality(crossed)

\* Whether what the request is about to write takes a seat.
TakesSeat(r) == req[r].op = "invite" \/ (req[r].op = "activate" /\ ~Active(req[r].on))

SeatChecked(r) ==
    /\ req[r].at <= now /\ req[r].seats <= highest
    /\ req[r].pc = "pending" =>
          req[r].op \in {"invite", "activate"} /\ ActiveUsers <= req[r].active + Crossings
    /\ req[r].pc = "write" /\ TakesSeat(r) =>
          ActiveUsers + PendingInvites(req[r].at) < highest + Crossings

SeatsInv ==
    /\ limit <= highest
    /\ \A i \in crossed : joined[i] > 0
    /\ \A r \in Requests : SeatChecked(r)
    /\ SeatsHeldUnlessCrossed

----------------------------------------------------------------------------
\* A finite set counts no more than one it is within, give or take an element.
LEMMA Within ==
  ASSUME NEW S, NEW T, IsFiniteSet(S), T \subseteq S
  PROVE  IsFiniteSet(T) /\ Cardinality(T) <= Cardinality(S)
<1>1. QED
  BY FS_Subset

LEMMA OneMore ==
  ASSUME NEW S, NEW T, NEW x, IsFiniteSet(S), T \subseteq S \cup {x}
  PROVE  Cardinality(T) <= Cardinality(S) + 1
<1>1. /\ IsFiniteSet(S \cup {x})
      /\ Cardinality(S \cup {x}) = IF x \in S THEN Cardinality(S) ELSE Cardinality(S) + 1
  BY FS_AddElement
<1>2. Cardinality(T) <= Cardinality(S \cup {x}) /\ Cardinality(T) \in Nat /\ Cardinality(S) \in Nat
  BY <1>1, FS_CardinalityType, Within
<1>3. QED
  BY <1>1, <1>2

LEMMA OneLess ==
  ASSUME NEW S, NEW T, NEW x \in S, IsFiniteSet(S), T \subseteq S \ {x}
  PROVE  Cardinality(T) + 1 <= Cardinality(S)
<1>1. /\ IsFiniteSet(S \ {x})
      /\ Cardinality(S \ {x}) = Cardinality(S) - 1
  BY FS_RemoveElement
<1>2. Cardinality(T) <= Cardinality(S \ {x}) /\ Cardinality(T) \in Nat /\ Cardinality(S) \in Nat
  BY <1>1, FS_CardinalityType, Within
<1>3. QED
  BY <1>1, <1>2

\* What is counted is finite, and fewer invites are pending later.
Users == {u \in Emails : Active(u)}
Waiting(at) == {i \in InviteIds : Pending(i, at)}

LEMMA Countable ==
  /\ IsFiniteSet(Users) /\ ActiveUsers = Cardinality(Users) /\ ActiveUsers \in Nat
  /\ \A at : /\ IsFiniteSet(Waiting(at)) /\ PendingInvites(at) = Cardinality(Waiting(at))
             /\ PendingInvites(at) \in Nat
<1>1. IsFiniteSet(Users) /\ \A at : IsFiniteSet(Waiting(at))
  BY OrgAssumption, Within, Users \subseteq Emails, \A at : Waiting(at) \subseteq InviteIds
     DEF Users, Waiting
<1>2. QED
  BY <1>1, FS_CardinalityType DEF ActiveUsers, PendingInvites, Users, Waiting

LEMMA CountableNext ==
  /\ IsFiniteSet(Users') /\ ActiveUsers' = Cardinality(Users') /\ ActiveUsers' \in Nat
  /\ \A at : /\ IsFiniteSet(Waiting(at)') /\ PendingInvites(at)' = Cardinality(Waiting(at)')
             /\ PendingInvites(at)' \in Nat
<1>1. IsFiniteSet(Users') /\ \A at : IsFiniteSet(Waiting(at)')
  BY OrgAssumption, Within, Users' \subseteq Emails, \A at : Waiting(at)' \subseteq InviteIds
     DEF Users, Waiting
<1>2. QED
  BY <1>1, FS_CardinalityType DEF ActiveUsers, PendingInvites, Users, Waiting

LEMMA Numbers ==
  ASSUME TypeOK
  PROVE  /\ now \in Nat /\ limit \in Nat /\ highest \in Nat
         /\ IsFiniteSet(crossed) /\ Crossings \in Nat
         /\ \A r \in Requests : req[r].at \in Nat /\ req[r].seats \in Nat /\ req[r].active \in Nat
<1>1. now \in Nat /\ limit \in Nat /\ highest \in Nat
  BY OrgAssumption DEF TypeOK
<1>2. IsFiniteSet(crossed) /\ Crossings \in Nat
  BY OrgAssumption, FS_CardinalityType, Within DEF TypeOK, Crossings
<1>3. QED
  BY <1>1, <1>2 DEF TypeOK, RequestStates

LEMMA NumbersNext ==
  ASSUME TypeOK'
  PROVE  /\ now' \in Nat /\ limit' \in Nat /\ highest' \in Nat
         /\ IsFiniteSet(crossed') /\ Crossings' \in Nat
         /\ \A r \in Requests : req'[r].at \in Nat /\ req'[r].seats \in Nat /\ req'[r].active \in Nat
<1>1. now' \in Nat /\ limit' \in Nat /\ highest' \in Nat
  BY OrgAssumption DEF TypeOK
<1>2. IsFiniteSet(crossed') /\ Crossings' \in Nat
  BY OrgAssumption, FS_CardinalityType, Within DEF TypeOK, Crossings
<1>3. QED
  BY <1>1, <1>2 DEF TypeOK, RequestStates

LEMMA FewerLater ==
  ASSUME TypeOK, NEW at \in Nat, NEW later \in Nat, at <= later
  PROVE  PendingInvites(later) <= PendingInvites(at)
<1>1. Waiting(later) \subseteq Waiting(at)
  BY DEF Waiting, Pending, TypeOK, InviteRows
<1>2. QED
  BY <1>1, Countable, Within

----------------------------------------------------------------------------
\* A fresh org has room.
LEMMA InitSeats == Init => SeatsInv
<1> SUFFICES ASSUME Init PROVE SeatsInv
  OBVIOUS
<1>1. TypeOK
  BY InitIInv DEF IInv
<1>2. Crossings = 0
  BY FS_EmptySet DEF Init, Crossings
<1>3. PendingInvites(now) = 0
  <2>1. Waiting(now) = {}
    BY DEF Init, Waiting, Pending
  <2>2. QED
    BY <2>1, Countable, FS_EmptySet
<1>4. ActiveUsers <= limit /\ limit = highest /\ now = 0 /\ crossed = {}
  BY DEF Init
<1>5. \A r \in Requests : req[r].at = 0 /\ req[r].seats = 0 /\ req[r].pc = "idle"
  BY DEF Init, NoRequest
<1>6. QED
  BY <1>1, <1>2, <1>3, <1>4, <1>5, Countable, Numbers
     DEF SeatsInv, SeatChecked, SeatsHeldUnlessCrossed, SeatsUsed, Crossings

\* A step after which no more users are active and no more invites pending keeps
\* the room there is, and what every other request has found.
Calm ==
    /\ ActiveUsers' <= ActiveUsers
    /\ \A at \in Nat : PendingInvites(at)' <= PendingInvites(at)
    /\ UNCHANGED <<crossed, joined>>
    /\ now <= now' /\ highest <= highest' /\ limit' <= highest'

LEMMA CalmSeats ==
  ASSUME TypeOK, TypeOK', SeatsInv, Calm,
         \A q \in Requests :
             \/ SeatChecked(q)'
             \/ req'[q] = req[q] /\ (req[q].pc = "write" => \A u : Active(u) => Active(u)')
  PROVE  SeatsInv'
<1>1. /\ ActiveUsers \in Nat /\ ActiveUsers' \in Nat
      /\ \A at : PendingInvites(at) \in Nat /\ PendingInvites(at)' \in Nat
  BY Countable, CountableNext
<1>2. Crossings' = Crossings
  BY DEF Calm, Crossings
<1>3. ASSUME NEW q \in Requests PROVE SeatChecked(q)'
  <2>1. CASE req'[q] = req[q] /\ (req[q].pc = "write" => \A u : Active(u) => Active(u)')
    <3>1. TakesSeat(q)' => TakesSeat(q) \/ req[q].pc # "write"
      BY <2>1 DEF TakesSeat
    <3>2. QED
      BY <1>1, <1>2, <2>1, <3>1, Numbers, NumbersNext DEF SeatsInv, SeatChecked, Calm
  <2>2. QED
    BY <2>1
<1>4. SeatsHeldUnlessCrossed'
  <2>1. PendingInvites(now)' <= PendingInvites(now)
    <3>1. now \in Nat /\ now' \in Nat /\ now <= now'
      BY Numbers, NumbersNext DEF Calm
    <3>2. PICK at \in Nat : at = now'
      BY <3>1
    <3>3. PendingInvites(now)' = PendingInvites(at)'
      BY <3>2 DEF PendingInvites, Pending
    <3>4. PendingInvites(at)' <= PendingInvites(at)
      BY DEF Calm
    <3>5. PendingInvites(at) <= PendingInvites(now)
      BY <3>1, <3>2, FewerLater
    <3>6. QED
      BY <1>1, <3>3, <3>4, <3>5
  <2>2. QED
    BY <1>1, <1>2, <2>1, Numbers, NumbersNext DEF SeatsInv, Calm, SeatsHeldUnlessCrossed, SeatsUsed, Crossings
<1>5. QED
  BY <1>3, <1>4 DEF SeatsInv, Calm

LEMMA NoMoreCounted ==
  ASSUME Users' \subseteq Users, \A at \in Nat : Waiting(at)' \subseteq Waiting(at)
  PROVE  /\ ActiveUsers' <= ActiveUsers
         /\ \A at \in Nat : PendingInvites(at)' <= PendingInvites(at)
<1>1. QED
  BY Countable, CountableNext, Within

\* Of the requests, the one that holds the lock alone is at its seats.
LEMMA OneHolds ==
  ASSUME TypeOK, NEW r \in Requests, Holds(r)
  PROVE  \A q \in Requests \ {r} : ~Holds(q)
<1>1. QED
  BY DEF TypeOK, Holds

----------------------------------------------------------------------------
\* What a request does until it writes counts nobody twice.
LEMMA LoadSeats ==
  ASSUME IInv, IInv', SeatsInv, NEW r \in Requests,
         NEW op \in Ops, NEW u \in Emails, NEW on \in Emails, NEW role \in Roles,
         Load(r, op, u, on, role)
  PROVE  SeatsInv'
<1>1. TypeOK /\ TypeOK' /\ UNCHANGED <<now, user, invite, limit, highest, crossed, joined>>
  BY DEF IInv, Load, licence, history
<1>2. Calm
  BY <1>1, NoMoreCounted, Numbers DEF Calm, Users, Waiting, Active, Pending, SeatsInv
<1>3. /\ req'[r].pc = "lock" /\ req'[r].at = now /\ req'[r].seats = limit
      /\ \A q \in Requests \ {r} : req'[q] = req[q]
  BY <1>1 DEF Load, TypeOK
<1>4. SeatChecked(r)'
  BY <1>1, <1>3, Numbers DEF SeatChecked, SeatsInv
<1>5. QED
  BY <1>1, <1>2, <1>3, <1>4, CalmSeats DEF Active

LEMMA BeginSeats ==
  ASSUME IInv, IInv', SeatsInv, NEW r \in Requests, Begin(r)
  PROVE  SeatsInv'
<1>1. TypeOK /\ TypeOK' /\ UNCHANGED <<now, user, invite, limit, highest, crossed, joined>>
  BY DEF IInv, Begin, licence, history
<1>2. Calm
  BY <1>1, NoMoreCounted, Numbers DEF Calm, Users, Waiting, Active, Pending, SeatsInv
<1>3. /\ req'[r].at = req[r].at /\ req'[r].seats = req[r].seats /\ req'[r].op = req[r].op
      /\ req'[r].on = req[r].on
      /\ req'[r].pc = "pending" =>
            req[r].op \in {"invite", "activate"} /\ req'[r].active = ActiveUsers
      /\ req'[r].pc = "write" => \/ req[r].op \in {"role", "deactivate", "mint"}
                                 \/ req[r].op = "activate" /\ Active(req[r].on)
      /\ \A q \in Requests \ {r} : req'[q] = req[q]
  <2> USE DEF GoesOn, Refuses, TypeOK, RequestStates
  <2>1. CASE req[r].op = "invite" /\ BeginInvite(r)
    BY <1>1, <2>1 DEF BeginInvite
  <2>2. CASE req[r].op = "role" /\ BeginRole(r)
    BY <1>1, <2>2 DEF BeginRole
  <2>3. CASE req[r].op = "deactivate" /\ BeginDeactivate(r)
    BY <1>1, <2>3 DEF BeginDeactivate
  <2>4. CASE req[r].op = "activate" /\ BeginActivate(r)
    <3>1. CASE Refuses(r)
      BY <1>1, <3>1
    <3>2. CASE Active(req[r].on) /\ GoesOn(r, [req[r] EXCEPT !.pc = "write"])
      BY <1>1, <2>4, <3>2
    <3>3. CASE GoesOn(r, [req[r] EXCEPT !.pc = "pending", !.active = ActiveUsers])
      BY <1>1, <2>4, <3>3
    <3>4. QED
      BY <2>4, <3>1, <3>2, <3>3 DEF BeginActivate
  <2>5. CASE req[r].op = "mint" /\ BeginMint(r)
    BY <1>1, <2>5 DEF BeginMint
  <2>6. QED
    BY <2>1, <2>2, <2>3, <2>4, <2>5 DEF Begin
<1>4. Active(req[r].on)' <=> Active(req[r].on)
  BY <1>1, <1>3 DEF Active
<1>5. ActiveUsers' \in Nat /\ ActiveUsers' <= ActiveUsers /\ ActiveUsers \in Nat /\ Crossings' \in Nat
  BY <1>1, <1>2, Countable, CountableNext, NumbersNext DEF Calm
<1>6. SeatChecked(r)'
  BY <1>1, <1>3, <1>4, <1>5 DEF SeatChecked, SeatsInv, TakesSeat
<1>7. QED
  BY <1>1, <1>2, <1>3, <1>6, CalmSeats DEF Active

LEMMA CountPendingSeats ==
  ASSUME IInv, IInv', SeatsInv, NEW r \in Requests, CountPending(r)
  PROVE  SeatsInv'
<1>1. TypeOK /\ TypeOK' /\ UNCHANGED <<now, user, invite, limit, highest, crossed, joined>>
  BY DEF IInv, CountPending, licence, history
<1>2. Calm
  BY <1>1, NoMoreCounted, Numbers DEF Calm, Users, Waiting, Active, Pending, SeatsInv
<1>3. /\ req'[r].at = req[r].at /\ req'[r].seats = req[r].seats
      /\ req'[r].pc = "refused" \/ (req'[r].pc = "write" /\ ~SeatTaken(r))
      /\ req[r].pc = "pending"
      /\ \A q \in Requests \ {r} : req'[q] = req[q]
  BY <1>1 DEF CountPending, TypeOK, RequestStates
<1>4. PICK at \in Nat : at = req[r].at
  BY <1>1, Numbers
<1>5. PendingInvites(req[r].at)' = PendingInvites(at)'
  BY <1>3, <1>4 DEF PendingInvites, Pending
<1>6. /\ ActiveUsers' <= ActiveUsers /\ PendingInvites(at)' <= PendingInvites(at)
      /\ ActiveUsers \in Nat /\ ActiveUsers' \in Nat /\ Crossings' = Crossings /\ Crossings \in Nat
      /\ PendingInvites(at) \in Nat /\ PendingInvites(at)' \in Nat
  BY <1>1, <1>2, Countable, CountableNext, Numbers DEF Calm, Crossings
<1>7. SeatChecked(r)'
  <2>1. ActiveUsers <= req[r].active + Crossings /\ req[r].seats <= highest /\ req[r].at <= now
    BY <1>3 DEF SeatsInv, SeatChecked
  <2>2. req'[r].pc = "write" => req[r].active + PendingInvites(at) < req[r].seats
    BY <1>1, <1>3, <1>4, <1>6, Numbers DEF SeatTaken
  <2>3. req'[r].pc = "write" => ActiveUsers' + PendingInvites(at)' < highest + Crossings
    BY <1>1, <1>6, <2>1, <2>2, Numbers
  <2>4. QED
    BY <1>1, <1>3, <1>5, <1>6, <2>1, <2>3 DEF SeatChecked
<1>8. QED
  BY <1>1, <1>2, <1>3, <1>7, CalmSeats DEF Active

\* A request that ends has no seat to take any more.
LEMMA EndsChecked ==
  ASSUME TypeOK, SeatsInv, NEW r \in Requests, now <= now', highest <= highest', TypeOK',
         req' = [req EXCEPT ![r].pc = "done"] \/ req' = [req EXCEPT ![r].pc = "refused"]
  PROVE  SeatChecked(r)' /\ \A q \in Requests \ {r} : req'[q] = req[q]
<1>1. /\ req'[r].at = req[r].at /\ req'[r].seats = req[r].seats /\ req'[r].pc \in {"done", "refused"}
      /\ \A q \in Requests \ {r} : req'[q] = req[q]
  BY DEF TypeOK, RequestStates
<1>2. QED
  BY <1>1, Numbers, NumbersNext DEF SeatChecked, SeatsInv

LEMMA AbortSeats ==
  ASSUME IInv, IInv', SeatsInv, NEW r \in Requests, Abort(r)
  PROVE  SeatsInv'
<1>1. TypeOK /\ TypeOK' /\ UNCHANGED <<now, user, invite, limit, highest, crossed, joined>>
  BY DEF IInv, Abort, licence, history
<1>2. Calm
  BY <1>1, NoMoreCounted, Numbers DEF Calm, Users, Waiting, Active, Pending, SeatsInv
<1>3. now <= now' /\ highest <= highest' /\ req' = [req EXCEPT ![r].pc = "refused"]
  BY <1>1, Numbers DEF Abort
<1>4. SeatChecked(r)' /\ \A q \in Requests \ {r} : req'[q] = req[q]
  BY <1>1, <1>3, EndsChecked
<1>5. QED
  BY <1>1, <1>2, <1>4, CalmSeats DEF Active

----------------------------------------------------------------------------
\* A request that waits for the lock, or has ended, has no seat to take.
LEMMA UnheldChecked ==
  ASSUME TypeOK, TypeOK', NEW q \in Requests, SeatChecked(q), ~Holds(q), req'[q] = req[q],
         now <= now', highest <= highest'
  PROVE  SeatChecked(q)'
<1>1. QED
  BY Numbers, NumbersNext DEF SeatChecked, Holds

\* The seat found free under the lock is there for the invite, or the user.
LEMMA TakeSeat ==
  ASSUME IInv, IInv', SeatsInv, NEW r \in Requests, req[r].pc = "write", TakesSeat(r),
         req' = [req EXCEPT ![r].pc = "done"],
         UNCHANGED <<now, limit, highest, crossed, joined>>,
         ActiveUsers' + PendingInvites(now)' <= ActiveUsers + PendingInvites(now) + 1
  PROVE  SeatsInv'
<1>1. TypeOK /\ TypeOK' /\ Crossings' = Crossings /\ now <= now' /\ highest <= highest'
  BY Numbers DEF IInv, Crossings
<1>2. \A q \in Requests : SeatChecked(q)'
  <2>1. SeatChecked(r)' /\ \A q \in Requests \ {r} : req'[q] = req[q]
    BY <1>1, EndsChecked
  <2>2. \A q \in Requests \ {r} : ~Holds(q) /\ SeatChecked(q)
    BY <1>1, OneHolds DEF Holds, SeatsInv
  <2>3. QED
    BY <1>1, <2>1, <2>2, UnheldChecked
<1>3. SeatsHeldUnlessCrossed'
  <2>1. /\ ActiveUsers + PendingInvites(req[r].at) < highest + Crossings
        /\ req[r].at <= now
    BY DEF SeatsInv, SeatChecked
  <2>2. PendingInvites(now) <= PendingInvites(req[r].at)
    BY <1>1, <2>1, Numbers, FewerLater
  <2>3. /\ ActiveUsers \in Nat /\ ActiveUsers' \in Nat /\ highest \in Nat /\ Crossings \in Nat
        /\ PendingInvites(now) \in Nat /\ PendingInvites(req[r].at) \in Nat
        /\ PendingInvites(now)' \in Nat
    BY <1>1, Countable, CountableNext, Numbers
  <2>4. ActiveUsers' + PendingInvites(now)' <= highest + Crossings
    BY <2>1, <2>2, <2>3
  <2>5. QED
    BY <1>1, <2>4 DEF SeatsHeldUnlessCrossed, SeatsUsed, Crossings
<1>4. QED
  BY <1>2, <1>3 DEF SeatsInv

LEMMA WriteInviteSeats ==
  ASSUME IInv, IInv', SeatsInv, NEW r \in Requests, NEW i \in InviteIds,
         req[r].pc = "write", req[r].op = "invite", WriteInvite(r, i),
         UNCHANGED <<now, licence, acc, crossed, joined>>
  PROVE  SeatsInv'
<1>1. TypeOK /\ TypeOK' /\ UNCHANGED <<now, user, limit, highest, crossed, joined>>
  BY DEF IInv, WriteInvite, licence
<1>2. CASE req' = [req EXCEPT ![r].pc = "refused"] /\ UNCHANGED invite
  <2>1. Calm
    BY <1>1, <1>2, NoMoreCounted, Numbers DEF Calm, Users, Waiting, Active, Pending, SeatsInv
  <2>2. now <= now' /\ highest <= highest'
    BY <1>1, Numbers
  <2>3. SeatChecked(r)' /\ \A q \in Requests \ {r} : req'[q] = req[q]
    BY <1>1, <1>2, <2>2, EndsChecked
  <2>4. QED
    BY <1>1, <2>1, <2>3, CalmSeats DEF Active
<1>3. CASE /\ req' = [req EXCEPT ![r].pc = "done"]
           /\ \A j \in InviteIds \ {i} : invite'[j] = invite[j]
  <2>1. Waiting(now)' \subseteq Waiting(now) \cup {i} /\ Users' = Users
    BY <1>1, <1>3 DEF Waiting, Users, Active, Pending
  <2>2. PendingInvites(now)' <= PendingInvites(now) + 1 /\ ActiveUsers' = ActiveUsers
    BY <2>1, Countable, CountableNext, OneMore
  <2>3. ActiveUsers' + PendingInvites(now)' <= ActiveUsers + PendingInvites(now) + 1
    BY <2>2, Countable, CountableNext
  <2>4. QED
    BY <1>1, <1>3, <2>3, TakeSeat DEF TakesSeat
<1>4. QED
  BY <1>1, <1>2, <1>3 DEF WriteInvite, Commits, TypeOK

LEMMA WriteActivateSeats ==
  ASSUME IInv, IInv', SeatsInv, NEW r \in Requests,
         req[r].pc = "write", req[r].op = "activate", WriteActivate(r),
         UNCHANGED <<now, licence, acc, crossed, joined>>
  PROVE  SeatsInv'
<1>1. /\ TypeOK /\ TypeOK' /\ UNCHANGED <<now, invite, limit, highest, crossed, joined>>
      /\ req' = [req EXCEPT ![r].pc = "done"]
  BY DEF IInv, WriteActivate, Commits, licence
<1>2. PICK on \in Emails : on = req[r].on
  BY <1>1 DEF TypeOK, RequestStates
<1>3. Users' \subseteq Users \cup {on} /\ \A at \in Nat : Waiting(at)' = Waiting(at)
  BY <1>1, <1>2 DEF WriteActivate, Users, Waiting, Active, Pending, TypeOK, UserRows
<1>4. CASE TakesSeat(r)
  <2>1. ActiveUsers' <= ActiveUsers + 1
    BY <1>3, Countable, CountableNext, OneMore
  <2>2. PendingInvites(now)' = PendingInvites(now)
    BY <1>1 DEF PendingInvites, Pending
  <2>3. ActiveUsers' + PendingInvites(now)' <= ActiveUsers + PendingInvites(now) + 1
    BY <2>1, <2>2, Countable, CountableNext
  <2>4. QED
    BY <1>1, <1>4, <2>3, TakeSeat
<1>5. CASE ~TakesSeat(r)
  <2>1. Users' \subseteq Users
    BY <1>2, <1>3, <1>5 DEF TakesSeat, Users
  <2>2. Calm
    BY <1>1, <1>3, <2>1, NoMoreCounted, Numbers DEF Calm, SeatsInv
  <2>3. now <= now' /\ highest <= highest'
    BY <1>1, Numbers
  <2>4. SeatChecked(r)' /\ \A q \in Requests \ {r} : req'[q] = req[q]
    BY <1>1, <2>3, EndsChecked
  <2>5. \A q \in Requests \ {r} : req[q].pc # "write"
    BY <1>1, OneHolds DEF Holds
  <2>6. QED
    BY <1>1, <2>2, <2>4, <2>5, CalmSeats
<1>6. QED
  BY <1>4, <1>5

\* The other writes make nobody active.
LEMMA WriteOtherSeats ==
  ASSUME IInv, IInv', SeatsInv, NEW r \in Requests, req[r].pc = "write",
         WriteRole(r) \/ WriteDeactivate(r) \/ WriteMint(r),
         UNCHANGED <<now, licence, acc, crossed, joined>>
  PROVE  SeatsInv'
<1>1. /\ TypeOK /\ TypeOK' /\ UNCHANGED <<now, invite, limit, highest, crossed, joined>>
      /\ req' = [req EXCEPT ![r].pc = "done"]
  BY DEF IInv, WriteRole, WriteDeactivate, WriteMint, Commits, licence
<1>2. Users' \subseteq Users /\ \A at \in Nat : Waiting(at)' = Waiting(at)
  <2>1. PICK on \in Emails : on = req[r].on
    BY <1>1 DEF TypeOK, RequestStates
  <2>2. \A u \in Emails : Active(u)' => Active(u)
    BY <1>1, <2>1 DEF WriteRole, WriteDeactivate, WriteMint, Active, TypeOK, UserRows
  <2>3. QED
    BY <1>1, <2>2 DEF Users, Waiting, Pending
<1>3. Calm
  BY <1>1, <1>2, NoMoreCounted, Numbers DEF Calm, SeatsInv
<1>4. now <= now' /\ highest <= highest'
  BY <1>1, Numbers
<1>5. SeatChecked(r)' /\ \A q \in Requests \ {r} : req'[q] = req[q]
  BY <1>1, <1>4, EndsChecked
<1>6. \A q \in Requests \ {r} : req[q].pc # "write"
  BY <1>1, OneHolds DEF Holds
<1>7. QED
  BY <1>1, <1>3, <1>5, <1>6, CalmSeats

----------------------------------------------------------------------------
\* An accept moves the seat of a pending invite to a user, or is crossed.
LEMMA AcceptInsertSeats ==
  ASSUME IInv, IInv', SeatsInv, NEW a \in Accepts, AcceptInsert(a)
  PROVE  SeatsInv'
<1>1. /\ TypeOK /\ TypeOK' /\ UNCHANGED <<now, limit, highest, req>>
      /\ acc[a].pc = "insert"
  BY DEF IInv, AcceptInsert, licence
<1>2. PICK i \in InviteIds : i = acc[a].invite
  BY <1>1 DEF TypeOK, AcceptStates
<1>3. PICK u \in Emails : u = invite[i].email
  BY <1>1 DEF TypeOK, InviteRows
<1>4. CASE ~EmailFree(u)
  <2>1. UNCHANGED <<user, invite, crossed, joined>>
    BY <1>2, <1>3, <1>4 DEF AcceptInsert
  <2>2. Calm
    BY <1>1, <2>1, NoMoreCounted, Numbers DEF Calm, Users, Waiting, Active, Pending, SeatsInv
  <2>3. QED
    BY <1>1, <2>1, <2>2, CalmSeats DEF Active
<1>5. CASE EmailFree(u)
  <2>1. /\ user' = [user EXCEPT ![u] = [status |-> "active", role |-> invite[i].role]]
        /\ invite' = [invite EXCEPT ![i].state = IF @ = "pending" THEN "accepted" ELSE @]
        /\ joined' = [joined EXCEPT ![i] = @ + 1]
        /\ crossed' = IF CountedElsewhere(i) THEN crossed ELSE crossed \cup {i}
    BY <1>2, <1>3, <1>5 DEF AcceptInsert
  <2>2. /\ Users' = Users \cup {u}
        /\ \A v : Active(v) => Active(v)' \/ v \notin Emails
    BY <1>1, <2>1 DEF Users, Active, TypeOK
  <2>3. \A at \in Nat : Waiting(at)' \subseteq Waiting(at) \ {i}
    <3>1. invite'[i].state # "pending" /\ \A j \in InviteIds \ {i} : invite'[j] = invite[j]
      BY <1>1, <2>1 DEF TypeOK, InviteRows
    <3>2. QED
      BY <3>1 DEF Waiting, Pending
  <2>4. joined[i] = 0 /\ i \notin crossed /\ joined' \in [InviteIds -> Nat]
        /\ joined'[i] = 1 /\ \A j \in InviteIds \ {i} : joined'[j] = joined[j]
    <3>1. joined[i] = 0
      BY <1>1, <1>3, <1>5 DEF IInv, Written, EmailFree, TypeOK
    <3>2. QED
      BY <1>1, <2>1, <3>1 DEF SeatsInv, TypeOK
  <2>5. ActiveUsers' <= ActiveUsers + 1
        /\ \A at \in Nat : PendingInvites(at)' <= PendingInvites(at)
    BY <2>2, <2>3, Countable, CountableNext, OneMore, Within
  <2>6. /\ ActiveUsers \in Nat /\ ActiveUsers' \in Nat /\ Crossings \in Nat /\ highest \in Nat /\ now \in Nat
        /\ \A at \in Nat : PendingInvites(at) \in Nat /\ PendingInvites(at)' \in Nat
    BY <1>1, Countable, CountableNext, Numbers
  <2>7. \A at \in Nat : at <= now =>
           ActiveUsers' + PendingInvites(at)' + Crossings <= ActiveUsers + PendingInvites(at) + Crossings'
    <3>1. CASE CountedElsewhere(i)
      <4>1. Crossings' = Crossings
        BY <2>1, <3>1 DEF Crossings
      <4>2. ASSUME NEW at \in Nat, at <= now PROVE PendingInvites(at)' + 1 <= PendingInvites(at)
        <5>1. i \in Waiting(at)
          BY <1>1, <2>6, <3>1, <4>2 DEF CountedElsewhere, Waiting, Pending, TypeOK, InviteRows
        <5>2. QED
          BY <2>3, <5>1, Countable, CountableNext, OneLess
      <4>3. QED
        BY <2>5, <2>6, <4>1, <4>2
    <3>2. CASE ~CountedElsewhere(i)
      <4>1. Crossings' = Crossings + 1
        BY <1>1, <2>1, <2>4, <3>2, FS_AddElement, Numbers DEF Crossings
      <4>2. QED
        BY <2>5, <2>6, <4>1
    <3>3. QED
      BY <3>1, <3>2
  <2>8. ASSUME NEW r \in Requests, req[r].pc = "pending"
        PROVE  ActiveUsers' <= req[r].active + Crossings'
    <3>1. Crossings' = Crossings + 1
      BY <1>1, <2>1, <2>4, <2>8, FS_AddElement, Numbers DEF Crossings, CountedElsewhere
    <3>2. ActiveUsers <= req[r].active + Crossings
      BY <2>8 DEF SeatsInv, SeatChecked
    <3>3. QED
      BY <1>1, <2>5, <2>6, <3>1, <3>2, Numbers
  <2>9. \A r \in Requests : SeatChecked(r)'
    <3> SUFFICES ASSUME NEW r \in Requests PROVE SeatChecked(r)'
      OBVIOUS
    <3>1. PICK at \in Nat : at = req[r].at
      BY <1>1, Numbers
    <3>2. at <= now /\ req[r].seats <= highest /\ req'[r] = req[r] /\ req[r].on \in Emails
      BY <1>1, <3>1 DEF SeatsInv, SeatChecked, TypeOK, RequestStates
    <3>3. ASSUME req[r].pc = "write", TakesSeat(r)'
          PROVE  ActiveUsers' + PendingInvites(req[r].at)' < highest + Crossings'
      <4>1. TakesSeat(r)
        BY <2>2, <3>2, <3>3 DEF TakesSeat
      <4>2. ActiveUsers + PendingInvites(at) < highest + Crossings
        BY <3>1, <3>3, <4>1 DEF SeatsInv, SeatChecked
      <4>3. PendingInvites(req[r].at)' = PendingInvites(at)'
        BY <3>1, <3>2 DEF PendingInvites, Pending
      <4>4. Crossings' \in Nat
        BY <1>1, NumbersNext
      <4>5. QED
        BY <2>6, <2>7, <3>2, <4>2, <4>3, <4>4
    <3>4. QED
      BY <1>1, <2>8, <3>1, <3>2, <3>3 DEF SeatChecked, SeatsInv
  <2>10. SeatsHeldUnlessCrossed'
    <3>1. PICK at \in Nat : at = now
      BY <2>6
    <3>2. PendingInvites(now)' = PendingInvites(at)'
      BY <1>1, <3>1 DEF PendingInvites, Pending
    <3>3. ActiveUsers + PendingInvites(at) <= highest + Crossings
      BY <3>1 DEF SeatsInv, SeatsHeldUnlessCrossed, SeatsUsed, Crossings
    <3>4. Crossings' \in Nat
      BY <1>1, NumbersNext
    <3>5. ActiveUsers' + PendingInvites(at)' <= highest + Crossings'
      BY <2>6, <2>7, <3>1, <3>3, <3>4
    <3>6. QED
      BY <1>1, <3>2, <3>5 DEF SeatsHeldUnlessCrossed, SeatsUsed, Crossings
  <2>11. \A j \in crossed' : joined'[j] > 0
    BY <1>1, <2>1, <2>4 DEF SeatsInv, TypeOK
  <2>12. QED
    BY <1>1, <2>9, <2>10, <2>11 DEF SeatsInv
<1>6. QED
  BY <1>4, <1>5

\* Everything else makes nobody active and no invite pending.
LEMMA ElsewhereSeats ==
  ASSUME IInv, IInv', SeatsInv, UNCHANGED <<user, req, crossed, joined>>,
         now <= now', highest <= highest', limit' <= highest',
         \A i \in InviteIds : invite'[i] = invite[i] \/ invite'[i].state # "pending"
  PROVE  SeatsInv'
<1>1. Users' \subseteq Users /\ \A at \in Nat : Waiting(at)' \subseteq Waiting(at)
  BY DEF Users, Waiting, Active, Pending
<1>2. TypeOK /\ TypeOK' /\ Calm
  BY <1>1, NoMoreCounted DEF Calm, IInv
<1>3. QED
  BY <1>2, CalmSeats DEF Active

\* Every step keeps the seats' invariant.
LEMMA NextSeats == IInv /\ IInv' /\ SeatsInv /\ [Next]_vars => SeatsInv'
<1> SUFFICES ASSUME IInv, IInv', SeatsInv, [Next]_vars PROVE SeatsInv'
  OBVIOUS
<1>1. TypeOK /\ now \in Nat /\ limit \in Nat /\ highest \in Nat /\ limit <= highest
  BY Numbers DEF IInv, SeatsInv
<1>2. ASSUME NEW r \in Requests, Request(r) PROVE SeatsInv'
  <2>1. CASE Write(r)
    BY <2>1, WriteInviteSeats, WriteActivateSeats, WriteOtherSeats DEF Write
  <2>2. QED
    BY <1>2, <2>1, LoadSeats, BeginSeats, CountPendingSeats, AbortSeats DEF Request
<1>3. ASSUME NEW a \in Accepts, Accept(a) PROVE SeatsInv'
  <2>1. CASE AcceptInsert(a)
    BY <2>1, AcceptInsertSeats
  <2>2. CASE AcceptCheck(a) \/ \E i \in InviteIds : AcceptRead(a, i)
    <3>1. UNCHANGED <<now, user, invite, limit, highest, req, crossed, joined>>
      BY <2>2 DEF AcceptCheck, AcceptRead, licence, history
    <3>2. QED
      BY <1>1, <3>1, ElsewhereSeats
  <2>3. QED
    BY <1>3, <2>1, <2>2 DEF Accept
<1>4. ASSUME NEW i \in InviteIds, RevokeInvite(i) PROVE SeatsInv'
  <2>1. UNCHANGED <<now, user, limit, highest, req, crossed, joined>>
    BY <1>4 DEF RevokeInvite, licence, history
  <2>2. \A j \in InviteIds : invite'[j] = invite[j] \/ invite'[j].state # "pending"
    BY <1>1, <1>4 DEF RevokeInvite, TypeOK, InviteRows
  <2>3. QED
    BY <1>1, <2>1, <2>2, ElsewhereSeats
<1>5. ASSUME NEW u \in Emails, RevokeKey(u) PROVE SeatsInv'
  <2>1. UNCHANGED <<now, user, invite, limit, highest, req, crossed, joined>>
    BY <1>5 DEF RevokeKey, licence, history
  <2>2. QED
    BY <1>1, <2>1, ElsewhereSeats
<1>6. ASSUME NEW seats \in Limits, Relicense(seats) PROVE SeatsInv'
  <2>1. seats \in Nat /\ UNCHANGED <<now, user, invite, req, crossed, joined>>
    BY <1>6, OrgAssumption DEF Relicense, history
  <2>2. highest <= highest' /\ limit' <= highest'
    BY <1>1, <1>6, <2>1 DEF Relicense
  <2>3. QED
    BY <1>1, <2>1, <2>2, ElsewhereSeats
<1>7. CASE Tick
  <2>1. UNCHANGED <<user, invite, limit, highest, req, crossed, joined>> /\ now <= now'
    BY <1>1, <1>7 DEF Tick, licence, history
  <2>2. QED
    BY <1>1, <2>1, ElsewhereSeats
<1>8. CASE UNCHANGED vars
  <2>1. UNCHANGED <<now, user, invite, limit, highest, req, crossed, joined>>
    BY <1>8 DEF vars, licence, history
  <2>2. QED
    BY <1>1, <2>1, ElsewhereSeats
<1>9. QED
  BY <1>2, <1>3, <1>4, <1>5, <1>6, <1>7, <1>8 DEF Next

\* Active users and pending invites never outnumber the seats the licence gave at
\* most, however many invites, activations and accepts race: but for the accepts of
\* invites revoked or expired meanwhile, and those between a check's two counts.
THEOREM SeatsAreHeld == Spec => []SeatsHeldUnlessCrossed
<1>1. SeatsInv => SeatsHeldUnlessCrossed
  BY DEF SeatsInv
<1>2. QED
  BY <1>1, InitSeats, NextSeats, Invariance, PTL DEF Spec

\* With nothing crossed, the seats are held as org-lock.ts says.
THEOREM UncrossedSeatsAreHeld == Spec => [](crossed = {} => SeatsHeld)
<1>1. SeatsHeldUnlessCrossed /\ TypeOK /\ crossed = {} => SeatsHeld
  BY FS_EmptySet, Numbers DEF SeatsHeldUnlessCrossed, SeatsHeld
<1>2. QED
  BY <1>1, SeatsAreHeld, TypeCorrect, PTL

----------------------------------------------------------------------------
(***************************************************************************)
(* The admin calls: any processes, rows and pages, any bounds on the       *)
(* calls, tokens, writes and faults.                                       *)
(*                                                                         *)
(* The inductive invariant.  A call that is not over has written nothing   *)
(* and has spent no more than it may: what is left of its two requests and *)
(* its one refresh can be read off how far it is.                          *)
(***************************************************************************)
Frugal(c) ==
    /\ c.pc # "done" => c.applied = 0 /\ c.result = "none"
    /\ c.pc \in {"idle", "margin"} => c.sends = 0 /\ c.renewals = 0 /\ ~c.refreshed /\ ~c.early
    /\ c.pc = "renew" => c.sends = 1 /\ c.renewals = 0 /\ ~c.refreshed /\ ~c.early
    /\ c.pc = "send" => /\ c.renewals <= 1 /\ (c.renewals = 1 => c.refreshed \/ c.early)
                        /\ c.sends <= 1 /\ (c.sends = 1 => c.refreshed)
    /\ c.applied <= 1 /\ c.renewals <= 1 /\ c.sends <= 2
    /\ c.result = "ok" /\ c.op = "create" => c.applied = 1
    /\ c.result \in {"problem", "failed"} => c.applied = 0
    /\ c.op = "retire" => c.id \in Admin!Ids

\* A token of another console, held or stored, came by a sign-in during the call.
Strangers(p) ==
    Admin!Calling(p) => /\ request[p].cred.resource # Home => p \in replaced
                        /\ store # Nil /\ store.resource # Home => p \in replaced

\* What a listing owes is what was there: a row that went does not come back.  While
\* there is more, what is owed up to the cursor was shown, and nothing behind it.
Shown(l) == UNION {l.shown[j] : j \in DOMAIN l.shown}
Owed(p) ==
    LET l == listing[p] IN
    /\ \A i \in l.owed : rows[i] # "none"
    /\ ~l.whole => /\ \A i \in Shown(l) : i <= l.cursor
                   /\ \A i \in l.owed \cap Admin!Listed : i <= l.cursor => i \in Shown(l)
    /\ Admin!Calling(p) /\ request[p].op = "list" => ~l.whole

AdminInv ==
    /\ Admin!TypeOK
    /\ \A p \in Procs : Frugal(request[p]) /\ Strangers(p) /\ Owed(p)
    /\ Admin!CallsAreHonest /\ Admin!ListingsAreWhole

----------------------------------------------------------------------------
(* A page. *)

\* Some numbers have a least.
LEMMA Least ==
  ASSUME NEW S \in SUBSET Nat, S # {}
  PROVE  \E i \in S : \A j \in S : i <= j
<1>1. PICK i \in S : \A j \in S : ~(<<j, i>> \in OpToRel(<, Nat))
  BY NatLessThanWellFounded, WFMin
<1>2. ASSUME NEW j \in S PROVE i <= j
  <2>1. i \in Nat /\ j \in Nat
    OBVIOUS
  <2>2. ~(j < i)
    BY <1>1, <2>1 DEF OpToRel
  <2>3. QED
    BY <2>1, <2>2
<1>3. QED
  BY <1>2

\* There is room for a row and for a page.
LEMMA RowsAndPages ==
  ASSUME Admin!AdminCallsAssumption
  PROVE  MaxRows \in Nat /\ MaxRows > 0 /\ PageSize \in Nat /\ PageSize > 0
<1>1. MaxRows \in Nat \ {0} /\ PageSize \in Nat \ {0}
  BY DEF Admin!AdminCallsAssumption
<1>2. QED
  BY <1>1

\* Row numbers have a greatest.
LEMMA Greatest ==
  ASSUME Admin!AdminCallsAssumption, NEW ids \in SUBSET Admin!Ids, ids # {}
  PROVE  Admin!Max(ids) \in ids /\ \A i \in ids : i <= Admin!Max(ids)
<1> DEFINE above == {MaxRows - i : i \in ids}
<1>1. MaxRows \in Nat /\ \A i \in ids : i \in Nat /\ MaxRows - i \in Nat
  BY RowsAndPages DEF Admin!Ids
<1>2. PICK least \in above : \A other \in above : least <= other
  <2>1. above \in SUBSET Nat /\ above # {}
    BY <1>1
  <2>2. QED
    BY <2>1, Least
<1>3. PICK top \in ids : least = MaxRows - top
  OBVIOUS
<1>4. \A i \in ids : top >= i
  BY <1>1, <1>2, <1>3
<1>5. Admin!Max(ids) \in ids /\ \A i \in ids : Admin!Max(ids) >= i
  BY <1>4 DEF Admin!Max
<1>6. QED
  BY <1>1, <1>5

\* The calls count as this module does.
LEMMA SameCount ==
  \A S : Admin!Cardinality(S) = Cardinality(S) /\ (Admin!IsFiniteSet(S) <=> IsFiniteSet(S))
BY DEF Admin!Cardinality, Cardinality, Admin!IsFiniteSet, IsFiniteSet

\* A page is a beginning of what is left, at most as long as it may be, and all of it
\* when it is shorter.
LEMMA PageIsBeginning ==
  ASSUME Admin!AdminCallsAssumption, NEW ids \in SUBSET Admin!Ids, NEW page, page = Admin!FirstOf(ids)
  PROVE  /\ page \in SUBSET ids /\ Cardinality(page) \in Nat
         /\ page # {} => \A i \in ids : i <= Admin!Max(page) => i \in page
         /\ Cardinality(page) <= PageSize
         /\ Cardinality(page) # PageSize => page = ids
<1> DEFINE upto(i) == {j \in ids : j <= i}
<1>1. page = {i \in ids : Cardinality(upto(i)) <= PageSize}
  BY SameCount DEF Admin!FirstOf
<1>2. IsFiniteSet(ids)
  <2>1. IsFiniteSet(1..MaxRows)
    BY RowsAndPages, FS_Interval
  <2>2. QED
    BY <2>1, FS_Subset DEF Admin!Ids
<1>3. \A S \in SUBSET ids : IsFiniteSet(S) /\ Cardinality(S) \in Nat
  BY <1>2, FS_Subset, FS_CardinalityType
<1>4. page \in SUBSET ids /\ Cardinality(page) \in Nat
  BY <1>1, <1>3
<1>5. ASSUME NEW i \in ids, NEW top \in page, i <= top PROVE i \in page
  <2>1. upto(i) \subseteq upto(top)
    <3>1. i \in Nat /\ top \in Nat /\ ids \subseteq Nat
      BY <1>4 DEF Admin!Ids
    <3>2. ASSUME NEW j \in upto(i) PROVE j \in upto(top)
      <4>1. j \in ids /\ j \in Nat /\ j <= i
        BY <3>1
      <4>2. QED
        BY <4>1, <3>1, <1>5
    <3>3. QED
      BY <3>2
  <2>2. Cardinality(upto(i)) <= Cardinality(upto(top))
    BY <2>1, <1>3, FS_Subset
  <2>3. Cardinality(upto(top)) <= PageSize
    BY <1>1
  <2> HIDE DEF upto
  <2>4. Cardinality(upto(i)) <= PageSize
    BY <2>2, <2>3, <1>3 DEF upto, Admin!AdminCallsAssumption
  <2>5. QED
    BY <2>4, <1>1
<1>6. page # {} => \A i \in ids : i <= Admin!Max(page) => i \in page
  BY <1>4, <1>5, Greatest
<1>7. Cardinality(page) <= PageSize
  <2>1. CASE page = {}
    BY <2>1, FS_EmptySet DEF Admin!AdminCallsAssumption
  <2>2. CASE page # {}
    <3>1. Admin!Max(page) \in page /\ \A i \in page : i <= Admin!Max(page)
      BY <2>2, <1>4, Greatest
    <3>2. page = upto(Admin!Max(page))
      BY <3>1, <1>4, <1>6, <2>2
    <3>3. QED
      BY <3>1, <3>2, <1>1
  <2>3. QED
    BY <2>1, <2>2
<1>8. ASSUME Cardinality(page) # PageSize, page # ids PROVE FALSE
  <2> DEFINE rest == ids \ page
  <2>1. PICK i \in rest : \A j \in rest : i <= j
    <3>1. rest # {}
      BY <1>4, <1>8
    <3>2. ids \subseteq Nat
      BY DEF Admin!Ids
    <3>3. QED
      BY <3>1, <3>2, Least
  <2>2. \A j \in upto(i) : j \in page \/ j = i
    BY <2>1 DEF Admin!Ids
  <2>3. upto(i) \subseteq page \cup {i} /\ i \notin page
    BY <2>1, <2>2
  <2>4. /\ IsFiniteSet(page) /\ IsFiniteSet(page \cup {i})
        /\ Cardinality(page \cup {i}) = Cardinality(page) + 1
    BY <2>3, <1>3, <1>4, FS_AddElement
  <2>5. Cardinality(upto(i)) <= Cardinality(page) + 1
    BY <2>3, <2>4, FS_Subset
  <2>6. Cardinality(upto(i)) \in Nat
    BY <1>3
  <2> HIDE DEF upto
  <2>7. Cardinality(upto(i)) <= PageSize
    BY <2>5, <2>6, <1>4, <1>7, <1>8 DEF Admin!AdminCallsAssumption
  <2>8. QED
    BY <2>1, <2>7, <1>1
<1>9. QED
  BY <1>4, <1>6, <1>7, <1>8

----------------------------------------------------------------------------
LEMMA AdminInit == ASSUME Admin!AdminCallsAssumption, Admin!Init PROVE AdminInv
<1>1. Admin!NoCall \in Admin!CallStates /\ Admin!NoPages \in Admin!ListingStates
  BY DEF Admin!NoCall, Admin!CallStates, Admin!AllOps, Admin!NoPages, Admin!ListingStates,
       Admin!AdminCallsAssumption
<1>2. \A p \in Procs : request[p] = Admin!NoCall /\ listing[p] = Admin!NoPages /\ request[p].pc = "idle"
  BY DEF Admin!Init, Admin!NoCall
<1>3. Admin!TypeOK
  BY <1>1, <1>2 DEF Admin!Init, Admin!TypeOK, Admin!Calling, Admin!Token, Admin!Tokens, Admin!Row
<1>4. \A p \in Procs : Frugal(request[p]) /\ Strangers(p)
  BY <1>2 DEF Frugal, Strangers, Admin!NoCall, Admin!Calling
<1>5. \A p \in Procs : Shown(listing[p]) = {} /\ listing[p].owed = {} /\ ~listing[p].whole /\ listing[p].shown = << >>
  BY <1>2 DEF Admin!NoPages, Shown
<1>6. \A p \in Procs : Owed(p)
  BY <1>5 DEF Owed
<1>7. Admin!CallsAreHonest
  BY <1>2 DEF Admin!CallsAreHonest, Admin!NoCall, Admin!Init
<1>8. Admin!ListingsAreWhole
  BY <1>5 DEF Admin!ListingsAreWhole
<1>9. QED
  BY <1>3, <1>4, <1>6, <1>7, <1>8 DEF AdminInv

\* A listing that is not read now stays right, however rows come and go.
LEMMA ListingStays ==
  ASSUME Admin!AdminCallsAssumption, AdminInv, UNCHANGED listing,
         \A i \in Admin!Ids : /\ rows[i] # "none" => rows'[i] # "none"
                              /\ rows[i] # "none" /\ i \in Admin!Listed' => i \in Admin!Listed,
         \A p \in Procs : Admin!Calling(p)' /\ (request'[p]).op = "list" => Admin!Calling(p) /\ request[p].op = "list"
  PROVE  (\A p \in Procs : Owed(p))' /\ Admin!ListingsAreWhole'
<1>1. \A p \in Procs : listing[p].owed \subseteq Admin!Ids
  BY DEF AdminInv, Admin!TypeOK, Admin!ListingStates
<1>2. ASSUME NEW p \in Procs PROVE Owed(p)' /\ listing[p].owed \cap Admin!Listed' \subseteq listing[p].owed \cap Admin!Listed
  <2>1. Owed(p)
    BY DEF AdminInv
  <2>2. \A i \in listing[p].owed : i \in Admin!Ids /\ rows[i] # "none"
    BY <2>1, <1>1 DEF Owed
  <2>3. ASSUME NEW i \in listing[p].owed, i \in Admin!Listed' PROVE i \in Admin!Listed
    BY <2>2, <2>3
  <2>4. \A i \in listing[p].owed : rows'[i] # "none"
    BY <2>2
  <2>5. Admin!Calling(p)' /\ (request'[p]).op = "list" => ~listing[p].whole
    BY <2>1 DEF Owed
  <2>6. Owed(p)'
    BY <2>1, <2>3, <2>4, <2>5 DEF Owed, Shown
  <2>7. QED
    BY <2>3, <2>6
<1>3. Admin!ListingsAreWhole'
  BY <1>2 DEF AdminInv, Admin!ListingsAreWhole
<1>4. QED
  BY <1>2, <1>3

\* A write of the table adds a row or retires one, and audits it.
Audited == \A i \in Admin!Ids : audit[i] = [create |-> IF rows[i] = "none" THEN 0 ELSE 1,
                                      retire |-> IF rows[i] = "retired" THEN 1 ELSE 0]
Accounted ==
    /\ kind' = kind /\ rows' \in [Admin!Ids -> Admin!Row] /\ audit' \in [Admin!Ids -> [create : Nat, retire : Nat]]
    /\ Audited'
    /\ \A i \in Admin!Ids : /\ rows[i] # "none" => rows'[i] # "none"
                            /\ rows[i] = "retired" => rows'[i] = "retired"
                            /\ rows[i] # "none" /\ i \in Admin!Listed' => i \in Admin!Listed

LEMMA TableStays ==
  ASSUME AdminInv, UNCHANGED <<kind, rows, audit>>
  PROVE  Accounted
<1>1. Admin!Listed' = Admin!Listed
  BY DEF Admin!Listed
<1>2. Audited
  BY DEF AdminInv, Admin!CallsAreHonest, Audited
<1>3. QED
  BY <1>1, <1>2 DEF AdminInv, Admin!TypeOK, Audited, Accounted

LEMMA TableChanges ==
  ASSUME AdminInv, NEW i \in Admin!Ids, Admin!Adds(i) \/ Admin!Retires(i), UNCHANGED kind
  PROVE  Accounted
<1>1. Audited /\ rows \in [Admin!Ids -> Admin!Row] /\ audit \in [Admin!Ids -> [create : Nat, retire : Nat]]
  BY DEF AdminInv, Admin!TypeOK, Admin!CallsAreHonest, Audited
<1>2. CASE Admin!Adds(i)
  <2>1. /\ rows[i] = "none" /\ audit[i] = [create |-> 0, retire |-> 0]
        /\ rows' \in [Admin!Ids -> Admin!Row]
        /\ \A j \in Admin!Ids : rows'[j] = IF j = i THEN "live" ELSE rows[j]
    BY <1>1, <1>2 DEF Admin!Adds, Audited, Admin!Row
  <2>2. /\ audit' \in [Admin!Ids -> [create : Nat, retire : Nat]]
        /\ \A j \in Admin!Ids : audit'[j] = IF j = i THEN [create |-> 1, retire |-> 0] ELSE audit[j]
    BY <1>1, <1>2, <2>1 DEF Admin!Adds
  <2>3. Audited'
    BY <1>1, <2>1, <2>2 DEF Audited
  <2>4. QED
    BY <2>1, <2>2, <2>3 DEF Accounted, Admin!Listed
<1>3. CASE Admin!Retires(i)
  <2>1. /\ rows[i] = "live" /\ audit[i] = [create |-> 1, retire |-> 0]
        /\ rows' \in [Admin!Ids -> Admin!Row]
        /\ \A j \in Admin!Ids : rows'[j] = IF j = i THEN "retired" ELSE rows[j]
    BY <1>1, <1>3 DEF Admin!Retires, Audited, Admin!Row
  <2>2. /\ audit' \in [Admin!Ids -> [create : Nat, retire : Nat]]
        /\ \A j \in Admin!Ids : audit'[j] = IF j = i THEN [create |-> 1, retire |-> 1] ELSE audit[j]
    BY <1>1, <1>3, <2>1 DEF Admin!Retires
  <2>3. Audited'
    BY <1>1, <2>1, <2>2 DEF Audited
  <2>4. QED
    BY <2>1, <2>2, <2>3 DEF Accounted, Admin!Listed
<1>4. QED
  BY <1>2, <1>3

\* A step of one call, but for the listings.
LEMMA CallSteps ==
  ASSUME Admin!AdminCallsAssumption, AdminInv, NEW p \in Procs, NEW c \in Admin!CallStates, Frugal(c),
         request' = [request EXCEPT ![p] = c],
         c.pc \in {"margin", "send", "renew"} =>
            /\ Admin!Calling(p) /\ c.op = request[p].op
            /\ c.cred \in Admin!Tokens /\ (c.cred.resource # Home => p \in replaced),
         Accounted, c.result = "ok" /\ c.op = "retire" => rows'[c.id] = "retired",
         store' \in Admin!Tokens \cup {Nil}, store' # Nil => store # Nil /\ store'.resource = store.resource,
         tokens' \in Nat, UNCHANGED replaced
  PROVE  /\ listing' \in [Procs -> Admin!ListingStates] => Admin!TypeOK'
         /\ (\A q \in Procs : Frugal(request[q]) /\ Strangers(q))'
         /\ Admin!CallsAreHonest'
         /\ \A q \in Procs : Admin!Calling(q)' /\ (request'[q]).op = "list" => Admin!Calling(q) /\ request[q].op = "list"
<1>1. \A q \in Procs : request'[q] = IF q = p THEN c ELSE request[q]
  BY DEF AdminInv, Admin!TypeOK
<1>2. \A q \in Procs : Admin!Calling(q)' <=> IF q = p THEN c.pc \in {"margin", "send", "renew"} ELSE Admin!Calling(q)
  BY <1>1 DEF Admin!Calling
<1>3. listing' \in [Procs -> Admin!ListingStates] => Admin!TypeOK'
  <2>1. request' \in [Procs -> Admin!CallStates]
    BY DEF AdminInv, Admin!TypeOK
  <2>2. \A q \in Procs : Admin!Calling(q)' => request'[q].cred \in Admin!Tokens
    BY <1>1, <1>2 DEF AdminInv, Admin!TypeOK
  <2>3. QED
    BY <2>1, <2>2 DEF AdminInv, Admin!TypeOK, Accounted
<1>4. (\A q \in Procs : Frugal(request[q]))'
  BY <1>1 DEF AdminInv
<1>5. (\A q \in Procs : Strangers(q))'
  <2> SUFFICES ASSUME NEW q \in Procs PROVE Strangers(q)'
    OBVIOUS
  <2>1. Strangers(q)
    BY DEF AdminInv
  <2>2. Admin!Calling(q)' => Admin!Calling(q)
    BY <1>2
  <2>3. Admin!Calling(q)' /\ request'[q].cred.resource # Home => q \in replaced
    BY <1>1, <1>2, <2>1 DEF Strangers
  <2>4. QED
    BY <2>1, <2>2, <2>3 DEF Strangers
<1>6. \A q \in Procs : Admin!Calling(q)' /\ (request'[q]).op = "list" => Admin!Calling(q) /\ request[q].op = "list"
  BY <1>1, <1>2
<1>7. Admin!CallsAreHonest'
  <2>1. ASSUME NEW q \in Procs, request'[q].result = "ok", request'[q].op = "retire"
        PROVE  rows'[request'[q].id] = "retired"
    <3>1. CASE q = p
      BY <2>1, <3>1, <1>1
    <3>2. CASE q # p
      <4>1. request'[q] = request[q] /\ rows[request[q].id] = "retired" /\ request[q].id \in Admin!Ids
        BY <2>1, <3>2, <1>1 DEF AdminInv, Admin!CallsAreHonest, Frugal
      <4>2. QED
        BY <4>1 DEF Accounted
    <3>3. QED
      BY <3>1, <3>2
  <2>2. \A q \in Procs : (request'[q]).pc = "send" /\ request'[q].cred.resource # Home => q \in replaced
    BY <1>5 DEF Strangers, Admin!Calling
  <2>3. QED
    BY <1>4, <2>1, <2>2 DEF Admin!CallsAreHonest, Frugal, Accounted, Audited
<1>8. QED
  BY <1>3, <1>4, <1>5, <1>6, <1>7

LEMMA CallMoves ==
  ASSUME Admin!AdminCallsAssumption, AdminInv, NEW p \in Procs, NEW c \in Admin!CallStates, Frugal(c),
         request' = [request EXCEPT ![p] = c],
         c.pc \in {"margin", "send", "renew"} =>
            /\ Admin!Calling(p) /\ c.op = request[p].op
            /\ c.cred \in Admin!Tokens /\ (c.cred.resource # Home => p \in replaced),
         Accounted, c.result = "ok" /\ c.op = "retire" => rows'[c.id] = "retired",
         store' \in Admin!Tokens \cup {Nil}, store' # Nil => store # Nil /\ store'.resource = store.resource,
         tokens' \in Nat, UNCHANGED <<listing, replaced>>
  PROVE  AdminInv'
<1>1. /\ Admin!TypeOK' /\ (\A q \in Procs : Frugal(request[q]) /\ Strangers(q))' /\ Admin!CallsAreHonest'
      /\ \A q \in Procs : Admin!Calling(q)' /\ (request'[q]).op = "list" => Admin!Calling(q) /\ request[q].op = "list"
  <2>1. listing' \in [Procs -> Admin!ListingStates]
    BY DEF AdminInv, Admin!TypeOK
  <2>2. QED
    BY <2>1, CallSteps
<1>2. (\A q \in Procs : Owed(q))' /\ Admin!ListingsAreWhole'
  BY <1>1, ListingStays DEF Accounted
<1>3. QED
  BY <1>1, <1>2 DEF AdminInv

\* A call that ends keeps what it did.
LEMMA EndIsCall ==
  ASSUME NEW c \in Admin!CallStates, NEW result \in {"ok", "problem", "unsent", "failed"}
  PROVE  /\ Admin!Ends(c, result) \in Admin!CallStates /\ Admin!Ends(c, result).pc = "done"
         /\ Admin!Ends(c, result).result = result
         /\ Admin!Ends(c, result).op = c.op /\ Admin!Ends(c, result).id = c.id
         /\ Admin!Ends(c, result).sends = c.sends /\ Admin!Ends(c, result).renewals = c.renewals
         /\ Admin!Ends(c, result).applied = c.applied
BY DEF Admin!Ends, Admin!CallStates

(***************************************************************************)
(* One lemma an action.                                                    *)
(***************************************************************************)
LEMMA AskingKeeps ==
  ASSUME Admin!AdminCallsAssumption, AdminInv, NEW p \in Procs, NEW op \in Admin!AllOps,
         NEW id \in Admin!Ids, Admin!Begin(p, op, id)
  PROVE  AdminInv'
<1> DEFINE c == [Admin!NoCall EXCEPT !.op = op, !.id = id, !.cred = store, !.pc = "margin"]
           d == IF Admin!Loads(p) THEN c ELSE Admin!Ends(c, "failed")
<1>1. c \in Admin!CallStates /\ c.pc = "margin" /\ c.op = op /\ c.id = id /\ c.cred = store
      /\ c.sends = 0 /\ c.renewals = 0 /\ c.applied = 0 /\ ~c.refreshed /\ ~c.early /\ c.result = "none"
  <2>1. id \in 0..MaxRows /\ store \in Admin!Tokens \cup {Nil}
    BY DEF AdminInv, Admin!TypeOK, Admin!Ids, Admin!AdminCallsAssumption
  <2>2. QED
    BY <2>1 DEF Admin!NoCall, Admin!CallStates, Admin!AllOps
<1>2. /\ d \in Admin!CallStates /\ d.op = op /\ d.id = id /\ d.sends = 0 /\ d.renewals = 0 /\ d.applied = 0
      /\ d.result \in {"none", "failed"} /\ d.pc \in {"margin", "done"}
      /\ d.pc # "done" => d = c
      /\ d.pc = "margin" => Admin!Loads(p) /\ d = c
  <2> HIDE DEF c
  <2>1. CASE Admin!Loads(p)
    BY <1>1, <2>1
  <2>2. CASE ~Admin!Loads(p)
    BY <1>1, <2>2, EndIsCall
  <2>3. QED
    BY <2>1, <2>2
<1>3. Frugal(d)
  <2> HIDE DEF c, d
  <2>1. QED
    BY <1>1, <1>2 DEF Frugal
<1>4. request' = [request EXCEPT ![p] = d] /\ d.pc = "margin" => store # Nil /\ store.resource = Home
  BY <1>2 DEF Admin!Begin, Admin!Loads, Admin!LoadedBy
<1>5. request' = [request EXCEPT ![p] = d]
  BY DEF Admin!Begin
<1> HIDE DEF c, d
<1>6. \A q \in Procs : request'[q] = IF q = p THEN d ELSE request[q]
  BY <1>5 DEF AdminInv, Admin!TypeOK
<1>7. \A q \in Procs : Admin!Calling(q)' <=> IF q = p THEN d.pc = "margin" ELSE Admin!Calling(q)
  BY <1>2, <1>6 DEF Admin!Calling
<1>8. /\ UNCHANGED <<kind, rows, audit, store, tokens>> /\ replaced' = replaced \ {p}
      /\ \A q \in Procs : listing'[q] = IF q = p /\ Admin!NewListing(p, op) THEN [Admin!NoPages EXCEPT !.owed = Admin!Listed]
                                         ELSE listing[q]
      /\ listing' \in [Procs -> Admin!ListingStates]
  <2>1. [Admin!NoPages EXCEPT !.owed = Admin!Listed] \in Admin!ListingStates
    <3>1. Admin!Listed \in SUBSET Admin!Ids /\ 0 \in 0..MaxRows /\ << >> \in Seq(SUBSET Admin!Ids)
      BY DEF Admin!Listed, Admin!AdminCallsAssumption
    <3>2. QED
      BY <3>1 DEF Admin!NoPages, Admin!ListingStates
  <2>2. QED
    BY <2>1 DEF Admin!Begin, Admin!table, Admin!cred, AdminInv, Admin!TypeOK
<1>9. Admin!TypeOK'
  <2>1. request' \in [Procs -> Admin!CallStates]
    BY <1>2, <1>5 DEF AdminInv, Admin!TypeOK
  <2>2. \A q \in Procs : Admin!Calling(q)' => request'[q].cred \in Admin!Tokens
    BY <1>1, <1>2, <1>4, <1>5, <1>6, <1>7 DEF AdminInv, Admin!TypeOK
  <2>3. QED
    BY <1>8, <2>1, <2>2 DEF AdminInv, Admin!TypeOK
<1>10. (\A q \in Procs : Frugal(request[q]))'
  BY <1>3, <1>6 DEF AdminInv
<1>11. (\A q \in Procs : Strangers(q))'
  <2> SUFFICES ASSUME NEW q \in Procs PROVE Strangers(q)'
    OBVIOUS
  <2>1. CASE q = p
    BY <2>1, <1>1, <1>2, <1>4, <1>5, <1>6, <1>7, <1>8 DEF Strangers
  <2>2. CASE q # p
    BY <2>2, <1>6, <1>7, <1>8 DEF Strangers, AdminInv
  <2>3. QED
    BY <2>1, <2>2
<1>12. Admin!Listed' = Admin!Listed
  BY <1>8 DEF Admin!Listed
<1>13. (\A q \in Procs : Owed(q))'
  <2> SUFFICES ASSUME NEW q \in Procs PROVE Owed(q)'
    OBVIOUS
  <2>1. CASE q = p /\ Admin!NewListing(p, op)
    <3>1. listing'[q] = [Admin!NoPages EXCEPT !.owed = Admin!Listed]
      BY <2>1, <1>8
    <3>2. Shown(listing'[q]) = {} /\ listing'[q].owed = Admin!Listed /\ ~listing'[q].whole /\ listing'[q].cursor = 0
      BY <3>1 DEF Shown, Admin!NoPages
    <3>3. \A i \in Admin!Listed : rows[i] # "none" /\ ~(i <= 0)
      BY DEF Admin!Listed, Admin!Ids
    <3>4. QED
      BY <1>8, <1>12, <3>2, <3>3 DEF Owed
  <2>2. CASE ~(q = p /\ Admin!NewListing(p, op))
    <3>1. listing'[q] = listing[q] /\ Owed(q)
      BY <2>2, <1>8 DEF AdminInv
    <3>2. Admin!Calling(q)' /\ request'[q].op = "list" => ~listing[q].whole
      BY <2>2, <3>1, <1>2, <1>6, <1>7 DEF Owed, Admin!NewListing
    <3>3. QED
      BY <3>1, <3>2, <1>8, <1>12 DEF Owed
  <2>3. QED
    BY <2>1, <2>2
<1>14. Admin!ListingsAreWhole'
  <2>1. ASSUME NEW q \in Procs, q = p, Admin!NewListing(p, op)
        PROVE  DOMAIN listing'[q].shown = {} /\ ~listing'[q].whole
    BY <2>1, <1>8 DEF Admin!NoPages
  <2>2. \A q \in Procs : ~(q = p /\ Admin!NewListing(p, op)) => listing'[q] = listing[q]
    BY <1>8
  <2>3. QED
    BY <1>12, <2>1, <2>2 DEF AdminInv, Admin!ListingsAreWhole
<1>15. Admin!CallsAreHonest'
  <2>1. \A q \in Procs : (request'[q]).result = "ok" /\ (request'[q]).op = "retire" => rows[request'[q].id] = "retired"
    BY <1>2, <1>6 DEF AdminInv, Admin!CallsAreHonest
  <2>2. \A q \in Procs : (request'[q]).pc = "send" /\ request'[q].cred.resource # Home => q \in replaced'
    BY <1>11 DEF Strangers, Admin!Calling
  <2>3. QED
    BY <1>8, <1>10, <2>1, <2>2 DEF AdminInv, Admin!CallsAreHonest, Frugal
<1>16. QED
  BY <1>9, <1>10, <1>11, <1>13, <1>14, <1>15 DEF AdminInv

\* What a step of one call starts from.
LEMMA CallFacts ==
  ASSUME Admin!AdminCallsAssumption, AdminInv, NEW p \in Procs
  PROVE  /\ request[p] \in Admin!CallStates /\ Frugal(request[p]) /\ Admin!Sent(p) \in Admin!CallStates /\ Admin!Presented(p) \in Admin!CallStates
         /\ store \in Admin!Tokens \cup {Nil} /\ tokens \in Nat
         /\ Admin!Calling(p) => /\ request[p].cred \in Admin!Tokens
                                /\ request[p].cred.resource # Home => p \in replaced
                                /\ store # Nil => store \in Admin!Tokens /\ (store.resource # Home => p \in replaced)
<1>1. request[p] \in Admin!CallStates
  BY DEF AdminInv, Admin!TypeOK
<1>2. Admin!Sent(p) \in Admin!CallStates /\ Admin!Presented(p) \in Admin!CallStates
  BY <1>1 DEF Admin!Sent, Admin!Presented, Admin!CallStates
<1>3. QED
  BY <1>1, <1>2 DEF AdminInv, Admin!TypeOK, Strangers

\* A call that ends having written nothing.
LEMMA EndKeeps ==
  ASSUME Admin!AdminCallsAssumption, AdminInv, NEW p \in Procs, Admin!Calling(p), NEW c \in Admin!CallStates,
         NEW result \in {"ok", "problem", "unsent", "failed"}, Admin!Ended(p, c, result),
         c.op = request[p].op, c.id = request[p].id, c.sends <= 2, c.renewals <= 1, c.applied <= 1,
         result \in {"problem", "failed"} => c.applied = 0,
         result = "ok" /\ c.op = "create" => c.applied = 1,
         Accounted, result = "ok" /\ c.op = "retire" => rows'[c.id] = "retired",
         store' \in Admin!Tokens \cup {Nil}, store' # Nil => store # Nil /\ store'.resource = store.resource,
         tokens' \in Nat, UNCHANGED <<listing, replaced>>
  PROVE  AdminInv'
<1> DEFINE d == Admin!Ends(c, result)
<1>1. /\ d \in Admin!CallStates /\ d.pc = "done" /\ d.result = result /\ d.op = c.op /\ d.id = c.id
      /\ d.sends = c.sends /\ d.renewals = c.renewals /\ d.applied = c.applied
  BY EndIsCall
<1>2. request' = [request EXCEPT ![p] = d]
  BY DEF Admin!Ended
<1> HIDE DEF d
<1>3. c.op = "retire" => c.id \in Admin!Ids
  BY CallFacts DEF Frugal
<1>4. Frugal(d)
  BY <1>1, <1>3 DEF Frugal
<1>5. QED
  BY <1>1, <1>2, <1>4, CallMoves

LEMMA InTimeKeeps ==
  ASSUME Admin!AdminCallsAssumption, AdminInv, NEW p \in Procs, Admin!InTime(p)
  PROVE  AdminInv'
<1> DEFINE c == [request[p] EXCEPT !.pc = "send"]
<1>1. Admin!Calling(p) /\ request[p].pc = "margin"
  BY DEF Admin!InTime, Admin!Calling
<1>2. c \in Admin!CallStates /\ c.cred = request[p].cred /\ c.op = request[p].op /\ c.result = request[p].result
  BY CallFacts DEF Admin!CallStates
<1>3. Frugal(c)
  BY <1>1, CallFacts DEF Frugal, Admin!CallStates
<1>4. request' = [request EXCEPT ![p] = c] /\ UNCHANGED <<kind, rows, audit, store, tokens, listing, replaced>>
  BY DEF Admin!InTime, Admin!table, Admin!cred
<1>5. Accounted
  BY <1>4, TableStays
<1>6. c.result = "none"
  BY <1>1, <1>2, CallFacts DEF Frugal
<1> HIDE DEF c
<1>7. QED
  BY <1>1, <1>2, <1>3, <1>4, <1>5, <1>6, CallFacts, CallMoves

\* A call that has renewed its token, with or without presenting its own.
LEMMA RenewedKeeps ==
  ASSUME Admin!AdminCallsAssumption, AdminInv, NEW p \in Procs, Admin!Renewing(p), store # Nil,
         NEW c \in {request[p], Admin!Presented(p)}, NEW token \in Admin!Tokens, Admin!Renewed(p, c, token),
         token.resource = store.resource,
         store' \in Admin!Tokens, store'.resource = store.resource, tokens' \in Nat,
         UNCHANGED <<kind, rows, audit, listing, replaced>>
  PROVE  AdminInv'
<1> DEFINE d == [c EXCEPT !.pc = "send", !.cred = token, !.refreshed = TRUE]
<1>1. Admin!Calling(p) /\ request[p].pc \in {"margin", "renew"}
  BY DEF Admin!Renewing, Admin!Calling
<1>2. /\ c \in Admin!CallStates /\ c.sends = request[p].sends /\ c.op = request[p].op /\ c.id = request[p].id
      /\ c.applied = request[p].applied /\ c.result = request[p].result /\ c.early = request[p].early
      /\ c.renewals \in {request[p].renewals, request[p].renewals + 1}
  BY CallFacts DEF Admin!Presented, Admin!CallStates
<1>3. /\ d \in Admin!CallStates /\ d.pc = "send" /\ d.cred = token /\ d.refreshed
      /\ d.op = c.op /\ d.id = c.id /\ d.sends = c.sends /\ d.renewals = c.renewals
      /\ d.applied = c.applied /\ d.result = c.result /\ d.early = c.early
  BY <1>2 DEF Admin!CallStates
<1>4. request' = [request EXCEPT ![p] = d]
  BY DEF Admin!Renewed
<1> HIDE DEF d
<1>5. Frugal(d) /\ d.result = "none"
  <2>1. Frugal(request[p]) /\ request[p].sends <= 1 /\ request[p].renewals = 0 /\ request[p].applied = 0 /\ request[p].result = "none"
    BY <1>1, CallFacts DEF Frugal
  <2>2. QED
    BY <2>1, <1>1, <1>2, <1>3 DEF Frugal
<1>6. Accounted
  BY TableStays
<1>7. d.cred.resource # Home => p \in replaced
  BY <1>1, <1>3, CallFacts
<1>8. QED
  BY <1>1, <1>2, <1>3, <1>4, <1>5, <1>6, <1>7, CallMoves

LEMMA UsesStoredKeeps ==
  ASSUME Admin!AdminCallsAssumption, AdminInv, NEW p \in Procs, Admin!UsesStored(p)
  PROVE  AdminInv'
<1>1. store \in Admin!Tokens /\ tokens \in Nat
  BY CallFacts DEF Admin!UsesStored
<1>2. QED
  BY <1>1, RenewedKeeps DEF Admin!UsesStored, Admin!table, Admin!cred

LEMMA RefreshedKeeps ==
  ASSUME Admin!AdminCallsAssumption, AdminInv, NEW p \in Procs, Admin!Refreshed(p)
  PROVE  AdminInv'
<1>1. store # Nil /\ store \in Admin!Tokens /\ tokens \in Nat
  BY CallFacts DEF Admin!Refreshed, Admin!Presents, Admin!OwnStored
<1>2. store' \in Admin!Tokens /\ store'.resource = store.resource /\ tokens' \in Nat
  BY <1>1 DEF Admin!Refreshed, Admin!Tokens
<1>3. QED
  BY <1>1, <1>2, RenewedKeeps DEF Admin!Refreshed, Admin!Presents, Admin!OwnStored, Admin!table

LEMMA SignInAgainKeeps ==
  ASSUME Admin!AdminCallsAssumption, AdminInv, NEW p \in Procs, Admin!SignInAgain(p)
  PROVE  AdminInv'
<1>1. Admin!Calling(p) /\ request[p].pc \in {"margin", "renew"}
  BY DEF Admin!SignInAgain, Admin!Renewing, Admin!Presents, Admin!OwnStored, Admin!Calling
<1>2. request[p].applied = 0 /\ request[p].sends <= 1 /\ request[p].renewals = 0
  BY <1>1, CallFacts DEF Frugal
<1>3. Accounted /\ UNCHANGED <<listing, replaced, tokens>> /\ tokens' \in Nat
  BY TableStays, CallFacts DEF Admin!SignInAgain, Admin!table
<1>4. CASE Admin!Ended(p, request[p], "failed") /\ store' = store
  BY <1>1, <1>2, <1>3, <1>4, CallFacts, EndKeeps DEF Admin!CallStates
<1>5. CASE Admin!Ended(p, Admin!Presented(p), "failed") /\ store' = Nil
  <2>1. /\ Admin!Presented(p).applied = 0 /\ Admin!Presented(p).sends <= 1 /\ Admin!Presented(p).renewals = 1
        /\ Admin!Presented(p).op = request[p].op /\ Admin!Presented(p).id = request[p].id
    BY <1>2, CallFacts DEF Admin!Presented, Admin!CallStates
  <2>2. QED
    BY <1>1, <1>3, <1>5, <2>1, CallFacts, EndKeeps DEF Admin!CallStates
<1>6. QED
  BY <1>4, <1>5 DEF Admin!SignInAgain

LEMMA RefreshFailsKeeps ==
  ASSUME Admin!AdminCallsAssumption, AdminInv, NEW p \in Procs, Admin!RefreshFails(p)
  PROVE  AdminInv'
<1> DEFINE c == [Admin!Presented(p) EXCEPT !.pc = "send", !.early = TRUE]
<1>1. Admin!Calling(p) /\ request[p].pc \in {"margin", "renew"}
  BY DEF Admin!RefreshFails, Admin!Renewing, Admin!Calling
<1>2. request[p].applied = 0 /\ request[p].sends <= 1 /\ request[p].renewals = 0 /\ request[p].result = "none"
  BY <1>1, CallFacts DEF Frugal
<1>3. Accounted /\ UNCHANGED <<store, tokens, listing, replaced>>
  BY TableStays DEF Admin!RefreshFails, Admin!table, Admin!cred
<1>4. /\ Admin!Presented(p).applied = 0 /\ Admin!Presented(p).sends = request[p].sends /\ Admin!Presented(p).renewals = 1
      /\ Admin!Presented(p).op = request[p].op /\ Admin!Presented(p).id = request[p].id
      /\ Admin!Presented(p).cred = request[p].cred /\ Admin!Presented(p).result = "none"
  BY <1>2, CallFacts DEF Admin!Presented, Admin!CallStates
<1>5. CASE Admin!Ended(p, Admin!Presented(p), "failed")
  BY <1>1, <1>2, <1>3, <1>4, <1>5, CallFacts, EndKeeps DEF Admin!CallStates
<1>6. CASE ~Admin!Final(p) /\ request' = [request EXCEPT ![p] = c]
  <2>1. request[p].pc = "margin" /\ request[p].sends = 0
    BY <1>1, <1>6, CallFacts DEF Admin!Final, Frugal
  <2>2. /\ c \in Admin!CallStates /\ c.pc = "send" /\ c.early /\ c.applied = 0 /\ c.sends = 0 /\ c.renewals = 1
        /\ c.op = request[p].op /\ c.id = request[p].id /\ c.cred = request[p].cred /\ c.result = "none"
    <3>1. Admin!Presented(p) \in Admin!CallStates /\ Admin!Presented(p).sends = 0
      BY <1>4, <2>1, CallFacts
    <3>2. QED
      BY <1>4, <3>1 DEF Admin!CallStates
  <2> HIDE DEF c
  <2>3. Frugal(c)
    BY <2>2, CallFacts DEF Frugal
  <2>4. QED
    BY <1>1, <1>3, <1>6, <2>2, <2>3, CallFacts, CallMoves
<1>7. QED
  BY <1>5, <1>6 DEF Admin!RefreshFails

\* What an answer leaves of a call that was sent.
LEMMA AnswerIsEnd ==
  ASSUME Admin!AdminCallsAssumption, AdminInv, NEW p \in Procs, request[p].pc = "send", NEW n \in {0, 1},
         NEW result \in {"ok", "problem"}, Admin!Answer(p, result, n)
  PROVE  \E c \in Admin!CallStates, told \in {result, "unsent"} :
            /\ Admin!Ended(p, c, told) /\ c.op = request[p].op /\ c.id = request[p].id
            /\ c.sends <= 2 /\ c.renewals <= 1 /\ c.applied = n
<1> DEFINE c == [Admin!Sent(p) EXCEPT !.applied = @ + n]
<1>1. request[p].applied = 0 /\ request[p].sends <= 1 /\ request[p].renewals <= 1
  BY CallFacts DEF Frugal
<1>2. /\ c \in Admin!CallStates /\ c.op = request[p].op /\ c.id = request[p].id
      /\ c.sends = request[p].sends + 1 /\ c.renewals = request[p].renewals /\ c.applied = n
  <2>1. /\ Admin!Sent(p) \in Admin!CallStates /\ Admin!Sent(p).op = request[p].op /\ Admin!Sent(p).id = request[p].id
        /\ Admin!Sent(p).sends = request[p].sends + 1 /\ Admin!Sent(p).renewals = request[p].renewals /\ Admin!Sent(p).applied = 0
    BY <1>1, CallFacts DEF Admin!Sent, Admin!CallStates
  <2>2. c = [Admin!Sent(p) EXCEPT !.applied = n]
    BY <2>1
  <2>3. QED
    BY <2>1, <2>2 DEF Admin!CallStates
<1>3. Admin!Ended(p, c, result) \/ Admin!Ended(p, c, "unsent")
  BY DEF Admin!Answer
<1> HIDE DEF c
<1>4. c.sends <= 2 /\ c.renewals <= 1
  BY <1>1, <1>2, CallFacts DEF Admin!CallStates
<1>5. QED
  BY <1>2, <1>3, <1>4

LEMMA AnsweredKeeps ==
  ASSUME Admin!AdminCallsAssumption, AdminInv, NEW p \in Procs, request[p].pc = "send", NEW n \in {0, 1},
         NEW result \in {"ok", "problem"}, Admin!Answer(p, result, n),
         result = "problem" => n = 0, result = "ok" /\ request[p].op = "create" => n = 1,
         Accounted, result = "ok" /\ request[p].op = "retire" => rows'[request[p].id] = "retired",
         UNCHANGED <<store, tokens, listing, replaced>>
  PROVE  AdminInv'
<1>1. PICK c \in Admin!CallStates, told \in {result, "unsent"} :
            /\ Admin!Ended(p, c, told) /\ c.op = request[p].op /\ c.id = request[p].id
            /\ c.sends <= 2 /\ c.renewals <= 1 /\ c.applied = n
  BY AnswerIsEnd
<1>2. Admin!Calling(p) /\ store \in Admin!Tokens \cup {Nil} /\ tokens \in Nat
  BY CallFacts DEF Admin!Calling
<1>3. QED
  BY <1>1, <1>2, EndKeeps

LEMMA ForbiddenKeeps ==
  ASSUME Admin!AdminCallsAssumption, AdminInv, NEW p \in Procs, Admin!Forbidden(p)
  PROVE  AdminInv'
BY TableStays, AnsweredKeeps DEF Admin!Forbidden, Admin!Admitted, Admin!table, Admin!cred

LEMMA CreateKeeps ==
  ASSUME Admin!AdminCallsAssumption, AdminInv, NEW p \in Procs, Admin!Create(p)
  PROVE  AdminInv'
<1>1. PICK i \in Admin!Ids : Admin!Adds(i)
  BY DEF Admin!Create
<1>2. Accounted
  BY <1>1, TableChanges DEF Admin!Create
<1>3. request[p].pc = "send" /\ request[p].op = "create" /\ Admin!Answer(p, "ok", 1)
      /\ UNCHANGED <<store, tokens, listing, replaced>>
  BY DEF Admin!Create, Admin!Allowed, Admin!Admitted, Admin!cred
<1>4. QED
  BY <1>2, <1>3, AnsweredKeeps

LEMMA RetireKeeps ==
  ASSUME Admin!AdminCallsAssumption, AdminInv, NEW p \in Procs, Admin!Retire(p)
  PROVE  AdminInv'
<1>1. request[p].pc = "send" /\ request[p].op = "retire" /\ Admin!Answer(p, "ok", 1) /\ Admin!Retires(request[p].id)
      /\ UNCHANGED <<kind, store, tokens, listing, replaced>>
  BY DEF Admin!Retire, Admin!Allowed, Admin!Admitted, Admin!Matched, Admin!cred
<1>2. request[p].id \in Admin!Ids
  BY <1>1, CallFacts DEF Frugal
<1>3. Accounted /\ rows'[request[p].id] = "retired"
  BY <1>1, <1>2, TableChanges DEF Admin!Retires, AdminInv, Admin!TypeOK
<1>4. QED
  BY <1>1, <1>3, AnsweredKeeps

LEMMA RetireNothingKeeps ==
  ASSUME Admin!AdminCallsAssumption, AdminInv, NEW p \in Procs, Admin!RetireNothing(p)
  PROVE  AdminInv'
<1>1. request[p].pc = "send" /\ request[p].op = "retire" /\ rows[request[p].id] # "live"
      /\ UNCHANGED <<kind, rows, audit, store, tokens, listing, replaced>>
  BY DEF Admin!RetireNothing, Admin!Allowed, Admin!Admitted, Admin!table, Admin!cred
<1>2. Accounted
  BY <1>1, TableStays
<1>3. CASE request[p].id \in Admin!Listed
  <2>1. Admin!Answer(p, "ok", 0)
    BY <1>3 DEF Admin!RetireNothing
  <2>2. rows'[request[p].id] = "retired"
    BY <1>1, <1>3 DEF Admin!Listed
  <2>3. QED
    BY <1>1, <1>2, <2>1, <2>2, AnsweredKeeps
<1>4. CASE request[p].id \notin Admin!Listed
  <2>1. Admin!Answer(p, "problem", 0)
    BY <1>4 DEF Admin!RetireNothing
  <2>2. QED
    BY <1>1, <1>2, <2>1, AnsweredKeeps
<1>5. QED
  BY <1>3, <1>4

LEMMA RefusedKeeps ==
  ASSUME Admin!AdminCallsAssumption, AdminInv, NEW p \in Procs, Admin!Refused(p)
  PROVE  AdminInv'
<1> DEFINE c == [Admin!Sent(p) EXCEPT !.pc = "renew"]
<1>1. Admin!Calling(p) /\ request[p].pc = "send" /\ UNCHANGED <<kind, rows, audit, store, tokens, listing, replaced>>
  BY DEF Admin!Refused, Admin!Calling, Admin!table, Admin!cred
<1>2. /\ request[p].applied = 0 /\ request[p].sends <= 1 /\ request[p].renewals <= 1 /\ request[p].result = "none"
      /\ request[p].renewals = 1 => request[p].refreshed \/ request[p].early
      /\ request[p].sends = 1 => request[p].refreshed
  BY <1>1, CallFacts DEF Frugal
<1>3. /\ Admin!Sent(p) \in Admin!CallStates /\ Admin!Sent(p).sends = request[p].sends + 1 /\ Admin!Sent(p).renewals = request[p].renewals
      /\ Admin!Sent(p).applied = 0 /\ Admin!Sent(p).op = request[p].op /\ Admin!Sent(p).id = request[p].id
      /\ Admin!Sent(p).cred = request[p].cred /\ Admin!Sent(p).result = "none"
      /\ Admin!Sent(p).refreshed = request[p].refreshed /\ Admin!Sent(p).early = request[p].early
  BY <1>2, CallFacts DEF Admin!Sent, Admin!CallStates
<1>4. Accounted
  BY <1>1, TableStays
<1>5. CASE Admin!MayRenew(p) /\ request' = [request EXCEPT ![p] = c]
  <2>1. ~request[p].refreshed /\ ~request[p].early /\ request[p].sends = 0 /\ request[p].renewals = 0
    BY <1>2, <1>5, CallFacts DEF Admin!MayRenew, Admin!RefreshesOnce, Admin!CallStates
  <2>2. /\ c \in Admin!CallStates /\ c.pc = "renew" /\ ~c.early /\ ~c.refreshed /\ c.applied = 0 /\ c.sends = 1
        /\ c.renewals = 0 /\ c.op = request[p].op /\ c.id = request[p].id /\ c.cred = request[p].cred /\ c.result = "none"
    BY <1>3, <2>1 DEF Admin!CallStates
  <2> HIDE DEF c
  <2>3. Frugal(c)
    BY <2>2, CallFacts DEF Frugal
  <2>4. QED
    BY <1>1, <1>4, <1>5, <2>2, <2>3, CallFacts, CallMoves
<1>6. ASSUME NEW result \in {"failed", "problem"}, Admin!Ended(p, Admin!Sent(p), result) PROVE AdminInv'
  <2>1. Admin!Sent(p).sends <= 2 /\ Admin!Sent(p).renewals <= 1 /\ Admin!Sent(p).applied <= 1
    BY <1>2, <1>3, CallFacts DEF Admin!CallStates
  <2>2. QED
    BY <1>1, <1>3, <1>4, <1>6, <2>1, CallFacts, EndKeeps
<1>7. QED
  BY <1>5, <1>6 DEF Admin!Refused

LEMMA UnservedKeeps ==
  ASSUME Admin!AdminCallsAssumption, AdminInv, NEW p \in Procs, Admin!Unserved(p)
  PROVE  AdminInv'
<1>1. Admin!Calling(p) /\ request[p].pc = "send" /\ UNCHANGED <<kind, rows, audit, store, tokens, listing, replaced>>
  BY DEF Admin!Unserved, Admin!Calling, Admin!table, Admin!cred
<1>2. PICK result \in {"problem", "unsent"} : Admin!Ended(p, Admin!Sent(p), result)
  BY DEF Admin!Unserved
<1>3. request[p].applied = 0 /\ request[p].sends <= 1 /\ request[p].renewals <= 1
  BY <1>1, CallFacts DEF Frugal
<1>4. /\ Admin!Sent(p) \in Admin!CallStates /\ Admin!Sent(p).sends <= 2 /\ Admin!Sent(p).renewals <= 1
      /\ Admin!Sent(p).applied = 0 /\ Admin!Sent(p).op = request[p].op /\ Admin!Sent(p).id = request[p].id
  BY <1>3, CallFacts DEF Admin!Sent, Admin!CallStates
<1>5. Accounted
  BY <1>1, TableStays
<1>6. QED
  BY <1>1, <1>2, <1>4, <1>5, CallFacts, EndKeeps

\* A page was read: what it shows is behind what was shown, and owed in order.
LEMMA ListingKeeps ==
  ASSUME Admin!AdminCallsAssumption, AdminInv, NEW p \in Procs, Admin!List(p)
  PROVE  AdminInv'
<1> DEFINE l == listing[p]
           page == Admin!Page(l.cursor)
           after == {i \in Admin!Listed : i > l.cursor}
           m == [l EXCEPT !.shown = Append(@, page),
                          !.cursor = IF Admin!More(page) THEN Admin!Max(page) ELSE @,
                          !.whole = ~Admin!More(page)]
<1>1. /\ request[p].pc = "send" /\ request[p].op = "list" /\ Admin!Answer(p, "ok", 0)
      /\ UNCHANGED <<kind, rows, audit, store, tokens, replaced>>
  BY DEF Admin!List, Admin!Admitted, Admin!table, Admin!cred
<1>2. Admin!Calling(p) /\ Accounted /\ Admin!Listed' = Admin!Listed
  BY <1>1, TableStays DEF Admin!Calling, Admin!Listed
<1>3. PICK c \in Admin!CallStates, told \in {"ok", "unsent"} :
            /\ Admin!Ended(p, c, told) /\ c.op = "list" /\ c.id = request[p].id
            /\ c.sends <= 2 /\ c.renewals <= 1 /\ c.applied = 0
  BY <1>1, AnswerIsEnd
<1> DEFINE d == Admin!Ends(c, told)
<1>4. /\ d \in Admin!CallStates /\ d.pc = "done" /\ d.result = told /\ d.op = "list"
      /\ d.sends <= 2 /\ d.renewals <= 1 /\ d.applied = 0
      /\ request' = [request EXCEPT ![p] = d]
  BY <1>3, EndIsCall DEF Admin!Ended
<1> HIDE DEF d
<1>5. Frugal(d)
  BY <1>4 DEF Frugal
<1>6. /\ listing' \in [Procs -> Admin!ListingStates] => Admin!TypeOK'
      /\ (\A q \in Procs : Frugal(request[q]) /\ Strangers(q))' /\ Admin!CallsAreHonest'
      /\ \A q \in Procs : Admin!Calling(q)' /\ (request'[q]).op = "list" => Admin!Calling(q) /\ request[q].op = "list"
  <2>1. store' \in Admin!Tokens \cup {Nil} /\ tokens' \in Nat
    BY <1>1, CallFacts
  <2>2. QED
    BY <1>1, <1>2, <1>4, <1>5, <2>1, CallSteps
<1>7. CASE UNCHANGED listing
  <2>1. listing' \in [Procs -> Admin!ListingStates]
    BY <1>7 DEF AdminInv, Admin!TypeOK
  <2>2. (\A q \in Procs : Owed(q))' /\ Admin!ListingsAreWhole'
    BY <1>2, <1>6, <1>7, ListingStays DEF Accounted
  <2>3. QED
    BY <1>6, <2>1, <2>2 DEF AdminInv
<1>8. CASE listing' = [listing EXCEPT ![p] = m]
  <2>1. /\ l \in Admin!ListingStates /\ Owed(p) /\ ~l.whole
        /\ l.cursor \in 0..MaxRows /\ l.shown \in Seq(SUBSET Admin!Ids) /\ l.owed \in SUBSET Admin!Ids
        /\ \A i \in l.owed : rows[i] # "none"
        /\ \A i \in Shown(l) : i <= l.cursor
        /\ \A i \in l.owed \cap Admin!Listed : i <= l.cursor => i \in Shown(l)
    <3>1. l \in Admin!ListingStates /\ Owed(p)
      BY DEF AdminInv, Admin!TypeOK
    <3>2. ~l.whole
      BY <1>1, <1>2, <3>1 DEF Owed
    <3>3. QED
      BY <3>1, <3>2 DEF Owed, Admin!ListingStates
  <2> DEFINE n == Len(l.shown)
  <2>2. after \in SUBSET Admin!Ids /\ page = Admin!FirstOf(after)
    BY DEF Admin!Listed, Admin!Page, Admin!PageAfter
  <2> HIDE DEF page
  <2>3. /\ page \in SUBSET after /\ Cardinality(page) \in Nat
        /\ page # {} => \A i \in after : i <= Admin!Max(page) => i \in page
        /\ Cardinality(page) # PageSize => page = after
    <3> HIDE DEF after, m
    <3>1. QED
      BY <2>2, PageIsBeginning
  <2>4. Admin!More(page) => page # {} /\ Admin!Max(page) \in page /\ \A i \in page : i <= Admin!Max(page)
    <3>1. Admin!More(page) => page # {}
      BY RowsAndPages, FS_EmptySet, SameCount DEF Admin!More, Admin!MayBeMore
    <3>2. page # {} => Admin!Max(page) \in page /\ \A i \in page : i <= Admin!Max(page)
      BY <2>2, <2>3, Greatest
    <3>3. QED
      BY <3>1, <3>2
  <2>5. ~Admin!More(page) => page = after
    BY <2>3, SameCount DEF Admin!More, Admin!MayBeMore
  <2>6. /\ m \in Admin!ListingStates /\ m.shown = Append(l.shown, page) /\ m.owed = l.owed
        /\ m.cursor = (IF Admin!More(page) THEN Admin!Max(page) ELSE l.cursor) /\ (m.whole <=> ~Admin!More(page))
    <3>1. page \in SUBSET Admin!Ids
      BY <2>2, <2>3
    <3>2. Append(l.shown, page) \in Seq(SUBSET Admin!Ids)
      BY <2>1, <3>1
    <3>3. (IF Admin!More(page) THEN Admin!Max(page) ELSE l.cursor) \in 0..MaxRows
      <4>1. CASE Admin!More(page)
        <5>1. Admin!Max(page) \in 1..MaxRows
          BY <2>4, <3>1, <4>1 DEF Admin!Ids
        <5>2. QED
          BY <4>1, <5>1
      <4>2. CASE ~Admin!More(page)
        BY <2>1, <4>2
      <4>3. QED
        BY <4>1, <4>2
    <3>4. QED
      BY <2>1, <3>2, <3>3 DEF Admin!ListingStates, Admin!More, Admin!MayBeMore
  <2>7. /\ DOMAIN m.shown = 1..(n + 1) /\ n \in Nat /\ DOMAIN l.shown = 1..n
        /\ m.shown[n + 1] = page /\ \A j \in 1..n : m.shown[j] = l.shown[j]
    BY <2>1, <2>6
  <2>8. Shown(m) = Shown(l) \cup page
    <3>1. ASSUME NEW i \in Shown(m) PROVE i \in Shown(l) \cup page
      <4>1. PICK j \in 1..(n + 1) : i \in m.shown[j]
        BY <2>7 DEF Shown
      <4>2. CASE j = n + 1
        BY <2>7, <4>1, <4>2
      <4>3. CASE j # n + 1
        <5>1. j \in 1..n
          BY <2>7, <4>3
        <5>2. QED
          BY <2>7, <4>1, <5>1 DEF Shown
      <4>4. QED
        BY <4>2, <4>3
    <3>2. ASSUME NEW i \in Shown(l) PROVE i \in Shown(m)
      <4>1. PICK j \in 1..n : i \in l.shown[j]
        BY <2>7 DEF Shown
      <4>2. j \in 1..(n + 1) /\ i \in m.shown[j]
        BY <2>7, <4>1
      <4>3. QED
        BY <2>7, <4>2 DEF Shown
    <3>3. page \subseteq Shown(m)
      <4>1. n + 1 \in DOMAIN m.shown
        BY <2>7
      <4>2. QED
        BY <2>7, <4>1 DEF Shown
    <3>4. QED
      BY <3>1, <3>2, <3>3
  <2> HIDE DEF m, l, n, after
  <2>9. /\ \A q \in Procs : listing'[q] = IF q = p THEN m ELSE listing[q]
        /\ listing' \in [Procs -> Admin!ListingStates]
    BY <1>8, <2>6 DEF AdminInv, Admin!TypeOK
  <2>10. \A i \in Admin!Listed : i \in Nat /\ i \in Admin!Ids
    BY DEF Admin!Listed, Admin!Ids
  <2>11. \A i \in Admin!Listed : i \in after <=> i > l.cursor
    BY DEF after
  <2>12. m.whole => m.owed \cap Admin!Listed \subseteq Shown(m)
    <3> SUFFICES ASSUME m.whole, NEW i \in m.owed \cap Admin!Listed PROVE i \in Shown(m)
      OBVIOUS
    <3>1. page = after
      BY <2>5, <2>6
    <3>2. CASE i <= l.cursor
      BY <3>2, <2>1, <2>6, <2>8
    <3>3. CASE ~(i <= l.cursor)
      <4>1. i > l.cursor
        BY <3>3, <2>1, <2>10
      <4>2. QED
        BY <4>1, <3>1, <2>8, <2>11
    <3>4. QED
      BY <3>2, <3>3
  <2>13. ~m.whole => /\ \A i \in Shown(m) : i <= m.cursor
                     /\ \A i \in m.owed \cap Admin!Listed : i <= m.cursor => i \in Shown(m)
    <3> SUFFICES ASSUME ~m.whole
                 PROVE  /\ \A i \in Shown(m) : i <= m.cursor
                        /\ \A i \in m.owed \cap Admin!Listed : i <= m.cursor => i \in Shown(m)
      OBVIOUS
    <3>1. Admin!More(page) /\ m.cursor = Admin!Max(page) /\ m.cursor \in page /\ page # {} /\ \A i \in page : i <= m.cursor
      BY <2>4, <2>6
    <3>2. page \subseteq Admin!Ids /\ m.cursor \in Nat /\ m.cursor > l.cursor /\ l.cursor \in Nat
      BY <2>1, <2>2, <2>3, <2>10, <3>1 DEF after, Admin!Ids
    <3>3. ASSUME NEW i \in Shown(m) PROVE i <= m.cursor
      <4>1. CASE i \in page
        BY <4>1, <3>1
      <4>2. CASE i \in Shown(l)
        <5>1. i \in Nat /\ i <= l.cursor
          BY <2>1, <4>2 DEF Shown, Admin!Ids
        <5>2. QED
          BY <5>1, <3>2
      <4>3. QED
        BY <2>8, <4>1, <4>2
    <3>4. ASSUME NEW i \in m.owed \cap Admin!Listed, i <= m.cursor PROVE i \in Shown(m)
      <4>1. CASE i <= l.cursor
        BY <4>1, <2>1, <2>6, <2>8
      <4>2. CASE ~(i <= l.cursor)
        <5>1. i > l.cursor
          BY <4>2, <3>2, <2>10
        <5>2. i \in after
          BY <5>1, <2>11
        <5>3. QED
          BY <5>2, <2>3, <2>8, <3>1, <3>4
      <4>3. QED
        BY <4>1, <4>2
    <3>5. QED
      BY <3>3, <3>4
  <2>14. (\A q \in Procs : Owed(q))'
    <3> SUFFICES ASSUME NEW q \in Procs PROVE Owed(q)'
      OBVIOUS
    <3>1. CASE q = p
      <4>1. listing'[q] = m /\ ~Admin!Calling(q)'
        BY <1>4, <2>9, <3>1 DEF Admin!Calling, AdminInv, Admin!TypeOK
      <4>2. QED
        BY <1>1, <1>2, <2>1, <2>6, <2>13, <4>1 DEF Owed
    <3>2. CASE q # p
      <4>1. listing'[q] = listing[q] /\ Owed(q)
        BY <2>9, <3>2 DEF AdminInv
      <4>2. Admin!Calling(q)' /\ (request'[q]).op = "list" => ~listing[q].whole
        BY <1>6, <4>1 DEF Owed
      <4>3. QED
        BY <1>1, <1>2, <4>1, <4>2 DEF Owed
    <3>3. QED
      BY <3>1, <3>2
  <2>15. Admin!ListingsAreWhole'
    <3>1. ASSUME NEW j \in DOMAIN m.shown, NEW k \in DOMAIN m.shown, j < k,
                 NEW i \in m.shown[j], NEW later \in m.shown[k]
          PROVE  i < later
      <4>1. j \in 1..n /\ j \in DOMAIN l.shown /\ m.shown[j] = l.shown[j]
        BY <2>7, <3>1
      <4>2. CASE k \in 1..n
        <5>1. m.shown[k] = l.shown[k] /\ k \in DOMAIN l.shown
          BY <2>7, <4>2
        <5>2. QED
          BY <3>1, <4>1, <5>1 DEF AdminInv, Admin!ListingsAreWhole, l
      <4>3. CASE k = n + 1
        <5>1. later \in page /\ i \in Shown(l)
          BY <2>7, <4>1, <4>3 DEF Shown
        <5>2. i <= l.cursor /\ i \in Admin!Ids
          BY <2>1, <4>1, <5>1
        <5>3. later \in Admin!Listed /\ later > l.cursor
          BY <2>3, <5>1 DEF after
        <5>4. l.cursor \in Nat /\ i \in Nat /\ later \in Nat
          BY <2>1, <2>10, <5>2, <5>3 DEF Admin!Ids
        <5>5. QED
          BY <5>2, <5>3, <5>4
      <4>4. QED
        BY <2>7, <4>2, <4>3
    <3>2. \A q \in Procs : q # p => listing'[q] = listing[q]
      BY <2>9
    <3>3. listing'[p] = m
      BY <2>9
    <3>4. ASSUME NEW q \in Procs
          PROVE  /\ \A j, k \in DOMAIN listing'[q].shown :
                       j < k => \A i \in listing'[q].shown[j], later \in listing'[q].shown[k] : i < later
                 /\ listing'[q].whole => listing'[q].owed \cap Admin!Listed' \subseteq Shown(listing'[q])
      <4>1. CASE q = p
        BY <1>2, <2>12, <3>1, <3>3, <4>1
      <4>2. CASE q # p
        BY <1>2, <3>2, <4>2 DEF AdminInv, Admin!ListingsAreWhole, Shown
      <4>3. QED
        BY <4>1, <4>2
    <3>5. QED
      BY <3>4 DEF Admin!ListingsAreWhole, Shown
  <2>16. QED
    BY <1>6, <2>9, <2>14, <2>15 DEF AdminInv
<1>9. QED
  BY <1>7, <1>8 DEF Admin!List

(***************************************************************************)
(* Others, and time.                                                       *)
(***************************************************************************)
LEMMA OthersKeep ==
  ASSUME Admin!AdminCallsAssumption, AdminInv, UNCHANGED <<request, listing>>, Accounted, tokens' \in Nat,
         \/ replaced' = replaced /\ store' = store
         \/ replaced' = Procs /\ store' \in Admin!Tokens \cup {Nil}
  PROVE  AdminInv'
<1>1. \A p \in Procs : Admin!Calling(p)' <=> Admin!Calling(p)
  BY DEF Admin!Calling
<1>2. Admin!TypeOK'
  BY <1>1 DEF AdminInv, Admin!TypeOK, Accounted
<1>3. (\A p \in Procs : Frugal(request[p]))'
  BY DEF AdminInv
<1>4. (\A p \in Procs : Strangers(p))'
  <2> SUFFICES ASSUME NEW p \in Procs PROVE Strangers(p)'
    OBVIOUS
  <2>1. CASE replaced' = Procs
    BY <2>1, <1>1 DEF Strangers
  <2>2. CASE replaced' = replaced /\ store' = store
    BY <2>2, <1>1 DEF Strangers, AdminInv
  <2>3. QED
    BY <2>1, <2>2
<1>5. (\A p \in Procs : Owed(p))' /\ Admin!ListingsAreWhole'
  BY <1>1, ListingStays DEF Accounted
<1>6. Admin!CallsAreHonest'
  <2>1. ASSUME NEW p \in Procs, request[p].result = "ok", request[p].op = "retire"
        PROVE  rows'[request[p].id] = "retired"
    <3>1. rows[request[p].id] = "retired" /\ request[p].id \in Admin!Ids
      BY <2>1 DEF AdminInv, Admin!CallsAreHonest, Frugal
    <3>2. QED
      BY <3>1 DEF Accounted
  <2>2. \A p \in Procs : request[p].pc = "send" /\ request[p].cred.resource # Home => p \in replaced'
    BY <1>4 DEF Strangers, Admin!Calling
  <2>3. QED
    BY <1>3, <2>1, <2>2 DEF Admin!CallsAreHonest, Frugal, Accounted, Audited
<1>7. QED
  BY <1>2, <1>3, <1>4, <1>5, <1>6 DEF AdminInv

LEMMA AdminNext ==
  ASSUME Admin!AdminCallsAssumption, AdminInv, [Admin!Next]_(Admin!callVars)
  PROVE  AdminInv'
<1> USE Admin!AdminCallsAssumption
<1>1. ASSUME NEW p \in Procs, Admin!Asking(p) PROVE AdminInv'
  BY <1>1, AskingKeeps DEF Admin!Asking, Admin!AdminCallsAssumption
<1>2. ASSUME NEW p \in Procs, Admin!Authorizing(p) PROVE AdminInv'
  BY <1>2, InTimeKeeps, UsesStoredKeeps, RefreshedKeeps, SignInAgainKeeps,
       RefreshFailsKeeps DEF Admin!Authorizing
<1>3. ASSUME NEW p \in Procs, Admin!Answered(p) PROVE AdminInv'
  BY <1>3, ForbiddenKeeps, CreateKeeps, RetireKeeps, RetireNothingKeeps, ListingKeeps, RefusedKeeps,
     UnservedKeeps DEF Admin!Answered
<1>4. store \in Admin!Tokens \cup {Nil} /\ tokens \in Nat
  BY DEF AdminInv, Admin!TypeOK
<1>5. ASSUME Admin!ConsoleWrites PROVE AdminInv'
  <2>1. Accounted
    BY <1>5, TableChanges DEF Admin!ConsoleWrites
  <2>2. QED
    BY <1>4, <1>5, <2>1, OthersKeep DEF Admin!ConsoleWrites, Admin!cred
<1>6. ASSUME Admin!SignsIn PROVE AdminInv'
  <2>1. Accounted
    BY <1>6, TableStays DEF Admin!SignsIn, Admin!table
  <2>2. store' \in Admin!Tokens /\ tokens' \in Nat
    BY <1>4, <1>6 DEF Admin!SignsIn, Admin!Token, Admin!Tokens
  <2>3. QED
    BY <1>6, <2>1, <2>2, OthersKeep DEF Admin!SignsIn
<1>7. ASSUME Admin!SignsOut PROVE AdminInv'
  <2>1. Accounted
    BY <1>7, TableStays DEF Admin!SignsOut, Admin!table
  <2>2. QED
    BY <1>4, <1>7, <2>1, OthersKeep DEF Admin!SignsOut
<1>8. ASSUME Admin!Ages PROVE AdminInv'
  <2>1. Accounted
    BY <1>8, TableStays DEF Admin!Ages, Admin!table
  <2>2. QED
    BY <1>4, <1>8, <2>1, OthersKeep DEF Admin!Ages
<1>9. ASSUME UNCHANGED Admin!callVars PROVE AdminInv'
  <2>1. Accounted
    BY <1>9, TableStays DEF Admin!callVars
  <2>2. QED
    BY <1>4, <1>9, <2>1, OthersKeep DEF Admin!callVars
<1>10. QED
  BY <1>1, <1>2, <1>3, <1>5, <1>6, <1>7, <1>8, <1>9 DEF Admin!Next, Admin!Others

----------------------------------------------------------------------------
(***************************************************************************)
(* The key set: any requests, token lives, cache ages and cooldowns, and   *)
(* any timeout of a load that is shorter than the copy may be old.         *)
(*                                                                         *)
(* The inductive invariant.  What the OP answered at some moment after     *)
(* `at' has the keys that signed before then and that are not gone since.  *)
(***************************************************************************)
Reflects(kept, at) ==
    \A k \in Verifier!Kids :
        /\ k \in kept => k <= signer /\ (gone[k] # Nil => at <= gone[k])
        /\ k \notin kept /\ k <= signer /\ gone[k] = Nil => at <= keysSince[k]

\* The copy tells of the moment its load was asked for, and a load is timed out.
Copies ==
    /\ \A k \in published : k <= signer
    /\ \A k \in Verifier!Kids : /\ gone[k] # Nil => gone[k] <= tick
                                /\ until[k] # Nil => until[k] <= tick
                                /\ keysSince[k] # Nil => keysSince[k] <= tick
    /\ set # Nil => Reflects(set.keys, set.at - MaxFetch)
    /\ load # Nil => load.asked <= tick /\ tick <= load.asked + MaxFetch
    /\ load # Nil /\ load.keys # Nil => Reflects(load.keys, load.asked)

\* The token a request has is one its key signed.
Genuine(q) ==
    /\ q.pc \in Verifier!Answers => q.kid = Verifier!Forged
    /\ q.pc \notin Verifier!Answers => q.began < q.exp
    /\ q.kid # Verifier!Forged => /\ q.kid <= signer /\ keysSince[q.kid] <= q.began
                                  /\ q.exp <= (IF until[q.kid] = Nil THEN q.began ELSE until[q.kid]) + Life

\* How long it has been at it.  One that began in a cooldown never waits for a first load.
Prompt(q) ==
    /\ q.pc = "verify" => tick <= q.began + 1
    /\ q.pc \in {"lookup", "again"} => Verifier!Fresh
    /\ q.cooling => /\ q.pc # "first"
                    /\ q.pc \in {"verify", "lookup"} => set # Nil /\ q.began < set.at + Cooldown
                    /\ q.pc \in {"lookup", "missed"} => tick <= q.began + 1
                    /\ q.pc = "second" => load.asked <= q.began + 1
                    /\ q.pc = "again" => tick <= q.began + 1 + MaxFetch

\* What it has found out of a key that is still published.
Found(q) ==
    q.kid # Verifier!Forged /\ gone[q.kid] = Nil =>
        /\ ~q.crossed =>
              /\ q.pc = "verify" /\ Verifier!CoolingDown => q.cooling
              /\ q.pc = "lookup" /\ Verifier!CoolingDown => q.cooling \/ q.kid \in set.keys
              /\ q.pc = "missed" /\ Verifier!CoolingDown => q.cooling
              /\ q.pc \in Verifier!Waiting /\ load.keys # Nil => q.kid \in load.keys
              /\ q.pc = "again" => q.kid \in set.keys
        /\ q.pc \in {"missed", "second", "again"} /\ q.cooling => q.began < keysSince[q.kid] + MaxFetch + Cooldown

KeysInv ==
    /\ Verifier!TypeOK /\ Copies
    /\ \A r \in Verifications : Genuine(verifying[r]) /\ Prompt(verifying[r]) /\ Found(verifying[r])

VerificationStates ==
    [pc : Verifier!Answers \cup Verifier!Waiting \cup {"verify", "lookup", "missed", "again"},
     kid : Verifier!Kids \cup {Verifier!Forged}, exp : Nat, began : Nat, cooling : BOOLEAN, crossed : BOOLEAN]

\* What the invariant says of each variable, in arithmetic.
LEMMA KeysFacts ==
  ASSUME Verifier!KeySetAssumption, KeysInv
  PROVE  /\ tick \in Nat /\ signer \in Verifier!Kids /\ signer \in published /\ published \subseteq Verifier!Kids
         /\ MaxFetch \in Nat /\ MaxAge \in Nat /\ Cooldown \in Nat /\ Life \in Nat
         /\ Cooldown < MaxAge /\ MaxFetch < MaxAge
         /\ set # Nil => set \in Verifier!Sets /\ set.at \in Nat /\ set.at <= tick /\ set.keys \subseteq Verifier!Kids
         /\ load # Nil => load \in Verifier!Loads /\ load.asked \in Nat /\ (load.keys = Nil \/ load.keys \subseteq Verifier!Kids)
         /\ \A k \in Verifier!Kids : /\ k \in Nat
                                     /\ k <= signer => keysSince[k] \in Nat
                                     /\ k < signer => until[k] \in Nat
                                     /\ ~(k < signer) => until[k] = Nil
                                     /\ gone[k] # Nil => gone[k] \in Nat /\ gone[k] <= tick /\ k < signer
                                     /\ gone[k] # Nil <=> k < signer /\ k \notin published
         /\ \A r \in Verifications : verifying[r] \in VerificationStates /\ verifying[r].began <= tick
<1>1. tick \in Nat /\ set \in {Nil} \cup Verifier!Sets /\ load \in {Nil} \cup Verifier!Loads
  BY DEF KeysInv, Verifier!TypeOK
<1>2. \A k \in Verifier!Kids : k \in Nat
  BY DEF Verifier!Kids
<1>3. set # Nil => set \in Verifier!Sets /\ set.at \in Nat /\ set.at <= tick /\ set.keys \subseteq Verifier!Kids
  BY <1>1 DEF Verifier!Sets, KeysInv, Verifier!TypeOK
<1>4. load # Nil => load \in Verifier!Loads /\ load.asked \in Nat /\ (load.keys = Nil \/ load.keys \subseteq Verifier!Kids)
  BY <1>1 DEF Verifier!Loads
<1>5. \A r \in Verifications : verifying[r] \in VerificationStates /\ verifying[r].began <= tick
  BY DEF KeysInv, Verifier!TypeOK, VerificationStates
<1>6. signer \in published /\ published \subseteq Verifier!Kids
  BY DEF KeysInv, Verifier!TypeOK
<1>7. /\ MaxFetch \in Nat /\ MaxAge \in Nat /\ Cooldown \in Nat /\ Life \in Nat
      /\ Cooldown < MaxAge /\ MaxFetch < MaxAge
  BY DEF Verifier!KeySetAssumption
<1>8. ASSUME NEW k \in Verifier!Kids
      PROVE  /\ k <= signer => keysSince[k] \in Nat
             /\ k < signer => until[k] \in Nat
             /\ ~(k < signer) => until[k] = Nil
             /\ gone[k] # Nil => gone[k] \in Nat /\ gone[k] <= tick /\ k < signer
             /\ gone[k] # Nil <=> k < signer /\ k \notin published
  BY DEF KeysInv, Verifier!TypeOK, Copies
<1>9. QED
  BY <1>1, <1>2, <1>3, <1>4, <1>5, <1>6, <1>7, <1>8

LEMMA KeysInit == ASSUME Verifier!KeySetAssumption, Verifier!Init PROVE KeysInv
<1>1. 1 \in Verifier!Kids /\ \A k \in Verifier!Kids : k \in Nat /\ 1 <= k
  BY DEF Verifier!Kids, Verifier!KeySetAssumption
<1>2. /\ set = Nil /\ load = Nil /\ tick = 0 /\ signer = 1 /\ published = {1}
      /\ gone = [k \in Verifier!Kids |-> Nil] /\ until = [k \in Verifier!Kids |-> Nil]
      /\ keysSince = [k \in Verifier!Kids |-> IF k = 1 THEN 0 ELSE Nil]
  BY DEF Verifier!Init
<1>3. /\ verifying = [r \in Verifications |-> Verifier!Answered("none")]
      /\ Verifier!Answered("none") \in [pc : Verifier!Answers \cup Verifier!Waiting \cup {"verify", "lookup", "missed", "again"},
                               kid : Verifier!Kids \cup {Verifier!Forged}, exp : Nat, began : Nat,
                               cooling : BOOLEAN, crossed : BOOLEAN]
      /\ Verifier!Answered("none").pc = "none" /\ Verifier!Answered("none").kid = Verifier!Forged /\ Verifier!Answered("none").began = 0
      /\ ~Verifier!Answered("none").cooling
  BY DEF Verifier!Init, Verifier!Answered, Verifier!Answers
<1>4. Verifier!TypeOK
  <2>1. /\ \A k \in Verifier!Kids : keysSince[k] # Nil <=> k <= signer
        /\ \A k \in Verifier!Kids : until[k] # Nil <=> k < signer
        /\ \A k \in Verifier!Kids : gone[k] # Nil <=> k < signer /\ k \notin published
    <3>1. Nil # 0
      BY DEF Verifier!KeySetAssumption
    <3>2. QED
      BY <1>1, <1>2, <3>1
  <2>2. tick \in 0..LastTick
    BY <1>2 DEF Verifier!KeySetAssumption
  <2>3. \A r \in Verifications : verifying[r].pc \notin Verifier!Waiting /\ verifying[r].began <= tick
    BY <1>2, <1>3 DEF Verifier!Waiting
  <2>4. /\ keysSince \in [Verifier!Kids -> Nat \cup {Nil}] /\ until \in [Verifier!Kids -> Nat \cup {Nil}]
        /\ gone \in [Verifier!Kids -> Nat \cup {Nil}]
    BY <1>2
  <2>5. QED
    BY <1>1, <1>2, <1>3, <2>1, <2>2, <2>3, <2>4 DEF Verifier!TypeOK
<1>5. Copies
  BY <1>1, <1>2 DEF Copies
<1>6. \A r \in Verifications : verifying[r].pc = "none" /\ verifying[r].kid = Verifier!Forged /\ ~verifying[r].cooling
  BY <1>3
<1>7. \A r \in Verifications : Genuine(verifying[r]) /\ Prompt(verifying[r]) /\ Found(verifying[r])
  BY <1>6 DEF Genuine, Prompt, Found, Verifier!Answers
<1>8. QED
  BY <1>4, <1>5, <1>7 DEF KeysInv

----------------------------------------------------------------------------
(* The OP and its operator. *)

\* What a change of the keys leaves as it was.
LEMMA SetMoves ==
  ASSUME Verifier!KeySetAssumption, KeysInv, UNCHANGED <<tick, set, load, verifying>>,
         signer' \in Nat, signer <= signer', Verifier!TypeOK', \A k \in published' : k <= signer',
         \A k \in Verifier!Kids : /\ k <= signer => keysSince'[k] = keysSince[k]
                                  /\ signer < k /\ k <= signer' => keysSince'[k] = tick
                                  /\ until'[k] = until[k] \/ (until[k] = Nil /\ until'[k] = tick)
                                  /\ gone'[k] = gone[k] \/ (gone[k] = Nil /\ gone'[k] = tick)
  PROVE  KeysInv'
<1>1. \A kept, at : at \in Int /\ at <= tick /\ Reflects(kept, at) =>
          \A k \in Verifier!Kids :
              /\ k \in kept => k <= signer' /\ (gone'[k] # Nil => at <= gone'[k])
              /\ k \notin kept /\ k <= signer' /\ gone'[k] = Nil => at <= keysSince'[k]
  <2> SUFFICES ASSUME NEW kept, NEW at \in Int, at <= tick, Reflects(kept, at), NEW k \in Verifier!Kids
               PROVE  /\ k \in kept => k <= signer' /\ (gone'[k] # Nil => at <= gone'[k])
                      /\ k \notin kept /\ k <= signer' /\ gone'[k] = Nil => at <= keysSince'[k]
    OBVIOUS
  <2>1. signer \in Nat /\ k \in Nat /\ tick \in Nat
    BY KeysFacts
  <2>2. ASSUME k \in kept PROVE k <= signer' /\ (gone'[k] # Nil => at <= gone'[k])
    BY <2>1, <2>2 DEF Reflects
  <2>3. ASSUME k \notin kept, k <= signer', gone'[k] = Nil PROVE at <= keysSince'[k]
    <3>1. gone[k] = Nil
      <4>1. tick # Nil
        BY <2>1 DEF Verifier!KeySetAssumption
      <4>2. QED
        BY <2>3, <4>1
    <3>2. CASE k <= signer
      BY <2>3, <3>1, <3>2 DEF Reflects
    <3>3. CASE signer < k
      BY <2>3, <3>3
    <3>4. QED
      BY <2>1, <3>2, <3>3
  <2>4. QED
    BY <2>2, <2>3
<1>2. Copies'
  <2>1. ASSUME NEW k \in Verifier!Kids
        PROVE  /\ gone'[k] # Nil => gone'[k] <= tick
               /\ until'[k] # Nil => until'[k] <= tick
               /\ keysSince'[k] # Nil => keysSince'[k] <= tick
    <3>1. /\ k \in Nat /\ tick \in Nat /\ signer \in Nat
          /\ gone[k] # Nil => gone[k] <= tick
          /\ until[k] # Nil => until[k] <= tick
          /\ keysSince[k] # Nil => keysSince[k] <= tick
      BY KeysFacts DEF KeysInv, Copies
    <3>2. keysSince'[k] # Nil => k <= signer'
      BY DEF Verifier!TypeOK
    <3>3. QED
      BY <3>1, <3>2
  <2>2. set # Nil => /\ set.at - MaxFetch \in Int /\ set.at - MaxFetch <= tick
                     /\ Reflects(set.keys, set.at - MaxFetch)
    BY KeysFacts DEF KeysInv, Copies
  <2>3. load # Nil => load.asked \in Int /\ load.asked <= tick
    BY KeysFacts DEF KeysInv, Copies
  <2>4. load # Nil /\ load.keys # Nil => Reflects(load.keys, load.asked)
    BY DEF KeysInv, Copies
  <2>5. set # Nil => \A k \in Verifier!Kids :
              /\ k \in set.keys => k <= signer' /\ (gone'[k] # Nil => set.at - MaxFetch <= gone'[k])
              /\ k \notin set.keys /\ k <= signer' /\ gone'[k] = Nil => set.at - MaxFetch <= keysSince'[k]
    BY <1>1, <2>2
  <2>6. load # Nil /\ load.keys # Nil => \A k \in Verifier!Kids :
              /\ k \in load.keys => k <= signer' /\ (gone'[k] # Nil => load.asked <= gone'[k])
              /\ k \notin load.keys /\ k <= signer' /\ gone'[k] = Nil => load.asked <= keysSince'[k]
    BY <1>1, <2>3, <2>4
  <2>7. (set # Nil => Reflects(set.keys, set.at - MaxFetch))'
    BY <2>5 DEF Reflects
  <2>8. (load # Nil /\ load.keys # Nil => Reflects(load.keys, load.asked))'
    BY <2>6 DEF Reflects
  <2>9. (load # Nil => load.asked <= tick /\ tick <= load.asked + MaxFetch)'
    BY DEF KeysInv, Copies
  <2>10. (\A k \in Verifier!Kids : /\ gone[k] # Nil => gone[k] <= tick
                                   /\ until[k] # Nil => until[k] <= tick
                                   /\ keysSince[k] # Nil => keysSince[k] <= tick)'
    BY <2>1
  <2>11. QED
    BY <2>7, <2>8, <2>9, <2>10 DEF Copies
<1>3. (\A r \in Verifications : Genuine(verifying[r]) /\ Prompt(verifying[r]) /\ Found(verifying[r]))'
  <2> SUFFICES ASSUME NEW r \in Verifications PROVE (Genuine(verifying[r]) /\ Prompt(verifying[r]) /\ Found(verifying[r]))'
    OBVIOUS
  <2> DEFINE q == verifying[r]
  <2>1. /\ q \in VerificationStates /\ q.began <= tick /\ q.began \in Nat /\ q.exp \in Nat
        /\ q.kid # Verifier!Forged => q.kid \in Verifier!Kids
    BY KeysFacts DEF VerificationStates
  <2>2. Genuine(q) /\ Prompt(q) /\ Found(q) /\ verifying'[r] = q
    BY DEF KeysInv
  <2>3. tick \in Nat /\ signer \in Nat /\ Life \in Nat /\ tick # Nil
    BY KeysFacts DEF Verifier!KeySetAssumption
  <2> HIDE DEF q
  <2>4. Genuine(q)'
    <3>1. ASSUME q.kid # Verifier!Forged
          PROVE  /\ q.kid <= signer' /\ keysSince'[q.kid] <= q.began
                 /\ q.exp <= (IF until'[q.kid] = Nil THEN q.began ELSE until'[q.kid]) + Life
      <4>1. q.kid \in Verifier!Kids /\ q.kid \in Nat /\ q.kid <= signer /\ keysSince[q.kid] <= q.began
            /\ q.exp <= (IF until[q.kid] = Nil THEN q.began ELSE until[q.kid]) + Life
        BY <2>1, <2>2, <3>1, KeysFacts DEF Genuine
      <4>2. q.kid <= signer' /\ keysSince'[q.kid] <= q.began
        BY <2>3, <4>1
      <4>3. CASE until'[q.kid] = until[q.kid]
        BY <4>1, <4>2, <4>3
      <4>4. CASE until[q.kid] = Nil /\ until'[q.kid] = tick
        BY <2>1, <2>3, <4>1, <4>2, <4>4
      <4>5. QED
        BY <4>1, <4>3, <4>4
    <3>2. q' = q
      BY DEF q
    <3>3. QED
      BY <2>2, <3>1, <3>2 DEF Genuine
  <2>5. Prompt(q)'
    <3>1. q' = q
      BY DEF q
    <3>2. QED
      BY <2>2, <3>1 DEF Prompt, Verifier!Fresh
  <2>6. Found(q)'
    <3>1. q' = q
      BY DEF q
    <3>2. q.kid # Verifier!Forged /\ gone'[q.kid] = Nil => gone[q.kid] = Nil /\ keysSince'[q.kid] = keysSince[q.kid]
      BY <2>1, <2>2, <2>3 DEF Genuine
    <3>3. QED
      BY <2>2, <3>1, <3>2 DEF Found, Verifier!CoolingDown
  <2>7. QED
    BY <2>4, <2>5, <2>6 DEF q
<1>4. QED
  BY <1>2, <1>3 DEF KeysInv

\* A key that begins to sign: the signer before it stops, and those no longer published are gone.
LEMMA SignKeeps ==
  ASSUME Verifier!KeySetAssumption, KeysInv, UNCHANGED <<tick, set, load, verifying>>, signer < MaxKeys,
         NEW kept \in SUBSET Verifier!Kids, Verifier!SignWith(signer + 1, kept),
         signer + 1 \in kept, kept \ {signer + 1} \subseteq published
  PROVE  KeysInv'
<1>1. /\ tick \in Nat /\ signer \in Nat /\ signer \in Verifier!Kids /\ signer + 1 \in Verifier!Kids /\ tick # Nil
      /\ signer \in published /\ published \subseteq Verifier!Kids
      /\ keysSince \in [Verifier!Kids -> Nat \cup {Nil}] /\ until \in [Verifier!Kids -> Nat \cup {Nil}]
      /\ gone \in [Verifier!Kids -> Nat \cup {Nil}]
      /\ \A k \in Verifier!Kids : keysSince[k] # Nil <=> k <= signer
      /\ \A k \in Verifier!Kids : until[k] # Nil <=> k < signer
      /\ \A k \in Verifier!Kids : gone[k] # Nil <=> k < signer /\ k \notin published
  BY DEF KeysInv, Verifier!TypeOK, Verifier!Kids, Verifier!KeySetAssumption
<1>2. /\ signer' = signer + 1 /\ published' = kept
      /\ keysSince' \in [Verifier!Kids -> Nat \cup {Nil}] /\ until' \in [Verifier!Kids -> Nat \cup {Nil}]
      /\ gone' \in [Verifier!Kids -> Nat \cup {Nil}]
      /\ \A k \in Verifier!Kids : /\ keysSince'[k] = IF k = signer + 1 THEN tick ELSE keysSince[k]
                                  /\ until'[k] = IF k = signer THEN tick ELSE until[k]
                                  /\ gone'[k] = IF k \in published \ kept THEN tick ELSE gone[k]
  BY <1>1 DEF Verifier!SignWith
<1>3. \A k \in Verifier!Kids : k \in Nat /\ (k \in published => k <= signer)
  <2>1. ASSUME NEW k \in published PROVE k <= signer
    BY <2>1 DEF KeysInv, Copies
  <2>2. QED
    BY <2>1 DEF Verifier!Kids
<1>4. Verifier!TypeOK'
  <2>1. \A k \in Verifier!Kids : keysSince'[k] # Nil <=> k <= signer'
    BY <1>1, <1>2, <1>3
  <2>2. \A k \in Verifier!Kids : until'[k] # Nil <=> k < signer'
    BY <1>1, <1>2, <1>3
  <2>3. \A k \in Verifier!Kids : gone'[k] # Nil <=> k < signer' /\ k \notin published'
    BY <1>1, <1>2, <1>3
  <2>4. QED
    BY <1>1, <1>2, <2>1, <2>2, <2>3 DEF KeysInv, Verifier!TypeOK
<1>5. signer' \in Nat /\ signer <= signer' /\ \A k \in published' : k <= signer'
  BY <1>1, <1>2, <1>3
<1>6. ASSUME NEW k \in Verifier!Kids
      PROVE  /\ k <= signer => keysSince'[k] = keysSince[k]
             /\ signer < k /\ k <= signer' => keysSince'[k] = tick
             /\ until'[k] = until[k] \/ (until[k] = Nil /\ until'[k] = tick)
             /\ gone'[k] = gone[k] \/ (gone[k] = Nil /\ gone'[k] = tick)
  BY <1>1, <1>2, <1>3
<1>7. QED
  BY <1>4, <1>5, <1>6, SetMoves

LEMMA RotateKeeps == ASSUME Verifier!KeySetAssumption, KeysInv, Verifier!Rotate PROVE KeysInv'
<1> DEFINE kept == published \cup {signer + 1}
<1>1. published \subseteq Verifier!Kids /\ signer + 1 \in Verifier!Kids
  BY DEF KeysInv, Verifier!TypeOK, Verifier!Kids, Verifier!Rotate, Verifier!KeySetAssumption
<1>2. kept \in SUBSET Verifier!Kids /\ signer + 1 \in kept /\ kept \ {signer + 1} \subseteq published
  BY <1>1
<1>3. signer < MaxKeys /\ Verifier!SignWith(signer + 1, kept) /\ UNCHANGED <<tick, set, load, verifying>>
  BY DEF Verifier!Rotate
<1> HIDE DEF kept
<1>4. QED
  BY <1>2, <1>3, SignKeeps

LEMMA ReplaceKeeps == ASSUME Verifier!KeySetAssumption, KeysInv, Verifier!Replace PROVE KeysInv'
<1> DEFINE kept == {signer + 1}
<1>1. signer + 1 \in Verifier!Kids
  BY DEF KeysInv, Verifier!TypeOK, Verifier!Kids, Verifier!Replace, Verifier!KeySetAssumption
<1>2. kept \in SUBSET Verifier!Kids /\ signer + 1 \in kept /\ kept \ {signer + 1} \subseteq published
  BY <1>1
<1>3. signer < MaxKeys /\ Verifier!SignWith(signer + 1, kept) /\ UNCHANGED <<tick, set, load, verifying>>
  BY DEF Verifier!Replace
<1> HIDE DEF kept
<1>4. QED
  BY <1>2, <1>3, SignKeeps

LEMMA DropKeeps == ASSUME Verifier!KeySetAssumption, KeysInv, Verifier!Drop PROVE KeysInv'
<1>1. /\ tick \in Nat /\ signer \in Nat /\ signer \in published /\ published \subseteq Verifier!Kids /\ tick # Nil
      /\ gone \in [Verifier!Kids -> Nat \cup {Nil}]
      /\ \A k \in Verifier!Kids : gone[k] # Nil <=> k < signer /\ k \notin published
      /\ \A k \in published : k <= signer
      /\ \A k \in Verifier!Kids : k \in Nat
  BY DEF KeysInv, Verifier!TypeOK, Copies, Verifier!Kids, Verifier!KeySetAssumption
<1>2. /\ published' = {signer} /\ UNCHANGED <<tick, signer, keysSince, until, set, load, verifying>>
      /\ gone' \in [Verifier!Kids -> Nat \cup {Nil}]
      /\ \A k \in Verifier!Kids : gone'[k] = IF k \in published \ {signer} THEN tick ELSE gone[k]
  BY <1>1 DEF Verifier!Drop
<1>3. Verifier!TypeOK'
  <2>1. \A k \in Verifier!Kids : gone'[k] # Nil <=> k < signer /\ k \notin published'
    BY <1>1, <1>2
  <2>2. QED
    BY <1>1, <1>2, <2>1 DEF KeysInv, Verifier!TypeOK
<1>4. signer' \in Nat /\ signer <= signer' /\ \A k \in published' : k <= signer'
  BY <1>1, <1>2
<1>5. ASSUME NEW k \in Verifier!Kids
      PROVE  /\ k <= signer => keysSince'[k] = keysSince[k]
             /\ signer < k /\ k <= signer' => keysSince'[k] = tick
             /\ until'[k] = until[k] \/ (until[k] = Nil /\ until'[k] = tick)
             /\ gone'[k] = gone[k] \/ (gone[k] = Nil /\ gone'[k] = tick)
  BY <1>1, <1>2
<1>6. QED
  BY <1>2, <1>3, <1>4, <1>5, SetMoves

----------------------------------------------------------------------------
(* The loads. *)

LEMMA PublishKeeps == ASSUME Verifier!KeySetAssumption, KeysInv, Verifier!Publish PROVE KeysInv'
<1>1. /\ load # Nil /\ load.keys = Nil /\ load \in Verifier!Loads
      /\ UNCHANGED <<tick, published, signer, keysSince, until, gone, set, verifying>>
  BY KeysFacts DEF Verifier!Publish, Verifier!opVars
<1>2. /\ load' \in Verifier!Loads /\ load'.asked = load.asked /\ load'.keys = published /\ load' # Nil
      /\ published \subseteq Verifier!Kids
  BY <1>1, KeysFacts DEF Verifier!Publish, Verifier!Loads, Verifier!KeySetAssumption
<1>3. Verifier!TypeOK'
  BY <1>1, <1>2 DEF KeysInv, Verifier!TypeOK
<1>4. \A k \in Verifier!Kids : /\ k \in published => k <= signer /\ gone[k] = Nil
                               /\ k \notin published /\ k <= signer => gone[k] # Nil
  BY KeysFacts DEF KeysInv, Copies
<1>5. Copies'
  <2>1. Reflects(load.keys, load.asked)'
    BY <1>1, <1>2, <1>4 DEF Reflects
  <2>2. (set # Nil => Reflects(set.keys, set.at - MaxFetch))'
    BY <1>1 DEF KeysInv, Copies, Reflects
  <2>3. QED
    BY <1>1, <1>2, <2>1, <2>2 DEF KeysInv, Copies
<1>6. ASSUME NEW r \in Verifications
      PROVE  (Genuine(verifying[r]) /\ Prompt(verifying[r]) /\ Found(verifying[r]))'
  <2> DEFINE q == verifying[r]
  <2>1. Genuine(q) /\ Prompt(q) /\ Found(q) /\ (q.kid # Verifier!Forged => q.kid \in Verifier!Kids /\ q.kid <= signer)
    BY KeysFacts DEF KeysInv, Genuine, VerificationStates
  <2>2. q' = q
    BY <1>1
  <2> HIDE DEF q
  <2>3. Genuine(q)'
    BY <1>1, <2>1, <2>2 DEF Genuine
  <2>4. Prompt(q)'
    BY <1>1, <1>2, <2>1, <2>2 DEF Prompt, Verifier!Fresh
  <2>5. Found(q)'
    BY <1>1, <1>2, <1>4, <2>1, <2>2 DEF Found, Verifier!CoolingDown
  <2>6. QED
    BY <2>3, <2>4, <2>5 DEF q
<1>7. QED
  BY <1>3, <1>5, <1>6 DEF KeysInv

LEMMA LandKeeps == ASSUME Verifier!KeySetAssumption, KeysInv, Verifier!Land PROVE KeysInv'
<1>1. /\ load # Nil /\ load.keys # Nil /\ load \in Verifier!Loads /\ load.keys \subseteq Verifier!Kids
      /\ load.asked \in Nat /\ load.asked <= tick /\ tick <= load.asked + MaxFetch
      /\ Reflects(load.keys, load.asked)
      /\ UNCHANGED <<tick, published, signer, keysSince, until, gone>>
  BY KeysFacts DEF Verifier!Land, Verifier!opVars, KeysInv, Copies
<1>2. /\ set' = [keys |-> load.keys, at |-> tick] /\ load' = Nil /\ tick \in Nat
      /\ set' \in Verifier!Sets /\ set'.keys = load.keys /\ set'.at = tick /\ set' # Nil
  BY <1>1, KeysFacts DEF Verifier!Land, Verifier!Sets, Verifier!KeySetAssumption
<1>3. \A r \in Verifications : verifying[r] \in VerificationStates /\ verifying[r].began <= tick
  BY KeysFacts
<1>4. /\ DOMAIN verifying' = Verifications
      /\ \A r \in Verifications :
           /\ verifying[r].pc = "first" => verifying'[r] = [verifying[r] EXCEPT !.pc = "lookup"]
           /\ verifying[r].pc = "second" => verifying'[r] = [verifying[r] EXCEPT !.pc = "again"]
           /\ verifying[r].pc \in {"verify", "lookup", "missed", "again"} => verifying'[r] = [verifying[r] EXCEPT !.crossed = TRUE]
           /\ verifying[r].pc \in Verifier!Answers => verifying'[r] = verifying[r]
  BY DEF Verifier!Land, Verifier!Answers
<1>5. ASSUME NEW r \in Verifications
      PROVE  /\ verifying'[r] \in VerificationStates /\ verifying'[r].began = verifying[r].began /\ verifying'[r].exp = verifying[r].exp
             /\ verifying'[r].kid = verifying[r].kid /\ verifying'[r].cooling = verifying[r].cooling
             /\ verifying[r].pc = "first" => verifying'[r].pc = "lookup" /\ verifying'[r].crossed = verifying[r].crossed
             /\ verifying[r].pc = "second" => verifying'[r].pc = "again" /\ verifying'[r].crossed = verifying[r].crossed
             /\ verifying[r].pc \in {"verify", "lookup", "missed", "again"} =>
                   verifying'[r].pc = verifying[r].pc /\ verifying'[r].crossed
             /\ verifying[r].pc \in Verifier!Answers => verifying'[r].pc = verifying[r].pc
             /\ verifying[r].pc \in Verifier!Answers \cup {"first", "second", "verify", "lookup", "missed", "again"}
             /\ verifying'[r].pc \notin Verifier!Waiting
  <2> DEFINE q == verifying[r]
  <2>1. /\ q \in VerificationStates /\ q.pc \in Verifier!Answers \cup {"first", "second", "verify", "lookup", "missed", "again"}
    BY <1>3 DEF VerificationStates, Verifier!Waiting
  <2>2. CASE q.pc \in Verifier!Answers
    BY <1>4, <2>1, <2>2 DEF Verifier!Answers, Verifier!Waiting
  <2>3. CASE q.pc \in {"verify", "lookup", "missed", "again"}
    <3>1. verifying'[r] = [q EXCEPT !.crossed = TRUE]
      BY <1>4, <2>3
    <3> HIDE DEF q
    <3>2. /\ verifying'[r] \in VerificationStates /\ verifying'[r].began = q.began /\ verifying'[r].exp = q.exp /\ verifying'[r].kid = q.kid
          /\ verifying'[r].cooling = q.cooling /\ verifying'[r].pc = q.pc /\ verifying'[r].crossed
      BY <2>1, <3>1 DEF VerificationStates
    <3>3. QED
      BY <2>1, <2>3, <3>2 DEF q, Verifier!Answers, Verifier!Waiting
  <2>4. CASE q.pc \in {"first", "second"}
    <3> DEFINE pc == IF q.pc = "first" THEN "lookup" ELSE "again"
    <3>1. verifying'[r] = [q EXCEPT !.pc = pc]
      BY <1>4, <2>4
    <3> HIDE DEF q
    <3>2. /\ verifying'[r] \in VerificationStates /\ verifying'[r].began = q.began /\ verifying'[r].exp = q.exp /\ verifying'[r].kid = q.kid
          /\ verifying'[r].cooling = q.cooling /\ verifying'[r].pc = pc /\ verifying'[r].crossed = q.crossed
      BY <2>1, <3>1 DEF VerificationStates
    <3>3. QED
      BY <2>1, <2>4, <3>2 DEF q, Verifier!Answers, Verifier!Waiting
  <2>5. QED
    BY <2>1, <2>2, <2>3, <2>4
<1>6. Verifier!TypeOK'
  <2>1. verifying' \in [Verifications -> VerificationStates]
    BY <1>4, <1>5 DEF Verifier!Land
  <2>2. QED
    BY <1>1, <1>2, <1>3, <1>5, <2>1 DEF KeysInv, Verifier!TypeOK, VerificationStates
<1>7. MaxFetch \in Nat /\ MaxAge \in Nat \ {0} /\ Cooldown \in Nat
  BY KeysFacts
<1>8. Copies'
  <2>1. tick - MaxFetch \in Int /\ tick - MaxFetch <= load.asked
    BY <1>1, <1>2, <1>7
  <2>2. \A k \in Verifier!Kids :
            /\ k \in load.keys => k <= signer /\ (gone[k] # Nil => tick - MaxFetch <= gone[k])
            /\ k \notin load.keys /\ k <= signer /\ gone[k] = Nil => tick - MaxFetch <= keysSince[k]
    BY <1>1, <2>1, KeysFacts DEF Reflects
  <2>3. (set # Nil => Reflects(set.keys, set.at - MaxFetch))'
    BY <1>1, <1>2, <2>2 DEF Reflects
  <2>4. QED
    BY <1>1, <1>2, <2>3 DEF KeysInv, Copies
<1>9. ASSUME NEW r \in Verifications
      PROVE  (Genuine(verifying[r]) /\ Prompt(verifying[r]) /\ Found(verifying[r]))'
  <2> DEFINE q == verifying[r]
  <2>1. Genuine(q) /\ Prompt(q) /\ Found(q)
    BY DEF KeysInv
  <2>2. /\ q'.began = q.began /\ q'.exp = q.exp /\ q'.kid = q.kid /\ q'.cooling = q.cooling
        /\ q.pc = "first" => q'.pc = "lookup" /\ q'.crossed = q.crossed
        /\ q.pc = "second" => q'.pc = "again" /\ q'.crossed = q.crossed
        /\ q.pc \in {"verify", "lookup", "missed", "again"} => q'.pc = q.pc /\ q'.crossed
        /\ q.pc \in Verifier!Answers => q'.pc = q.pc
        /\ q.pc \in Verifier!Answers \cup {"first", "second", "verify", "lookup", "missed", "again"}
        /\ q.began \in Nat /\ q.began <= tick
    BY <1>3, <1>5 DEF VerificationStates
  <2> HIDE DEF q
  <2>3. Genuine(q)'
    BY <1>1, <2>1, <2>2 DEF Genuine, Verifier!Answers
  <2>4. Prompt(q)'
    <3>1. Verifier!Fresh'
      BY <1>1, <1>2, <1>7 DEF Verifier!Fresh
    <3>2. q.cooling /\ q.pc \in {"verify", "lookup"} => q.began < tick + Cooldown
      BY <1>2, <2>2, KeysFacts DEF Verifier!KeySetAssumption
    <3>3. q.cooling /\ q.pc = "second" => tick <= q.began + 1 + MaxFetch
      BY <1>1, <1>2, <1>7, <2>1, <2>2 DEF Prompt
    <3>4. QED
      BY <1>1, <1>2, <2>1, <2>2, <3>1, <3>2, <3>3 DEF Prompt, Verifier!Answers
  <2>5. Found(q)'
    BY <1>1, <1>2, <2>1, <2>2 DEF Found, Verifier!Answers, Verifier!Waiting
  <2>6. QED
    BY <2>3, <2>4, <2>5 DEF q
<1>10. QED
  BY <1>6, <1>8, <1>9 DEF KeysInv

LEMMA LoadFailsKeeps == ASSUME Verifier!KeySetAssumption, KeysInv, Verifier!LoadFails PROVE KeysInv'
<1>1. load' = Nil /\ UNCHANGED <<tick, published, signer, keysSince, until, gone, set>>
  BY DEF Verifier!LoadFails, Verifier!opVars
<1>2. /\ Verifier!Answered("503") \in VerificationStates /\ Verifier!Answered("503").kid = Verifier!Forged /\ Verifier!Answered("503").pc = "503"
      /\ Verifier!Answered("503").began = 0 /\ ~Verifier!Answered("503").cooling
  BY DEF Verifier!Answered, VerificationStates, Verifier!Answers
<1>3. \A r \in Verifications : /\ verifying[r].pc \in Verifier!Waiting => verifying'[r] = Verifier!Answered("503")
                               /\ verifying[r].pc \notin Verifier!Waiting => verifying'[r] = verifying[r]
  BY DEF Verifier!LoadFails
<1>4. \A r \in Verifications : verifying'[r] \in VerificationStates /\ verifying'[r].began <= tick /\ verifying'[r].pc \notin Verifier!Waiting
  BY <1>2, <1>3, KeysFacts DEF Verifier!Waiting
<1>5. Verifier!TypeOK'
  <2>1. verifying' \in [Verifications -> VerificationStates]
    BY <1>4 DEF Verifier!LoadFails
  <2>2. QED
    BY <1>1, <1>4, <2>1 DEF KeysInv, Verifier!TypeOK, VerificationStates
<1>6. Copies'
  <2>1. (set # Nil => Reflects(set.keys, set.at - MaxFetch))'
    BY <1>1 DEF KeysInv, Copies, Reflects
  <2>2. QED
    BY <1>1, <2>1 DEF KeysInv, Copies
<1>7. ASSUME NEW r \in Verifications
      PROVE  (Genuine(verifying[r]) /\ Prompt(verifying[r]) /\ Found(verifying[r]))'
  <2>1. CASE verifying[r].pc \in Verifier!Waiting
    BY <1>2, <1>3, <2>1 DEF Genuine, Prompt, Found, Verifier!Answers
  <2>2. CASE verifying[r].pc \notin Verifier!Waiting
    <3>1. Genuine(verifying[r]) /\ Prompt(verifying[r]) /\ Found(verifying[r]) /\ verifying'[r] = verifying[r]
      BY <1>3, <2>2 DEF KeysInv
    <3>2. Genuine(verifying[r])'
      BY <1>1, <3>1 DEF Genuine
    <3>3. Prompt(verifying[r])'
      BY <1>1, <3>1, <2>2 DEF Prompt, Verifier!Fresh, Verifier!Waiting
    <3>4. Found(verifying[r])'
      BY <1>1, <3>1, <2>2 DEF Found, Verifier!CoolingDown
    <3>5. QED
      BY <3>2, <3>3, <3>4
  <2>3. QED
    BY <2>1, <2>2
<1>8. QED
  BY <1>5, <1>6, <1>7 DEF KeysInv

----------------------------------------------------------------------------
(* The requests. *)

\* A request that goes on while nothing else moves.
LEMMA VerificationMoves ==
  ASSUME Verifier!KeySetAssumption, KeysInv, UNCHANGED <<tick, Verifier!opVars, set, load>>,
         NEW r \in Verifications, NEW q \in VerificationStates,
         verifying' = [verifying EXCEPT ![r] = q], q.began <= tick, q.pc \notin Verifier!Waiting,
         Genuine(q), Prompt(q), Found(q)
  PROVE  KeysInv'
<1>1. UNCHANGED <<tick, published, signer, keysSince, until, gone, set, load>>
  BY DEF Verifier!opVars
<1>2. \A o \in Verifications : verifying'[o] = IF o = r THEN q ELSE verifying[o]
  BY DEF KeysInv, Verifier!TypeOK
<1>3. Verifier!TypeOK'
  <2>1. verifying' \in [Verifications -> VerificationStates]
    BY DEF KeysInv, Verifier!TypeOK, VerificationStates
  <2>2. \A o \in Verifications : verifying'[o].began <= tick /\ (verifying'[o].pc \in Verifier!Waiting => verifying[o].pc \in Verifier!Waiting)
    BY <1>2, KeysFacts
  <2>3. (\E o \in Verifications : verifying'[o].pc \in Verifier!Waiting) => load # Nil
    BY <2>2 DEF KeysInv, Verifier!TypeOK
  <2>4. QED
    BY <1>1, <2>1, <2>2, <2>3 DEF KeysInv, Verifier!TypeOK, VerificationStates
<1>4. Copies'
  BY <1>1 DEF KeysInv, Copies, Reflects
<1>5. ASSUME NEW o \in Verifications
      PROVE  (Genuine(verifying[o]) /\ Prompt(verifying[o]) /\ Found(verifying[o]))'
  <2>1. Genuine(verifying'[o]) /\ Prompt(verifying'[o]) /\ Found(verifying'[o])
    BY <1>2 DEF KeysInv
  <2>2. Genuine(verifying[o])'
    BY <1>1, <2>1 DEF Genuine
  <2>3. Prompt(verifying[o])'
    BY <1>1, <2>1 DEF Prompt, Verifier!Fresh
  <2>4. Found(verifying[o])'
    BY <1>1, <2>1 DEF Found, Verifier!CoolingDown
  <2>5. QED
    BY <2>2, <2>3, <2>4
<1>6. QED
  BY <1>3, <1>4, <1>5 DEF KeysInv

\* A request that is answered.
LEMMA VerdictKeeps ==
  ASSUME Verifier!KeySetAssumption, KeysInv, UNCHANGED <<tick, Verifier!opVars, set, load>>,
         NEW r \in Verifications,
         NEW answer \in Verifier!Answers, verifying' = [verifying EXCEPT ![r] = Verifier!Answered(answer)]
  PROVE  KeysInv'
<1> DEFINE q == Verifier!Answered(answer)
<1>1. q \in VerificationStates /\ q.kid = Verifier!Forged /\ q.pc = answer /\ q.began = 0 /\ ~q.cooling
  BY DEF Verifier!Answered, VerificationStates
<1>2. q.began <= tick
  BY <1>1, KeysFacts
<1>3. verifying' = [verifying EXCEPT ![r] = q]
  OBVIOUS
<1> HIDE DEF q
<1>4. Genuine(q) /\ Prompt(q) /\ Found(q) /\ q.pc \notin Verifier!Waiting
  BY <1>1 DEF Genuine, Prompt, Found, Verifier!Answers, Verifier!Waiting
<1>5. QED
  BY <1>1, <1>2, <1>3, <1>4, VerificationMoves

\* A request that asks for a load, or waits for the one under way.
LEMMA ReloadKeeps ==
  ASSUME Verifier!KeySetAssumption, KeysInv, UNCHANGED <<tick, Verifier!opVars, set>>,
         NEW r \in Verifications, NEW pc, Verifier!Reload(r, pc),
         \/ pc = "first" /\ verifying[r].pc = "verify" /\ ~verifying[r].cooling
         \/ pc = "second" /\ verifying[r].pc = "missed"
  PROVE  KeysInv'
<1> DEFINE q == [verifying[r] EXCEPT !.pc = pc, !.crossed = @ \/ load # Nil]
<1>1. UNCHANGED <<tick, published, signer, keysSince, until, gone, set>>
  BY DEF Verifier!opVars
<1>2. /\ verifying[r] \in VerificationStates /\ verifying[r].began <= tick /\ tick \in Nat /\ verifying[r].began \in Nat
      /\ Genuine(verifying[r]) /\ Prompt(verifying[r]) /\ Found(verifying[r])
  BY KeysFacts DEF KeysInv, VerificationStates
<1>3. /\ q \in VerificationStates /\ q.pc = pc /\ q.kid = verifying[r].kid /\ q.exp = verifying[r].exp /\ q.began = verifying[r].began
      /\ q.cooling = verifying[r].cooling /\ (q.crossed <=> verifying[r].crossed \/ load # Nil)
  BY <1>2 DEF VerificationStates, Verifier!Waiting
<1>4. verifying' = [verifying EXCEPT ![r] = q]
  BY <1>2 DEF Verifier!Reload, VerificationStates
<1> HIDE DEF q
<1>5. \A o \in Verifications : verifying'[o] = IF o = r THEN q ELSE verifying[o]
  BY <1>4 DEF KeysInv, Verifier!TypeOK
<1>6. /\ load' # Nil /\ load' \in Verifier!Loads
      /\ load # Nil => load' = load
      /\ load = Nil => load'.asked = tick /\ load'.keys = Nil
      /\ load'.asked <= tick /\ tick <= load'.asked + MaxFetch
  <2>1. CASE load = Nil
    BY <2>1, <1>2, KeysFacts DEF Verifier!Reload, Verifier!Loads, Verifier!KeySetAssumption
  <2>2. CASE load # Nil
    BY <2>2, KeysFacts DEF Verifier!Reload, KeysInv, Copies
  <2>3. QED
    BY <2>1, <2>2
<1>7. Verifier!TypeOK'
  <2>1. verifying' \in [Verifications -> VerificationStates]
    BY <1>3, <1>4 DEF KeysInv, Verifier!TypeOK, VerificationStates
  <2>2. \A o \in Verifications : verifying'[o].began <= tick
    BY <1>2, <1>3, <1>5, KeysFacts
  <2>3. QED
    BY <1>1, <1>6, <2>1, <2>2 DEF KeysInv, Verifier!TypeOK, VerificationStates
<1>8. Copies'
  <2>1. (set # Nil => Reflects(set.keys, set.at - MaxFetch))'
    BY <1>1 DEF KeysInv, Copies, Reflects
  <2>2. (load # Nil /\ load.keys # Nil => Reflects(load.keys, load.asked))'
    BY <1>1, <1>6 DEF KeysInv, Copies, Reflects
  <2>3. QED
    BY <1>1, <1>6, <2>1, <2>2 DEF KeysInv, Copies
<1>9. ASSUME NEW o \in Verifications
      PROVE  (Genuine(verifying[o]) /\ Prompt(verifying[o]) /\ Found(verifying[o]))'
  <2>1. CASE o = r
    <3>1. verifying'[o] = q
      BY <1>5, <2>1
    <3>2. Genuine(verifying[o])'
      BY <1>1, <1>2, <1>3, <3>1 DEF Genuine, Verifier!Answers
    <3>3. Prompt(verifying[o])'
      <4>1. pc = "second" /\ q.cooling => load'.asked <= q.began + 1
        BY <1>2, <1>3, <1>6 DEF Prompt, Verifier!Loads
      <4>2. QED
        BY <1>1, <1>2, <1>3, <3>1, <4>1 DEF Prompt
    <3>4. Found(verifying[o])'
      BY <1>1, <1>2, <1>3, <1>6, <3>1 DEF Found, Verifier!Waiting
    <3>5. QED
      BY <3>2, <3>3, <3>4
  <2>2. CASE o # r
    <3>1. verifying'[o] = verifying[o] /\ Genuine(verifying[o]) /\ Prompt(verifying[o]) /\ Found(verifying[o])
      BY <1>5, <2>2 DEF KeysInv
    <3>2. verifying[o].pc \in Verifier!Waiting => load' = load
      BY <1>6 DEF KeysInv, Verifier!TypeOK
    <3>3. Genuine(verifying[o])'
      BY <1>1, <3>1 DEF Genuine
    <3>4. Prompt(verifying[o])'
      BY <1>1, <3>1, <3>2 DEF Prompt, Verifier!Fresh, Verifier!Waiting
    <3>5. Found(verifying[o])'
      BY <1>1, <3>1, <3>2 DEF Found, Verifier!CoolingDown
    <3>6. QED
      BY <3>3, <3>4, <3>5
  <2>3. QED
    BY <2>1, <2>2
<1>10. QED
  BY <1>7, <1>8, <1>9 DEF KeysInv

LEMMA VerifyKeeps == ASSUME Verifier!KeySetAssumption, KeysInv, NEW r \in Verifications, Verifier!Begin(r) PROVE KeysInv'
<1>0. PICK kid \in Verifier!Kids \cup {Verifier!Forged} : \E exp \in IF kid = Verifier!Forged THEN {tick + Life} ELSE Verifier!Expiries(kid) :
          verifying' = [verifying EXCEPT ![r] =
                    IF Verifier!ExpiredBeforeVerifying(exp) THEN Verifier!Answered("401")
                    ELSE [pc |-> "verify", kid |-> kid, exp |-> exp, began |-> tick,
                          cooling |-> Verifier!CoolingDown, crossed |-> FALSE]]
  BY DEF Verifier!Begin
<1>1. PICK exp \in IF kid = Verifier!Forged THEN {tick + Life} ELSE Verifier!Expiries(kid) :
          verifying' = [verifying EXCEPT ![r] =
                    IF Verifier!ExpiredBeforeVerifying(exp) THEN Verifier!Answered("401")
                    ELSE [pc |-> "verify", kid |-> kid, exp |-> exp, began |-> tick,
                          cooling |-> Verifier!CoolingDown, crossed |-> FALSE]]
  BY <1>0
<1>2. UNCHANGED <<tick, Verifier!opVars, set, load>>
  BY DEF Verifier!Begin
<1>3. CASE Verifier!ExpiredBeforeVerifying(exp)
  BY <1>1, <1>2, <1>3, VerdictKeeps DEF Verifier!Answers
<1>4. CASE ~Verifier!ExpiredBeforeVerifying(exp)
  <2> DEFINE q == [pc |-> "verify", kid |-> kid, exp |-> exp, began |-> tick,
                   cooling |-> Verifier!CoolingDown, crossed |-> FALSE]
  <2>1. tick \in Nat /\ Life \in Nat
    BY KeysFacts
  <2>2. kid # Verifier!Forged => /\ kid \in Verifier!Kids /\ kid <= signer /\ keysSince[kid] \in Nat /\ keysSince[kid] <= tick
                                 /\ exp \in Nat /\ exp <= (IF until[kid] = Nil THEN tick ELSE until[kid]) + Life
    <3> SUFFICES ASSUME kid # Verifier!Forged
                 PROVE  /\ kid \in Verifier!Kids /\ kid <= signer /\ keysSince[kid] \in Nat /\ keysSince[kid] <= tick
                        /\ exp \in Nat /\ exp <= (IF until[kid] = Nil THEN tick ELSE until[kid]) + Life
      OBVIOUS
    <3>1. kid \in Verifier!Kids /\ keysSince[kid] # Nil /\ kid <= signer /\ keysSince[kid] \in Nat
      BY <1>1, KeysFacts DEF Verifier!Expiries, KeysInv, Verifier!TypeOK
    <3>2. PICK at \in keysSince[kid]..(IF until[kid] = Nil THEN tick ELSE until[kid]) : exp = at + Life
      BY <1>1, <3>1 DEF Verifier!Expiries
    <3>3. (IF until[kid] = Nil THEN tick ELSE until[kid]) <= tick
      BY <2>1, <3>1 DEF KeysInv, Copies
    <3>4. (IF until[kid] = Nil THEN tick ELSE until[kid]) \in Nat
      BY <2>1, <3>1 DEF KeysInv, Verifier!TypeOK
    <3>5. QED
      BY <2>1, <3>1, <3>2, <3>3, <3>4
  <2>3. exp \in Nat /\ tick < exp
    <3>1. exp \in Nat
      BY <1>1, <2>1, <2>2
    <3>2. QED
      BY <1>4, <2>1, <3>1 DEF Verifier!ExpiredBeforeVerifying
  <2>4. q \in VerificationStates /\ q.pc = "verify" /\ q.kid = kid /\ q.exp = exp /\ q.began = tick /\ (q.cooling <=> Verifier!CoolingDown)
    BY <2>1, <2>3 DEF VerificationStates, Verifier!CoolingDown
  <2>5. verifying' = [verifying EXCEPT ![r] = q]
    BY <1>1, <1>4
  <2> HIDE DEF q
  <2>6. Genuine(q)
    BY <2>2, <2>3, <2>4 DEF Genuine, Verifier!Answers
  <2>7. Prompt(q)
    BY <2>1, <2>4 DEF Prompt, Verifier!CoolingDown
  <2>8. Found(q) /\ q.pc \notin Verifier!Waiting
    BY <2>4 DEF Found, Verifier!Waiting
  <2>9. q.began <= tick
    BY <2>1, <2>4
  <2>10. QED
    BY <1>2, <2>4, <2>5, <2>6, <2>7, <2>8, <2>9, VerificationMoves
<1>5. QED
  BY <1>3, <1>4

LEMMA ResolveKeeps == ASSUME Verifier!KeySetAssumption, KeysInv, NEW r \in Verifications, Verifier!Resolve(r) PROVE KeysInv'
<1> DEFINE q == [verifying[r] EXCEPT !.pc = "lookup"]
<1>1. /\ verifying[r] \in VerificationStates /\ verifying[r].began <= tick /\ tick \in Nat /\ verifying[r].began \in Nat /\ verifying[r].pc = "verify"
      /\ Genuine(verifying[r]) /\ Prompt(verifying[r]) /\ Found(verifying[r])
      /\ UNCHANGED <<tick, Verifier!opVars, set>>
  BY KeysFacts DEF KeysInv, VerificationStates, Verifier!Resolve
<1>2. CASE Verifier!Fresh
  <2>1. verifying' = [verifying EXCEPT ![r] = q] /\ UNCHANGED load
    BY <1>2 DEF Verifier!Resolve
  <2>2. /\ q \in VerificationStates /\ q.pc = "lookup" /\ q.kid = verifying[r].kid /\ q.exp = verifying[r].exp /\ q.began = verifying[r].began
        /\ q.cooling = verifying[r].cooling /\ q.crossed = verifying[r].crossed
    BY <1>1 DEF VerificationStates
  <2> HIDE DEF q
  <2>3. Genuine(q) /\ Prompt(q) /\ Found(q) /\ q.pc \notin Verifier!Waiting
    BY <1>1, <1>2, <2>2 DEF Genuine, Prompt, Found, Verifier!Answers, Verifier!Waiting
  <2>4. QED
    BY <1>1, <2>1, <2>2, <2>3, VerificationMoves
<1>3. CASE ~Verifier!Fresh
  <2>1. ~verifying[r].cooling
    <3> SUFFICES ASSUME verifying[r].cooling PROVE FALSE
      OBVIOUS
    <3>1. set # Nil /\ verifying[r].began < set.at + Cooldown /\ tick <= verifying[r].began + 1
      BY <1>1 DEF Prompt
    <3>2. tick < set.at + MaxAge
      BY <1>1, <3>1, KeysFacts
    <3>3. QED
      BY <1>3, <3>1, <3>2 DEF Verifier!Fresh
  <2>2. Verifier!Reload(r, "first")
    BY <1>3 DEF Verifier!Resolve
  <2>3. QED
    BY <1>1, <2>1, <2>2, ReloadKeeps
<1>4. QED
  BY <1>2, <1>3

LEMMA LookupKeeps == ASSUME Verifier!KeySetAssumption, KeysInv, NEW r \in Verifications, Verifier!Lookup(r) PROVE KeysInv'
<1> DEFINE q == [verifying[r] EXCEPT !.pc = "missed"]
<1>1. /\ verifying[r] \in VerificationStates /\ verifying[r].began <= tick /\ tick \in Nat /\ verifying[r].began \in Nat /\ verifying[r].pc = "lookup"
      /\ Genuine(verifying[r]) /\ Prompt(verifying[r]) /\ Found(verifying[r])
      /\ UNCHANGED <<tick, Verifier!opVars, set, load>>
  BY KeysFacts DEF KeysInv, VerificationStates, Verifier!Lookup
<1>2. CASE verifying[r].kid \in set.keys
  <2>1. verifying' = [verifying EXCEPT ![r] = Verifier!Answered(Verifier!Judged(r))] /\ Verifier!Judged(r) \in Verifier!Answers
    BY <1>2 DEF Verifier!Lookup, Verifier!Judged, Verifier!Answers
  <2>2. QED
    BY <1>1, <2>1, VerdictKeeps
<1>3. CASE verifying[r].kid \notin set.keys
  <2>1. verifying' = [verifying EXCEPT ![r] = q]
    BY <1>3 DEF Verifier!Lookup
  <2>2. /\ q \in VerificationStates /\ q.pc = "missed" /\ q.kid = verifying[r].kid /\ q.exp = verifying[r].exp /\ q.began = verifying[r].began
        /\ q.cooling = verifying[r].cooling /\ q.crossed = verifying[r].crossed
    BY <1>1 DEF VerificationStates
  <2> HIDE DEF q
  <2>3. Genuine(q) /\ q.pc \notin Verifier!Waiting
    BY <1>1, <2>2 DEF Genuine, Verifier!Answers, Verifier!Waiting
  <2>4. Prompt(q)
    BY <1>1, <2>2 DEF Prompt
  <2>5. ASSUME q.cooling, q.kid # Verifier!Forged, gone[q.kid] = Nil PROVE q.began < keysSince[q.kid] + MaxFetch + Cooldown
    <3>1. set # Nil /\ q.began < set.at + Cooldown
      BY <1>1, <2>2, <2>5 DEF Prompt
    <3>2. q.kid \in Verifier!Kids /\ q.kid <= signer /\ q.kid \notin set.keys
      BY <1>1, <1>3, <2>2, <2>5 DEF Genuine, VerificationStates
    <3>3. set.at - MaxFetch <= keysSince[q.kid]
      BY <2>5, <3>1, <3>2 DEF KeysInv, Copies, Reflects
    <3>4. keysSince[q.kid] \in Nat /\ set.at \in Nat /\ MaxFetch \in Nat /\ Cooldown \in Nat /\ q.began \in Nat
      BY <1>1, <2>2, <3>1, <3>2, KeysFacts
    <3>5. QED
      BY <3>1, <3>3, <3>4
  <2>6. Found(q)
    BY <1>1, <1>3, <2>2, <2>5 DEF Found, Verifier!Waiting
  <2>7. QED
    BY <1>1, <2>1, <2>2, <2>3, <2>4, <2>6, VerificationMoves
<1>4. QED
  BY <1>2, <1>3

LEMMA MissedKeeps == ASSUME Verifier!KeySetAssumption, KeysInv, NEW r \in Verifications, Verifier!Missed(r) PROVE KeysInv'
<1>1. UNCHANGED <<tick, Verifier!opVars, set>> /\ verifying[r].pc = "missed"
  BY DEF Verifier!Missed
<1>2. CASE Verifier!CoolingDown
  <2>1. verifying' = [verifying EXCEPT ![r] = Verifier!Answered(Verifier!Unmatched(r))] /\ UNCHANGED load /\ Verifier!Unmatched(r) \in Verifier!Answers
    BY <1>2 DEF Verifier!Missed, Verifier!Unmatched, Verifier!Answers
  <2>2. QED
    BY <1>1, <2>1, VerdictKeeps
<1>3. CASE ~Verifier!CoolingDown
  <2>1. Verifier!Reload(r, "second")
    BY <1>3 DEF Verifier!Missed
  <2>2. QED
    BY <1>1, <2>1, ReloadKeeps
<1>4. QED
  BY <1>2, <1>3

LEMMA LookupAgainKeeps == ASSUME Verifier!KeySetAssumption, KeysInv, NEW r \in Verifications, Verifier!LookupAgain(r) PROVE KeysInv'
<1> DEFINE answer == IF verifying[r].kid \in set.keys THEN Verifier!Judged(r) ELSE Verifier!Unmatched(r)
<1>1. verifying' = [verifying EXCEPT ![r] = Verifier!Answered(answer)] /\ UNCHANGED <<tick, Verifier!opVars, set, load>>
  BY DEF Verifier!LookupAgain
<1>2. answer \in Verifier!Answers
  BY DEF Verifier!Judged, Verifier!Unmatched, Verifier!Answers
<1> HIDE DEF answer
<1>3. QED
  BY <1>1, <1>2, VerdictKeeps

LEMMA TickKeeps == ASSUME Verifier!KeySetAssumption, KeysInv, Verifier!Tick PROVE KeysInv'
<1>1. /\ tick \in Nat /\ tick' = tick + 1 /\ tick' <= LastTick
      /\ UNCHANGED <<published, signer, keysSince, until, gone, set, load, verifying>>
      /\ load # Nil => tick < load.asked + MaxFetch
      /\ \A r \in Verifications : /\ verifying[r].pc \notin {"lookup", "missed", "again"}
                                  /\ verifying[r].pc = "verify" => verifying[r].began = tick
  BY KeysFacts DEF Verifier!Tick, Verifier!opVars, Verifier!KeySetAssumption
<1>2. Verifier!TypeOK'
  <2>1. tick' \in 0..LastTick
    BY <1>1 DEF Verifier!KeySetAssumption
  <2>2. set # Nil => set.at <= tick'
    BY <1>1, KeysFacts
  <2>3. \A r \in Verifications : verifying[r].began <= tick'
    BY <1>1, KeysFacts DEF VerificationStates
  <2>4. QED
    BY <1>1, <2>1, <2>2, <2>3 DEF KeysInv, Verifier!TypeOK
<1>3. Copies'
  <2>1. (set # Nil => Reflects(set.keys, set.at - MaxFetch))'
    BY <1>1 DEF KeysInv, Copies, Reflects
  <2>2. (load # Nil /\ load.keys # Nil => Reflects(load.keys, load.asked))'
    BY <1>1 DEF KeysInv, Copies, Reflects
  <2>3. load # Nil => load.asked <= tick' /\ tick' <= load.asked + MaxFetch
    BY <1>1, KeysFacts DEF KeysInv, Copies
  <2>4. \A k \in Verifier!Kids : /\ gone[k] # Nil => gone[k] <= tick'
                                 /\ until[k] # Nil => until[k] <= tick'
                                 /\ keysSince[k] # Nil => keysSince[k] <= tick'
    BY <1>1 DEF KeysInv, Verifier!TypeOK, Copies
  <2>5. QED
    BY <1>1, <2>1, <2>2, <2>3, <2>4 DEF KeysInv, Copies
<1>4. ASSUME NEW r \in Verifications
      PROVE  (Genuine(verifying[r]) /\ Prompt(verifying[r]) /\ Found(verifying[r]))'
  <2>1. Genuine(verifying[r]) /\ Prompt(verifying[r]) /\ Found(verifying[r])
    BY DEF KeysInv
  <2>2. Genuine(verifying[r])'
    BY <1>1, <2>1 DEF Genuine
  <2>3. Prompt(verifying[r])'
    BY <1>1, <2>1 DEF Prompt
  <2>4. Verifier!CoolingDown' => Verifier!CoolingDown
    BY <1>1, KeysFacts DEF Verifier!CoolingDown
  <2>5. Found(verifying[r])'
    BY <1>1, <2>1, <2>4 DEF Found
  <2>6. QED
    BY <2>2, <2>3, <2>5
<1>5. QED
  BY <1>2, <1>3, <1>4 DEF KeysInv

LEMMA KeysNext == ASSUME Verifier!KeySetAssumption, KeysInv, [Verifier!Next]_(Verifier!vars) PROVE KeysInv'
<1>1. ASSUME NEW r \in Verifications, Verifier!Verifying(r) PROVE KeysInv'
  BY <1>1, VerifyKeeps, ResolveKeeps, LookupKeeps, MissedKeeps, LookupAgainKeeps DEF Verifier!Verifying
<1>2. CASE UNCHANGED Verifier!vars
  <2>1. UNCHANGED <<tick, published, signer, keysSince, until, gone, set, load, verifying>>
    BY <1>2 DEF Verifier!vars, Verifier!opVars
  <2>2. Verifier!TypeOK' /\ Copies'
    BY <2>1 DEF KeysInv, Verifier!TypeOK, Copies, Reflects
  <2>3. ASSUME NEW r \in Verifications
        PROVE  (Genuine(verifying[r]) /\ Prompt(verifying[r]) /\ Found(verifying[r]))'
    BY <2>1 DEF KeysInv, Genuine, Prompt, Found, Verifier!Fresh, Verifier!CoolingDown
  <2>4. QED
    BY <2>2, <2>3 DEF KeysInv
<1>3. QED
  BY <1>1, <1>2, RotateKeeps, DropKeeps, ReplaceKeeps, PublishKeeps, LandKeeps, LoadFailsKeeps,
       TickKeeps DEF Verifier!Next

----------------------------------------------------------------------------
(* The verdicts. *)

Stands(r) ==
    CASE verifying'[r].pc = "ok" -> Verifier!TakenInTime(verifying[r])
      [] verifying'[r].pc = "401" -> Verifier!RefusedForCause(verifying[r])
      [] verifying'[r].pc = "miss" -> Verifier!MissedForCause(verifying[r])
      [] OTHER -> TRUE

\* What was found in a fresh copy is taken only in time, and while it lives.
LEMMA JudgedStands ==
  ASSUME Verifier!KeySetAssumption, KeysInv, NEW r \in Verifications, verifying[r].pc \in {"lookup",
         "again"}, verifying[r].kid \in set.keys,
         verifying' = [verifying EXCEPT ![r] = Verifier!Answered(Verifier!Judged(r))]
  PROVE  Stands(r)
<1> DEFINE q == verifying[r]
<1>1. q \in VerificationStates /\ Genuine(q) /\ Prompt(q) /\ q.exp \in Nat /\ tick \in Nat
  BY KeysFacts DEF KeysInv, VerificationStates
<1>2. verifying'[r].pc = Verifier!Judged(r)
  BY DEF Verifier!Answered, KeysInv, Verifier!TypeOK
<1>3. set # Nil /\ tick < set.at + MaxAge
  BY <1>1 DEF Prompt, Verifier!Fresh
<1>4. q.kid \in Verifier!Kids /\ (gone[q.kid] # Nil => set.at - MaxFetch <= gone[q.kid])
  BY <1>3, KeysFacts DEF KeysInv, Copies, Reflects
<1>5. gone[q.kid] = Nil \/ tick < gone[q.kid] + MaxAge + MaxFetch
  BY <1>1, <1>3, <1>4, KeysFacts
<1>6. CASE q.exp <= tick
  <2>1. verifying'[r].pc = "401" /\ ~(q.exp > tick)
    BY <1>1, <1>2, <1>6 DEF Verifier!Judged
  <2>2. QED
    BY <2>1 DEF Stands, Verifier!RefusedForCause
<1>7. CASE ~(q.exp <= tick)
  <2>1. verifying'[r].pc = "ok" /\ q.exp > tick
    BY <1>1, <1>2, <1>7 DEF Verifier!Judged
  <2>2. QED
    BY <1>5, <2>1 DEF Stands, Verifier!TakenInTime
<1>8. QED
  BY <1>6, <1>7

\* A key in no copy: of a token that lives, one that is gone, or that a load crossed; and
\* when it is put down to the cooldown, one that has just begun to sign.
LEMMA UnmatchedStands ==
  ASSUME Verifier!KeySetAssumption, KeysInv, NEW r \in Verifications,
         \/ verifying[r].pc = "missed" /\ Verifier!CoolingDown
         \/ verifying[r].pc = "again" /\ verifying[r].kid \notin set.keys,
         verifying' = [verifying EXCEPT ![r] = Verifier!Answered(Verifier!Unmatched(r))]
  PROVE  Stands(r)
<1> DEFINE q == verifying[r]
<1>1. /\ q \in VerificationStates /\ Genuine(q) /\ Prompt(q) /\ Found(q)
      /\ q.exp \in Nat /\ q.began \in Nat /\ tick \in Nat /\ q.began <= tick
      /\ q.kid # Verifier!Forged => q.kid \in Verifier!Kids
      /\ q.pc \notin Verifier!Answers
  BY KeysFacts DEF KeysInv, VerificationStates, Verifier!Answers
<1>2. verifying'[r].pc = Verifier!Unmatched(r)
  BY DEF Verifier!Answered, KeysInv, Verifier!TypeOK
<1>3. CASE ~q.cooling
  <2>1. verifying'[r].pc = "401"
    BY <1>2, <1>3 DEF Verifier!Unmatched
  <2>2. q.kid # Verifier!Forged /\ gone[q.kid] = Nil => q.crossed
    BY <1>1, <1>3 DEF Found
  <2>3. QED
    BY <2>1, <2>2 DEF Stands, Verifier!RefusedForCause
<1>4. CASE q.cooling
  <2>1. verifying'[r].pc = "miss"
    BY <1>2, <1>4 DEF Verifier!Unmatched
  <2>2. q.kid # Verifier!Forged /\ gone[q.kid] = Nil => q.began < keysSince[q.kid] + MaxFetch + Cooldown
    BY <1>1, <1>4 DEF Found
  <2>3. tick <= q.began + 1 + MaxFetch
    BY <1>1, <1>4, KeysFacts DEF Prompt
  <2>4. ASSUME q.kid # Verifier!Forged, Verifier!DroppedByTheBook(q.kid) PROVE FALSE
    <3> DEFINE k == q.kid
    <3>1. /\ k \in Verifier!Kids /\ gone[k] # Nil /\ gone[k] \in Nat /\ gone[k] <= tick /\ k < signer
          /\ until[k] \in Nat /\ gone[k] >= until[k] + Life + MaxAge
      BY <1>1, <2>4, KeysFacts DEF Verifier!DroppedByTheBook
    <3>2. until[k] # Nil
      BY <3>1 DEF Verifier!KeySetAssumption
    <3>3. q.exp <= until[k] + Life /\ q.began < q.exp
      BY <1>1, <2>4, <3>2 DEF Genuine
    <3>4. QED
      BY <1>1, <2>3, <3>1, <3>3, KeysFacts
  <2>5. QED
    BY <2>1, <2>2, <2>4 DEF Stands, Verifier!MissedForCause
<1>5. QED
  BY <1>3, <1>4

\* A step that changes a request leaves it with a verdict that stands.
LEMMA KeysStand ==
  ASSUME Verifier!KeySetAssumption, KeysInv, Verifier!Next, NEW r \in Verifications,
         verifying'[r] # verifying[r]
  PROVE  Stands(r)
<1>1. \A o \in Verifications : verifying[o] \in VerificationStates /\ Genuine(verifying[o])
  BY KeysFacts DEF KeysInv
<1>2. CASE Verifier!Rotate \/ Verifier!Drop \/ Verifier!Replace \/ Verifier!Publish \/ Verifier!Tick
  BY <1>2 DEF Verifier!Rotate, Verifier!Drop, Verifier!Replace, Verifier!Publish, Verifier!Tick
<1>3. CASE Verifier!Land
  <2>1. verifying'[r].pc \in {"lookup", "again", "verify", "missed"}
    BY <1>1, <1>3 DEF Verifier!Land, VerificationStates
  <2>2. QED
    BY <2>1 DEF Stands
<1>4. CASE Verifier!LoadFails
  <2>1. verifying'[r].pc = "503"
    BY <1>4 DEF Verifier!LoadFails, Verifier!Answered
  <2>2. QED
    BY <2>1 DEF Stands
<1>5. ASSUME NEW o \in Verifications, Verifier!Verifying(o), o # r PROVE FALSE
  <2>1. \E x : verifying' = [verifying EXCEPT ![o] = x]
    BY <1>1, <1>5 DEF Verifier!Verifying, Verifier!Begin, Verifier!Resolve, Verifier!Reload,
         Verifier!Lookup, Verifier!Missed, Verifier!LookupAgain, VerificationStates
  <2>2. QED
    BY <1>5, <2>1 DEF KeysInv, Verifier!TypeOK
<1>6. CASE Verifier!Verifying(r)
  <2>1. CASE Verifier!Begin(r)
    <3>1. verifying'[r].pc \in {"401", "verify"} /\ verifying[r].kid = Verifier!Forged
      BY <1>1, <2>1 DEF Verifier!Begin, Verifier!Answered, Genuine, KeysInv, Verifier!TypeOK
    <3>2. QED
      BY <3>1 DEF Stands, Verifier!RefusedForCause
  <2>2. CASE Verifier!Resolve(r)
    <3>1. verifying'[r].pc \in {"lookup", "first"}
      BY <1>1, <2>2 DEF Verifier!Resolve, Verifier!Reload, VerificationStates, KeysInv, Verifier!TypeOK
    <3>2. QED
      BY <3>1 DEF Stands
  <2>3. CASE Verifier!Lookup(r)
    <3>1. CASE verifying[r].kid \in set.keys
      BY <2>3, <3>1, JudgedStands DEF Verifier!Lookup
    <3>2. CASE verifying[r].kid \notin set.keys
      <4>1. verifying'[r].pc = "missed"
        BY <1>1, <2>3, <3>2 DEF Verifier!Lookup, VerificationStates, KeysInv, Verifier!TypeOK
      <4>2. QED
        BY <4>1 DEF Stands
    <3>3. QED
      BY <3>1, <3>2
  <2>4. CASE Verifier!Missed(r)
    <3>1. CASE Verifier!CoolingDown
      BY <2>4, <3>1, UnmatchedStands DEF Verifier!Missed
    <3>2. CASE ~Verifier!CoolingDown
      <4>1. verifying'[r].pc = "second"
        BY <1>1, <2>4, <3>2 DEF Verifier!Missed, Verifier!Reload, VerificationStates, KeysInv, Verifier!TypeOK
      <4>2. QED
        BY <4>1 DEF Stands
    <3>3. QED
      BY <3>1, <3>2
  <2>5. CASE Verifier!LookupAgain(r)
    BY <2>5, JudgedStands, UnmatchedStands DEF Verifier!LookupAgain
  <2>6. QED
    BY <1>6, <2>1, <2>2, <2>3, <2>4, <2>5 DEF Verifier!Verifying
<1>7. QED
  BY <1>2, <1>3, <1>4, <1>5, <1>6 DEF Verifier!Next

----------------------------------------------------------------------------
(* The run: each component behaves in it as it does alone. *)

\* A run of the composition is, of each component, one of its own.
LEMMA OrgRuns == AllSpec => Spec
<1>1. AllInit => Init
  BY DEF AllInit
<1>2. [AllNext]_allVars => [Next]_vars
  BY DEF AllNext, allVars
<1>3. QED
  BY <1>1, <1>2, PTL DEF AllSpec, Spec

LEMMA AdminRuns == AllSpec => Admin!Spec
<1>1. AllInit => Admin!Init
  BY DEF AllInit, AdminAtRest
<1>2. [AllNext]_allVars => [Admin!Next]_(Admin!callVars)
  <2>1. UNCHANGED adminVars => UNCHANGED Admin!callVars
    BY DEF adminVars, Admin!callVars
  <2>2. QED
    BY <2>1 DEF AllNext, allVars
<1>3. QED
  BY <1>1, <1>2, PTL DEF AllSpec, Admin!Spec

LEMMA VerifierRuns == AllSpec => Verifier!Spec
<1>1. AllInit => Verifier!Init
  BY DEF AllInit
<1>2. [AllNext]_allVars => [Verifier!Next]_(Verifier!vars)
  <2>1. UNCHANGED keyVars => UNCHANGED Verifier!vars
    BY DEF keyVars, Verifier!vars, Verifier!opVars
  <2>2. QED
    BY <2>1 DEF AllNext, allVars
<1>3. QED
  BY <1>1, <1>2, PTL DEF AllSpec, Verifier!Spec

\* In the run as alone, the seats are held and an invite joins one user.
THEOREM SeatsAreHeldInTheRun == AllSpec => [](SeatsHeldUnlessCrossed /\ InviteJoinsOnce)
BY OrgRuns, SeatsAreHeld, AnInviteJoinsOnce, PTL

LEMMA AdminInvariance == Admin!Spec => []AdminInv
<1>1. Admin!Init => AdminInv
  BY AdminAssumption, AdminInit
<1>2. AdminInv /\ [Admin!Next]_(Admin!callVars) => AdminInv'
  BY AdminAssumption, AdminNext
<1>3. QED
  BY <1>1, <1>2, PTL DEF Admin!Spec

(***************************************************************************)
(* What a command reports is what it did: it writes, renews and retries at *)
(* most once, whatever refresh, 401 and sign-in come together; nothing is  *)
(* written after a problem or a failure, every write and only a write is   *)
(* audited, and a token goes to the console it is for.  callApi,           *)
(* refreshStored, revokeKey.                                               *)
(***************************************************************************)
THEOREM CallsReportWhatTheyDid == AllSpec => []CallsAreHonest
<1>1. AdminInv => CallsAreHonest
  BY DEF AdminInv, CallsAreHonest
<1>2. QED
  BY <1>1, AdminRuns, AdminInvariance, PTL

(***************************************************************************)
(* A listing read page by page shows each row once and in order, and in    *)
(* the end every row that was there all along, whatever is created and     *)
(* deleted between the pages.  listKeys, listFlocks, linkHeader.           *)
(***************************************************************************)
THEOREM PagesMissNothing == AllSpec => []ListingsAreWhole
<1>1. AdminInv => ListingsAreWhole
  BY DEF AdminInv, ListingsAreWhole
<1>2. QED
  BY <1>1, AdminRuns, AdminInvariance, PTL

LEMMA KeysInvariance == Verifier!Spec => []KeysInv
<1>1. Verifier!Init => KeysInv
  BY VerifierAssumption, KeysInit
<1>2. KeysInv /\ [Verifier!Next]_(Verifier!vars) => KeysInv'
  BY VerifierAssumption, KeysNext
<1>3. QED
  BY <1>1, <1>2, PTL DEF Verifier!Spec

(***************************************************************************)
(* A verification's answer is one the client acts on rightly, whatever     *)
(* rotates, loads and fails meanwhile: a token is taken in the time its    *)
(* key allows, refused only for cause, and a 503 for a missing key ends.   *)
(* createAccessTokenVerifier, keySetFailure.                               *)
(***************************************************************************)
THEOREM VerdictsAreRight == AllSpec => VerdictsStand
<1>1. KeysInv /\ [Verifier!Next]_(Verifier!vars) =>
        [\A r \in Verifications : verifying'[r] # verifying[r] =>
          CASE verifying'[r].pc = "ok" -> Verifier!TakenInTime(verifying[r])
            [] verifying'[r].pc = "401" -> Verifier!RefusedForCause(verifying[r])
            [] verifying'[r].pc = "miss" -> Verifier!MissedForCause(verifying[r])
            [] OTHER -> TRUE]_(Verifier!vars)
  BY VerifierAssumption, KeysStand DEF Stands
<1>2. QED
  BY <1>1, VerifierRuns, KeysInvariance, PTL DEF Verifier!Spec, VerdictsStand, Verifier!VerdictsStand
=============================================================================
