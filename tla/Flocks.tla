------------------------------- MODULE Flocks -------------------------------
(***************************************************************************)
(* Flocks in the control plane's database: their connection, their sealed  *)
(* upstream credential, the health last probed, and the deploys that       *)
(* rotate the key the credentials are sealed under.                        *)
(*                                                                         *)
(* A save that leaves the credential alone reads the row FOR UPDATE and    *)
(* writes later in its transaction; any other save is one UPDATE.  A probe *)
(* holds a copy of the connection from its read to its record.  A deploy   *)
(* runs `migrate' first, and then replaces the services one by one, each   *)
(* with the keyring the stack file gives it.                               *)
(***************************************************************************)
EXTENDS Naturals

CONSTANTS
    NumFlocks,      \* flocks, in the order of their ids
    Conns,          \* connections: [breed, url, tls]
    Secrets,        \* upstream credentials
    Savers, Tests,  \* saves and console tests in flight at a time
    None,           \* no credential, nobody, nothing in flight
    MaxSaves,       \* bound on saves, creates and deletes
    MaxTests,       \* bound on console tests
    MaxRotations,   \* bound on rotations of the key
    MaxFaults       \* bound on lost probes and restored rows

FlockIds == 1..NumFlocks
Services == {"console", "scheduler", "data-plane"}

Plain == 0                        \* a value stored before migration 0008
Foreign == MaxRotations + 2       \* a key this stack does not hold

Envelopes == [kid : 0..Foreign, for : FlockIds, secret : Secrets]
Changes == [flock : FlockIds, conn : Conns]
Contents == [conn : Conns, secret : Secrets \cup {None}]
Readings == [flock : FlockIds, of : Contents, opens : BOOLEAN]

FlocksAssumption ==
    /\ Conns # {} /\ Secrets # {}
    /\ \A c \in Conns : c.tls \in BOOLEAN
    /\ {NumFlocks, MaxSaves, MaxTests, MaxRotations, MaxFaults} \subseteq Nat
    /\ None \notin Secrets \cup Savers
    /\ None \notin Envelopes /\ None \notin Changes /\ None \notin Readings

Down == [current |-> 0, held |-> {}]
NoRow == [state |-> "none", conn |-> CHOOSE c \in Conns : TRUE, enc |-> None, health |-> "unknown"]

VARIABLES
    row,         \* [FlockIds -> [state, conn, enc, health]]
    lock,        \* [FlockIds -> the save that holds the row, or None]
    save,        \* [Savers -> the save in flight, or None]
    pass,        \* the scheduler's health pass: [FlockIds -> the flock as read, still to probe, or None]
    test,        \* [Tests -> the console test in flight, or None]
    ring,        \* [Services -> the keyring each was started with]
    env,         \* the keyring in the stack file
    deploy,      \* "migrate", "restart" or "done"
    saves, tests, mishaps,
    paired,      \* history: [secret, conn] that a request gave together
    seen,        \* history: [FlockIds -> what its recorded health is about]
    raced,       \* history: flocks whose health was recorded by a probe of another connection
    strayed      \* history: flocks whose credential no later reseal can be expected to open

flockVars == <<row, lock, save, pass, test, ring, env, deploy, saves, tests, mishaps,
               paired, seen, raced, strayed>>
deploys == <<ring, env, deploy>>
record == <<seen, raced>>

Exists(f) == row[f].state = "stored"
HasCredential(r) == r.enc # None
Secret(r) == IF HasCredential(r) THEN r.enc.secret ELSE None
Stored(f) == [conn |-> row[f].conn, secret |-> Secret(row[f])]
Running(s) == ring[s] # Down

\* seal, under the current key; openSealed, under a key held and bound to the row.
\* Mutation: the envelope is not bound to its row.
Seal(r, f, secret) == [kid |-> r.current, for |-> f, secret |-> secret]
OpensAnywhere(r, f, enc) == enc.kid \in r.held
Opens(r, f, enc) == enc.kid \in r.held /\ enc.for = f

\* Flocks of the release before 0008: their credentials are stored in the clear.
Init ==
    /\ row \in [FlockIds -> {NoRow} \cup
                   {[state |-> "stored", conn |-> c, enc |-> e, health |-> "unknown"] :
                       c \in Conns, e \in {None} \cup [kid : {Plain}, for : FlockIds, secret : Secrets]}]
    /\ \A f \in FlockIds : HasCredential(row[f]) => row[f].enc.for = f
    /\ lock = [f \in FlockIds |-> None]
    /\ save = [w \in Savers |-> None]
    /\ pass = [f \in FlockIds |-> None]
    /\ test = [t \in Tests |-> None]
    /\ ring = [s \in Services |-> Down]
    /\ env = [current |-> 1, held |-> {1}]
    /\ deploy = "migrate"
    /\ saves = 0 /\ tests = 0 /\ mishaps = 0
    /\ paired = {Stored(f) : f \in {g \in FlockIds : HasCredential(row[g])}}
    /\ seen = [f \in FlockIds |-> Stored(f)]
    /\ raced = {}
    /\ strayed = {}

----------------------------------------------------------------------------
(* saveFlock, deleteFlock *)

\* movesCredential: another address, or TLS trust switched on.
Moves(old, new) == old.url # new.url \/ (~old.tls /\ new.tls)

\* A recorded result is about one breed, address and TLS setting.
\* Mutation: a change of the TLS setting keeps the result.
SameAddress(old, new) == old.breed = new.breed /\ old.url = new.url
SameConnection(old, new) == old = new

NextSave == Running("console") /\ saves < MaxSaves /\ saves' = saves + 1

\* The SELECT ... FOR UPDATE waits for the row.
\* Mutation: a plain SELECT does not.
RowAny(f) == f \in FlockIds
RowFree(f) == lock[f] = None

\* The credential is omitted: refused (409) when it would move.
SaveRead(w, f, conn) ==
    /\ save[w] = None /\ NextSave
    /\ Exists(f) /\ RowFree(f)
    /\ ~(HasCredential(row[f]) /\ Moves(row[f].conn, conn))
    /\ save' = [save EXCEPT ![w] = [flock |-> f, conn |-> conn]]
    /\ lock' = [lock EXCEPT ![f] = w]
    /\ UNCHANGED <<row, pass, test, deploys, tests, mishaps, paired, record, strayed>>

\* Mutation: the lock outlives its transaction.
UnlockNever(w) == UNCHANGED lock
Unlock(w) == lock' = [f \in FlockIds |-> IF lock[f] = w THEN None ELSE lock[f]]

SaveWrite(w) ==
    /\ save[w] # None
    /\ LET f == save[w].flock
           conn == save[w].conn
       IN
       /\ lock[f] \in {w, None}
       /\ row' = [row EXCEPT ![f].conn = conn,
                             ![f].health = IF SameConnection(row[f].conn, conn) THEN @ ELSE "unknown"]
    /\ save' = [save EXCEPT ![w] = None]
    /\ Unlock(w)
    /\ UNCHANGED <<pass, test, deploys, saves, tests, mishaps, paired, record, strayed>>

SaveAbort(w) ==
    /\ save[w] # None
    /\ save' = [save EXCEPT ![w] = None]
    /\ Unlock(w)
    /\ UNCHANGED <<row, pass, test, deploys, saves, tests, mishaps, paired, record, strayed>>

\* A service of an earlier deploy seals under the key this deploy retires, and
\* the reseal is behind it.
Strays(f, given) ==
    IF given /\ deploy = "restart" /\ ring["console"].current # env.current
      THEN strayed \cup {f} ELSE strayed \ {f}

\* The credential is given, or cleared (None): one statement.
Put(f, conn, secret) ==
    /\ row' = [row EXCEPT ![f] =
                [state |-> "stored", conn |-> conn, health |-> "unknown",
                 enc |-> IF secret = None THEN None ELSE Seal(ring["console"], f, secret)]]
    /\ paired' = IF secret = None THEN paired ELSE paired \cup {[conn |-> conn, secret |-> secret]}
    /\ strayed' = Strays(f, secret # None)
    /\ UNCHANGED <<lock, save, pass, test, deploys, tests, mishaps, record>>

SaveCredential(f, conn, secret) == NextSave /\ Exists(f) /\ RowFree(f) /\ Put(f, conn, secret)
Create(f, conn, secret) == NextSave /\ row[f].state = "none" /\ Put(f, conn, secret)

Delete(f) ==
    /\ NextSave
    /\ Exists(f) /\ RowFree(f)
    /\ row' = [row EXCEPT ![f] = [NoRow EXCEPT !.state = "deleted"]]
    /\ strayed' = strayed \ {f}
    /\ UNCHANGED <<lock, save, pass, test, deploys, tests, mishaps, paired, record>>

----------------------------------------------------------------------------
(* Health: the scheduler's pass and the console's Test. *)

\* A flock as read for a probe, its credential opened there and then.
Reading(f, r) == [flock |-> f, of |-> Stored(f),
                  opens |-> ~HasCredential(row[f]) \/ Opens(r, f, row[f].enc)]

\* recordFlockHealth: an UPDATE by id.  A credential no held key opens is
\* unhealthy without a call.
Record(p, answer) ==
    LET f == p.flock IN
    /\ p.opens \/ answer = "bad"
    /\ RowFree(f)
    /\ IF Exists(f)
         THEN /\ row' = [row EXCEPT ![f].health = answer]
              /\ seen' = [seen EXCEPT ![f] = p.of]
              /\ raced' = IF p.of = Stored(f) THEN raced \ {f} ELSE raced \cup {f}
         ELSE UNCHANGED <<row, record>>

\* Mutation: a flock whose health is known is not probed again.
ProbedOnce(f) == Exists(f) /\ row[f].health = "unknown"
Probed(f) == Exists(f)

\* A pass reads every flock and then probes them one by one, by id.
Pending == {f \in FlockIds : pass[f] # None}
Turn(f) == f \in Pending /\ \A g \in Pending : f <= g

PassStart ==
    /\ Running("scheduler")
    /\ Pending = {}
    /\ pass' = [f \in FlockIds |-> IF Probed(f) THEN Reading(f, ring["scheduler"]) ELSE None]
    /\ UNCHANGED <<row, lock, save, test, deploys, saves, tests, mishaps, paired, record, strayed>>

PassProbe(f, answer) ==
    /\ Turn(f)
    /\ Record(pass[f], answer)
    /\ pass' = [pass EXCEPT ![f] = None]
    /\ UNCHANGED <<lock, save, test, deploys, saves, tests, mishaps, paired, strayed>>

\* A probe or its record throws: the pass goes on without it.
PassProbeFails(f) ==
    /\ Turn(f)
    /\ mishaps < MaxFaults /\ mishaps' = mishaps + 1
    /\ pass' = [pass EXCEPT ![f] = None]
    /\ UNCHANGED <<row, lock, save, test, deploys, saves, tests, paired, record, strayed>>

TestRead(t, f) ==
    /\ Running("console") /\ tests < MaxTests /\ tests' = tests + 1
    /\ test[t] = None /\ Exists(f)
    /\ test' = [test EXCEPT ![t] = Reading(f, ring["console"])]
    /\ UNCHANGED <<row, lock, save, pass, deploys, saves, mishaps, paired, record, strayed>>

TestRecord(t, answer) ==
    /\ test[t] # None
    /\ Record(test[t], answer)
    /\ test' = [test EXCEPT ![t] = None]
    /\ UNCHANGED <<lock, save, pass, deploys, saves, tests, mishaps, paired, strayed>>

----------------------------------------------------------------------------
(* Deploys. *)

\* The documented rotation: the key in use becomes a previous one ...
Rotate ==
    /\ deploy = "done" /\ env.held = {env.current}
    /\ env.current <= MaxRotations
    /\ env' = [current |-> env.current + 1, held |-> {env.current, env.current + 1}]
    /\ deploy' = "migrate"
    /\ UNCHANGED <<row, lock, save, pass, test, ring, saves, tests, mishaps, paired, record, strayed>>

\* ... and the deploy after that one drops it.
DropPrevious ==
    /\ deploy = "done" /\ env.held # {env.current}
    /\ env' = [env EXCEPT !.held = {env.current}]
    /\ deploy' = "migrate"
    /\ UNCHANGED <<row, lock, save, pass, test, ring, saves, tests, mishaps, paired, record, strayed>>

\* What the reseal does with one value: seal it, move it, or leave it as it is.
\* Mutation: a value the keyring holds the key of needs no reseal.
ResealUnheld(f, enc) ==
    IF enc.kid \in env.held THEN enc
    ELSE IF enc.kid = Plain THEN Seal(env, f, enc.secret) ELSE enc
Reseal(f, enc) ==
    IF enc.kid = Plain \/ Opens(env, f, enc) THEN Seal(env, f, enc.secret) ELSE enc

\* `migrate': every row, in one transaction that locks them all.
Migrate ==
    /\ deploy = "migrate"
    /\ \A f \in FlockIds : HasCredential(row[f]) => RowFree(f)
    /\ row' = [f \in FlockIds |->
                 IF HasCredential(row[f]) THEN [row[f] EXCEPT !.enc = Reseal(f, @)] ELSE row[f]]
    /\ strayed' = {f \in strayed : HasCredential(row[f]) /\ ~Opens(env, f, row[f].enc)}
    /\ deploy' = "restart"
    /\ UNCHANGED <<lock, save, pass, test, ring, env, saves, tests, mishaps, paired, record>>

\* A service is replaced, or started, with what it was doing lost.
Restart(s) ==
    /\ deploy = "restart" /\ ring[s] # env
    /\ ring' = [ring EXCEPT ![s] = env]
    /\ deploy' = IF \A other \in Services : ring'[other] = env THEN "done" ELSE deploy
    /\ pass' = IF s = "scheduler" THEN [f \in FlockIds |-> None] ELSE pass
    /\ IF s = "console"
         THEN /\ save' = [w \in Savers |-> None]
              /\ test' = [t \in Tests |-> None]
              /\ lock' = [f \in FlockIds |-> None]
         ELSE UNCHANGED <<save, test, lock>>
    /\ UNCHANGED <<row, env, saves, tests, mishaps, paired, record, strayed>>

\* An operator copies a value by hand: from a backup taken under another key, or
\* from another flock's row.  Its health stays.  Whoever puts a row's own value
\* back into it gives it for the address that is there now.
Misplace(f, enc) ==
    /\ mishaps < MaxFaults /\ mishaps' = mishaps + 1
    /\ deploy = "done" /\ HasCredential(row[f]) /\ RowFree(f)
    /\ row' = [row EXCEPT ![f].enc = enc]
    /\ strayed' = strayed \cup {f}
    /\ raced' = raced \cup {f}
    /\ paired' = IF enc.for = f THEN paired \cup {[conn |-> row[f].conn, secret |-> enc.secret]} ELSE paired
    /\ UNCHANGED <<lock, save, pass, test, deploys, saves, tests, seen>>

Saving ==
    \/ \E w \in Savers : SaveWrite(w) \/ SaveAbort(w)
                         \/ \E f \in FlockIds, conn \in Conns : SaveRead(w, f, conn)
    \/ \E f \in FlockIds, conn \in Conns, secret \in Secrets \cup {None} :
          SaveCredential(f, conn, secret) \/ Create(f, conn, secret)
    \/ \E f \in FlockIds : Delete(f)

Scheduling ==
    \/ PassStart
    \/ \E f \in FlockIds, answer \in {"ok", "bad"} : PassProbe(f, answer)
Testing == \E t \in Tests : \/ \E f \in FlockIds : TestRead(t, f)
                            \/ \E answer \in {"ok", "bad"} : TestRecord(t, answer)
Deploying == Migrate \/ \E s \in Services : Restart(s)
Misplacing == \E f \in FlockIds :
    \/ HasCredential(row[f]) /\ Misplace(f, [row[f].enc EXCEPT !.kid = Foreign])
    \/ \E g \in FlockIds \ {f} : HasCredential(row[g]) /\ Misplace(f, row[g].enc)

Next ==
    \/ Saving \/ Scheduling \/ (\E f \in FlockIds : PassProbeFails(f)) \/ Testing
    \/ Rotate \/ DropPrevious \/ Deploying \/ Misplacing

\* A transaction ends, a deploy goes on, and the scheduler's passes follow one
\* another (bin/scheduler.ts: `every').
Finishing == \E w \in Savers : SaveWrite(w) \/ SaveAbort(w)

Fairness == /\ WF_flockVars(Finishing) /\ WF_flockVars(Deploying) /\ WF_flockVars(Scheduling)

Spec == Init /\ [][Next]_flockVars /\ Fairness

----------------------------------------------------------------------------
(* Properties *)

Rows == [state : {"none", "stored", "deleted"}, conn : Conns,
         enc : Envelopes \cup {None}, health : {"unknown", "ok", "bad"}]
Keyrings == {r \in [current : 1..(MaxRotations + 1), held : SUBSET (1..(MaxRotations + 1))] :
               r.current \in r.held}

TypeOK ==
    /\ row \in [FlockIds -> Rows]
    /\ lock \in [FlockIds -> Savers \cup {None}]
    /\ save \in [Savers -> Changes \cup {None}]
    /\ \A f \in FlockIds : lock[f] # None => save[lock[f]] # None /\ save[lock[f]].flock = f
    /\ pass \in [FlockIds -> Readings \cup {None}]
    /\ test \in [Tests -> Readings \cup {None}]
    /\ ring \in [Services -> Keyrings \cup {Down}]
    /\ env \in Keyrings
    /\ deploy \in {"migrate", "restart", "done"}
    /\ seen \in [FlockIds -> Contents]

\* A credential some service can open is stored beside an address its owner gave
\* it with, and without more trust: no order of saves, created rows and copied
\* values carries it elsewhere (CredentialRebindError, the envelope's binding).
CredentialStaysWhereGiven ==
    \A f \in FlockIds, s \in Services :
        HasCredential(row[f]) /\ Running(s) /\ Opens(ring[s], f, row[f].enc) =>
            \E p \in paired : /\ p.secret = row[f].enc.secret
                              /\ p.conn.url = row[f].conn.url
                              /\ row[f].conn.tls => p.conn.tls

\* A health shown is about the connection and the credential stored, unless the
\* probe that recorded it was in flight when they changed (or a value was copied
\* by hand).
HealthIsOfConnection ==
    \A f \in FlockIds :
        Exists(f) /\ row[f].health # "unknown" => seen[f] = Stored(f) \/ f \in raced

\* A rotation done as documented leaves no credential behind: every service opens
\* every one after it, but for one saved by a console the deploy had still to
\* replace, and one copied by hand.
RotationKeepsCredentials ==
    /\ deploy # "migrate" => \A f \in FlockIds \ strayed :
          HasCredential(row[f]) => Opens(env, f, row[f].enc)
    /\ deploy = "done" => \A f \in FlockIds \ strayed, s \in Services :
          HasCredential(row[f]) => Opens(ring[s], f, row[f].enc)

\* Once connections stop changing, what every flock's health says is about its
\* connection: the pass after a late probe's record corrects it.
HealthCatchesUp ==
    <>[](\A f \in DOMAIN row : Exists(f) => row[f].health # "unknown" /\ seen[f] = Stored(f))
=============================================================================
