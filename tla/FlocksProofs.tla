---------------------------- MODULE FlocksProofs ----------------------------
(***************************************************************************)
(* Proofs about Flocks, for any flocks, connections, credentials, saves    *)
(* and tests in flight, and any number of rotations and faults.            *)
(***************************************************************************)
EXTENDS Flocks, TLAPS

(***************************************************************************)
(* The inductive invariant.                                                *)
(***************************************************************************)
\* A save in flight has its row locked, and was let through: what it is about to
\* write does not move the credential that is there.
Editing ==
    \A w \in Savers : save[w] # None =>
        LET f == save[w].flock IN
        /\ lock[f] = w
        /\ Exists(f)
        /\ HasCredential(row[f]) => ~Moves(row[f].conn, save[w].conn)

\* A credential bound to its row was given for the address there, with no less trust.
Vouched(f) ==
    \E p \in paired : /\ p.secret = row[f].enc.secret
                      /\ p.conn.url = row[f].conn.url
                      /\ row[f].conn.tls => p.conn.tls
Bound == \A f \in FlockIds : HasCredential(row[f]) /\ row[f].enc.for = f => Vouched(f)

\* Values in the clear are of their rows, and gone once the first migration has run.
Sealed ==
    \A f \in FlockIds : HasCredential(row[f]) /\ row[f].enc.kid = Plain =>
        deploy = "migrate" /\ row[f].enc.for = f

\* Where a deploy stands: what `migrate' is about to open, what it sealed, and the
\* keys the services that still run seal under.
Deployed ==
    /\ deploy = "migrate" =>
          /\ \A s \in Services : Running(s) => ring[s].current \in env.held
          /\ \A f \in FlockIds \ strayed :
                HasCredential(row[f]) => row[f].enc.kid = Plain \/ Opens(env, f, row[f].enc)
    /\ deploy # "migrate" => \A f \in FlockIds \ strayed :
          HasCredential(row[f]) => row[f].enc.kid = env.current /\ row[f].enc.for = f
    /\ deploy = "done" => \A s \in Services : ring[s] = env

IInv == TypeOK /\ Editing /\ Bound /\ Sealed /\ Deployed /\ HealthIsOfConnection

\* The invariant says what the runs check.
LEMMA IInvSafe ==
  ASSUME FlocksAssumption, IInv
  PROVE  CredentialStaysWhereGiven /\ HealthIsOfConnection /\ RotationKeepsCredentials
<1>1. CredentialStaysWhereGiven
  BY DEF IInv, Bound, Vouched, Opens, CredentialStaysWhereGiven
<1>2. HealthIsOfConnection
  BY DEF IInv
<1>3. env.current \in env.held
  BY DEF IInv, TypeOK, Keyrings
<1>4. RotationKeepsCredentials
  BY <1>3 DEF IInv, Deployed, Opens, RotationKeepsCredentials
<1>5. QED
  BY <1>1, <1>2, <1>4

\* At first nothing is in flight, and every credential is in the clear in its own row.
LEMMA InitIInv == ASSUME FlocksAssumption, Init PROVE IInv
<1>1. row \in [FlockIds -> Rows] /\ \A f \in FlockIds : row[f].health = "unknown"
  <2>1. NoRow \in Rows /\ NoRow.health = "unknown"
    BY DEF NoRow, Rows, FlocksAssumption
  <2>2. \A c \in Conns, e \in {None} \cup [kid : {Plain}, for : FlockIds, secret : Secrets] :
           [state |-> "stored", conn |-> c, enc |-> e, health |-> "unknown"] \in Rows
    BY DEF Rows, Envelopes, Plain, Foreign, FlocksAssumption
  <2>3. QED
    BY <2>1, <2>2 DEF Init
<1>2. \A f \in FlockIds : HasCredential(row[f]) => row[f].enc.kid = Plain /\ row[f].enc.for = f
  <2> SUFFICES ASSUME NEW f \in FlockIds, HasCredential(row[f])
               PROVE  row[f].enc.kid = Plain
    BY DEF Init
  <2>1. row[f] # NoRow
    BY DEF HasCredential, NoRow
  <2>2. PICK c \in Conns, e \in {None} \cup [kid : {Plain}, for : FlockIds, secret : Secrets] :
          row[f] = [state |-> "stored", conn |-> c, enc |-> e, health |-> "unknown"]
    BY <2>1 DEF Init
  <2>3. QED
    BY <2>2 DEF HasCredential
<1>3. TypeOK
  <2>1. env \in Keyrings
    BY DEF Init, Keyrings, FlocksAssumption
  <2>2. seen \in [FlockIds -> Contents]
    <3>1. \A f \in FlockIds : Stored(f) \in Contents
      BY <1>1 DEF Stored, Secret, HasCredential, Contents, Rows, Envelopes
    <3>2. QED
      BY <3>1 DEF Init
  <2>3. QED
    BY <1>1, <2>1, <2>2 DEF Init, TypeOK
<1>4. Editing
  BY DEF Init, Editing
<1>5. Bound
  <2> SUFFICES ASSUME NEW f \in FlockIds, HasCredential(row[f])
               PROVE  Vouched(f)
    BY DEF Bound
  <2>1. Stored(f) \in paired
    BY DEF Init
  <2>2. QED
    BY <2>1 DEF Stored, Secret, Vouched
<1>6. Sealed
  BY <1>2 DEF Init, Sealed
<1>7. Deployed
  BY <1>2 DEF Init, Deployed, Running, Services, Down
<1>8. HealthIsOfConnection
  BY <1>1 DEF HealthIsOfConnection
<1>9. QED
  BY <1>3, <1>4, <1>5, <1>6, <1>7, <1>8 DEF IInv

\* What a probe reads is a reading.
LEMMA ReadingType ==
  ASSUME TypeOK, NEW f \in FlockIds, NEW r
  PROVE  Reading(f, r) \in Readings
<1>1. Stored(f) \in Contents
  BY DEF TypeOK, Rows, Envelopes, Contents, Stored, Secret, HasCredential
<1>2. QED
  BY <1>1 DEF Reading, Readings, Opens

\* A record changes a health, and what it is about; nothing else of a row.
LEMMA RecordKeeps ==
  ASSUME FlocksAssumption, TypeOK, HealthIsOfConnection,
         NEW p \in Readings, NEW answer \in {"ok", "bad"}, Record(p, answer)
  PROVE  /\ row' \in [FlockIds -> Rows]
         /\ \A g \in FlockIds : /\ row'[g].state = row[g].state
                                /\ row'[g].conn = row[g].conn
                                /\ row'[g].enc = row[g].enc
         /\ HealthIsOfConnection'
<1>1. p.flock \in FlockIds
  BY DEF Readings
<1>2. CASE Exists(p.flock)
  <2>1. /\ row' = [row EXCEPT ![p.flock].health = answer]
        /\ seen' = [seen EXCEPT ![p.flock] = p.of]
        /\ raced' = IF p.of = Stored(p.flock) THEN raced \ {p.flock} ELSE raced \cup {p.flock}
    BY <1>2 DEF Record
  <2>2. /\ \A g \in FlockIds : g # p.flock => row'[g] = row[g]
        /\ row'[p.flock] = [row[p.flock] EXCEPT !.health = answer]
        /\ row'[p.flock] \in Rows
        /\ row' \in [FlockIds -> Rows]
    <3>1. row \in [FlockIds -> Rows] /\ row[p.flock] \in Rows
      BY <1>1 DEF TypeOK
    <3>2. [row[p.flock] EXCEPT !.health = answer] \in Rows
      BY <3>1 DEF Rows
    <3>3. QED
      BY <1>1, <2>1, <3>1, <3>2
  <2>3. \A g \in FlockIds : /\ row'[g].state = row[g].state
                            /\ row'[g].conn = row[g].conn
                            /\ row'[g].enc = row[g].enc
                            /\ g # p.flock => row'[g] = row[g]
    <3>1. row[p.flock] \in Rows
      BY <1>1 DEF TypeOK
    <3>2. QED
      BY <1>1, <2>2, <3>1 DEF Rows
  <2>4. \A g \in FlockIds : (Exists(g)' <=> Exists(g)) /\ Stored(g)' = Stored(g)
    <3> SUFFICES ASSUME NEW h \in FlockIds
                 PROVE  (Exists(h)' <=> Exists(h)) /\ Stored(h)' = Stored(h)
      OBVIOUS
    <3>1. row'[h].state = row[h].state /\ row'[h].conn = row[h].conn /\ row'[h].enc = row[h].enc
      BY <2>3
    <3>2. Secret(row'[h]) = Secret(row[h])
      BY <3>1 DEF Secret, HasCredential
    <3>3. Exists(h)' <=> Exists(h)
      BY <3>1 DEF Exists
    <3>4. Stored(h)' = Stored(h)
      BY <3>1, <3>2 DEF Stored
    <3>5. QED
      BY <3>3, <3>4
  <2>5. HealthIsOfConnection'
    BY <1>1, <2>1, <2>3, <2>4 DEF HealthIsOfConnection, TypeOK
  <2>6. QED
    BY <2>2, <2>3, <2>5 DEF Rows
<1>3. CASE ~Exists(p.flock)
  <2>1. row' = row /\ seen' = seen /\ raced' = raced
    BY <1>3 DEF Record, record
  <2>2. QED
    BY <2>1 DEF HealthIsOfConnection, TypeOK, Exists, Stored, Secret, HasCredential
<1>4. QED
  BY <1>2, <1>3

\* A save takes the row, and is let through.
LEMMA SaveReadIInv ==
  ASSUME FlocksAssumption, IInv, NEW w \in Savers, NEW f \in FlockIds, NEW conn \in Conns, SaveRead(w, f, conn)
  PROVE  IInv'
<1>1. TypeOK'
  <2>1. save' \in [Savers -> Changes \cup {None}] /\ lock' \in [FlockIds -> Savers \cup {None}]
    BY DEF SaveRead, Changes, IInv, TypeOK
  <2>2. \A g \in FlockIds : lock'[g] # None => save'[lock'[g]] # None /\ save'[lock'[g]].flock = g
    <3>1. [flock |-> f, conn |-> conn] # None
      BY DEF FlocksAssumption, Changes
    <3>2. /\ save'[w] = [flock |-> f, conn |-> conn] /\ \A v \in Savers \ {w} : save'[v] = save[v]
          /\ lock'[f] = w /\ \A g \in FlockIds \ {f} : lock'[g] = lock[g]
          /\ save[w] = None
      BY DEF SaveRead, IInv, TypeOK
    <3>3. QED
      BY <3>1, <3>2 DEF IInv, TypeOK
  <2>3. QED
    BY <2>1, <2>2 DEF SaveRead, deploys, record, IInv, TypeOK
<1>2. Editing'
  BY DEF SaveRead, NextSave, RowFree, deploys, record, FlocksAssumption, IInv, TypeOK, Rows, Changes,
     Editing, Exists, HasCredential, Moves
<1>3. Bound'
  BY DEF SaveRead, NextSave, RowFree, deploys, record, FlocksAssumption, IInv, TypeOK, Rows, Changes,
     Envelopes, Editing, Bound, Vouched, Exists, HasCredential, Moves, Opens, Sealed, Plain
<1>4. Sealed'
  BY DEF SaveRead, NextSave, RowFree, deploys, record, FlocksAssumption, IInv, TypeOK, Rows, Envelopes,
     Sealed, Exists, HasCredential, Opens, Plain, Foreign, Keyrings, Running
<1>5. Deployed'
  BY DEF SaveRead, NextSave, RowFree, deploys, record, FlocksAssumption, IInv, TypeOK, Rows, Envelopes,
     Sealed, Deployed, Exists, HasCredential, Opens, Plain, Foreign, Keyrings, Running, Services, Down
<1>6. HealthIsOfConnection'
  BY DEF SaveRead, NextSave, RowFree, deploys, record, FlocksAssumption, IInv, TypeOK, Rows, Envelopes,
     HealthIsOfConnection, Exists, HasCredential, Stored, Secret, Opens, Sealed, Plain
<1>. QED BY <1>1, <1>2, <1>3, <1>4, <1>5, <1>6 DEF IInv

\* It writes, and lets the row go.
LEMMA SaveWriteIInv ==
  ASSUME FlocksAssumption, IInv, NEW w \in Savers, SaveWrite(w)
  PROVE  IInv'
<1>0. /\ save[w] \in Changes /\ save[w].flock \in FlockIds
      /\ \A f \in FlockIds : /\ row'[f].state = row[f].state /\ row'[f].enc = row[f].enc
                             /\ row'[f].conn = IF f = save[w].flock THEN save[w].conn ELSE row[f].conn
                             /\ f # save[w].flock => row'[f] = row[f]
      /\ \A f \in FlockIds : HasCredential(row'[f]) <=> HasCredential(row[f])
  <2>1. save[w] \in Changes /\ save[w].flock \in FlockIds
    BY DEF SaveWrite, IInv, TypeOK, Changes
  <2>2. \A f \in FlockIds : /\ row'[f].state = row[f].state /\ row'[f].enc = row[f].enc
                            /\ row'[f].conn = IF f = save[w].flock THEN save[w].conn ELSE row[f].conn
                            /\ f # save[w].flock => row'[f] = row[f]
    BY <2>1 DEF SaveWrite, IInv, TypeOK, Rows
  <2>3. QED
    BY <2>1, <2>2 DEF HasCredential
<1>1. TypeOK'
  <2>1. row' \in [FlockIds -> Rows]
    <3>1. save[w] \in Changes /\ row[save[w].flock] \in Rows /\ save[w].flock \in FlockIds
      BY DEF SaveWrite, IInv, TypeOK, Changes
    <3>2. \A h \in {"unknown", row[save[w].flock].health} :
             [row EXCEPT ![save[w].flock].conn = save[w].conn, ![save[w].flock].health = h] \in [FlockIds -> Rows]
      <4>1. row \in [FlockIds -> Rows] /\ save[w].conn \in Conns
        BY <3>1 DEF IInv, TypeOK, Changes
      <4>2. \A h \in {"unknown", row[save[w].flock].health} :
               [row[save[w].flock] EXCEPT !.conn = save[w].conn, !.health = h] \in Rows
        BY <3>1, <4>1 DEF Rows
      <4>3. QED
        BY <3>1, <4>1, <4>2 DEF Rows
    <3>3. QED
      BY <3>1, <3>2 DEF SaveWrite
  <2>2. save' \in [Savers -> Changes \cup {None}] /\ lock' \in [FlockIds -> Savers \cup {None}]
    BY DEF SaveWrite, Unlock, IInv, TypeOK
  <2>3. \A f \in FlockIds : lock'[f] # None => save'[lock'[f]] # None /\ save'[lock'[f]].flock = f
    BY DEF SaveWrite, Unlock, IInv, TypeOK, FlocksAssumption
  <2>4. QED
    BY <2>1, <2>2, <2>3 DEF SaveWrite, IInv, TypeOK, deploys, record
<1>2. Editing'
  <2> SUFFICES ASSUME NEW v \in Savers, save'[v] # None
               PROVE  /\ lock'[save'[v].flock] = v
                      /\ Exists(save[v].flock)'
                      /\ HasCredential(row[save[v].flock])' => ~Moves(row[save[v].flock].conn, save[v].conn)'
    BY DEF Editing
  <2>1. v # w /\ save'[v] = save[v] /\ save[v].flock \in FlockIds
    BY DEF SaveWrite, IInv, TypeOK, Changes
  <2>2. lock[save[v].flock] = v /\ lock[save[w].flock] = w
    BY <2>1 DEF SaveWrite, IInv, Editing
  <2>3. row'[save[v].flock] = row[save[v].flock]
    BY <1>0, <2>1, <2>2
  <2>4. lock'[save[v].flock] = v
    BY <2>1, <2>2 DEF SaveWrite, Unlock
  <2>5. QED
    BY <2>1, <2>3, <2>4 DEF IInv, Editing, Exists, Moves
<1>3. Bound'
  <2> SUFFICES ASSUME NEW f \in FlockIds, HasCredential(row[f]), row[f].enc.for = f
               PROVE  Vouched(f)'
    BY <1>0 DEF Bound
  <2>1. PICK p \in paired : /\ p.secret = row[f].enc.secret
                            /\ p.conn.url = row[f].conn.url
                            /\ row[f].conn.tls => p.conn.tls
    BY DEF IInv, Bound, Vouched
  <2>2. f = save[w].flock => ~Moves(row[f].conn, save[w].conn)
    BY DEF SaveWrite, IInv, Editing
  <2>3. row'[f].conn.url = row[f].conn.url /\ (row'[f].conn.tls => row[f].conn.tls)
    BY <1>0, <2>2 DEF Moves
  <2>4. p \in paired' /\ row'[f].enc = row[f].enc
    BY <1>0 DEF SaveWrite
  <2>5. QED
    BY <2>1, <2>3, <2>4 DEF Vouched
<1>4. Sealed'
  BY <1>0 DEF SaveWrite, deploys, IInv, Sealed
<1>5. Deployed'
  <2>1. UNCHANGED <<ring, env, deploy, strayed>>
    BY DEF SaveWrite, deploys
  <2>2. \A f \in FlockIds : /\ HasCredential(row'[f]) <=> HasCredential(row[f])
                            /\ row'[f].enc = row[f].enc
    BY <1>0
  <2>3. QED
    BY <2>1, <2>2 DEF IInv, Deployed, Opens, Running
<1>6. HealthIsOfConnection'
  BY DEF SaveWrite, Unlock, SameConnection, deploys, record, FlocksAssumption, IInv, TypeOK, Rows,
     Envelopes, HealthIsOfConnection, Exists, HasCredential, Stored, Secret, Opens, Sealed, Plain
<1>. QED BY <1>1, <1>2, <1>3, <1>4, <1>5, <1>6 DEF IInv

\* Or it gives up.
LEMMA SaveAbortIInv ==
  ASSUME FlocksAssumption, IInv, NEW w \in Savers, SaveAbort(w)
  PROVE  IInv'
<1>1. TypeOK'
  <2>1. save' \in [Savers -> Changes \cup {None}] /\ lock' \in [FlockIds -> Savers \cup {None}]
    BY DEF SaveAbort, Unlock, IInv, TypeOK
  <2>2. \A f \in FlockIds : lock'[f] # None => save'[lock'[f]] # None /\ save'[lock'[f]].flock = f
    BY DEF SaveAbort, Unlock, IInv, TypeOK
  <2>3. QED
    BY <2>1, <2>2 DEF SaveAbort, deploys, record, IInv, TypeOK
<1>2. Editing'
  <2> SUFFICES ASSUME NEW v \in Savers, save'[v] # None
               PROVE  /\ lock'[save[v].flock] = v /\ save'[v] = save[v]
                      /\ Exists(save[v].flock)
                      /\ HasCredential(row[save[v].flock]) => ~Moves(row[save[v].flock].conn, save[v].conn)
    BY DEF SaveAbort, Editing, Exists
  <2>1. v # w /\ save'[v] = save[v] /\ save[v].flock \in FlockIds
    BY DEF SaveAbort, IInv, TypeOK, Changes
  <2>2. QED
    BY <2>1 DEF SaveAbort, Unlock, IInv, Editing
<1>3. Bound'
  BY DEF SaveAbort, Unlock, deploys, record, FlocksAssumption, IInv, TypeOK, Rows, Changes, Envelopes,
     Editing, Bound, Vouched, Exists, HasCredential, Moves, Opens, Sealed, Plain
<1>4. Sealed'
  BY DEF SaveAbort, Unlock, deploys, record, FlocksAssumption, IInv, TypeOK, Rows, Envelopes, Sealed,
     Exists, HasCredential, Opens, Plain, Foreign, Keyrings, Running
<1>5. Deployed'
  BY DEF SaveAbort, Unlock, deploys, record, FlocksAssumption, IInv, TypeOK, Rows, Envelopes, Sealed,
     Deployed, Exists, HasCredential, Opens, Plain, Foreign, Keyrings, Running, Services, Down
<1>6. HealthIsOfConnection'
  BY DEF SaveAbort, Unlock, deploys, record, FlocksAssumption, IInv, TypeOK, Rows, Envelopes,
     HealthIsOfConnection, Exists, HasCredential, Stored, Secret, Opens, Sealed, Plain
<1>. QED BY <1>1, <1>2, <1>3, <1>4, <1>5, <1>6 DEF IInv

\* A credential is given, or cleared, with the connection.
LEMMA SaveCredentialIInv ==
  ASSUME FlocksAssumption, IInv, NEW f \in FlockIds, NEW conn \in Conns, NEW secret \in Secrets \cup {None}, SaveCredential(f, conn, secret) \/ Create(f, conn, secret)
  PROVE  IInv'
<1>0. /\ secret \in Secrets \cup {None} /\ Put(f, conn, secret)
      /\ lock[f] = None \/ ~Exists(f)
      /\ Running("console")
      /\ Exists(f) => lock[f] = None
      /\ ring["console"] \in Keyrings
  BY DEF SaveCredential, Create, NextSave, RowFree, Exists, Running, IInv, TypeOK, Services
<1>00. /\ \A g \in FlockIds \ {f} : row'[g] = row[g]
       /\ row'[f] \in Rows
       /\ row'[f].state = "stored" /\ row'[f].conn = conn /\ row'[f].health = "unknown"
       /\ secret = None => row'[f].enc = None
       /\ secret # None => row'[f].enc = Seal(ring["console"], f, secret) /\ row'[f].enc \in Envelopes
       /\ row' \in [FlockIds -> Rows]
  <2> DEFINE enc == IF secret = None THEN None ELSE Seal(ring["console"], f, secret)
  <2>1. secret # None => enc \in Envelopes
    BY <1>0 DEF Seal, Envelopes, Keyrings, Foreign, FlocksAssumption
  <2>2. [state |-> "stored", conn |-> conn, health |-> "unknown", enc |-> enc] \in Rows
    BY <2>1 DEF Rows
  <2>3. row' = [row EXCEPT ![f] = [state |-> "stored", conn |-> conn, health |-> "unknown", enc |-> enc]]
    BY <1>0 DEF Put
  <2>4. row \in [FlockIds -> Rows]
    BY DEF IInv, TypeOK
  <2>5. QED
    BY <2>1, <2>2, <2>3, <2>4
<1>1. TypeOK'
  <2>1. UNCHANGED <<lock, save, pass, test, ring, env, deploy, seen>>
    BY <1>0 DEF Put, deploys, record
  <2>2. QED
    BY <1>00, <2>1 DEF IInv, TypeOK
<1>2. Editing'
  BY <1>0, <1>00 DEF Put, IInv, TypeOK, Editing, Exists, HasCredential, Moves, Changes, FlocksAssumption
<1>3. Bound'
  <2> SUFFICES ASSUME NEW g \in FlockIds, HasCredential(row'[g]), row'[g].enc.for = g
               PROVE  Vouched(g)'
    BY DEF Bound
  <2>1. paired \subseteq paired'
    BY <1>0 DEF Put
  <2>2. CASE g = f
    <3>1. secret # None
      BY <1>00, <2>2 DEF HasCredential
    <3>2. [conn |-> conn, secret |-> secret] \in paired'
      BY <1>0, <3>1 DEF Put
    <3>3. row'[g].enc.secret = secret /\ row'[g].conn = conn
      BY <1>00, <2>2, <3>1 DEF Seal
    <3>4. QED
      BY <3>2, <3>3 DEF Vouched
  <2>3. CASE g # f
    BY <1>00, <2>1, <2>3 DEF IInv, Bound, Vouched
  <2>4. QED
    BY <2>2, <2>3
<1>4. Sealed'
  <2>1. ring["console"].current # Plain
    BY <1>0 DEF Keyrings, Plain, FlocksAssumption
  <2>2. secret # None => row'[f].enc.kid # Plain
    BY <1>00, <2>1 DEF Seal
  <2>3. QED
    BY <1>0, <1>00, <2>2 DEF Put, IInv, Sealed, HasCredential, deploys
<1>5. Deployed'
  <2>1. /\ UNCHANGED <<ring, env, deploy>>
        /\ strayed' = Strays(f, secret # None)
    BY <1>0 DEF Put, deploys
  <2>2. secret # None => row'[f].enc.kid = ring["console"].current /\ row'[f].enc.for = f
    BY <1>00 DEF Seal
  <2>3. \A g \in FlockIds \ {f} : row'[g] = row[g] /\ (g \in strayed <=> g \in strayed')
    BY <1>00, <2>1 DEF Strays
  <2>4. f \notin strayed' /\ secret # None => ~(deploy = "restart" /\ ring["console"].current # env.current)
    BY <2>1 DEF Strays
  <2>5. secret = None => ~HasCredential(row'[f])
    BY <1>00 DEF HasCredential
  <2>6. CASE deploy = "migrate"
    <3>1. f \notin strayed' /\ HasCredential(row'[f]) => Opens(env, f, row'[f].enc)
      BY <1>0, <2>2, <2>5, <2>6 DEF IInv, Deployed, Opens, Services
    <3>2. QED
      BY <2>1, <2>3, <2>6, <3>1 DEF IInv, Deployed, Running, Opens, HasCredential
  <2>7. CASE deploy # "migrate"
    <3>1. f \notin strayed' /\ HasCredential(row'[f]) => row'[f].enc.kid = env.current /\ row'[f].enc.for = f
      BY <1>0, <2>2, <2>4, <2>5, <2>7 DEF IInv, Deployed, TypeOK, Services
    <3>2. QED
      BY <2>1, <2>3, <2>7, <3>1 DEF IInv, Deployed, Running, Opens, HasCredential
  <2>8. QED
    BY <2>6, <2>7
<1>6. HealthIsOfConnection'
  BY <1>0, <1>00 DEF Put, record, IInv, HealthIsOfConnection, Exists, Stored, Secret, HasCredential
<1>. QED BY <1>1, <1>2, <1>3, <1>4, <1>5, <1>6 DEF IInv

\* A flock is deleted.
LEMMA DeleteIInv ==
  ASSUME FlocksAssumption, IInv, NEW f \in FlockIds, Delete(f)
  PROVE  IInv'
<1>1. TypeOK'
  BY DEF Delete, NextSave, RowFree, NoRow, deploys, record, FlocksAssumption, IInv, TypeOK, Rows,
     FlockIds, Services, Changes, Readings, Contents, Envelopes, Keyrings, Down, Foreign, Plain, Exists,
     Editing, Stored, Secret, HasCredential, Opens
<1>2. Editing'
  BY DEF Delete, NextSave, RowFree, NoRow, deploys, record, FlocksAssumption, IInv, TypeOK, Rows,
     Changes, Editing, Exists, HasCredential, Moves
<1>3. Bound'
  BY DEF Delete, NextSave, RowFree, NoRow, deploys, record, FlocksAssumption, IInv, TypeOK, Rows,
     Changes, Envelopes, Editing, Bound, Vouched, Exists, HasCredential, Moves, Opens, Sealed, Plain
<1>4. Sealed'
  BY DEF Delete, NextSave, RowFree, NoRow, deploys, record, FlocksAssumption, IInv, TypeOK, Rows,
     Envelopes, Sealed, Exists, HasCredential, Opens, Plain, Foreign, Keyrings, Running
<1>5. Deployed'
  BY DEF Delete, NextSave, RowFree, NoRow, deploys, record, FlocksAssumption, IInv, TypeOK, Rows,
     Envelopes, Sealed, Deployed, Exists, HasCredential, Opens, Plain, Foreign, Keyrings, Running,
     Services, Down
<1>6. HealthIsOfConnection'
  BY DEF Delete, NextSave, RowFree, NoRow, deploys, record, FlocksAssumption, IInv, TypeOK, Rows,
     Envelopes, HealthIsOfConnection, Exists, HasCredential, Stored, Secret, Opens, Sealed, Plain
<1>. QED BY <1>1, <1>2, <1>3, <1>4, <1>5, <1>6 DEF IInv

\* A pass reads every flock.
LEMMA PassStartIInv ==
  ASSUME FlocksAssumption, IInv, PassStart
  PROVE  IInv'
<1>1. TypeOK'
  <2>1. pass' \in [FlockIds -> Readings \cup {None}]
    BY ReadingType DEF PassStart, IInv, TypeOK
  <2>2. QED
    BY <2>1 DEF PassStart, IInv, TypeOK, deploys, record
<1>2. Editing'
  BY DEF PassStart, Pending, Probed, Reading, deploys, record, FlocksAssumption, IInv, TypeOK, Rows,
     Changes, Editing, Exists, HasCredential, Moves
<1>3. Bound'
  BY DEF PassStart, Pending, Probed, Reading, deploys, record, FlocksAssumption, IInv, TypeOK, Rows,
     Changes, Envelopes, Editing, Bound, Vouched, Exists, HasCredential, Moves, Opens, Sealed, Plain
<1>4. Sealed'
  BY DEF PassStart, Pending, Probed, Reading, deploys, record, FlocksAssumption, IInv, TypeOK, Rows,
     Envelopes, Sealed, Exists, HasCredential, Opens, Plain, Foreign, Keyrings, Running
<1>5. Deployed'
  BY DEF PassStart, Pending, Probed, Reading, deploys, record, FlocksAssumption, IInv, TypeOK, Rows,
     Envelopes, Sealed, Deployed, Exists, HasCredential, Opens, Plain, Foreign, Keyrings, Running,
     Services, Down
<1>6. HealthIsOfConnection'
  BY DEF PassStart, Pending, Probed, Reading, deploys, record, FlocksAssumption, IInv, TypeOK, Rows,
     Envelopes, HealthIsOfConnection, Exists, HasCredential, Stored, Secret, Opens, Sealed, Plain
<1>. QED BY <1>1, <1>2, <1>3, <1>4, <1>5, <1>6 DEF IInv

\* A pass records a probe.
LEMMA PassProbeIInv ==
  ASSUME FlocksAssumption, IInv, NEW f \in FlockIds, NEW answer \in {"ok", "bad"}, PassProbe(f, answer)
  PROVE  IInv'
<1>0. /\ pass[f] \in Readings
      /\ row' \in [FlockIds -> Rows]
      /\ \A g \in FlockIds : /\ row'[g].state = row[g].state
                             /\ row'[g].conn = row[g].conn
                             /\ row'[g].enc = row[g].enc
      /\ HealthIsOfConnection'
  <2>1. pass[f] \in Readings
    BY DEF PassProbe, Turn, Pending, IInv, TypeOK
  <2>2. QED
    BY <2>1, RecordKeeps DEF PassProbe, IInv
<1>1. TypeOK'
  <2>1. row' \in [FlockIds -> Rows]
    BY <1>0
  <2>2. seen' \in [FlockIds -> Contents]
    BY <1>0 DEF PassProbe, Record, record, IInv, TypeOK, Readings
  <2>3. QED
    BY <2>1, <2>2 DEF PassProbe, IInv, TypeOK, deploys, Running, Opens, Exists, Editing
<1>2. Editing'
  BY <1>0 DEF PassProbe, Editing, IInv, TypeOK, Changes, HasCredential, Moves, Exists
<1>3. Bound'
  BY <1>0 DEF PassProbe, Bound, Vouched, IInv, HasCredential
<1>4. Sealed'
  BY <1>0 DEF PassProbe, Sealed, IInv, HasCredential, deploys
<1>5. Deployed'
  BY <1>0 DEF PassProbe, Deployed, IInv, deploys, HasCredential, Opens, Running
<1>6. HealthIsOfConnection'
  BY <1>0
<1>. QED BY <1>1, <1>2, <1>3, <1>4, <1>5, <1>6 DEF IInv

\* A pass gives a probe up.
LEMMA PassProbeFailsIInv ==
  ASSUME FlocksAssumption, IInv, NEW f \in FlockIds, PassProbeFails(f)
  PROVE  IInv'
<1>1. TypeOK'
  BY DEF PassProbeFails, Turn, Pending, deploys, record, FlocksAssumption, IInv, TypeOK, Rows, FlockIds,
     Services, Changes, Readings, Contents, Envelopes, Keyrings, Down, Foreign, Plain, Exists, Editing,
     Stored, Secret, HasCredential, Opens
<1>2. Editing'
  BY DEF PassProbeFails, Turn, Pending, deploys, record, FlocksAssumption, IInv, TypeOK, Rows, Changes,
     Editing, Exists, HasCredential, Moves
<1>3. Bound'
  BY DEF PassProbeFails, Turn, Pending, deploys, record, FlocksAssumption, IInv, TypeOK, Rows, Changes,
     Envelopes, Editing, Bound, Vouched, Exists, HasCredential, Moves, Opens, Sealed, Plain
<1>4. Sealed'
  BY DEF PassProbeFails, Turn, Pending, deploys, record, FlocksAssumption, IInv, TypeOK, Rows,
     Envelopes, Sealed, Exists, HasCredential, Opens, Plain, Foreign, Keyrings, Running
<1>5. Deployed'
  BY DEF PassProbeFails, Turn, Pending, deploys, record, FlocksAssumption, IInv, TypeOK, Rows,
     Envelopes, Sealed, Deployed, Exists, HasCredential, Opens, Plain, Foreign, Keyrings, Running,
     Services, Down
<1>6. HealthIsOfConnection'
  BY DEF PassProbeFails, Turn, Pending, deploys, record, FlocksAssumption, IInv, TypeOK, Rows,
     Envelopes, HealthIsOfConnection, Exists, HasCredential, Stored, Secret, Opens, Sealed, Plain
<1>. QED BY <1>1, <1>2, <1>3, <1>4, <1>5, <1>6 DEF IInv

\* A test reads its flock.
LEMMA TestReadIInv ==
  ASSUME FlocksAssumption, IInv, NEW t \in Tests, NEW f \in FlockIds, TestRead(t, f)
  PROVE  IInv'
<1>1. TypeOK'
  <2>1. test' \in [Tests -> Readings \cup {None}]
    BY ReadingType DEF TestRead, IInv, TypeOK
  <2>2. QED
    BY <2>1 DEF TestRead, IInv, TypeOK, deploys, record
<1>2. Editing'
  BY DEF TestRead, Reading, deploys, record, FlocksAssumption, IInv, TypeOK, Rows, Changes, Editing,
     Exists, HasCredential, Moves
<1>3. Bound'
  BY DEF TestRead, Reading, deploys, record, FlocksAssumption, IInv, TypeOK, Rows, Changes, Envelopes,
     Editing, Bound, Vouched, Exists, HasCredential, Moves, Opens, Sealed, Plain
<1>4. Sealed'
  BY DEF TestRead, Reading, deploys, record, FlocksAssumption, IInv, TypeOK, Rows, Envelopes, Sealed,
     Exists, HasCredential, Opens, Plain, Foreign, Keyrings, Running
<1>5. Deployed'
  BY DEF TestRead, Reading, deploys, record, FlocksAssumption, IInv, TypeOK, Rows, Envelopes, Sealed,
     Deployed, Exists, HasCredential, Opens, Plain, Foreign, Keyrings, Running, Services, Down
<1>6. HealthIsOfConnection'
  BY DEF TestRead, Reading, deploys, record, FlocksAssumption, IInv, TypeOK, Rows, Envelopes,
     HealthIsOfConnection, Exists, HasCredential, Stored, Secret, Opens, Sealed, Plain
<1>. QED BY <1>1, <1>2, <1>3, <1>4, <1>5, <1>6 DEF IInv

\* A test records its probe.
LEMMA TestRecordIInv ==
  ASSUME FlocksAssumption, IInv, NEW t \in Tests, NEW answer \in {"ok", "bad"}, TestRecord(t, answer)
  PROVE  IInv'
<1>0. /\ test[t] \in Readings
      /\ row' \in [FlockIds -> Rows]
      /\ \A g \in FlockIds : /\ row'[g].state = row[g].state
                             /\ row'[g].conn = row[g].conn
                             /\ row'[g].enc = row[g].enc
      /\ HealthIsOfConnection'
  <2>1. test[t] \in Readings
    BY DEF TestRecord, IInv, TypeOK
  <2>2. QED
    BY <2>1, RecordKeeps DEF TestRecord, IInv
<1>1. TypeOK'
  <2>1. row' \in [FlockIds -> Rows]
    BY <1>0
  <2>2. seen' \in [FlockIds -> Contents]
    BY <1>0 DEF TestRecord, Record, record, IInv, TypeOK, Readings
  <2>3. test' \in [Tests -> Readings \cup {None}]
    BY DEF TestRecord, IInv, TypeOK
  <2>4. QED
    BY <2>1, <2>2, <2>3 DEF TestRecord, IInv, TypeOK, deploys
<1>2. Editing'
  BY <1>0 DEF TestRecord, Editing, IInv, TypeOK, Changes, HasCredential, Moves, Exists
<1>3. Bound'
  BY <1>0 DEF TestRecord, Bound, Vouched, IInv, HasCredential
<1>4. Sealed'
  BY <1>0 DEF TestRecord, Sealed, IInv, HasCredential, deploys
<1>5. Deployed'
  BY <1>0 DEF TestRecord, Deployed, IInv, deploys, HasCredential, Opens, Running
<1>6. HealthIsOfConnection'
  BY <1>0
<1>. QED BY <1>1, <1>2, <1>3, <1>4, <1>5, <1>6 DEF IInv

\* A rotation starts a deploy: what is sealed under the key in use stays readable.
LEMMA RotateIInv ==
  ASSUME FlocksAssumption, IInv, Rotate \/ DropPrevious
  PROVE  IInv'
<1>1. TypeOK'
  <2>1. env' \in Keyrings
    <3>1. CASE Rotate
      BY <3>1 DEF Rotate, IInv, TypeOK, Keyrings, FlocksAssumption
    <3>2. CASE DropPrevious
      BY <3>2 DEF DropPrevious, IInv, TypeOK, Keyrings
    <3>3. QED
      BY <3>1, <3>2
  <2>2. deploy' = "migrate" /\ UNCHANGED <<row, lock, save, pass, test, ring, seen>>
    BY DEF Rotate, DropPrevious, record
  <2>3. QED
    BY <2>1, <2>2 DEF IInv, TypeOK
<1>2. Editing'
  BY DEF Rotate, DropPrevious, record, FlocksAssumption, IInv, TypeOK, Rows, Changes, Editing, Exists,
     HasCredential, Moves
<1>3. Bound'
  BY DEF Rotate, DropPrevious, record, FlocksAssumption, IInv, TypeOK, Rows, Changes, Envelopes,
     Editing, Bound, Vouched, Exists, HasCredential, Moves, Opens, Sealed, Plain
<1>4. Sealed'
  BY DEF Rotate, DropPrevious, record, FlocksAssumption, IInv, TypeOK, Rows, Envelopes, Sealed, Exists,
     HasCredential, Opens, Plain, Foreign, Keyrings, Running
<1>5. Deployed'
  BY DEF Rotate, DropPrevious, record, FlocksAssumption, IInv, TypeOK, Rows, Envelopes, Sealed,
     Deployed, Exists, HasCredential, Opens, Plain, Foreign, Keyrings, Running, Services, Down
<1>6. HealthIsOfConnection'
  BY DEF Rotate, DropPrevious, record, FlocksAssumption, IInv, TypeOK, Rows, Envelopes,
     HealthIsOfConnection, Exists, HasCredential, Stored, Secret, Opens, Sealed, Plain
<1>. QED BY <1>1, <1>2, <1>3, <1>4, <1>5, <1>6 DEF IInv

\* A migration seals every value it opens under the key in use.
LEMMA MigrateIInv ==
  ASSUME FlocksAssumption, IInv, Migrate
  PROVE  IInv'
<1>0. /\ row' \in [FlockIds -> Rows]
      /\ \A f \in FlockIds : /\ row'[f].state = row[f].state
                             /\ row'[f].conn = row[f].conn
                             /\ row'[f].health = row[f].health
                             /\ row'[f].enc = IF HasCredential(row[f]) THEN Reseal(f, row[f].enc) ELSE None
                             /\ HasCredential(row[f]) => row[f].enc \in Envelopes /\ row'[f].enc \in Envelopes
                             /\ HasCredential(row'[f]) <=> HasCredential(row[f])
                             /\ HasCredential(row[f]) => row'[f].enc.secret = row[f].enc.secret
  <2> SUFFICES ASSUME NEW f \in FlockIds
               PROVE  /\ row'[f] \in Rows
                      /\ row'[f].state = row[f].state
                      /\ row'[f].conn = row[f].conn
                      /\ row'[f].health = row[f].health
                      /\ row'[f].enc = IF HasCredential(row[f]) THEN Reseal(f, row[f].enc) ELSE None
                      /\ HasCredential(row[f]) => row[f].enc \in Envelopes /\ row'[f].enc \in Envelopes
                      /\ HasCredential(row'[f]) <=> HasCredential(row[f])
                      /\ HasCredential(row[f]) => row'[f].enc.secret = row[f].enc.secret
    BY DEF Migrate
  <2>1. row[f] \in Rows
    BY DEF IInv, TypeOK
  <2>2. CASE HasCredential(row[f])
    <3>1. row[f].enc \in Envelopes
      BY <2>1, <2>2 DEF HasCredential, Rows
    <3>2. Reseal(f, row[f].enc) \in Envelopes /\ Reseal(f, row[f].enc).secret = row[f].enc.secret
      BY <3>1 DEF Reseal, Seal, Envelopes, IInv, TypeOK, Keyrings, Foreign, FlocksAssumption
    <3>3. row'[f] = [row[f] EXCEPT !.enc = Reseal(f, row[f].enc)]
      BY <2>2 DEF Migrate
    <3>4. QED
      BY <2>1, <2>2, <3>1, <3>2, <3>3 DEF Rows, HasCredential, FlocksAssumption
  <2>3. CASE ~HasCredential(row[f])
    BY <2>1, <2>3 DEF Migrate, HasCredential
  <2>4. QED
    BY <2>2, <2>3
<1>1. TypeOK'
  BY <1>0 DEF Migrate, IInv, TypeOK, record
<1>2. Editing'
  BY <1>0 DEF Migrate, IInv, TypeOK, Changes, Editing, Exists
<1>3. Bound'
  <2> SUFFICES ASSUME NEW f \in FlockIds, HasCredential(row'[f]), row'[f].enc.for = f
               PROVE  Vouched(f)'
    BY DEF Bound
  <2>1. HasCredential(row[f]) /\ row[f].enc.for = f
    BY <1>0 DEF Reseal, Opens, IInv, Sealed
  <2>2. paired' = paired
    BY DEF Migrate
  <2>3. QED
    BY <1>0, <2>1, <2>2 DEF IInv, Bound, Vouched
<1>4. Sealed'
  BY DEF Migrate, RowFree, Reseal, Seal, record, FlocksAssumption, IInv, TypeOK, Rows, Envelopes,
     Sealed, Exists, HasCredential, Opens, Plain, Foreign, Keyrings, Running
<1>5. Deployed'
  BY DEF Migrate, RowFree, Reseal, Seal, record, FlocksAssumption, IInv, TypeOK, Rows, Envelopes,
     Sealed, Deployed, Exists, HasCredential, Opens, Plain, Foreign, Keyrings, Running, Services, Down
<1>6. HealthIsOfConnection'
  BY <1>0 DEF Migrate, record, IInv, HealthIsOfConnection, Exists, Stored, Secret
<1>. QED BY <1>1, <1>2, <1>3, <1>4, <1>5, <1>6 DEF IInv

\* A service is replaced.
LEMMA RestartIInv ==
  ASSUME FlocksAssumption, IInv, NEW s \in Services, Restart(s)
  PROVE  IInv'
<1>1. TypeOK'
  <2>1. ring' \in [Services -> Keyrings \cup {Down}] /\ UNCHANGED <<row, env, seen>>
    BY DEF Restart, record, IInv, TypeOK
  <2>2. deploy' \in {"migrate", "restart", "done"} /\ pass' \in [FlockIds -> Readings \cup {None}]
    BY DEF Restart, IInv, TypeOK
  <2>3. CASE s = "console"
    BY <2>1, <2>2, <2>3 DEF Restart, IInv, TypeOK
  <2>4. CASE s # "console"
    BY <2>1, <2>2, <2>4 DEF Restart, IInv, TypeOK
  <2>5. QED
    BY <2>3, <2>4
<1>2. Editing'
  BY DEF Restart, record, FlocksAssumption, IInv, TypeOK, Rows, Changes, Editing, Exists, HasCredential,
     Moves
<1>3. Bound'
  BY DEF Restart, record, FlocksAssumption, IInv, TypeOK, Rows, Changes, Envelopes, Editing, Bound,
     Vouched, Exists, HasCredential, Moves, Opens, Sealed, Plain
<1>4. Sealed'
  BY DEF Restart, record, FlocksAssumption, IInv, TypeOK, Rows, Envelopes, Sealed, Exists,
     HasCredential, Opens, Plain, Foreign, Keyrings, Running
<1>5. Deployed'
  BY DEF Restart, record, FlocksAssumption, IInv, TypeOK, Rows, Envelopes, Sealed, Deployed, Exists,
     HasCredential, Opens, Plain, Foreign, Keyrings, Running, Services, Down
<1>6. HealthIsOfConnection'
  BY DEF Restart, record, FlocksAssumption, IInv, TypeOK, Rows, Envelopes, HealthIsOfConnection, Exists,
     HasCredential, Stored, Secret, Opens, Sealed, Plain
<1>. QED BY <1>1, <1>2, <1>3, <1>4, <1>5, <1>6 DEF IInv

\* A value is copied by hand.
LEMMA MisplaceIInv ==
  ASSUME FlocksAssumption, IInv, Misplacing
  PROVE  IInv'
<1>0. PICK f \in FlockIds, enc \in Envelopes :
        /\ Misplace(f, enc)
        /\ \/ enc.kid = Foreign /\ row[f].enc.for = enc.for /\ row[f].enc.secret = enc.secret
           \/ \E g \in FlockIds \ {f} : HasCredential(row[g]) /\ enc = row[g].enc
  <2>1. PICK f \in FlockIds :
          \/ HasCredential(row[f]) /\ Misplace(f, [row[f].enc EXCEPT !.kid = Foreign])
          \/ \E g \in FlockIds \ {f} : HasCredential(row[g]) /\ Misplace(f, row[g].enc)
    BY DEF Misplacing
  <2>2. \A g \in FlockIds : HasCredential(row[g]) => row[g].enc \in Envelopes
    BY DEF HasCredential, IInv, TypeOK, Rows
  <2>3. CASE HasCredential(row[f]) /\ Misplace(f, [row[f].enc EXCEPT !.kid = Foreign])
    <3>1. [row[f].enc EXCEPT !.kid = Foreign] \in Envelopes
      BY <2>2, <2>3 DEF Envelopes, Foreign, FlocksAssumption
    <3>2. QED
      BY <2>2, <2>3, <3>1 DEF Envelopes
  <2>4. CASE \E g \in FlockIds \ {f} : HasCredential(row[g]) /\ Misplace(f, row[g].enc)
    BY <2>2, <2>4
  <2>5. QED
    BY <2>1, <2>3, <2>4
<1>00. /\ \A g \in FlockIds \ {f} : row'[g] = row[g]
       /\ row'[f] = [row[f] EXCEPT !.enc = enc]
       /\ row'[f].enc = enc /\ row'[f].conn = row[f].conn
       /\ row'[f].state = row[f].state /\ row'[f].health = row[f].health
       /\ row' \in [FlockIds -> Rows]
       /\ HasCredential(row[f]) /\ lock[f] = None /\ deploy = "done"
       /\ HasCredential(row'[f])
  <2>1. row \in [FlockIds -> Rows] /\ row[f] \in Rows
    BY DEF IInv, TypeOK
  <2>2. [row[f] EXCEPT !.enc = enc] \in Rows
    BY <2>1 DEF Rows
  <2>3. row' = [row EXCEPT ![f] = [row[f] EXCEPT !.enc = enc]]
    BY <1>0, <2>1 DEF Misplace
  <2>4. HasCredential(row[f]) /\ lock[f] = None /\ deploy = "done"
    BY <1>0 DEF Misplace, RowFree
  <2>5. enc # None
    BY DEF FlocksAssumption
  <2>6. QED
    BY <2>1, <2>2, <2>3, <2>4, <2>5 DEF Rows, HasCredential
<1>1. TypeOK'
  BY <1>0, <1>00 DEF Misplace, IInv, TypeOK, deploys
<1>2. Editing'
  BY <1>0, <1>00 DEF Misplace, IInv, TypeOK, Editing, Exists, HasCredential, Changes, FlocksAssumption
<1>3. Bound'
  <2> SUFFICES ASSUME NEW g \in FlockIds, HasCredential(row'[g]), row'[g].enc.for = g
               PROVE  Vouched(g)'
    BY DEF Bound
  <2>1. paired \subseteq paired'
    BY <1>0 DEF Misplace
  <2>2. CASE g = f
    <3>1. [conn |-> row[f].conn, secret |-> enc.secret] \in paired'
      BY <1>0, <1>00, <2>2 DEF Misplace
    <3>2. QED
      BY <1>00, <2>2, <3>1 DEF Vouched
  <2>3. CASE g # f
    BY <1>00, <2>1, <2>3 DEF IInv, Bound, Vouched
  <2>4. QED
    BY <2>2, <2>3
<1>4. Sealed'
  <2>1. enc.kid # Plain
    BY <1>0, <1>00 DEF IInv, Sealed, Plain, Foreign, FlocksAssumption
  <2>2. QED
    BY <1>0, <1>00, <2>1 DEF Misplace, IInv, Sealed, deploys
<1>5. Deployed'
  <2>1. strayed' = strayed \cup {f} /\ UNCHANGED <<ring, env, deploy>>
    BY <1>0 DEF Misplace, deploys
  <2>2. QED
    BY <1>00, <2>1 DEF IInv, Deployed, Running
<1>6. HealthIsOfConnection'
  <2>1. raced' = raced \cup {f} /\ seen' = seen
    BY <1>0 DEF Misplace
  <2>2. QED
    BY <1>00, <2>1 DEF IInv, HealthIsOfConnection, Exists, Stored
<1>. QED BY <1>1, <1>2, <1>3, <1>4, <1>5, <1>6 DEF IInv

\* Every step keeps the invariant.
LEMMA NextIInv == ASSUME FlocksAssumption, IInv, [Next]_flockVars PROVE IInv'
<1>1. CASE Saving
  BY <1>1, SaveWriteIInv, SaveAbortIInv, SaveReadIInv, SaveCredentialIInv, DeleteIInv DEF Saving
<1>2. CASE Scheduling \/ \E f \in FlockIds : PassProbeFails(f)
  BY <1>2, PassStartIInv, PassProbeIInv, PassProbeFailsIInv DEF Scheduling
<1>3. CASE Testing
  BY <1>3, TestReadIInv, TestRecordIInv DEF Testing
<1>4. CASE Rotate \/ DropPrevious \/ Deploying
  BY <1>4, RotateIInv, MigrateIInv, RestartIInv DEF Deploying
<1>5. CASE Misplacing
  BY <1>5, MisplaceIInv
<1>6. CASE UNCHANGED flockVars
  BY <1>6 DEF flockVars, deploys, record, IInv, TypeOK, Editing, Exists, HasCredential, Bound, Vouched,
              Sealed, Deployed, Running, Opens, HealthIsOfConnection, Stored, Secret
<1>7. QED
  BY <1>1, <1>2, <1>3, <1>4, <1>5, <1>6 DEF Next

THEOREM Invariance == ASSUME FlocksAssumption PROVE Spec => []IInv
<1>1. Init => IInv
  BY InitIInv
<1>2. IInv /\ [Next]_flockVars => IInv'
  BY NextIInv
<1>3. QED
  BY <1>1, <1>2, PTL DEF Spec

\* Rows, saves, readings and keyrings keep their types, and a row is locked by a save
\* of that row that is in flight.
THEOREM TypeCorrect == ASSUME FlocksAssumption PROVE Spec => []TypeOK
<1>1. IInv => TypeOK
  BY DEF IInv
<1>2. QED
  BY <1>1, Invariance, PTL

\* A credential a service can open is beside an address its owner gave it with, and
\* with no more trust: no order of saves, moves, deploys and copied values takes it
\* elsewhere (saveFlock's rebind check, the envelope's binding to its row).
THEOREM CredentialStays == ASSUME FlocksAssumption PROVE Spec => []CredentialStaysWhereGiven
<1>1. IInv => CredentialStaysWhereGiven
  BY IInvSafe
<1>2. QED
  BY <1>1, Invariance, PTL

\* A health shown is of the connection and the credential stored, but for a probe that
\* was in flight when they changed (recordFlockHealth is an UPDATE by id).
THEOREM HealthOfConnection == ASSUME FlocksAssumption PROVE Spec => []HealthIsOfConnection
<1>1. IInv => HealthIsOfConnection
  BY IInvSafe
<1>2. QED
  BY <1>1, Invariance, PTL

\* However many rotations follow one another, each done in its two deploys: a service
\* opens every credential once a deploy is through, but those saved by a console the
\* deploy had still to replace and those copied by hand (resealCredentials).
THEOREM RotationKeeps == ASSUME FlocksAssumption PROVE Spec => []RotationKeepsCredentials
<1>1. IInv => RotationKeepsCredentials
  BY IInvSafe
<1>2. QED
  BY <1>1, Invariance, PTL
=============================================================================
