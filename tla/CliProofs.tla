------------------------------ MODULE CliProofs ------------------------------
(***************************************************************************)
(* Proofs about CliSession, for any processes and any number of commands,  *)
(* sign-ins and mishaps.                                                   *)
(***************************************************************************)
EXTENDS CliSession, TLAPS

(***************************************************************************)
(* The inductive invariant.  It follows a refresh token from the OP to the *)
(* file: the OP knows none newer than its current one; one just answered,  *)
(* or obtained by a sign-in that waits, is known to its process alone; and *)
(* a process that sends one is the only one at it, unless the lock was     *)
(* taken over, which spoils the token in the file.                         *)
(***************************************************************************)
Issued(c) ==
    c # Nil => c.grant <= signIns + 1 /\ (current[c.grant] = Dead \/ c.seq <= current[c.grant])
AllIssued ==
    /\ signIns \in 0..MaxLogins
    /\ presented \subseteq Tokens
    /\ \A g \in Grants : g > signIns + 1 => current[g] = Dead
    /\ Issued(store)
    /\ \A p \in Procs : Issued(proc[p].cred) /\ Issued(proc[p].next)
    /\ \A c \in presented : Issued(c)

\* What a process has read by where it is.
Steady ==
    \A p \in Procs :
        /\ proc[p].pc \in {"sent", "answered"} => proc[p].op = "call"
        /\ proc[p].pc \in {"revoke", "forget"} => proc[p].op # "call" /\ proc[p].cred # Nil
        /\ proc[p].pc = "forget" => proc[p].op = "logout"
        /\ proc[p].op = "call" /\ proc[p].pc # "idle" => proc[p].cred # Nil

\* A sign-in that waits has a good token of a grant nobody else knows.
Signing(p) == proc[p].op = "login" /\ proc[p].pc \in {"wait", "judged", "unlink", "in"}
Other(c, grant) == c # Nil => c.grant # grant
OwnGrant ==
    \A p \in Procs : Signing(p) =>
        /\ proc[p].next # Nil
        /\ current[proc[p].next.grant] = proc[p].next.seq
        /\ Other(store, proc[p].next.grant)
        /\ \A q \in Procs : Other(proc[q].cred, proc[p].next.grant)
        /\ \A q \in Procs \ {p} : Other(proc[q].next, proc[p].next.grant)
        /\ \A c \in presented : c.grant # proc[p].next.grant

\* A token the OP just answered is known to nobody else.
Rotating(p) == proc[p].pc = "answered" /\ proc[p].next # Nil
OwnToken ==
    \A p \in Procs : Rotating(p) =>
        /\ proc[p].next.grant = proc[p].cred.grant
        /\ proc[p].next # store
        /\ \A q \in Procs : proc[q].cred # proc[p].next
        /\ \A q \in Procs \ {p} : proc[q].next # proc[p].next
        /\ proc[p].next \notin presented

\* A refresh is alone with the token it holds, or that token is excused.
OnlyOne(p) == \A q \in Procs : Inside(q) => q = p
Alone ==
    \A p \in Procs :
        /\ proc[p].pc \in {"sent", "answered"} =>
              proc[p].cred \in spoiled \/ (OnlyOne(p) /\ store = proc[p].cred)
        /\ proc[p].pc = "in" /\ proc[p].op = "call" /\ store = proc[p].cred =>
              proc[p].cred \in spoiled \/ OnlyOne(p)

\* The token in the file, and one about to be sent, have not been presented.
Unspent ==
    /\ again \subseteq spoiled
    /\ \A p \in Procs : proc[p].pc = "sent" /\ proc[p].cred \in presented => proc[p].cred \in spoiled
    /\ store \in presented /\ store \notin spoiled =>
          \E p \in Procs : proc[p].pc = "answered" /\ proc[p].cred = store

\* What holds while no two processes have been in at once.
Knows(p) ==
    /\ proc[p].pc \in {"sent", "answered"} => store = proc[p].cred
    /\ Rotating(p) => current[proc[p].next.grant] = proc[p].next.seq
    /\ proc[p].pc = "revoke" /\ proc[p].op = "login" => Other(store, proc[p].cred.grant)
    /\ proc[p].pc \in {"revoke", "forget"} /\ proc[p].op = "logout" => store = proc[p].cred
Replacing(p) == proc[p].pc = "forget" \/ (proc[p].pc = "answered" /\ proc[p].cred = store)
Good ==
    store # Nil =>
        /\ store.grant = newest
        /\ store \in spoiled \/ current[store.grant] = store.seq \/ \E p \in Procs : Replacing(p)
Exclusive ==
    ~shared =>
        /\ \A p \in Procs : Inside(p) => OnlyOne(p)
        /\ \A p \in Procs : Knows(p)
        /\ Good

\* What holds while nothing went wrong: who is in made the lock file.
HasLock(p) == Inside(p) \/ proc[p].pc \in {"out", "unlinkOwn"}
Excludes ==
    mishap = 0 =>
        /\ ~shared
        /\ lockFile # Nil => ~lockFile.old /\ ~lockFile.exited
        /\ \A p \in Procs :
              /\ proc[p].pc \notin {"judged", "unlink"}
              /\ HasLock(p) => Same(p) /\ \A q \in Procs : HasLock(q) => q = p

IInv ==
    /\ TypeOK /\ AllIssued /\ Steady /\ OwnGrant /\ OwnToken
    /\ Alone /\ Unspent /\ Exclusive /\ Excludes

\* The invariant says what the runs check.
LEMMA IInvStoreIsCurrent == ASSUME CliAssumption, IInv PROVE StoreIsCurrent
<1>1. TypeOK /\ PresentedOnce
  BY DEF IInv, Unspent, PresentedOnce
<1>2. StoredIsLive
  BY DEF IInv, Exclusive, Good, Replacing, Inside, Holders, StoredIsLive
<1>3. NewestStands
  BY DEF IInv, Exclusive, Good, NewestStands
<1>4. SharedAfterMishap
  BY DEF IInv, TypeOK, Excludes, SharedAfterMishap
<1>5. QED
  BY <1>1, <1>2, <1>3, <1>4 DEF StoreIsCurrent

\* Signed in or not, nobody is at work at first.
LEMMA InitIInv == ASSUME CliAssumption, Init PROVE IInv
<1>1. /\ \A p \in Procs : proc[p] = Idle
      /\ presented = {} /\ again = {} /\ spoiled = {} /\ signIns = 0 /\ locks = 0 /\ mishap = 0
      /\ shared = FALSE /\ lockFile = Nil
      /\ current = [g \in Grants |-> IF g = 1 THEN 1 ELSE Dead]
  BY DEF Init
<1>2. 1 \in Grants /\ MaxLogins \in Nat
  BY DEF Grants, CliAssumption
<1>3. [grant |-> 1, seq |-> 1] \in Tokens
  BY <1>2 DEF Tokens
<1>4. \A p \in Procs : /\ proc[p].pc = "idle" /\ proc[p].op = "call"
                       /\ proc[p].cred = Nil /\ proc[p].next = Nil
  <2> SUFFICES ASSUME NEW p \in Procs
               PROVE  /\ proc[p].pc = "idle" /\ proc[p].op = "call"
                      /\ proc[p].cred = Nil /\ proc[p].next = Nil
    OBVIOUS
  <2>1. proc[p] = [pc |-> "idle", op |-> "call", cred |-> Nil, id |-> 0, next |-> Nil]
    BY <1>1 DEF Idle
  <2>2. QED
    BY <2>1
<1>5. TypeOK
  <2>1. proc \in [Procs -> Processes]
    BY DEF Init, Idle, Processes, Steps
  <2>2. QED
    BY <1>1, <1>3, <1>4, <2>1 DEF Init, TypeOK, Dead, Inside
<1>6. AllIssued
  BY <1>1, <1>2, <1>4 DEF Init, AllIssued, Issued, Grants, Dead
<1>7. Steady /\ OwnGrant /\ OwnToken /\ Alone
  BY <1>4 DEF Steady, OwnGrant, Signing, OwnToken, Rotating, Alone
<1>8. Unspent
  BY <1>1, <1>4 DEF Unspent
<1>9. Exclusive
  BY <1>1, <1>2, <1>4 DEF Init, Exclusive, Inside, Knows, Rotating, Good, Dead
<1>10. Excludes
  BY <1>1, <1>4 DEF Excludes, HasLock, Inside
<1>11. QED
  BY <1>5, <1>6, <1>7, <1>8, <1>9, <1>10 DEF IInv

\* A process that moves on stays one.
LEMMA Moves ==
  ASSUME TypeOK, NEW p \in Procs, NEW pc \in Steps
  PROVE  /\ [proc EXCEPT ![p].pc = pc] \in [Procs -> Processes]
         /\ \A id \in Nat : [proc EXCEPT ![p].pc = pc, ![p].id = id] \in [Procs -> Processes]
         /\ \A c \in Tokens \cup {Nil} :
               /\ [proc EXCEPT ![p].pc = pc, ![p].cred = c] \in [Procs -> Processes]
               /\ [proc EXCEPT ![p].pc = pc, ![p].next = c] \in [Procs -> Processes]
<1>1. /\ proc \in [Procs -> Processes]
      /\ proc[p] = [pc |-> proc[p].pc, op |-> proc[p].op, cred |-> proc[p].cred,
                    id |-> proc[p].id, next |-> proc[p].next]
  BY DEF TypeOK, Processes
<1>2. [proc EXCEPT ![p].pc = pc] \in [Procs -> Processes]
  BY <1>1 DEF Processes
<1>3. ASSUME NEW id \in Nat
      PROVE  [proc EXCEPT ![p].pc = pc, ![p].id = id] \in [Procs -> Processes]
  BY <1>1 DEF Processes
<1>4. ASSUME NEW c \in Tokens \cup {Nil}
      PROVE  /\ [proc EXCEPT ![p].pc = pc, ![p].cred = c] \in [Procs -> Processes]
             /\ [proc EXCEPT ![p].pc = pc, ![p].next = c] \in [Procs -> Processes]
  BY <1>1 DEF Processes
<1>5. QED
  BY <1>2, <1>3, <1>4

\* Who learns no token it did not know keeps to those the OP issued.
Known(c) == c \in {Nil, store} \/ \E q \in Procs : c \in {proc[q].cred, proc[q].next}
LEMMA NothingNew ==
  ASSUME AllIssued, UNCHANGED <<current, signIns, presented>>, Known(store'),
         \A q \in Procs : Known(proc'[q].cred) /\ Known(proc'[q].next)
  PROVE  AllIssued'
<1>1. ASSUME NEW c, Known(c)
      PROVE  Issued(c)'
  BY <1>1 DEF Known, Issued, AllIssued
<1>2. \A c \in presented' : Issued(c)'
  BY DEF Issued, AllIssued
<1>3. QED
  BY <1>1, <1>2 DEF AllIssued, Issued

\* A step that moves one process, with all it knows, on to another point.
LEMMA MovesOn ==
  ASSUME TypeOK, NEW p \in Procs, NEW pc, proc' = [proc EXCEPT ![p].pc = pc]
  PROVE  /\ \A q \in Procs \ {p} : proc'[q] = proc[q]
         /\ \A q \in Procs : /\ proc'[q].op = proc[q].op /\ proc'[q].id = proc[q].id
                             /\ proc'[q].cred = proc[q].cred /\ proc'[q].next = proc[q].next
         /\ proc'[p].pc = pc
BY DEF TypeOK, Processes

\* A call has read the file's credential.
LEMMA StartCallIInv ==
  ASSUME CliAssumption, IInv, NEW p \in Procs, StartCall(p)
  PROVE  IInv'
<1>1. TypeOK'
  BY DEF IInv, CliAssumption, StartCall, past, Begin, Idle, TypeOK, Grants, Tokens, Locks, Steps,
     Inside, Steady, Processes
<1>2. AllIssued'
  <2>1. \A q \in Procs : Known(proc'[q].cred) /\ Known(proc'[q].next)
    BY DEF StartCall, Idle, Known, IInv, TypeOK, Processes
  <2>2. QED
    BY <2>1, NothingNew DEF StartCall, past, Known, IInv
<1>3. Steady'
  BY DEF IInv, CliAssumption, StartCall, past, Begin, Idle, TypeOK, Processes, Tokens, Steady
<1>4. OwnGrant'
  BY DEF IInv, CliAssumption, StartCall, past, Begin, Idle, TypeOK, Processes, Tokens, OwnGrant,
     Signing, Other, Steady, AllIssued, Issued
<1>5. OwnToken'
  BY DEF IInv, CliAssumption, StartCall, past, Begin, Idle, TypeOK, Processes, Tokens, OwnToken,
     OwnGrant, Signing, Other, Rotating, Steady, AllIssued, Issued
<1>6. Alone'
  BY DEF IInv, CliAssumption, StartCall, past, Begin, Idle, TypeOK, Processes, Tokens, Alone, OnlyOne,
     Inside, Steady, OwnGrant, Signing, Other
<1>7. Unspent'
  BY DEF IInv, CliAssumption, StartCall, past, Begin, Idle, TypeOK, Processes, Tokens, Unspent, Alone,
     OnlyOne, Inside, OwnToken, OwnGrant, Signing, Rotating, Steady, Other
<1>8. Exclusive'
  BY DEF IInv, CliAssumption, StartCall, past, Begin, Idle, TypeOK, Processes, Tokens, Exclusive,
     OnlyOne, Inside, Knows, Replacing, Good, Rotating, OwnGrant, OwnToken, Signing, Steady, Other,
     AllIssued, Issued
<1>9. Excludes'
  BY DEF IInv, CliAssumption, StartCall, past, Begin, Idle, TypeOK, Processes, Locks, Excludes, HasLock,
     Inside, Same, Steady
<1>. QED BY <1>1, <1>2, <1>3, <1>4, <1>5, <1>6, <1>7, <1>8, <1>9 DEF IInv

\* A sign-in gets a grant the OP never issued a token of.
LEMMA StartLoginIInv ==
  ASSUME CliAssumption, IInv, NEW p \in Procs, StartLogin(p)
  PROVE  IInv'
<1>1. TypeOK'
  <2>1. NewGrant \in Grants /\ current[NewGrant] = 0 /\ current[NewGrant] + 1 = 1
    BY DEF NewGrant, Grants, StartLogin, IInv, AllIssued, CliAssumption, Dead
  <2>2. [grant |-> NewGrant, seq |-> 1] \in Tokens
    BY <2>1 DEF Tokens
  <2>3. proc' \in [Procs -> Processes]
    <3>1. [Idle EXCEPT !.pc = "wait", !.op = "login", !.next = [grant |-> NewGrant, seq |-> 1]] \in Processes
      BY <2>2 DEF Idle, Processes, Steps
    <3>2. QED
      BY <2>1, <3>1 DEF StartLogin, IInv, TypeOK
  <2>4. current' \in [Grants -> Nat]
    BY <2>1 DEF StartLogin, IInv, TypeOK
  <2>5. \A q \in Procs : Inside(q)' => proc'[q].id \in 1..locks'
    BY DEF IInv, CliAssumption, StartLogin, past, Begin, Idle, NewGrant, Dead, TypeOK, Grants, Tokens,
       Locks, Steps, Inside, Steady, Processes
  <2>6. QED
    BY <2>3, <2>4, <2>5 DEF StartLogin, IInv, TypeOK, past
<1>2. AllIssued'
  <2>1. NewGrant \in Grants /\ current[NewGrant] = Dead /\ current[NewGrant] + 1 = 1
    BY DEF NewGrant, Grants, StartLogin, IInv, AllIssued, CliAssumption, Dead
  <2>2. signIns' = signIns + 1 /\ current' = [current EXCEPT ![NewGrant] = 1]
    BY <2>1 DEF StartLogin
  <2>3. proc' = [proc EXCEPT ![p] = [Idle EXCEPT !.pc = "wait", !.op = "login",
                                                 !.next = [grant |-> NewGrant, seq |-> 1]]]
    BY <2>1 DEF StartLogin
  <2>4. ASSUME NEW d \in Tokens, Issued(d)
        PROVE  Issued(d)'
    BY <2>1, <2>2, <2>4 DEF Issued, NewGrant, IInv, AllIssued, TypeOK, Tokens, Grants, CliAssumption
  <2>5. NewGrant <= signIns' + 1 /\ current'[NewGrant] = 1
    BY <2>1, <2>2 DEF NewGrant, IInv, AllIssued, TypeOK, Grants, CliAssumption
  <2>6. presented' \subseteq Tokens /\ \A d \in presented' : Issued(d)'
    BY <2>4 DEF StartLogin, past, IInv, AllIssued
  <2>7. \A g \in Grants : g > signIns' + 1 => current'[g] = Dead
    BY <2>1, <2>2 DEF NewGrant, IInv, AllIssued, TypeOK, Grants, CliAssumption
  <2>8. Issued(store)'
    BY <2>4 DEF StartLogin, IInv, AllIssued, TypeOK, Issued
  <2>9. \A q \in Procs : Issued(proc[q].cred)' /\ Issued(proc[q].next)'
    <3>1. Issued(proc[p].cred)' /\ Issued(proc[p].next)'
      BY <2>3, <2>5 DEF Idle, IInv, TypeOK, Issued, Dead
    <3>2. ASSUME NEW q \in Procs, q # p
          PROVE  Issued(proc[q].cred)' /\ Issued(proc[q].next)'
      BY <2>3, <2>4, <3>2 DEF IInv, AllIssued, TypeOK, Processes, Issued
    <3>3. QED
      BY <3>1, <3>2
  <2>10. signIns' \in 0..MaxLogins
    BY <2>2 DEF StartLogin, IInv, AllIssued, CliAssumption
  <2>11. QED
    BY <2>6, <2>7, <2>8, <2>9, <2>10 DEF AllIssued
<1>3. Steady'
  BY DEF IInv, CliAssumption, StartLogin, past, Begin, Idle, NewGrant, Dead, TypeOK, Processes, Tokens, Steady
<1>4. OwnGrant'
  <2>1. NewGrant \in Grants /\ current[NewGrant] = Dead /\ current[NewGrant] + 1 = 1
    BY DEF NewGrant, Grants, StartLogin, IInv, AllIssued, CliAssumption, Dead
  <2>2. current' = [current EXCEPT ![NewGrant] = 1]
    BY <2>1 DEF StartLogin
  <2>3. proc' = [proc EXCEPT ![p] = [Idle EXCEPT !.pc = "wait", !.op = "login",
                                                 !.next = [grant |-> NewGrant, seq |-> 1]]]
    BY <2>1 DEF StartLogin
  <2>4. /\ Other(store, NewGrant)
        /\ \A q \in Procs : Other(proc[q].cred, NewGrant) /\ Other(proc[q].next, NewGrant)
        /\ \A c \in presented : c.grant # NewGrant
    <3>1. signIns \in Nat /\ NewGrant > signIns + 1
      BY DEF NewGrant, IInv, AllIssued, CliAssumption
    <3>2. Nil \notin presented
      BY DEF IInv, AllIssued, CliAssumption
    <3>3. ASSUME NEW c \in Tokens \cup {Nil}, Issued(c), c # Nil
          PROVE  c.grant # NewGrant
      BY <3>1, <3>3 DEF Issued, Tokens, Grants
    <3>4. QED
      BY <3>2, <3>3 DEF Other, IInv, AllIssued, TypeOK, Processes
  <2>5. [grant |-> NewGrant, seq |-> 1] # Nil
    BY <2>1 DEF CliAssumption, Tokens
  <2>6. \A q \in Procs \ {p} : proc'[q] = proc[q]
    BY <2>3 DEF IInv, TypeOK
  <2>7. /\ proc'[p].next = [grant |-> NewGrant, seq |-> 1] /\ proc'[p].cred = Nil
        /\ store' = store /\ presented' = presented
    BY <2>3 DEF Idle, IInv, TypeOK, StartLogin, past
  <2>8. ASSUME NEW q \in Procs \ {p}, Signing(q)'
        PROVE  /\ proc[q].next # Nil
               /\ proc[q].next.grant # NewGrant /\ proc[q].next.grant \in Grants
               /\ current[proc[q].next.grant] = proc[q].next.seq
               /\ Other(store, proc[q].next.grant)
               /\ \A r \in Procs : Other(proc[r].cred, proc[q].next.grant)
               /\ \A r \in Procs \ {q} : Other(proc[r].next, proc[q].next.grant)
               /\ \A c \in presented : c.grant # proc[q].next.grant
    BY <2>4, <2>6, <2>8 DEF Signing, IInv, OwnGrant, Other, TypeOK, Processes, Tokens
  <2>9. ASSUME NEW q \in Procs, Signing(q)'
        PROVE  /\ proc'[q].next # Nil
               /\ current'[proc'[q].next.grant] = proc'[q].next.seq
               /\ Other(store, proc[q].next.grant)'
               /\ \A r \in Procs : Other(proc[r].cred, proc[q].next.grant)'
               /\ \A r \in Procs \ {q} : Other(proc[r].next, proc[q].next.grant)'
               /\ \A c \in presented' : c.grant # proc'[q].next.grant
    <3>1. CASE q = p
      BY <2>1, <2>2, <2>4, <2>5, <2>6, <2>7, <3>1 DEF Other, IInv, TypeOK
    <3>2. CASE q # p
      BY <2>1, <2>2, <2>4, <2>6, <2>7, <2>8, <2>9, <3>2 DEF Other, IInv, TypeOK
    <3>3. QED
      BY <3>1, <3>2
  <2>10. QED
    BY <2>9 DEF OwnGrant
<1>5. OwnToken'
  BY DEF IInv, CliAssumption, StartLogin, past, Begin, Idle, NewGrant, Dead, TypeOK, Processes, Tokens,
     OwnToken, OwnGrant, Signing, Other, Rotating, Steady, AllIssued, Issued
<1>6. Alone'
  BY DEF IInv, CliAssumption, StartLogin, past, Begin, Idle, NewGrant, Dead, TypeOK, Processes, Tokens,
     Alone, OnlyOne, Inside, Steady, OwnGrant, Signing, Other
<1>7. Unspent'
  BY DEF IInv, CliAssumption, StartLogin, past, Begin, Idle, NewGrant, Dead, TypeOK, Processes, Tokens,
     Unspent, Alone, OnlyOne, Inside, OwnToken, OwnGrant, Signing, Rotating, Steady, Other
<1>8. Exclusive'
  BY DEF IInv, CliAssumption, StartLogin, past, Begin, Idle, NewGrant, Dead, TypeOK, Processes, Tokens,
     Exclusive, OnlyOne, Inside, Knows, Replacing, Good, Rotating, OwnGrant, OwnToken, Signing, Steady,
     Other, AllIssued, Issued
<1>9. Excludes'
  BY DEF IInv, CliAssumption, StartLogin, past, Begin, Idle, NewGrant, Dead, TypeOK, Processes, Locks,
     Excludes, HasLock, Inside, Same, Steady
<1>. QED BY <1>1, <1>2, <1>3, <1>4, <1>5, <1>6, <1>7, <1>8, <1>9 DEF IInv

\* A sign-out begins with nothing.
LEMMA StartLogoutIInv ==
  ASSUME CliAssumption, IInv, NEW p \in Procs, StartLogout(p)
  PROVE  IInv'
<1>1. TypeOK'
  BY DEF IInv, CliAssumption, StartLogout, past, Begin, Idle, TypeOK, Grants, Tokens, Locks, Steps,
     Inside, Steady, Processes
<1>2. AllIssued'
  <2>1. \A q \in Procs : Known(proc'[q].cred) /\ Known(proc'[q].next)
    BY DEF StartLogout, Idle, Known, IInv, TypeOK, Processes
  <2>2. QED
    BY <2>1, NothingNew DEF StartLogout, past, Known, IInv
<1>3. Steady'
  BY DEF IInv, CliAssumption, StartLogout, past, Begin, Idle, TypeOK, Processes, Tokens, Steady
<1>4. OwnGrant'
  BY DEF IInv, CliAssumption, StartLogout, past, Begin, Idle, TypeOK, Processes, Tokens, OwnGrant,
     Signing, Other, Steady, AllIssued, Issued
<1>5. OwnToken'
  BY DEF IInv, CliAssumption, StartLogout, past, Begin, Idle, TypeOK, Processes, Tokens, OwnToken,
     OwnGrant, Signing, Other, Rotating, Steady, AllIssued, Issued
<1>6. Alone'
  BY DEF IInv, CliAssumption, StartLogout, past, Begin, Idle, TypeOK, Processes, Tokens, Alone, OnlyOne,
     Inside, Steady, OwnGrant, Signing, Other
<1>7. Unspent'
  BY DEF IInv, CliAssumption, StartLogout, past, Begin, Idle, TypeOK, Processes, Tokens, Unspent, Alone,
     OnlyOne, Inside, OwnToken, OwnGrant, Signing, Rotating, Steady, Other
<1>8. Exclusive'
  BY DEF IInv, CliAssumption, StartLogout, past, Begin, Idle, TypeOK, Processes, Tokens, Exclusive,
     OnlyOne, Inside, Knows, Replacing, Good, Rotating, OwnGrant, OwnToken, Signing, Steady, Other,
     AllIssued, Issued
<1>9. Excludes'
  BY DEF IInv, CliAssumption, StartLogout, past, Begin, Idle, TypeOK, Processes, Locks, Excludes,
     HasLock, Inside, Same, Steady
<1>. QED BY <1>1, <1>2, <1>3, <1>4, <1>5, <1>6, <1>7, <1>8, <1>9 DEF IInv

\* The lock is taken: alone, or beside a holder whose token is spoiled by it.
LEMMA TakeIInv ==
  ASSUME CliAssumption, IInv, NEW p \in Procs, Take(p)
  PROVE  IInv'
<1>1. TypeOK'
  <2>1. locks' \in Nat /\ lockFile' \in Locks
    BY DEF IInv, CliAssumption, Take, past, Holders, TypeOK, Grants, Tokens, Locks, Steps, Inside,
       Steady, Processes
  <2>2. proc' \in [Procs -> Processes]
    BY <2>1, Moves DEF Take, IInv, TypeOK, Steps
  <2>3. \A q \in Procs : Inside(q)' => proc'[q].id \in 1..locks'
    BY DEF IInv, CliAssumption, Take, past, Holders, TypeOK, Grants, Tokens, Locks, Steps, Inside,
       Steady, Processes
  <2>4. QED
    BY <2>1, <2>2, <2>3 DEF Take, IInv, TypeOK, past
<1>2. AllIssued'
  <2>1. \A q \in Procs : Known(proc'[q].cred) /\ Known(proc'[q].next)
    BY DEF Take, Known, IInv, TypeOK, Processes
  <2>2. QED
    BY <2>1, NothingNew DEF Take, Known, IInv
<1>3. Steady'
  BY DEF IInv, CliAssumption, Take, past, Holders, TypeOK, Processes, Tokens, Steady
<1>4. OwnGrant'
  BY DEF IInv, CliAssumption, Take, past, Holders, TypeOK, Processes, Tokens, OwnGrant, Signing, Other,
     Steady, AllIssued, Issued
<1>5. OwnToken'
  BY DEF IInv, CliAssumption, Take, past, Holders, TypeOK, Processes, Tokens, OwnToken, OwnGrant,
     Signing, Other, Rotating, Steady, AllIssued, Issued
<1>6. Alone'
  BY DEF IInv, CliAssumption, Take, past, Holders, TypeOK, Processes, Tokens, Alone, OnlyOne, Inside,
     Steady, OwnGrant, Signing, Other
<1>7. Unspent'
  BY DEF IInv, CliAssumption, Take, past, Holders, TypeOK, Processes, Tokens, Unspent, Alone, OnlyOne,
     Inside, OwnToken, OwnGrant, Signing, Rotating, Steady, Other
<1>8. Exclusive'
  <2>1. CASE Holders = {}
    <3>1. /\ \A q \in Procs : ~Inside(q)
          /\ UNCHANGED <<store, current, spoiled, newest>>
          /\ shared => shared'
      <4>1. \A q \in Procs : ~Inside(q)
        BY <2>1 DEF Holders
      <4>2. spoiled' = spoiled /\ UNCHANGED <<store, current, newest>>
        BY <2>1 DEF Take
      <4>3. shared => shared'
        BY DEF Take
      <4>4. QED
        BY <4>1, <4>2, <4>3
    <3>2. \A q \in Procs : Inside(q)' => q = p
      BY <3>1 DEF Take, Inside, IInv, TypeOK
    <3>3. proc'[p].pc = "in" /\ \A q \in Procs : q # p => proc'[q] = proc[q]
      BY DEF Take, IInv, TypeOK, Processes
    <3>4. \A q \in Procs : Knows(q)'
      BY <3>1, <3>2, <3>3 DEF Knows, Rotating, Inside
    <3>5. \A q \in Procs : ~Replacing(q)
      BY <3>1 DEF Replacing, Inside
    <3>6. ~shared => Good'
      BY <3>1, <3>5 DEF IInv, Exclusive, Good
    <3>7. QED
      BY <3>1, <3>2, <3>4, <3>6 DEF Exclusive, OnlyOne, IInv
  <2>2. CASE Holders # {}
    BY <2>2 DEF Take, Exclusive
  <2>3. QED
    BY <2>1, <2>2
<1>9. Excludes'
  <2> SUFFICES ASSUME mishap = 0
               PROVE  Excludes'
    BY DEF Take, Excludes
  <2>1. \A q \in Procs : ~HasLock(q)
    BY DEF Take, IInv, Excludes, Same
  <2>2. ~shared'
    BY <2>1 DEF Take, IInv, Excludes, Holders, HasLock
  <2>3. /\ \A q \in Procs : q # p => proc'[q] = proc[q]
        /\ proc'[p].pc = "in" /\ proc'[p].id = locks'
        /\ lockFile' = [id |-> locks', named |-> TRUE, exited |-> FALSE, old |-> FALSE]
        /\ lockFile' # Nil
    <3>1. locks' \in Nat /\ lockFile' = [id |-> locks', named |-> TRUE, exited |-> FALSE, old |-> FALSE]
      BY DEF Take, IInv, TypeOK
    <3>2. lockFile' # Nil
      <4>1. [id |-> locks', named |-> TRUE, exited |-> FALSE, old |-> FALSE] \in Locks
        BY <3>1 DEF Locks
      <4>2. QED
        BY <3>1, <4>1 DEF CliAssumption
    <3>3. proc'[p].pc = "in" /\ proc'[p].id = locks' /\ \A q \in Procs : q # p => proc'[q] = proc[q]
      BY DEF Take, IInv, TypeOK, Processes
    <3>4. QED
      BY <3>1, <3>2, <3>3
  <2>4. \A q \in Procs : HasLock(q)' => q = p
    BY <2>1, <2>3 DEF HasLock, Inside
  <2>5. \A q \in Procs : proc'[q].pc \notin {"judged", "unlink"}
    BY <2>3 DEF Take, IInv, Excludes
  <2>6. QED
    BY <2>2, <2>3, <2>4, <2>5 DEF Excludes, Same
<1>. QED BY <1>1, <1>2, <1>3, <1>4, <1>5, <1>6, <1>7, <1>8, <1>9 DEF IInv

\* A stale lock is noted.
LEMMA JudgeIInv ==
  ASSUME CliAssumption, IInv, NEW p \in Procs, Judge(p)
  PROVE  IInv'
<1>1. TypeOK'
  <2>1. lockFile.id \in Nat
    BY DEF IInv, TypeOK, Locks, Judge
  <2>2. proc' \in [Procs -> Processes]
    BY <2>1, Moves DEF Judge, IInv, TypeOK, Steps
  <2>3. \A q \in Procs : Inside(q)' => proc'[q].id \in 1..locks'
    BY DEF IInv, CliAssumption, Judge, past, counters, Stale, TypeOK, Grants, Tokens, Locks, Steps,
       Inside, Steady, Processes
  <2>4. QED
    BY <2>2, <2>3 DEF Judge, IInv, TypeOK, past, counters
<1>2. AllIssued'
  <2>1. \A q \in Procs : Known(proc'[q].cred) /\ Known(proc'[q].next)
    BY DEF Judge, Known, IInv, TypeOK, Processes
  <2>2. QED
    BY <2>1, NothingNew DEF Judge, counters, past, Known, IInv
<1>3. Steady'
  BY DEF IInv, CliAssumption, Judge, past, counters, Stale, TypeOK, Processes, Tokens, Steady
<1>4. OwnGrant'
  BY DEF IInv, CliAssumption, Judge, past, counters, Stale, TypeOK, Processes, Tokens, OwnGrant,
     Signing, Other, Steady, AllIssued, Issued
<1>5. OwnToken'
  BY DEF IInv, CliAssumption, Judge, past, counters, Stale, TypeOK, Processes, Tokens, OwnToken,
     OwnGrant, Signing, Other, Rotating, Steady, AllIssued, Issued
<1>6. Alone'
  BY DEF IInv, CliAssumption, Judge, past, counters, Stale, TypeOK, Processes, Tokens, Alone, OnlyOne,
     Inside, Steady, OwnGrant, Signing, Other
<1>7. Unspent'
  BY DEF IInv, CliAssumption, Judge, past, counters, Stale, TypeOK, Processes, Tokens, Unspent, Alone,
     OnlyOne, Inside, OwnToken, OwnGrant, Signing, Rotating, Steady, Other
<1>8. Exclusive'
  BY DEF IInv, CliAssumption, Judge, past, counters, Stale, TypeOK, Processes, Tokens, Exclusive,
     OnlyOne, Inside, Knows, Replacing, Good, Rotating, OwnGrant, OwnToken, Signing, Steady, Other,
     AllIssued, Issued
<1>9. Excludes'
  BY DEF IInv, CliAssumption, Judge, past, counters, Stale, TypeOK, Processes, Locks, Excludes, HasLock,
     Inside, Same, Steady
<1>. QED BY <1>1, <1>2, <1>3, <1>4, <1>5, <1>6, <1>7, <1>8, <1>9 DEF IInv

\* It is looked at again.
LEMMA RecheckIInv ==
  ASSUME CliAssumption, IInv, NEW p \in Procs, Recheck(p)
  PROVE  IInv'
<1>1. TypeOK'
  <2>1. proc' \in [Procs -> Processes]
    BY Moves DEF Recheck, Goes, IInv, TypeOK, Steps
  <2>2. \A q \in Procs : Inside(q)' => proc'[q].id \in 1..locks'
    BY DEF IInv, CliAssumption, Recheck, past, Goes, Same, counters, TypeOK, Grants, Tokens, Locks,
       Steps, Inside, Steady, Processes
  <2>3. QED
    BY <2>1, <2>2 DEF Recheck, IInv, TypeOK, past, counters
<1>2. AllIssued'
  <2>1. \A q \in Procs : Known(proc'[q].cred) /\ Known(proc'[q].next)
    BY DEF Recheck, Goes, Known, IInv, TypeOK, Processes
  <2>2. QED
    BY <2>1, NothingNew DEF Recheck, counters, past, Known, IInv
<1>3. Steady'
  BY DEF IInv, CliAssumption, Recheck, past, Goes, Same, counters, TypeOK, Processes, Tokens, Steady
<1>4. OwnGrant'
  BY DEF IInv, CliAssumption, Recheck, past, Goes, Same, counters, TypeOK, Processes, Tokens, OwnGrant,
     Signing, Other, Steady, AllIssued, Issued
<1>5. OwnToken'
  BY DEF IInv, CliAssumption, Recheck, past, Goes, Same, counters, TypeOK, Processes, Tokens, OwnToken,
     OwnGrant, Signing, Other, Rotating, Steady, AllIssued, Issued
<1>6. Alone'
  BY DEF IInv, CliAssumption, Recheck, past, Goes, Same, counters, TypeOK, Processes, Tokens, Alone,
     OnlyOne, Inside, Steady, OwnGrant, Signing, Other
<1>7. Unspent'
  BY DEF IInv, CliAssumption, Recheck, past, Goes, Same, counters, TypeOK, Processes, Tokens, Unspent,
     Alone, OnlyOne, Inside, OwnToken, OwnGrant, Signing, Rotating, Steady, Other
<1>8. Exclusive'
  BY DEF IInv, CliAssumption, Recheck, past, Goes, Same, counters, TypeOK, Processes, Tokens, Exclusive,
     OnlyOne, Inside, Knows, Replacing, Good, Rotating, OwnGrant, OwnToken, Signing, Steady, Other,
     AllIssued, Issued
<1>9. Excludes'
  BY DEF IInv, CliAssumption, Recheck, past, Goes, Same, counters, TypeOK, Processes, Locks, Excludes,
     HasLock, Inside, Same, Steady
<1>. QED BY <1>1, <1>2, <1>3, <1>4, <1>5, <1>6, <1>7, <1>8, <1>9 DEF IInv

\* A lock file is unlinked.
LEMMA UnlinkIInv ==
  ASSUME CliAssumption, IInv, NEW p \in Procs, Unlink(p)
  PROVE  IInv'
<1>1. TypeOK'
  <2>1. proc' \in [Procs -> Processes]
    <3>1. Idle \in Processes
      BY DEF Idle, Processes, Steps
    <3>2. QED
      BY <3>1, Moves DEF Unlink, IInv, TypeOK, Steps
  <2>2. \A q \in Procs : Inside(q)' => proc'[q].id \in 1..locks'
    BY DEF Unlink, Idle, IInv, TypeOK, Inside, Processes, counters
  <2>3. QED
    BY <2>1, <2>2 DEF Unlink, IInv, TypeOK, counters
<1>2. AllIssued'
  <2>1. \A q \in Procs : Known(proc'[q].cred) /\ Known(proc'[q].next)
    BY DEF Unlink, Idle, Known, IInv, TypeOK, Processes
  <2>2. QED
    BY <2>1, NothingNew DEF Unlink, counters, past, Known, IInv
<1>3. Steady'
  BY DEF IInv, CliAssumption, Unlink, past, Idle, counters, TypeOK, Processes, Tokens, Steady
<1>4. OwnGrant'
  BY DEF IInv, CliAssumption, Unlink, past, Idle, counters, TypeOK, Processes, Tokens, OwnGrant,
     Signing, Other, Steady, AllIssued, Issued
<1>5. OwnToken'
  BY DEF IInv, CliAssumption, Unlink, past, Idle, counters, TypeOK, Processes, Tokens, OwnToken,
     OwnGrant, Signing, Other, Rotating, Steady, AllIssued, Issued
<1>6. Alone'
  BY DEF IInv, CliAssumption, Unlink, past, Idle, counters, TypeOK, Processes, Tokens, Alone, OnlyOne,
     Inside, Steady, OwnGrant, Signing, Other
<1>7. Unspent'
  BY DEF IInv, CliAssumption, Unlink, past, Idle, counters, TypeOK, Processes, Tokens, Unspent, Alone,
     OnlyOne, Inside, OwnToken, OwnGrant, Signing, Rotating, Steady, Other
<1>8. Exclusive'
  BY DEF IInv, CliAssumption, Unlink, past, Idle, counters, TypeOK, Processes, Tokens, Exclusive,
     OnlyOne, Inside, Knows, Replacing, Good, Rotating, OwnGrant, OwnToken, Signing, Steady, Other,
     AllIssued, Issued
<1>9. Excludes'
  BY DEF IInv, CliAssumption, Unlink, past, Idle, counters, TypeOK, Processes, Locks, Excludes, HasLock,
     Inside, Same, Steady
<1>. QED BY <1>1, <1>2, <1>3, <1>4, <1>5, <1>6, <1>7, <1>8, <1>9 DEF IInv

\* A process leaves.
LEMMA ReleaseIInv ==
  ASSUME CliAssumption, IInv, NEW p \in Procs, Release(p)
  PROVE  IInv'
<1>1. TypeOK'
  <2>1. proc' \in [Procs -> Processes]
    <3>1. Idle \in Processes
      BY DEF Idle, Processes, Steps
    <3>2. QED
      BY <3>1, Moves DEF Release, IInv, TypeOK, Steps
  <2>2. \A q \in Procs : Inside(q)' => proc'[q].id \in 1..locks'
    BY DEF Release, Idle, IInv, TypeOK, Inside, Processes, counters
  <2>3. QED
    BY <2>1, <2>2 DEF Release, IInv, TypeOK, counters
<1>2. AllIssued'
  <2>1. \A q \in Procs : Known(proc'[q].cred) /\ Known(proc'[q].next)
    BY DEF Release, Idle, Known, IInv, TypeOK, Processes
  <2>2. QED
    BY <2>1, NothingNew DEF Release, counters, past, Known, IInv
<1>3. Steady'
  BY DEF IInv, CliAssumption, Release, past, Idle, Same, counters, TypeOK, Processes, Tokens, Steady
<1>4. OwnGrant'
  BY DEF IInv, CliAssumption, Release, past, Idle, Same, counters, TypeOK, Processes, Tokens, OwnGrant,
     Signing, Other, Steady, AllIssued, Issued
<1>5. OwnToken'
  BY DEF IInv, CliAssumption, Release, past, Idle, Same, counters, TypeOK, Processes, Tokens, OwnToken,
     OwnGrant, Signing, Other, Rotating, Steady, AllIssued, Issued
<1>6. Alone'
  BY DEF IInv, CliAssumption, Release, past, Idle, Same, counters, TypeOK, Processes, Tokens, Alone,
     OnlyOne, Inside, Steady, OwnGrant, Signing, Other
<1>7. Unspent'
  BY DEF IInv, CliAssumption, Release, past, Idle, Same, counters, TypeOK, Processes, Tokens, Unspent,
     Alone, OnlyOne, Inside, OwnToken, OwnGrant, Signing, Rotating, Steady, Other
<1>8. Exclusive'
  BY DEF IInv, CliAssumption, Release, past, Idle, Same, counters, TypeOK, Processes, Tokens, Exclusive,
     OnlyOne, Inside, Knows, Replacing, Good, Rotating, OwnGrant, OwnToken, Signing, Steady, Other,
     AllIssued, Issued
<1>9. Excludes'
  BY DEF IInv, CliAssumption, Release, past, Idle, Same, counters, TypeOK, Processes, Locks, Excludes,
     HasLock, Inside, Same, Steady
<1>. QED BY <1>1, <1>2, <1>3, <1>4, <1>5, <1>6, <1>7, <1>8, <1>9 DEF IInv

\* A lock file grows old.
LEMMA AgesIInv ==
  ASSUME CliAssumption, IInv, Ages
  PROVE  IInv'
<1>1. TypeOK'
  <2>1. lockFile' \in Locks
    BY DEF Ages, IInv, TypeOK, Locks
  <2>2. mishap' \in Nat
    BY DEF Ages, Mishap, IInv, TypeOK
  <2>3. QED
    BY <2>1, <2>2 DEF Ages, IInv, TypeOK, Inside, past
<1>2. AllIssued'
  BY DEF IInv, CliAssumption, Ages, past, Mishap, TypeOK, Processes, Grants, Tokens, AllIssued, Issued, Steady
<1>3. Steady'
  BY DEF IInv, CliAssumption, Ages, past, Mishap, TypeOK, Processes, Tokens, Steady
<1>4. OwnGrant'
  BY DEF IInv, CliAssumption, Ages, past, Mishap, TypeOK, Processes, Tokens, OwnGrant, Signing, Other,
     Steady, AllIssued, Issued
<1>5. OwnToken'
  BY DEF IInv, CliAssumption, Ages, past, Mishap, TypeOK, Processes, Tokens, OwnToken, OwnGrant,
     Signing, Other, Rotating, Steady, AllIssued, Issued
<1>6. Alone'
  BY DEF IInv, CliAssumption, Ages, past, Mishap, TypeOK, Processes, Tokens, Alone, OnlyOne, Inside,
     Steady, OwnGrant, Signing, Other
<1>7. Unspent'
  BY DEF IInv, CliAssumption, Ages, past, Mishap, TypeOK, Processes, Tokens, Unspent, Alone, OnlyOne,
     Inside, OwnToken, OwnGrant, Signing, Rotating, Steady, Other
<1>8. Exclusive'
  BY DEF IInv, CliAssumption, Ages, past, Mishap, TypeOK, Processes, Tokens, Exclusive, OnlyOne, Inside,
     Knows, Replacing, Good, Rotating, OwnGrant, OwnToken, Signing, Steady, Other, AllIssued, Issued
<1>9. Excludes'
  BY DEF IInv, CliAssumption, Ages, past, Mishap, TypeOK, Processes, Locks, Excludes, HasLock, Inside,
     Same, Steady
<1>. QED BY <1>1, <1>2, <1>3, <1>4, <1>5, <1>6, <1>7, <1>8, <1>9 DEF IInv

\* The store is read again: what is sent is what is stored.
LEMMA RefreshReadIInv ==
  ASSUME CliAssumption, IInv, NEW p \in Procs, RefreshRead(p)
  PROVE  IInv'
<1>1. TypeOK'
  <2>1. proc' \in [Procs -> Processes]
    BY Moves DEF RefreshRead, Goes, IInv, TypeOK, Steps
  <2>2. \A q \in Procs : Inside(q)' => proc'[q].id \in 1..locks'
    BY DEF IInv, CliAssumption, RefreshRead, past, Goes, Reread, counters, TypeOK, Grants, Tokens,
       Locks, Steps, Inside, Steady, Processes
  <2>3. QED
    BY <2>1, <2>2 DEF RefreshRead, IInv, TypeOK, past, counters
<1>2. AllIssued'
  <2>1. \A q \in Procs : Known(proc'[q].cred) /\ Known(proc'[q].next)
    BY DEF RefreshRead, Goes, Known, IInv, TypeOK, Processes
  <2>2. QED
    BY <2>1, NothingNew DEF RefreshRead, counters, past, Known, IInv
<1>3. Steady'
  BY DEF IInv, CliAssumption, RefreshRead, past, Goes, Reread, counters, TypeOK, Processes, Tokens, Steady
<1>4. OwnGrant'
  BY DEF IInv, CliAssumption, RefreshRead, past, Goes, Reread, counters, TypeOK, Processes, Tokens,
     OwnGrant, Signing, Other, Steady, AllIssued, Issued
<1>5. OwnToken'
  BY DEF IInv, CliAssumption, RefreshRead, past, Goes, Reread, counters, TypeOK, Processes, Tokens,
     OwnToken, OwnGrant, Signing, Other, Rotating, Steady, AllIssued, Issued
<1>6. Alone'
  BY DEF IInv, CliAssumption, RefreshRead, past, Goes, Reread, counters, TypeOK, Processes, Tokens,
     Alone, OnlyOne, Inside, Steady, OwnGrant, Signing, Other
<1>7. Unspent'
  BY DEF IInv, CliAssumption, RefreshRead, past, Goes, Reread, counters, TypeOK, Processes, Tokens,
     Unspent, Alone, OnlyOne, Inside, OwnToken, OwnGrant, Signing, Rotating, Steady, Other
<1>8. Exclusive'
  BY DEF IInv, CliAssumption, RefreshRead, past, Goes, Reread, counters, TypeOK, Processes, Tokens,
     Exclusive, OnlyOne, Inside, Knows, Replacing, Good, Rotating, OwnGrant, OwnToken, Signing, Steady,
     Other, AllIssued, Issued
<1>9. Excludes'
  BY DEF IInv, CliAssumption, RefreshRead, past, Goes, Reread, counters, TypeOK, Processes, Locks,
     Excludes, HasLock, Inside, Same, Steady
<1>. QED BY <1>1, <1>2, <1>3, <1>4, <1>5, <1>6, <1>7, <1>8, <1>9 DEF IInv

\* The OP answers a refresh: the successor is new to everybody.
LEMMA RefreshAnsweredIInv ==
  ASSUME CliAssumption, IInv, NEW p \in Procs, RefreshAnswered(p)
  PROVE  IInv'
<1>1. TypeOK'
  <2>1. proc[p].cred \in Tokens
    BY DEF IInv, TypeOK, Processes, RefreshAnswered, Steady
  <2>2. Rotated(proc[p].cred) \in Tokens \cup {Nil}
    BY <2>1 DEF Rotated, Tokens
  <2>3. proc' \in [Procs -> Processes]
    BY <2>2, Moves DEF RefreshAnswered, IInv, TypeOK, Steps
  <2>4. current' \in [Grants -> Nat]
    BY <2>1 DEF RefreshAnswered, Present, IInv, TypeOK, Tokens, Dead
  <2>5. \A q \in Procs : Inside(q)' => proc'[q].id \in 1..locks'
    BY DEF IInv, CliAssumption, RefreshAnswered, past, Present, Rotated, counters, Dead, TypeOK, Grants,
       Tokens, Locks, Steps, Inside, Steady, Processes
  <2>6. QED
    BY <2>3, <2>4, <2>5 DEF RefreshAnswered, IInv, TypeOK, counters
<1>2. AllIssued'
  <2> DEFINE c == proc[p].cred
  <2>1. c \in Tokens /\ Issued(c)
    BY DEF IInv, TypeOK, Processes, RefreshAnswered, Steady, AllIssued
  <2>2. ASSUME NEW d \in Tokens, Issued(d)
        PROVE  Issued(d)'
    BY <2>1, <2>2 DEF Issued, RefreshAnswered, Present, counters, IInv, TypeOK, Tokens, Grants, Dead,
                      CliAssumption
  <2>3. Issued(Rotated(c))'
    BY <2>1 DEF Rotated, Issued, RefreshAnswered, Present, counters, IInv, TypeOK, Tokens, Grants, Dead
  <2>4. presented' \subseteq Tokens /\ \A d \in presented' : Issued(d)'
    BY <2>1, <2>2 DEF RefreshAnswered, Present, IInv, AllIssued
  <2>5. \A g \in Grants : g > signIns' + 1 => current'[g] = Dead
    BY <2>1 DEF RefreshAnswered, Present, counters, IInv, AllIssued, Issued, TypeOK, Tokens, Grants, Dead,
                CliAssumption
  <2>6. Issued(store)'
    BY <2>2 DEF RefreshAnswered, IInv, AllIssued, TypeOK, Issued
  <2>7. \A q \in Procs : Issued(proc[q].cred)' /\ Issued(proc[q].next)'
    BY <2>2, <2>3 DEF RefreshAnswered, IInv, AllIssued, TypeOK, Processes, Issued
  <2>8. QED
    BY <2>4, <2>5, <2>6, <2>7 DEF AllIssued, IInv, RefreshAnswered, counters
<1>3. Steady'
  BY DEF IInv, CliAssumption, RefreshAnswered, past, Present, Rotated, counters, Dead, TypeOK,
     Processes, Tokens, Steady
<1>4. OwnGrant'
  <2> DEFINE c == proc[p].cred
  <2>1. c \in Tokens /\ proc[p].op = "call"
    BY DEF RefreshAnswered, IInv, Steady, TypeOK, Processes
  <2>2. /\ proc'[p].op = "call" /\ proc'[p].cred = c /\ proc'[p].next = Rotated(c)
        /\ \A q \in Procs \ {p} : proc'[q] = proc[q]
        /\ presented' = presented \cup {c} /\ store' = store
        /\ current' = [current EXCEPT ![c.grant] = IF @ = c.seq THEN c.seq + 1 ELSE Dead]
    BY <2>1 DEF RefreshAnswered, Present, IInv, TypeOK, Processes
  <2>3. Rotated(c) # Nil => Rotated(c).grant = c.grant
    BY DEF Rotated
  <2>4. ASSUME NEW q \in Procs, Signing(q)'
        PROVE  /\ q # p /\ Signing(q) /\ proc'[q] = proc[q]
               /\ proc[q].next # Nil /\ proc[q].next.grant # c.grant
    BY <2>1, <2>2, <2>4, CliAssumption DEF Signing, IInv, OwnGrant, Other, CliAssumption
  <2>5. ASSUME NEW q \in Procs, Signing(q)'
        PROVE  /\ proc'[q].next # Nil
               /\ current'[proc'[q].next.grant] = proc'[q].next.seq
               /\ Other(store, proc[q].next.grant)'
               /\ \A r \in Procs : Other(proc[r].cred, proc[q].next.grant)'
               /\ \A r \in Procs \ {q} : Other(proc[r].next, proc[q].next.grant)'
               /\ \A d \in presented' : d.grant # proc'[q].next.grant
    <3>1. /\ current[proc[q].next.grant] = proc[q].next.seq /\ Other(store, proc[q].next.grant)
          /\ \A r \in Procs : Other(proc[r].cred, proc[q].next.grant)
          /\ \A r \in Procs \ {q} : Other(proc[r].next, proc[q].next.grant)
          /\ \A d \in presented : d.grant # proc[q].next.grant
      BY <2>4, <2>5 DEF IInv, OwnGrant
    <3>2. /\ proc'[q].next = proc[q].next /\ proc[q].next # Nil /\ proc[q].next.grant # c.grant
      BY <2>4, <2>5
    <3>3. current'[proc[q].next.grant] = current[proc[q].next.grant]
      BY <2>2, <3>2 DEF IInv, TypeOK, Processes, Tokens
    <3>4. /\ \A r \in Procs : Other(proc'[r].cred, proc[q].next.grant)
          /\ \A r \in Procs \ {q} : Other(proc'[r].next, proc[q].next.grant)
      BY <2>2, <2>3, <3>1, <3>2 DEF Other
    <3>5. QED
      BY <2>2, <3>1, <3>2, <3>3, <3>4 DEF Other
  <2>6. QED
    BY <2>5 DEF OwnGrant
<1>5. OwnToken'
  BY DEF IInv, CliAssumption, RefreshAnswered, past, Present, Rotated, counters, Dead, TypeOK,
     Processes, Tokens, OwnToken, OwnGrant, Signing, Other, Rotating, Steady, AllIssued, Issued
<1>6. Alone'
  BY DEF IInv, CliAssumption, RefreshAnswered, past, Present, Rotated, counters, Dead, TypeOK,
     Processes, Tokens, Alone, OnlyOne, Inside, Steady, OwnGrant, Signing, Other
<1>7. Unspent'
  BY DEF IInv, CliAssumption, RefreshAnswered, past, Present, Rotated, counters, Dead, TypeOK,
     Processes, Tokens, Unspent, Alone, OnlyOne, Inside, OwnToken, OwnGrant, Signing, Rotating, Steady,
     Other
<1>8. Exclusive'
  <2> SUFFICES ASSUME ~shared
               PROVE  Exclusive'
    BY DEF RefreshAnswered, Exclusive
  <2> DEFINE c == proc[p].cred
  <2>1. c \in Tokens /\ store = c /\ c.grant = newest
    BY DEF RefreshAnswered, IInv, Steady, TypeOK, Processes, Exclusive, Knows, Good
  <2>2. \A q \in Procs : Inside(q) => q = p
    BY DEF RefreshAnswered, IInv, Exclusive, OnlyOne, Inside
  <2>3. /\ proc'[p].pc = "answered" /\ proc'[p].cred = c /\ proc'[p].next = Rotated(c)
        /\ \A q \in Procs \ {p} : proc'[q] = proc[q]
    BY DEF RefreshAnswered, IInv, TypeOK, Processes
  <2>4. \A q \in Procs : Inside(q)' => q = p
    BY <2>2, <2>3 DEF Inside
  <2>5. UNCHANGED <<store, newest, shared>>
    BY DEF RefreshAnswered
  <2>6. Knows(p)'
    <3>1. Rotated(c) # Nil => current'[Rotated(c).grant] = Rotated(c).seq
      BY <2>1 DEF Rotated, RefreshAnswered, Present, IInv, TypeOK, Tokens
    <3>2. QED
      BY <2>1, <2>3, <2>5, <3>1 DEF Knows, Rotating
  <2>7. \A q \in Procs : Knows(q)'
    BY <2>4, <2>6 DEF Knows, Rotating, Inside
  <2>8. Good'
    BY <2>1, <2>3, <2>5 DEF Good, Replacing
  <2>9. QED
    BY <2>4, <2>7, <2>8 DEF Exclusive, OnlyOne
<1>9. Excludes'
  BY DEF IInv, CliAssumption, RefreshAnswered, past, Present, Rotated, counters, Dead, TypeOK,
     Processes, Locks, Excludes, HasLock, Inside, Same, Steady
<1>. QED BY <1>1, <1>2, <1>3, <1>4, <1>5, <1>6, <1>7, <1>8, <1>9 DEF IInv

\* A refresh is lost: its token is spoiled.
LEMMA RefreshLostIInv ==
  ASSUME CliAssumption, IInv, NEW p \in Procs, RefreshLost(p)
  PROVE  IInv'
<1>1. TypeOK'
  <2>1. proc' \in [Procs -> Processes]
    <3>1. "out" \in Steps
      BY DEF Steps
    <3>2. QED
      BY <3>1, Moves DEF RefreshLost, Goes, IInv
  <2>2. current' \in [Grants -> Nat]
    <3>1. proc[p].cred \in Tokens
      BY DEF IInv, TypeOK, Processes, RefreshLost, Steady
    <3>2. CASE UNCHANGED current
      BY <3>2 DEF IInv, TypeOK
    <3>3. CASE Present(proc[p].cred)
      BY <3>1, <3>3 DEF Present, IInv, TypeOK, Tokens, Dead
    <3>4. QED
      BY <3>2, <3>3 DEF RefreshLost
  <2>3. mishap' \in Nat
    BY DEF RefreshLost, Mishap, IInv, TypeOK
  <2>4. \A q \in Procs : Inside(q)' => Inside(q) /\ proc'[q].id = proc[q].id
    BY MovesOn DEF RefreshLost, Goes, IInv, Inside
  <2>5. QED
    BY <2>1, <2>2, <2>3, <2>4 DEF RefreshLost, IInv, TypeOK
<1>2. AllIssued'
  <2> DEFINE c == proc[p].cred
  <2>1. c \in Tokens /\ Issued(c)
    BY DEF IInv, TypeOK, Processes, RefreshLost, Steady, AllIssued
  <2>2. ASSUME NEW d \in Tokens, Issued(d)
        PROVE  Issued(d)'
    BY <2>1, <2>2 DEF Issued, RefreshLost, Present, IInv, TypeOK, Tokens, Grants, Dead, CliAssumption
  <2>3. presented' \subseteq Tokens /\ \A d \in presented' : Issued(d)'
    BY <2>1, <2>2 DEF RefreshLost, Present, IInv, AllIssued
  <2>4. \A g \in Grants : g > signIns' + 1 => current'[g] = Dead
    BY <2>1 DEF RefreshLost, Present, IInv, AllIssued, Issued, TypeOK, Tokens, Grants, Dead, CliAssumption
  <2>5. Issued(store)'
    BY <2>2 DEF RefreshLost, IInv, AllIssued, TypeOK, Issued
  <2>6. \A q \in Procs : Issued(proc[q].cred)' /\ Issued(proc[q].next)'
    BY <2>2 DEF RefreshLost, Goes, IInv, AllIssued, TypeOK, Processes, Issued
  <2>7. QED
    BY <2>3, <2>4, <2>5, <2>6 DEF AllIssued, IInv, RefreshLost
<1>3. Steady'
  BY DEF IInv, CliAssumption, RefreshLost, past, Present, Mishap, Spoil, Goes, Dead, TypeOK, Processes,
     Tokens, Steady
<1>4. OwnGrant'
  BY DEF IInv, CliAssumption, RefreshLost, past, Present, Mishap, Spoil, Goes, Dead, TypeOK, Processes,
     Tokens, OwnGrant, Signing, Other, Steady, AllIssued, Issued
<1>5. OwnToken'
  BY DEF IInv, CliAssumption, RefreshLost, past, Present, Mishap, Spoil, Goes, Dead, TypeOK, Processes,
     Tokens, OwnToken, OwnGrant, Signing, Other, Rotating, Steady, AllIssued, Issued
<1>6. Alone'
  BY DEF IInv, CliAssumption, RefreshLost, past, Present, Mishap, Spoil, Goes, Dead, TypeOK, Processes,
     Tokens, Alone, OnlyOne, Inside, Steady, OwnGrant, Signing, Other
<1>7. Unspent'
  BY DEF IInv, CliAssumption, RefreshLost, past, Present, Mishap, Spoil, Goes, Dead, TypeOK, Processes,
     Tokens, Unspent, Alone, OnlyOne, Inside, OwnToken, OwnGrant, Signing, Rotating, Steady, Other
<1>8. Exclusive'
  BY DEF IInv, CliAssumption, RefreshLost, past, Present, Mishap, Spoil, Goes, Dead, TypeOK, Processes,
     Tokens, Exclusive, OnlyOne, Inside, Knows, Replacing, Good, Rotating, OwnGrant, OwnToken, Signing,
     Steady, Other, AllIssued, Issued
<1>9. Excludes'
  BY DEF IInv, CliAssumption, RefreshLost, past, Present, Mishap, Spoil, Goes, Dead, TypeOK, Processes,
     Locks, Excludes, HasLock, Inside, Same, Steady
<1>. QED BY <1>1, <1>2, <1>3, <1>4, <1>5, <1>6, <1>7, <1>8, <1>9 DEF IInv

\* The successor is written.
LEMMA RefreshWriteIInv ==
  ASSUME CliAssumption, IInv, NEW p \in Procs, RefreshWrite(p)
  PROVE  IInv'
<1>1. TypeOK'
  <2>1. proc' \in [Procs -> Processes]
    <3>1. "out" \in Steps
      BY DEF Steps
    <3>2. QED
      BY <3>1, Moves DEF RefreshWrite, Goes, IInv
  <2>2. store' \in Tokens \cup {Nil}
    BY DEF RefreshWrite, IInv, TypeOK, Processes
  <2>3. \A q \in Procs : Inside(q)' => Inside(q) /\ proc'[q].id = proc[q].id
    BY MovesOn DEF RefreshWrite, Goes, IInv, Inside
  <2>4. QED
    BY <2>1, <2>2, <2>3 DEF RefreshWrite, counters, past, IInv, TypeOK
<1>2. AllIssued'
  <2>1. \A q \in Procs : Known(proc'[q].cred) /\ Known(proc'[q].next)
    BY DEF RefreshWrite, Goes, Known, IInv, TypeOK, Processes
  <2>2. QED
    BY <2>1, NothingNew DEF RefreshWrite, counters, past, Known, IInv
<1>3. Steady'
  BY DEF IInv, CliAssumption, RefreshWrite, past, Goes, counters, TypeOK, Processes, Tokens, Steady
<1>4. OwnGrant'
  BY DEF IInv, CliAssumption, RefreshWrite, past, Goes, counters, TypeOK, Processes, Tokens, OwnGrant,
     Signing, Other, Steady, AllIssued, Issued
<1>5. OwnToken'
  BY DEF IInv, CliAssumption, RefreshWrite, past, Goes, counters, TypeOK, Processes, Tokens, OwnToken,
     OwnGrant, Signing, Other, Rotating, Steady, AllIssued, Issued
<1>6. Alone'
  BY DEF IInv, CliAssumption, RefreshWrite, past, Goes, counters, TypeOK, Processes, Tokens, Alone,
     OnlyOne, Inside, Steady, OwnGrant, Signing, Other, OwnToken, Rotating, Exclusive
<1>7. Unspent'
  BY DEF IInv, CliAssumption, RefreshWrite, past, Goes, counters, TypeOK, Processes, Tokens, Unspent,
     Alone, OnlyOne, Inside, OwnToken, OwnGrant, Signing, Rotating, Steady, Other, AllIssued
<1>8. Exclusive'
  BY DEF IInv, CliAssumption, RefreshWrite, past, Goes, counters, TypeOK, Processes, Tokens, Exclusive,
     OnlyOne, Inside, Knows, Replacing, Good, Rotating, OwnGrant, OwnToken, Signing, Steady, Other,
     AllIssued, Issued
<1>9. Excludes'
  BY DEF IInv, CliAssumption, RefreshWrite, past, Goes, counters, TypeOK, Processes, Locks, Excludes,
     HasLock, Inside, Same, Steady
<1>. QED BY <1>1, <1>2, <1>3, <1>4, <1>5, <1>6, <1>7, <1>8, <1>9 DEF IInv

\* A sign-in writes its token and looks at what it replaces.
LEMMA LoginWriteIInv ==
  ASSUME CliAssumption, IInv, NEW p \in Procs, LoginWrite(p)
  PROVE  IInv'
<1>1. TypeOK'
  <2>1. proc' \in [Procs -> Processes]
    <3>1. {"out", "revoke"} \subseteq Steps /\ store \in Tokens \cup {Nil}
      BY DEF Steps, IInv, TypeOK
    <3>2. QED
      BY <3>1, Moves DEF LoginWrite, IInv
  <2>2. store' \in Tokens \cup {Nil}
    BY DEF LoginWrite, IInv, TypeOK, Processes
  <2>3. \A q \in Procs : Inside(q)' => Inside(q) /\ proc'[q].id = proc[q].id
    BY DEF LoginWrite, IInv, TypeOK, Processes, Inside
  <2>4. QED
    BY <2>1, <2>2, <2>3 DEF LoginWrite, IInv, TypeOK, counters
<1>2. AllIssued'
  <2>1. \A q \in Procs : Known(proc'[q].cred) /\ Known(proc'[q].next)
    BY DEF LoginWrite, Known, IInv, TypeOK, Processes
  <2>2. QED
    BY <2>1, NothingNew DEF LoginWrite, counters, Known, IInv
<1>3. Steady'
  BY DEF IInv, CliAssumption, LoginWrite, past, counters, TypeOK, Processes, Tokens, Steady
<1>4. OwnGrant'
  BY DEF IInv, CliAssumption, LoginWrite, past, counters, TypeOK, Processes, Tokens, OwnGrant, Signing,
     Other, Steady, AllIssued, Issued
<1>5. OwnToken'
  BY DEF IInv, CliAssumption, LoginWrite, past, counters, TypeOK, Processes, Tokens, OwnToken, OwnGrant,
     Signing, Other, Rotating, Steady, AllIssued, Issued
<1>6. Alone'
  BY DEF IInv, CliAssumption, LoginWrite, past, counters, TypeOK, Processes, Tokens, Alone, OnlyOne,
     Inside, Steady, OwnGrant, Signing, Other
<1>7. Unspent'
  BY DEF IInv, CliAssumption, LoginWrite, past, counters, TypeOK, Processes, Tokens, Unspent, Alone,
     OnlyOne, Inside, OwnToken, OwnGrant, Signing, Rotating, Steady, Other
<1>8. Exclusive'
  BY DEF IInv, CliAssumption, LoginWrite, past, counters, TypeOK, Processes, Tokens, Exclusive, OnlyOne,
     Inside, Knows, Replacing, Good, Rotating, OwnGrant, OwnToken, Signing, Steady, Other, AllIssued,
     Issued
<1>9. Excludes'
  BY DEF IInv, CliAssumption, LoginWrite, past, counters, TypeOK, Processes, Locks, Excludes, HasLock,
     Inside, Same, Steady
<1>. QED BY <1>1, <1>2, <1>3, <1>4, <1>5, <1>6, <1>7, <1>8, <1>9 DEF IInv

\* A sign-out reads what it is to revoke.
LEMMA LogoutReadIInv ==
  ASSUME CliAssumption, IInv, NEW p \in Procs, LogoutRead(p)
  PROVE  IInv'
<1>1. TypeOK'
  <2>1. proc' \in [Procs -> Processes]
    <3>1. {"out", "revoke"} \subseteq Steps /\ store \in Tokens \cup {Nil}
      BY DEF Steps, IInv, TypeOK
    <3>2. QED
      BY <3>1, Moves DEF LogoutRead, IInv
  <2>2. store' \in Tokens \cup {Nil}
    BY DEF LogoutRead, IInv, TypeOK
  <2>3. \A q \in Procs : Inside(q)' => Inside(q) /\ proc'[q].id = proc[q].id
    BY DEF LogoutRead, IInv, TypeOK, Processes, Inside
  <2>4. QED
    BY <2>1, <2>2, <2>3 DEF LogoutRead, IInv, TypeOK, counters, past
<1>2. AllIssued'
  <2>1. \A q \in Procs : Known(proc'[q].cred) /\ Known(proc'[q].next)
    BY DEF LogoutRead, Known, IInv, TypeOK, Processes
  <2>2. QED
    BY <2>1, NothingNew DEF LogoutRead, counters, past, Known, IInv
<1>3. Steady'
  BY DEF IInv, CliAssumption, LogoutRead, past, counters, TypeOK, Processes, Tokens, Steady
<1>4. OwnGrant'
  BY DEF IInv, CliAssumption, LogoutRead, past, counters, TypeOK, Processes, Tokens, OwnGrant, Signing,
     Other, Steady, AllIssued, Issued
<1>5. OwnToken'
  BY DEF IInv, CliAssumption, LogoutRead, past, counters, TypeOK, Processes, Tokens, OwnToken, OwnGrant,
     Signing, Other, Rotating, Steady, AllIssued, Issued
<1>6. Alone'
  BY DEF IInv, CliAssumption, LogoutRead, past, counters, TypeOK, Processes, Tokens, Alone, OnlyOne,
     Inside, Steady, OwnGrant, Signing, Other
<1>7. Unspent'
  BY DEF IInv, CliAssumption, LogoutRead, past, counters, TypeOK, Processes, Tokens, Unspent, Alone,
     OnlyOne, Inside, OwnToken, OwnGrant, Signing, Rotating, Steady, Other
<1>8. Exclusive'
  BY DEF IInv, CliAssumption, LogoutRead, past, counters, TypeOK, Processes, Tokens, Exclusive, OnlyOne,
     Inside, Knows, Replacing, Good, Rotating, OwnGrant, OwnToken, Signing, Steady, Other, AllIssued,
     Issued
<1>9. Excludes'
  BY DEF IInv, CliAssumption, LogoutRead, past, counters, TypeOK, Processes, Locks, Excludes, HasLock,
     Inside, Same, Steady
<1>. QED BY <1>1, <1>2, <1>3, <1>4, <1>5, <1>6, <1>7, <1>8, <1>9 DEF IInv

\* A grant is revoked: not that of a sign-in that waits, nor that stored by this one.
LEMMA RevokeIInv ==
  ASSUME CliAssumption, IInv, NEW p \in Procs, Revoke(p, TRUE) \/ Revoke(p, FALSE)
  PROVE  IInv'
<1>0. /\ proc[p].pc = "revoke"
      /\ \E pc \in {"out", "forget"} :
            /\ proc' = [proc EXCEPT ![p].pc = pc]
            /\ pc = IF proc[p].op = "login" THEN "out" ELSE "forget"
      /\ current' = current \/ current' = [current EXCEPT ![proc[p].cred.grant] = Dead]
      /\ mishap' \in Nat /\ mishap' >= mishap
      /\ UNCHANGED <<store, lockFile, ops, signIns, locks, past>>
  BY DEF Revoke, Goes, Mishap, IInv, TypeOK
<1>1. TypeOK'
  <2>1. proc' \in [Procs -> Processes]
    <3>1. PICK pc \in {"out", "forget"} : proc' = [proc EXCEPT ![p].pc = pc]
      BY <1>0
    <3>2. pc \in Steps
      BY DEF Steps
    <3>3. QED
      BY <3>1, <3>2, Moves DEF IInv
  <2>2. current' \in [Grants -> Nat]
    BY <1>0 DEF IInv, TypeOK, Dead
  <2>3. \A q \in Procs : Inside(q)' => proc'[q].id \in 1..locks'
    BY <1>0 DEF IInv, TypeOK, Inside, Processes
  <2>4. QED
    BY <1>0, <2>1, <2>2, <2>3 DEF IInv, TypeOK, past
<1>2. AllIssued'
  <2>1. ASSUME NEW d \in Tokens, Issued(d)
        PROVE  Issued(d)'
    BY <1>0, <2>1 DEF Issued, IInv, TypeOK, Tokens, Grants, Dead
  <2>2. presented' \subseteq Tokens /\ \A d \in presented' : Issued(d)'
    BY <1>0, <2>1 DEF past, IInv, AllIssued
  <2>3. \A g \in Grants : g > signIns' + 1 => current'[g] = Dead
    BY <1>0 DEF IInv, AllIssued, TypeOK, Dead
  <2>4. Issued(store)'
    BY <1>0, <2>1 DEF IInv, AllIssued, TypeOK, Issued
  <2>5. \A q \in Procs : Issued(proc[q].cred)' /\ Issued(proc[q].next)'
    <3>1. \A q \in Procs : proc'[q].cred = proc[q].cred /\ proc'[q].next = proc[q].next
      BY <1>0 DEF IInv, TypeOK, Processes
    <3>2. QED
      BY <2>1, <3>1 DEF IInv, AllIssued, TypeOK, Processes, Issued
  <2>6. QED
    BY <1>0, <2>2, <2>3, <2>4, <2>5 DEF AllIssued, IInv
<1>3. Steady'
  BY <1>0 DEF IInv, CliAssumption, past, Dead, TypeOK, Processes, Tokens, Steady
<1>4. OwnGrant'
  BY <1>0 DEF IInv, CliAssumption, past, Dead, TypeOK, Processes, Tokens, OwnGrant, Signing, Other,
     Steady, AllIssued, Issued
<1>5. OwnToken'
  BY <1>0 DEF IInv, CliAssumption, past, Dead, TypeOK, Processes, Tokens, OwnToken, OwnGrant, Signing,
     Other, Rotating, Steady, AllIssued, Issued
<1>6. Alone'
  BY <1>0 DEF IInv, CliAssumption, past, Dead, TypeOK, Processes, Tokens, Alone, OnlyOne, Inside,
     Steady, OwnGrant, Signing, Other
<1>7. Unspent'
  BY <1>0 DEF IInv, CliAssumption, past, Dead, TypeOK, Processes, Tokens, Unspent, Alone, OnlyOne,
     Inside, OwnToken, OwnGrant, Signing, Rotating, Steady, Other
<1>8. Exclusive'
  BY <1>0 DEF IInv, CliAssumption, past, Dead, TypeOK, Processes, Tokens, Exclusive, OnlyOne, Inside,
     Knows, Replacing, Good, Rotating, OwnGrant, OwnToken, Signing, Steady, Other, AllIssued, Issued
<1>9. Excludes'
  BY <1>0 DEF IInv, CliAssumption, past, Dead, TypeOK, Processes, Locks, Excludes, HasLock, Inside,
     Same, Steady
<1>. QED BY <1>1, <1>2, <1>3, <1>4, <1>5, <1>6, <1>7, <1>8, <1>9 DEF IInv

\* A sign-out forgets the credential.
LEMMA LogoutForgetIInv ==
  ASSUME CliAssumption, IInv, NEW p \in Procs, LogoutForget(p)
  PROVE  IInv'
<1>1. TypeOK'
  <2>1. proc' \in [Procs -> Processes]
    <3>1. "out" \in Steps
      BY DEF Steps
    <3>2. QED
      BY <3>1, Moves DEF LogoutForget, Goes, IInv
  <2>2. store' \in Tokens \cup {Nil}
    BY DEF LogoutForget, IInv, TypeOK, Processes
  <2>3. \A q \in Procs : Inside(q)' => Inside(q) /\ proc'[q].id = proc[q].id
    BY MovesOn DEF LogoutForget, Goes, IInv, Inside
  <2>4. QED
    BY <2>1, <2>2, <2>3 DEF LogoutForget, counters, IInv, TypeOK
<1>2. AllIssued'
  <2>1. \A q \in Procs : Known(proc'[q].cred) /\ Known(proc'[q].next)
    BY DEF LogoutForget, Goes, Known, IInv, TypeOK, Processes
  <2>2. QED
    BY <2>1, NothingNew DEF LogoutForget, counters, Known, IInv
<1>3. Steady'
  BY DEF IInv, CliAssumption, LogoutForget, past, Goes, counters, Dead, TypeOK, Processes, Tokens, Steady
<1>4. OwnGrant'
  BY DEF IInv, CliAssumption, LogoutForget, past, Goes, counters, Dead, TypeOK, Processes, Tokens,
     OwnGrant, Signing, Other, Steady, AllIssued, Issued
<1>5. OwnToken'
  BY DEF IInv, CliAssumption, LogoutForget, past, Goes, counters, Dead, TypeOK, Processes, Tokens,
     OwnToken, OwnGrant, Signing, Other, Rotating, Steady, AllIssued, Issued
<1>6. Alone'
  BY DEF IInv, CliAssumption, LogoutForget, past, Goes, counters, Dead, TypeOK, Processes, Tokens,
     Alone, OnlyOne, Inside, Steady, OwnGrant, Signing, Other
<1>7. Unspent'
  BY DEF IInv, CliAssumption, LogoutForget, past, Goes, counters, Dead, TypeOK, Processes, Tokens,
     Unspent, Alone, OnlyOne, Inside, OwnToken, OwnGrant, Signing, Rotating, Steady, Other, AllIssued
<1>8. Exclusive'
  BY DEF IInv, CliAssumption, LogoutForget, past, Goes, counters, Dead, TypeOK, Processes, Tokens,
     Exclusive, OnlyOne, Inside, Knows, Replacing, Good, Rotating, OwnGrant, OwnToken, Signing, Steady,
     Other, AllIssued, Issued
<1>9. Excludes'
  BY DEF IInv, CliAssumption, LogoutForget, past, Goes, counters, Dead, TypeOK, Processes, Locks,
     Excludes, HasLock, Inside, Same, Steady
<1>. QED BY <1>1, <1>2, <1>3, <1>4, <1>5, <1>6, <1>7, <1>8, <1>9 DEF IInv

\* A process is killed: what it had in hand is spoiled.
LEMMA CrashIInv ==
  ASSUME CliAssumption, IInv, NEW p \in Procs, Crash(p)
  PROVE  IInv'
<1>1. TypeOK'
  <2>1. lockFile' \in Locks \cup {Nil}
    BY DEF Crash, Same, IInv, TypeOK, Locks
  <2>2. proc' \in [Procs -> Processes]
    BY DEF IInv, CliAssumption, Crash, past, Mishap, Same, Spoil, Idle, TypeOK, Grants, Tokens, Locks,
       Steps, Inside, Steady, Processes
  <2>3. mishap' \in Nat
    BY DEF Crash, Mishap, IInv, TypeOK
  <2>4. \A q \in Procs : Inside(q)' => proc'[q].id \in 1..locks'
    BY DEF IInv, CliAssumption, Crash, past, Mishap, Same, Spoil, Idle, TypeOK, Grants, Tokens, Locks,
       Steps, Inside, Steady, Processes
  <2>5. QED
    BY <2>1, <2>2, <2>3, <2>4 DEF Crash, IInv, TypeOK
<1>2. AllIssued'
  <2>1. \A q \in Procs : Known(proc'[q].cred) /\ Known(proc'[q].next)
    BY DEF Crash, Idle, Known, IInv, TypeOK, Processes
  <2>2. QED
    BY <2>1, NothingNew DEF Crash, Known, IInv
<1>3. Steady'
  BY DEF IInv, CliAssumption, Crash, past, Mishap, Same, Spoil, Idle, TypeOK, Processes, Tokens, Steady
<1>4. OwnGrant'
  BY DEF IInv, CliAssumption, Crash, past, Mishap, Same, Spoil, Idle, TypeOK, Processes, Tokens,
     OwnGrant, Signing, Other, Steady, AllIssued, Issued
<1>5. OwnToken'
  BY DEF IInv, CliAssumption, Crash, past, Mishap, Same, Spoil, Idle, TypeOK, Processes, Tokens,
     OwnToken, OwnGrant, Signing, Other, Rotating, Steady, AllIssued, Issued
<1>6. Alone'
  BY DEF IInv, CliAssumption, Crash, past, Mishap, Same, Spoil, Idle, TypeOK, Processes, Tokens, Alone,
     OnlyOne, Inside, Steady, OwnGrant, Signing, Other
<1>7. Unspent'
  BY DEF IInv, CliAssumption, Crash, past, Mishap, Same, Spoil, Idle, TypeOK, Processes, Tokens,
     Unspent, Alone, OnlyOne, Inside, OwnToken, OwnGrant, Signing, Rotating, Steady, Other
<1>8. Exclusive'
  BY DEF IInv, CliAssumption, Crash, past, Mishap, Same, Spoil, Idle, TypeOK, Processes, Tokens,
     Exclusive, OnlyOne, Inside, Knows, Replacing, Good, Rotating, OwnGrant, OwnToken, Signing, Steady,
     Other, AllIssued, Issued
<1>9. Excludes'
  BY DEF IInv, CliAssumption, Crash, past, Mishap, Same, Spoil, Idle, TypeOK, Processes, Locks,
     Excludes, HasLock, Inside, Same, Steady
<1>. QED BY <1>1, <1>2, <1>3, <1>4, <1>5, <1>6, <1>7, <1>8, <1>9 DEF IInv

\* Every step keeps the invariant.
LEMMA NextIInv == ASSUME CliAssumption, IInv, [Next]_cliVars PROVE IInv'
<1>1. ASSUME NEW p \in Procs, Starting(p)
      PROVE  IInv'
  BY <1>1, StartCallIInv, StartLoginIInv, StartLogoutIInv DEF Starting
<1>2. ASSUME NEW p \in Procs, Locking(p)
      PROVE  IInv'
  BY <1>2, TakeIInv, JudgeIInv, RecheckIInv, UnlinkIInv, ReleaseIInv DEF Locking
<1>3. ASSUME NEW p \in Procs, Working(p)
      PROVE  IInv'
  BY <1>3, RefreshReadIInv, RefreshAnsweredIInv, RefreshWriteIInv, LoginWriteIInv, LogoutReadIInv,
     RevokeIInv, LogoutForgetIInv DEF Working
<1>4. ASSUME NEW p \in Procs, Failing(p)
      PROVE  IInv'
  BY <1>4, RefreshLostIInv, RevokeIInv, CrashIInv DEF Failing
<1>5. CASE Ages
  BY <1>5, AgesIInv
<1>6. CASE UNCHANGED cliVars
  BY <1>6 DEF cliVars, IInv, TypeOK, Inside, AllIssued, Issued, Steady, OwnGrant, Signing, Other, OwnToken,
              Rotating, Alone, OnlyOne, Unspent, Exclusive, Knows, Good, Replacing, Excludes, HasLock, Same
<1>7. QED
  BY <1>1, <1>2, <1>3, <1>4, <1>5, <1>6 DEF Next

THEOREM Invariance == ASSUME CliAssumption PROVE Spec => []IInv
<1>1. Init => IInv
  BY InitIInv
<1>2. IInv /\ [Next]_cliVars => IInv'
  BY NextIInv
<1>3. QED
  BY <1>1, <1>2, PTL DEF Spec

\* The credential at rest is the newest sign-in's and honoured by the OP, and no refresh
\* token is presented twice, unless a lost answer, a killed process or a lock taken over
\* from one that slept explains it: for any processes in any interleaving.
THEOREM CredentialCurrent == ASSUME CliAssumption PROVE Spec => []StoreIsCurrent
<1>1. QED
  BY IInvStoreIsCurrent, Invariance, PTL
=============================================================================
