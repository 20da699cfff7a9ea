----------------------------- MODULE CliSession -----------------------------
(***************************************************************************)
(* `mm' processes of one operator: the credentials file they share, the    *)
(* lock file beside it, and the refresh tokens at the OP.                  *)
(*                                                                         *)
(* A lock is one file created with O_EXCL.  A waiter looks at it, judges   *)
(* it stale, looks again and unlinks it in separate system calls.  The OP  *)
(* rotates refresh tokens: a successor spends its predecessor, and a spent *)
(* one presented again revokes its grant.                                  *)
(***************************************************************************)
EXTENDS Naturals

CONSTANTS
    Procs,          \* processes running at a time
    Nil,            \* no credential, no lock
    MaxOps,         \* bound on commands run
    MaxLogins,      \* bound on sign-ins, each with its grant
    MaxMishaps      \* bound on crashes, overruns and lost answers

Grants == 1..(MaxLogins + 1)
Dead == 0                                 \* a revoked grant has no current token
Tokens == [grant : Grants, seq : Nat \ {0}]
Locks == [id : Nat, named : BOOLEAN, exited : BOOLEAN, old : BOOLEAN]

CliAssumption ==
    /\ Procs # {}
    /\ {MaxOps, MaxLogins, MaxMishaps} \subseteq Nat
    /\ Nil \notin Tokens \cup Locks

VARIABLES
    store,       \* the credential in the file, or Nil
    lockFile,    \* the lock file: [id, named, exited, old], or Nil
    proc,        \* [Procs -> [pc, op, cred, id, next]]
    current,     \* [Grants -> the seq of its unspent refresh token, or Dead]
    ops, signIns, mishap, locks,
    presented,   \* history: refresh tokens presented
    again,       \* history: refresh tokens presented twice
    spoiled,     \* history: tokens that a lost answer, a crash or a shared lock may have spent
    shared,      \* history: whether two processes ever held the lock at once
    newest       \* history: the grant of the last sign-in written, or Dead after a sign-out

cliVars == <<store, lockFile, proc, current, ops, signIns, mishap, locks,
             presented, again, spoiled, shared, newest>>
past == <<presented, again, spoiled, shared, newest>>
counters == <<ops, signIns, mishap, locks>>

Idle == [pc |-> "idle", op |-> "call", cred |-> Nil, id |-> 0, next |-> Nil]

Inside(p) == proc[p].pc \in {"in", "sent", "answered", "revoke", "forget"}
Holders == {p \in Procs : Inside(p)}

\* A machine signed in some time ago, or not at all.
Init ==
    /\ store \in {Nil, [grant |-> 1, seq |-> 1]}
    /\ lockFile = Nil
    /\ proc = [p \in Procs |-> Idle]
    /\ current = [g \in Grants |-> IF g = 1 THEN 1 ELSE Dead]
    /\ ops = 0 /\ signIns = 0 /\ mishap = 0 /\ locks = 0
    /\ presented = {} /\ again = {} /\ spoiled = {}
    /\ shared = FALSE
    /\ newest = IF store = Nil THEN Dead ELSE 1

Goes(p, pc) == proc' = [proc EXCEPT ![p].pc = pc]
Mishap == mishap < MaxMishaps /\ mishap' = mishap + 1
Spoil(p) == {c \in {proc[p].cred} : c # Nil}

----------------------------------------------------------------------------
(* Commands begin.  A call has read the credential whose token was refused *)
(* or has run out; a sign-in was approved in the browser, under a grant of *)
(* its own.                                                                *)

Begin == ops < MaxOps /\ ops' = ops + 1

StartCall(p) ==
    /\ proc[p].pc = "idle" /\ Begin
    /\ store # Nil
    /\ proc' = [proc EXCEPT ![p] = [Idle EXCEPT !.pc = "wait", !.cred = store]]
    /\ UNCHANGED <<store, lockFile, current, signIns, mishap, locks, past>>

\* consentFor: every device approval saves a new grant.
\* Mutation: it takes the grant the browser's session has.
SessionsGrant == 1
NewGrant == signIns + 2

StartLogin(p) ==
    /\ proc[p].pc = "idle" /\ Begin
    /\ signIns < MaxLogins /\ signIns' = signIns + 1
    /\ LET g == NewGrant
           cred == [grant |-> g, seq |-> current[g] + 1]
       IN
       /\ current' = [current EXCEPT ![g] = cred.seq]
       /\ proc' = [proc EXCEPT ![p] = [Idle EXCEPT !.pc = "wait", !.op = "login", !.next = cred]]
    /\ UNCHANGED <<store, lockFile, mishap, locks, past>>

StartLogout(p) ==
    /\ proc[p].pc = "idle" /\ Begin
    /\ proc' = [proc EXCEPT ![p] = [Idle EXCEPT !.pc = "wait", !.op = "logout"]]
    /\ UNCHANGED <<store, lockFile, current, signIns, mishap, locks, past>>

----------------------------------------------------------------------------
(* withCredentialsLock *)

Take(p) ==
    /\ proc[p].pc = "wait" /\ lockFile = Nil
    /\ locks' = locks + 1
    /\ lockFile' = [id |-> locks', named |-> TRUE, exited |-> FALSE, old |-> FALSE]
    /\ proc' = [proc EXCEPT ![p].pc = "in", ![p].id = locks']
    /\ shared' = (shared \/ Holders # {})
    /\ spoiled' = IF Holders = {} THEN spoiled ELSE spoiled \cup ({store} \ {Nil})
    /\ UNCHANGED <<store, current, ops, signIns, mishap, presented, again, newest>>

\* Older than staleMs, or its holder is known to have exited.
\* Mutation: only its age is looked at, and never found wanting.
NeverStale(file) == FALSE
Stale(file) == file.old \/ (file.named /\ file.exited)

Judge(p) ==
    /\ proc[p].pc = "wait" /\ lockFile # Nil /\ Stale(lockFile)
    /\ proc' = [proc EXCEPT ![p].pc = "judged", ![p].id = lockFile.id]
    /\ UNCHANGED <<store, lockFile, current, counters, past>>

\* sameLock, by a waiter and by the holder on its way out: only then is it
\* unlinked, whatever it has become by that time.
Same(p) == lockFile # Nil /\ lockFile.id = proc[p].id

Recheck(p) ==
    /\ proc[p].pc = "judged"
    /\ Goes(p, IF Same(p) THEN "unlink" ELSE "wait")
    /\ UNCHANGED <<store, lockFile, current, counters, past>>

Unlink(p) ==
    /\ proc[p].pc \in {"unlink", "unlinkOwn"}
    /\ lockFile' = Nil
    /\ proc' = IF proc[p].pc = "unlink" THEN [proc EXCEPT ![p].pc = "wait"] ELSE [proc EXCEPT ![p] = Idle]
    /\ UNCHANGED <<store, current, counters, past>>

Release(p) ==
    /\ proc[p].pc = "out"
    /\ proc' = IF Same(p) THEN [proc EXCEPT ![p].pc = "unlinkOwn"] ELSE [proc EXCEPT ![p] = Idle]
    /\ UNCHANGED <<store, lockFile, current, counters, past>>

\* A minute goes by: for a lock whose holder is gone, or (a mishap) sleeps.
Ages ==
    /\ lockFile # Nil /\ ~lockFile.old
    /\ IF lockFile.exited THEN UNCHANGED mishap ELSE Mishap
    /\ lockFile' = [lockFile EXCEPT !.old = TRUE]
    /\ UNCHANGED <<store, proc, current, ops, signIns, locks, past>>

----------------------------------------------------------------------------
(* Under the lock: refreshStored *)

\* The store is read again; another process's result is used as it is.
\* Mutation: the credential read before the lock is presented.
StaleRead(p) == proc[p].cred
Reread(p) == store

RefreshRead(p) ==
    /\ proc[p].pc = "in" /\ proc[p].op = "call"
    /\ Goes(p, IF Reread(p) # proc[p].cred THEN "out" ELSE "sent")
    /\ UNCHANGED <<store, lockFile, current, counters, past>>

\* The OP: rotates the token, or revokes the grant of a spent one.
Present(c) ==
    /\ presented' = presented \cup {c}
    /\ again' = IF c \in presented THEN again \cup {c} ELSE again
    /\ current' = [current EXCEPT ![c.grant] = IF @ = c.seq THEN c.seq + 1 ELSE Dead]

\* Mutation: a refusal's answer is taken for tokens.
RotatedAnyway(c) == [c EXCEPT !.seq = current[c.grant]]
Rotated(c) == IF current[c.grant] = c.seq THEN [grant |-> c.grant, seq |-> c.seq + 1] ELSE Nil

\* The answer comes, or is lost: unlike a refusal, that keeps what is stored.
RefreshAnswered(p) ==
    /\ proc[p].pc = "sent"
    /\ Present(proc[p].cred)
    /\ proc' = [proc EXCEPT ![p].pc = "answered", ![p].next = Rotated(proc[p].cred)]
    /\ UNCHANGED <<store, lockFile, counters, spoiled, shared, newest>>

RefreshLost(p) ==
    /\ proc[p].pc = "sent" /\ Mishap
    /\ \/ Present(proc[p].cred)
       \/ UNCHANGED <<current, presented, again>>
    /\ spoiled' = spoiled \cup Spoil(p)
    /\ Goes(p, "out")
    /\ UNCHANGED <<store, lockFile, ops, signIns, locks, shared, newest>>

\* The rotated tokens are written; a refusal forgets the credential.
RefreshWrite(p) ==
    /\ proc[p].pc = "answered"
    /\ store' = proc[p].next
    /\ Goes(p, "out")
    /\ UNCHANGED <<lockFile, current, counters, past>>

----------------------------------------------------------------------------
(* Under the lock: login and logout *)

LoginWrite(p) ==
    /\ proc[p].pc = "in" /\ proc[p].op = "login"
    /\ store' = proc[p].next
    /\ newest' = proc[p].next.grant
    /\ proc' = [proc EXCEPT ![p].pc = IF store = Nil THEN "out" ELSE "revoke", ![p].cred = store]
    /\ UNCHANGED <<lockFile, current, counters, presented, again, spoiled, shared>>

LogoutRead(p) ==
    /\ proc[p].pc = "in" /\ proc[p].op = "logout"
    /\ proc' = [proc EXCEPT ![p].pc = IF store = Nil THEN "out" ELSE "revoke", ![p].cred = store]
    /\ UNCHANGED <<store, lockFile, current, counters, past>>

\* revokeRefreshToken, best effort: a token the OP still knows takes its grant along.
Revoke(p, answered) ==
    /\ proc[p].pc = "revoke"
    /\ IF answered THEN UNCHANGED mishap ELSE Mishap
    /\ current' \in {[current EXCEPT ![proc[p].cred.grant] = Dead]} \cup (IF answered THEN {} ELSE {current})
    /\ Goes(p, IF proc[p].op = "login" THEN "out" ELSE "forget")
    /\ UNCHANGED <<store, lockFile, ops, signIns, locks, past>>

LogoutForget(p) ==
    /\ proc[p].pc = "forget"
    /\ store' = Nil
    /\ newest' = Dead
    /\ Goes(p, "out")
    /\ UNCHANGED <<lockFile, current, counters, presented, again, spoiled, shared>>

----------------------------------------------------------------------------
(* A process is killed: the lock it made stays, perhaps before its name was *)
(* written to it.                                                          *)

Crash(p) ==
    /\ proc[p].pc # "idle" /\ Mishap
    /\ \E named \in BOOLEAN :
          /\ ~named => proc[p].pc = "in"
          /\ lockFile' = IF Same(p) /\ (Inside(p) \/ proc[p].pc \in {"out", "unlinkOwn"})
                           THEN [lockFile EXCEPT !.exited = TRUE, !.named = named] ELSE lockFile
    /\ spoiled' = IF proc[p].pc \in {"answered", "revoke", "forget"} THEN spoiled \cup Spoil(p) ELSE spoiled
    /\ proc' = [proc EXCEPT ![p] = Idle]
    /\ UNCHANGED <<store, current, ops, signIns, locks, presented, again, shared, newest>>

Starting(p) == StartCall(p) \/ StartLogin(p) \/ StartLogout(p)
Locking(p) == Take(p) \/ Judge(p) \/ Recheck(p) \/ Unlink(p) \/ Release(p)
Working(p) ==
    \/ RefreshRead(p) \/ RefreshAnswered(p) \/ RefreshWrite(p)
    \/ LoginWrite(p) \/ LogoutRead(p) \/ Revoke(p, TRUE) \/ LogoutForget(p)
Failing(p) == RefreshLost(p) \/ Revoke(p, FALSE) \/ Crash(p)

Next ==
    \/ \E p \in Procs : Starting(p) \/ Locking(p) \/ Working(p) \/ Failing(p)
    \/ Ages

\* A process that runs goes on running, and time passes for a lock left behind.
AgesLeftBehind == lockFile # Nil /\ lockFile.exited /\ Ages
Fairness ==
    /\ \A p \in Procs : WF_cliVars(Locking(p) \/ Working(p))
    /\ WF_cliVars(AgesLeftBehind)

Spec == Init /\ [][Next]_cliVars /\ Fairness

----------------------------------------------------------------------------
(* Properties *)

Steps == {"idle", "wait", "judged", "unlink", "in", "sent", "answered", "revoke", "forget", "out", "unlinkOwn"}

Processes == [pc : Steps, op : {"call", "login", "logout"}, cred : Tokens \cup {Nil},
              id : Nat, next : Tokens \cup {Nil}]

TypeOK ==
    /\ store \in Tokens \cup {Nil}
    /\ lockFile \in Locks \cup {Nil}
    /\ proc \in [Procs -> Processes]
    /\ current \in [Grants -> Nat]
    /\ locks \in Nat /\ mishap \in Nat
    /\ \A p \in Procs : Inside(p) => proc[p].id \in 1..locks

\* "Concurrent mm processes present a refresh token at most once": a second time
\* only when the first one's answer was lost, or its process killed, or a stale
\* lock's takeover let two processes in.
PresentedOnce == again \subseteq spoiled

\* What is stored when nobody is at work is a token the OP still honours, with
\* the same exceptions: a sign-in's revocation of the one it replaces, and a
\* sign-out elsewhere in the queue, do not take it along.
StoredIsLive ==
    Holders = {} /\ store # Nil /\ ~shared =>
        store \in spoiled \/ current[store.grant] = store.seq

\* The last sign-in or sign-out written stands: a refresh that began before it
\* neither brings an older sign-in back nor undoes a sign-out.
NewestStands == store # Nil => store.grant = newest \/ shared

\* The lock excludes: two processes hold it at once only after one of them was
\* killed, or slept for a minute with the lock in its hands.
SharedAfterMishap == shared => mishap > 0

\* The credential at rest is the newest one, and good: nothing spends it twice.
StoreIsCurrent ==
    TypeOK /\ PresentedOnce /\ StoredIsLive /\ NewestStands /\ SharedAfterMishap

\* Nobody waits for the lock forever, whoever died holding it.
GetsThrough(p) == proc[p].pc = "wait" ~> proc[p].pc = "idle"
=============================================================================
