------------------------------- MODULE KeySet -------------------------------
(* Access tokens and the key set they are verified against: the OP signs   *)
(* with one key and publishes that key and the previous ones, a resource   *)
(* server keeps a copy of what was published, and several requests verify  *)
(* their tokens against the one copy at once.  The operator rotates the    *)
(* signing key as documented, or replaces it to invalidate what it signed. *)
(*                                                                         *)
(* The copy is jose's remote key set, external, with the settings the      *)
(* verifier gives it: a call loads the set when there is none or it is too *)
(* old, and once more on a key it does not find, unless the set was loaded *)
(* moments ago; a load under way is shared.                                *)
EXTENDS Integers, FiniteSets

CONSTANTS
    Requests,       \* requests that verify a token, concurrently
    Nil,            \* no token, no set, no load
    Life,           \* how long an access token lives
    MaxAge,         \* JWKS_CACHE_MAX_AGE_MS
    Cooldown,       \* JWKS_COOLDOWN_MS
    MaxFetch,       \* how long a load takes at most (jose's timeout)
    MaxKeys,        \* bound: signing keys ever used
    MaxTime         \* bound on the clock

Kids == 1..MaxKeys
Forged == 0         \* a kid the OP never used
Sets == [keys : SUBSET Kids, at : Nat]
Loads == [asked : Nat, keys : {Nil} \cup SUBSET Kids]

\* 30 s and 10 min in the code, and 5 s in jose.
KeySetAssumption ==
    /\ {Life, Cooldown, MaxKeys} \subseteq Nat \ {0}
    /\ {MaxAge, MaxFetch, MaxTime} \subseteq Nat
    /\ Cooldown < MaxAge /\ MaxFetch < MaxAge
    /\ Nil \notin Nat /\ Nil \notin Sets /\ Nil \notin Loads /\ \A keys \in SUBSET Kids : keys # Nil

VARIABLES
    now,
    published,      \* the keys of the OP's JWKS
    signer,         \* the key it signs with, the newest
    since,          \* when each key began to sign
    until,          \* when each key stopped signing, and Nil while it has not
    gone,           \* when each key was last published, and Nil while it is
    set,            \* the copy: its keys and when it was loaded
    load,           \* the load under way: when it was asked for and what the OP answered
    req             \* what each request does

opVars == <<published, signer, since, until, gone>>
vars == <<now, opVars, set, load, req>>

\* A request that verifies nothing, after the last answer.
Answered(answer) == [pc |-> answer, kid |-> Forged, exp |-> 0, began |-> 0, cooling |-> FALSE, crossed |-> FALSE]

Init ==
    /\ now = 0
    /\ published = {1} /\ signer = 1
    /\ since = [k \in Kids |-> IF k = 1 THEN 0 ELSE Nil]
    /\ until = [k \in Kids |-> Nil]
    /\ gone = [k \in Kids |-> Nil]
    /\ set = Nil /\ load = Nil
    /\ req = [r \in Requests |-> Answered("none")]

----------------------------------------------------------------------------
(* The OP and its operator. *)

\* The tokens a key has signed by now, told apart by when they expire.
Expiries(k) ==
    IF since[k] = Nil THEN {}
    ELSE {at + Life : at \in since[k]..(IF until[k] = Nil THEN now ELSE until[k])}

\* signingJwks: the signer first, the previous keys behind it, for verifying only.
SignWith(k, keys) ==
    /\ signer' = k
    /\ published' = keys
    /\ since' = [since EXCEPT ![k] = now]
    /\ until' = [until EXCEPT ![signer] = now]
    /\ gone' = [j \in Kids |-> IF j \in published \ keys THEN now ELSE gone[j]]

\* The documented rotation: the old key becomes a previous one ...
Rotate ==
    /\ signer < MaxKeys
    /\ SignWith(signer + 1, published \cup {signer + 1})
    /\ UNCHANGED <<now, set, load, req>>

\* ... and is dropped once its tokens have expired and every copy has been loaded anew.
Drop ==
    /\ published # {signer}
    /\ \A k \in published \ {signer} : now >= until[k] + Life + MaxAge
    /\ published' = {signer}
    /\ gone' = [k \in Kids |-> IF k \in published \ {signer} THEN now ELSE gone[k]]
    /\ UNCHANGED <<now, signer, since, until, set, load, req>>

\* Replacing the key with no previous ones: the deliberate way to invalidate tokens.
Replace ==
    /\ signer < MaxKeys
    /\ SignWith(signer + 1, {signer + 1})
    /\ UNCHANGED <<now, set, load, req>>

----------------------------------------------------------------------------
(* jose's remote key set. *)

\* Mutation: a set once loaded is never too old.
FreshForever == set # Nil

Fresh == set # Nil /\ now < set.at + MaxAge
CoolingDown == set # Nil /\ now < set.at + Cooldown

\* A load is asked for unless one is under way, and waited for either way.
Reload(r, pc) ==
    /\ load' = IF load = Nil THEN [asked |-> now, keys |-> Nil] ELSE load
    /\ req' = [req EXCEPT ![r].pc = pc, ![r].crossed = @ \/ load # Nil]

\* The OP answers a load with what it publishes at that moment.
Publish ==
    /\ load # Nil /\ load.keys = Nil
    /\ load' = [load EXCEPT !.keys = published]
    /\ UNCHANGED <<now, opVars, set, req>>

Waiting == {"first", "second"}

\* A load lands: those waiting go on to look their key up; for everyone else it
\* has changed the set under their feet.
Land ==
    /\ load # Nil /\ load.keys # Nil
    /\ set' = [keys |-> load.keys, at |-> now]
    /\ load' = Nil
    /\ req' = [r \in Requests |->
                 IF req[r].pc = "first" THEN [req[r] EXCEPT !.pc = "lookup"]
                 ELSE IF req[r].pc = "second" THEN [req[r] EXCEPT !.pc = "again"]
                 ELSE IF req[r].pc \in {"verify", "lookup", "missed", "again"} THEN [req[r] EXCEPT !.crossed = TRUE]
                 ELSE req[r]]
    /\ UNCHANGED <<now, opVars>>

\* It fails: everyone who waited is answered 503 (keySetFailure).
LoadFails ==
    /\ load # Nil
    /\ load' = Nil
    /\ req' = [r \in Requests |-> IF req[r].pc \in Waiting THEN Answered("503") ELSE req[r]]
    /\ UNCHANGED <<now, opVars, set>>

----------------------------------------------------------------------------
(* createAccessTokenVerifier. *)

Answers == {"none", "ok", "401", "503", "miss"}

\* Mutation: an expired token is left to the verification.
NeverBeforeVerifying(exp) == FALSE

ExpiredBeforeVerifying(exp) == exp <= now

\* A token arrives.  One that has expired is refused before the key set is touched;
\* for another, whether the set is cooling down is read now.
Begin(r) ==
    /\ req[r].pc \in Answers
    /\ \E kid \in Kids \cup {Forged} :
       \E exp \in IF kid = Forged THEN {now + Life} ELSE Expiries(kid) :
          req' = [req EXCEPT ![r] =
                    IF ExpiredBeforeVerifying(exp) THEN Answered("401")
                    ELSE [pc |-> "verify", kid |-> kid, exp |-> exp, began |-> now,
                          cooling |-> CoolingDown, crossed |-> FALSE]]
    /\ UNCHANGED <<now, opVars, set, load>>

\* jwtVerify comes to resolve the key: a set that is missing or too old is loaded first.
Resolve(r) ==
    /\ req[r].pc = "verify"
    /\ IF Fresh
         THEN req' = [req EXCEPT ![r].pc = "lookup"] /\ UNCHANGED load
         ELSE Reload(r, "first")
    /\ UNCHANGED <<now, opVars, set>>

\* With the key found, the signature holds and what is left is the expiry.
Judged(r) == IF req[r].exp <= now THEN "401" ELSE "ok"

Lookup(r) ==
    /\ req[r].pc = "lookup"
    /\ req' = [req EXCEPT ![r] = IF @.kid \in set.keys THEN Answered(Judged(r)) ELSE [@ EXCEPT !.pc = "missed"]]
    /\ UNCHANGED <<now, opVars, set, load>>

\* Mutation: a key that is not in the copy is always the token's fault.
UnmatchedRefused(r) == "401"

\* A kid nobody has: a 503 if the set was cooling down when the verification began,
\* so that the signer may be one published since, and a 401 if not.
Unmatched(r) == IF req[r].cooling THEN "miss" ELSE "401"

\* On a miss the set is loaded once more, unless it is cooling down by now.
Missed(r) ==
    /\ req[r].pc = "missed"
    /\ IF CoolingDown
         THEN req' = [req EXCEPT ![r] = Answered(Unmatched(r))] /\ UNCHANGED load
         ELSE Reload(r, "second")
    /\ UNCHANGED <<now, opVars, set>>

LookupAgain(r) ==
    /\ req[r].pc = "again"
    /\ req' = [req EXCEPT ![r] = Answered(IF @.kid \in set.keys THEN Judged(r) ELSE Unmatched(r))]
    /\ UNCHANGED <<now, opVars, set, load>>

Verifying(r) == Begin(r) \/ Resolve(r) \/ Lookup(r) \/ Missed(r) \/ LookupAgain(r)

\* Time passes: a load is timed out in it, and a request waits for one or has only begun.
Tick ==
    /\ now < MaxTime
    /\ load # Nil => now < load.asked + MaxFetch
    /\ \A r \in Requests : /\ req[r].pc \notin {"lookup", "missed", "again"}
                           /\ req[r].pc = "verify" => req[r].began = now
    /\ now' = now + 1
    /\ UNCHANGED <<opVars, set, load, req>>

Next ==
    \/ Rotate \/ Drop \/ Replace
    \/ Publish \/ Land \/ LoadFails
    \/ \E r \in Requests : Verifying(r)
    \/ Tick

Spec == Init /\ [][Next]_vars

----------------------------------------------------------------------------
(* Properties. *)

TypeOK ==
    /\ now \in 0..MaxTime
    /\ signer \in published /\ published \subseteq Kids
    /\ since \in [Kids -> Nat \cup {Nil}]
    /\ until \in [Kids -> Nat \cup {Nil}]
    /\ gone \in [Kids -> Nat \cup {Nil}]
    /\ \A k \in Kids : since[k] # Nil <=> k <= signer
    /\ \A k \in Kids : until[k] # Nil <=> k < signer
    /\ \A k \in Kids : gone[k] # Nil <=> k < signer /\ k \notin published
    /\ set \in {Nil} \cup Sets /\ load \in {Nil} \cup Loads
    /\ set # Nil => set.at <= now
    /\ req \in [Requests -> [pc : Answers \cup Waiting \cup {"verify", "lookup", "missed", "again"},
                             kid : Kids \cup {Forged}, exp : Nat, began : Nat,
                             cooling : BOOLEAN, crossed : BOOLEAN]]
    /\ \A r \in Requests : req[r].began <= now
    /\ (\E r \in Requests : req[r].pc \in Waiting) => load # Nil

\* A token is taken only while its key is published, or for as long after as the
\* copy may be old; and only while it is alive.
TakenInTime(q) ==
    /\ q.exp > now
    /\ gone[q.kid] = Nil \/ now < gone[q.kid] + MaxAge + MaxFetch

\* A living token of a published key is refused, which a client answers by spending
\* its refresh token, only if another request's load landed in the verification.
RefusedForCause(q) ==
    q.kid # Forged /\ q.exp > now => gone[q.kid] # Nil \/ q.crossed

\* A 503 for a key the copy lacks ends: it is for a new key, and a cooldown later the
\* key is found (DEPLOY.md); a key dropped as documented never meets one.
DroppedByTheBook(k) == gone[k] # Nil /\ gone[k] >= until[k] + Life + MaxAge
MissedForCause(q) ==
    q.kid # Forged =>
        /\ gone[q.kid] = Nil => q.began < since[q.kid] + MaxFetch + Cooldown
        /\ ~DroppedByTheBook(q.kid)

\* Whatever rotates, loads and fails meanwhile, a verification's answer is one the
\* client acts on rightly: it refreshes on a 401 and waits on a 503.
VerdictsStand ==
    [][\A r \in Requests : req'[r] # req[r] =>
          CASE req'[r].pc = "ok" -> TakenInTime(req[r])
            [] req'[r].pc = "401" -> RefusedForCause(req[r])
            [] req'[r].pc = "miss" -> MissedForCause(req[r])
            [] OTHER -> TRUE]_vars
=============================================================================
