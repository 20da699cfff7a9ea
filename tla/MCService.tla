----------------------------- MODULE MCService -----------------------------
(* An organization's seats, and the admin API about it, in one run: Org    *)
(* itself; the admin calls, of two `mm' processes that write and of one    *)
(* that reads a listing page by page; the key set their tokens are         *)
(* verified with; and the usage reports.  `focus' is the one that moves;   *)
(* the others stay as they began.                                          *)
EXTENDS Org, TLC

CONSTANTS ann, bob, cat, r1, r2, r3, a1, a2, p1, p2, v1, v2

\* AdminCalls
CONSTANTS Procs, MaxRows, PageSize, Home, Elsewhere, Nil, MaxCalls, MaxTokens, MaxWrites, MaxFaults
VARIABLES kind, rows, audit, store, age, tokens, request, listing, requests, writes, callFaults, replaced

\* KeySet
CONSTANTS Verifications, Life, MaxAge, Cooldown, MaxFetch, MaxKeys, LastTick
VARIABLES tick, published, signer, keysSince, until, gone, set, load, verifying

\* Reports
CONSTANTS Nothing, Every
VARIABLES hour, rollup, window, matrix, series, ranking, counted, version, totals

VARIABLE focus

Admin == INSTANCE AdminCalls WITH
    issued <- tokens, call <- request, calls <- requests, faults <- callFaults,
    MaxId <- MaxRows, Limit <- PageSize, Ops <- {"list", "create", "retire"}

\* Two requests, one rotation or replacement, and the drop of what was rotated.
Verifier == INSTANCE KeySet WITH
    now <- tick, since <- keysSince, req <- verifying, Requests <- Verifications, MaxTime <- LastTick

\* A key of one paddock and one of two, over two days of two hours.
Usage == INSTANCE Reports WITH
    now <- hour, asked <- window, writes <- counted,
    Keys <- {"k1", "k2"}, Paddocks <- {"a", "b"}, Dims <- {"tokens_out", "images"}, Headline <- "tokens_out",
    Meters <- {<<"k1", "a", "tokens_out">>, <<"k1", "b", "tokens_out">>, <<"k2", "b", "tokens_out">>,
               <<"k2", "b", "images">>},
    All <- Every, Filters <- {<<Every, Every>>, <<"k1", Every>>, <<Every, "b">>},
    HoursPerDay <- 2, Ranges <- {1, 2}, FirstHour <- 2, MaxHour <- 3, MaxWrites <- 2

ASSUME AdminAssumption == Admin!AdminCallsAssumption
ASSUME VerifierAssumption == Verifier!KeySetAssumption
ASSUME Usage!ReportsAssumption

adminVars == <<kind, rows, audit, store, age, tokens, request, listing, requests, writes, callFaults, replaced>>
keyVars == <<tick, published, signer, keysSince, until, gone, set, load, verifying>>
usageVars == <<hour, rollup, window, matrix, series, ranking, counted, version, totals>>
allVars == <<focus, vars, adminVars, keyVars, usageVars>>

\* The admin calls in two small instances: two processes that write over one row, or
\* one that lists, keys or flocks that are all there or all but one.
Writing ==
    /\ \A p \in Procs : request[p] = Admin!NoCall \/ (request[p].op # "list" /\ request[p].id = 1)
    /\ \A i \in DOMAIN rows : i > 1 => rows[i] = "none"
    /\ requests <= 2 /\ writes = 0
Reading ==
    /\ \A p \in Procs : request[p] # Admin!NoCall =>
          request[p].op = "list" /\ \A q \in Procs \ {p} : request[q] = Admin!NoCall
    /\ tokens = 1
AllButOne == Cardinality({i \in DOMAIN rows : rows[i] = "none"}) <= 1
\* People are alike, and invites: who stands highest at the start comes first, and so does
\* the first invite.
Standing(u) == IF keys[u] > 0 THEN 3 ELSE IF Active(u) THEN 2 ELSE IF Exists(u) THEN 1 ELSE 0
ByStanding == Standing(ann) >= Standing(bob) /\ Standing(bob) >= Standing(cat)
InOrder == invite["i2"].state # "none" => invite["i1"].state # "none"
OrgAtRest == \A u \in Emails : keys[u] = 0 /\ (Active(u) <=> u = AnyEmail) /\ (Exists(u) => Active(u))
                                /\ limit = CHOOSE n \in Limits : TRUE
AdminAtRest == Admin!Init /\ Writing /\ kind = "keys" /\ rows[1] = "live" /\ store.writes /\ store.renewable

\* One initial state each for those out of focus.
AllInit ==
    /\ Verifier!Init /\ Usage!Init
    /\ focus \in {"org", "calls", "pages", "keys", "usage"}
    /\ Init /\ IF focus = "org" THEN ByStanding ELSE OrgAtRest
    /\ CASE focus = "calls" -> Admin!Init /\ Writing
         [] focus = "pages" -> Admin!Init /\ Reading /\ AllButOne
         [] OTHER -> AdminAtRest

AllNext ==
    /\ UNCHANGED focus
    /\ \/ focus = "org" /\ Next /\ InOrder' /\ UNCHANGED <<adminVars, keyVars, usageVars>>
       \/ focus = "calls" /\ Admin!Next /\ Writing' /\ UNCHANGED <<vars, keyVars, usageVars>>
       \/ focus = "pages" /\ Admin!Next /\ Reading' /\ UNCHANGED <<vars, keyVars, usageVars>>
       \/ focus = "keys" /\ Verifier!Next /\ UNCHANGED <<vars, adminVars, usageVars>>
       \/ focus = "usage" /\ Usage!Next /\ UNCHANGED <<vars, adminVars, keyVars>>

AllSpec == AllInit /\ [][AllNext]_allVars

\* Accepts are alike, and so are two requests, two processes and two verifications.  One
\* component moves, so to swap all three pairs is to swap the one that moves.
Twins ==
    {swap \in Permutations(Requests \cup Procs \cup Verifications) :
        \A pair \in {Requests, Procs, Verifications} :
            \A x \in pair : swap[x] \in pair /\ (swap[x] = x <=> swap[p1] = p1)}
RequestSymmetry == Twins \cup Permutations(Accepts)

\* The components' properties, as the components state them; Org's are its own.
\* Each invariant stands with the types of what it is about.
\* What a CLI call reports is what it did, once, at the console its token is for.
CallsAreHonest == focus \in {"calls", "pages"} => Admin!TypeOK /\ Admin!CallsAreHonest
\* A listing read by pages shows each row once and misses none that stayed.
ListingsAreWhole == focus = "pages" => Admin!ListingsAreWhole
\* The reports of a window add up to what was counted, and to each other.
ReportsAgree == focus = "usage" => Usage!TypeOK /\ Usage!ReportsAgree
\* A verification's answer is one the client acts on rightly, whatever rotates meanwhile.
VerdictsStand == Verifier!VerdictsStand
=============================================================================
