----------------------------- MODULE MCConsole -----------------------------
(* Small instances of what the console and the OP do for their users, in   *)
(* one run: a console sign-in; a client's consent twice, in two browsers   *)
(* with faults and in one with more approvals and none; a paddock's fence; *)
(* two flocks, and one with tests, rotations and more saves; a licence; and  *)
(* the sign-in form's throttle.                                            *)
(* `focus' is the one that moves; the others stay as they began.           *)
EXTENDS Flocks, TLC

CONSTANTS k5, k10

\* SignIn
CONSTANTS Browsers, Users, Callbacks, Nobody, MaxTransactions, MaxLogins, MaxEvents
VARIABLES active, txCookie, session, opSession, begun, signInCodes, links, callback, logouts,
          logins, events, since, late, via, signedIn, twice, signInOverlapped

\* Consent
CONSTANTS Tabs, Slugs, Null, MaxApprovals, MaxChanges
VARIABLES home, may, open, key, scope, bound, flow, call, claimed, codes, refreshes,
          changes, faults, issued, revoked, failed, mints, disturbed, overlapped

\* Fences
CONSTANTS Kennels, Templates, Limits, Edits, MaxEdits
VARIABLES breed, paddock, fence, edit, edits, asked, limited, serial, fenceOverlapped, moved

\* License
CONSTANTS Licences, SeatsOf, BaseSeats, Calls, Pass, NoLicence, Grace, MaxTime, MaxInstances, MaxOutages
VARIABLES today, entitled, licence, instances, released, licenceCall, outages, mixed, outrun, confirmed, expiredOn, misread

\* LoginThrottle
CONSTANTS Forms, MaxFailures, Window, NoBucket, LastTime
VARIABLES clock, bucket, form, tried, noted

VARIABLE focus

Console == INSTANCE SignIn WITH codes <- signInCodes, overlapped <- signInOverlapped
Faulty == INSTANCE Consent
Shared == INSTANCE Consent WITH Browsers <- {CHOOSE b \in Browsers : TRUE},
                                MaxApprovals <- MaxApprovals + 1, MaxChanges <- 0, MaxFaults <- 0
TwoFlocks == INSTANCE Flocks WITH MaxSaves <- 1, MaxTests <- 0, MaxRotations <- 0
OneFlock == INSTANCE Flocks WITH Secrets <- {"x"}
Fencing == INSTANCE Fences WITH overlapped <- fenceOverlapped
Licensing == INSTANCE License WITH call <- licenceCall
Throttle == INSTANCE LoginThrottle WITH MaxTime <- LastTime

ASSUME Console!SignInAssumption
ASSUME Faulty!ConsentAssumption /\ Shared!ConsentAssumption
ASSUME Fencing!FencesAssumption
ASSUME FlocksAssumption /\ TwoFlocks!FlocksAssumption /\ OneFlock!FlocksAssumption
ASSUME Licensing!LicenseAssumption
ASSUME Throttle!LoginThrottleAssumption
\* Two addresses, one of them with and without TLS trust switched on.
Connections == {[breed |-> "ollama", url |-> "u1", tls |-> FALSE],
                [breed |-> "ollama", url |-> "u1", tls |-> TRUE],
                [breed |-> "ollama", url |-> "u2", tls |-> FALSE]}

FiveAndTen == (k5 :> 5) @@ (k10 :> 10)

signInVars == <<active, txCookie, session, opSession, begun, signInCodes, links, callback, logouts,
                logins, events, since, late, via, signedIn, twice, signInOverlapped>>
consentVars == <<home, may, open, key, scope, bound, flow, call, claimed, codes, refreshes,
                 changes, faults, issued, revoked, failed, mints, disturbed, overlapped>>
fenceVars == <<breed, paddock, fence, edit, edits, asked, limited, serial, fenceOverlapped, moved>>
licenseVars == <<today, entitled, licence, instances, released, licenceCall, outages, mixed, outrun, confirmed,
                 expiredOn, misread>>
throttleVars == <<clock, bucket, form, tried, noted>>
allVars == <<focus, signInVars, consentVars, fenceVars, flockVars, licenseVars, throttleVars>>

\* Flocks in two small instances: two flocks that move between two addresses, or
\* one with tests, a rotation, more saves and changes of its TLS trust.
Within(conns, used) ==
    /\ used \subseteq FlockIds
    /\ \A f \in FlockIds : IF f \in used THEN row[f].conn \in conns ELSE row[f] = NoRow
    /\ \A w \in Savers : save[w] # None => save[w].conn \in conns
Two == Within({c \in Conns : ~c.tls}, {1, 2})
One == Within({c \in Conns : c.url = "u1"}, {1})

\* Browsers are alike: the first tab's, and that of the first sign-in, is the first.
First == CHOOSE b \in Browsers : TRUE
FaultyInit == Faulty!Init /\ home[CHOOSE t \in Tabs : TRUE] = First
FirstSignsIn == begun[1] = Nobody \/ begun[1].browser = First
\* So are users, paddocks, flocks, and licences but for their number of seats: who types the
\* first password, the paddock of the first approval, the flock a paddock begins on and the
\* licence that takes the first instance.
FirstTypes ==
    \A b \in Browsers : opSession[b] # Nobody /\ opSession[b].serial = 1 => opSession[b].user = CHOOSE u \in Users : TRUE
FirstApproved == call[1] # Null => call[1].slug = CHOOSE s \in Slugs : TRUE
OnFirst == paddock.flock = CHOOSE k \in Kennels : TRUE
FewerSeatsFirst == instances[1] # k10

\* One initial state each for those out of focus.
FencesAtRest == /\ Fencing!Init /\ OnFirst
                /\ \A k \in Kennels : breed[k] = "ollama"
FlocksAtRest == Init /\ row = [f \in FlockIds |-> NoRow]

AllInit ==
    /\ Console!Init /\ Licensing!Init /\ Throttle!Init
    /\ \/ focus \in {"console", "shared", "licence", "throttle"} /\ Shared!Init /\ FencesAtRest /\ FlocksAtRest
       \/ focus = "faulty" /\ FaultyInit /\ FencesAtRest /\ FlocksAtRest
       \/ focus = "fence" /\ Shared!Init /\ Fencing!Init /\ OnFirst /\ FlocksAtRest
       \/ focus = "two" /\ Shared!Init /\ FencesAtRest /\ TwoFlocks!Init /\ Two
       \/ focus = "one" /\ Shared!Init /\ FencesAtRest /\ OneFlock!Init /\ One

AllNext ==
    /\ UNCHANGED focus
    /\ \/ focus = "console" /\ Console!Next /\ FirstSignsIn' /\ FirstTypes'
          /\ UNCHANGED <<consentVars, fenceVars, flockVars, licenseVars, throttleVars>>
       \/ focus = "faulty" /\ Faulty!Next /\ FirstApproved'
          /\ UNCHANGED <<signInVars, fenceVars, flockVars, licenseVars, throttleVars>>
       \/ focus = "shared" /\ Shared!Next /\ FirstApproved'
          /\ UNCHANGED <<signInVars, fenceVars, flockVars, licenseVars, throttleVars>>
       \/ focus = "fence" /\ Fencing!Next /\ UNCHANGED <<signInVars, consentVars, flockVars, licenseVars, throttleVars>>
       \/ focus = "two" /\ TwoFlocks!Next /\ Two' /\ UNCHANGED <<signInVars, consentVars, fenceVars, licenseVars, throttleVars>>
       \/ focus = "one" /\ OneFlock!Next /\ One' /\ UNCHANGED <<signInVars, consentVars, fenceVars, licenseVars, throttleVars>>
       \/ focus = "licence" /\ Licensing!Next /\ FewerSeatsFirst'
          /\ UNCHANGED <<signInVars, consentVars, fenceVars, flockVars, throttleVars>>
       \/ focus = "throttle" /\ Throttle!Next /\ UNCHANGED <<signInVars, consentVars, fenceVars, flockVars, licenseVars>>

AllSpec == AllInit /\ [][AllNext]_allVars

\* The components' properties, as the components state them, and their types.  The
\* flocks' are their own.
OfConsent(faulty, shared) == /\ focus = "faulty" => faulty
                             /\ focus = "shared" => shared

\* A console session begins only for who typed a password in that browser since its OP
\* session last ended (handleCallback).
SessionsAreProved == Console!SessionsAreProved
\* A sign-in answers one login, as it was begun, and passwords are tried no more often than
\* the throttle allows and those under way (takeTransactionCookie, submitLogin).
SignInsAreAsBegun == /\ focus = "console" => Console!TypeOK /\ Console!SignInsAreAsBegun
                     /\ focus = "throttle" => Throttle!TypeOK /\ Throttle!GuessesAreFew

\* A token names a key that an approval of its paddock and grant made and nobody has revoked.
TokensFollowApproval == Faulty!TokensFollowApproval
\* Grants, codes and keys stand on a mint that committed, once (submitConsent).
GrantsStandOnMints == OfConsent(Faulty!TypeOK /\ Faulty!GrantsStandOnMints,
                                Shared!TypeOK /\ Shared!GrantsStandOnMints)
\* A grant keeps the paddocks it covers, but for overlapping approvals of one browser.
ScopesAreKept == Faulty!ScopesAreKept
\* What the user is told of a failed mint: "nothing was granted" (interactions.ts:339).
NothingWasGranted == Faulty!NothingWasGranted

\* What one edit of a paddock saved, another does not undo.
EditsAreKept == focus = "fence" => Fencing!TypeOK /\ Fencing!EditsAreKept

\* What a licence bought is there, through outages and the grace (license-service.ts).
SeatsStand == focus = "licence" => Licensing!TypeOK /\ Licensing!SeatsStand
=============================================================================
