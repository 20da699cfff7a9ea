------------------------------ MODULE License ------------------------------
(***************************************************************************)
(* An org's licence: the entitlement row, and the activations,             *)
(* deactivations and re-validations that call Lemon Squeezy between their  *)
(* reads of the row and their write.  Nothing locks the row, so another    *)
(* call's write may fall anywhere in between.  Lemon Squeezy is external:  *)
(* it answers, fails before or after it acted, and its licences expire.    *)
(***************************************************************************)
EXTENDS Naturals, FiniteSets

CONSTANTS
    Licences,     \* license keys
    SeatsOf,      \* [Licences -> seats of the licence's variant]
    BaseSeats,    \* seats without a licence
    Calls,        \* calls in flight at a time
    Pass,         \* the call that is the scheduler's pass
    NoLicence,    \* no row, no instance
    Grace,        \* the offline grace (7 days)
    MaxTime,      \* bound on the clock
    MaxInstances, \* bound on activations at Lemon Squeezy
    MaxOutages    \* bound on calls Lemon Squeezy does not answer

Instances == 1..MaxInstances
Answers == [valid : BOOLEAN, status : {"active", "expired", "unknown"}, seats : Nat]
Rows == [key : Licences, instance : Instances, status : {"active", "expired", "unknown"}, seats : Nat, grace : Nat]

LicenseAssumption ==
    /\ Pass \in Calls /\ Licences # {}
    /\ SeatsOf \in [Licences -> Nat] /\ BaseSeats \in Nat
    /\ {Grace, MaxTime, MaxInstances, MaxOutages} \subseteq Nat
    /\ NoLicence \notin Licences /\ NoLicence \notin Instances
    /\ NoLicence \notin Rows /\ NoLicence \notin Answers

VARIABLES
    today,        \* the clock
    entitled,     \* the entitlement row: [key, instance, status, seats, grace], or NoLicence
    licence,      \* Lemon Squeezy: [Licences -> "active" | "expired"]
    instances,    \* Lemon Squeezy: [1..n -> the licence each instance was taken for, or NoLicence]
    released,     \* Lemon Squeezy: the instances given back
    call,         \* [Calls -> the call in flight]
    outages,
    mixed,        \* history: a re-validation of one licence was written over another's row
    outrun,       \* history: a re-validation was written over a row changed since it read it
    confirmed,    \* history: the start of the last call that wrote a valid answer
    expiredOn,    \* history: [Licences -> when it expired]
    misread       \* history: an error was taken for an answer, and no valid answer has been written since

licenseVars == <<today, entitled, licence, instances, released, call, outages, mixed, outrun,
                 confirmed, expiredOn, misread>>
history == <<mixed, outrun, confirmed, expiredOn, misread>>
remote == <<licence, instances, released>>

Idle == [pc |-> "idle", at |-> 0, key |-> NoLicence, instance |-> NoLicence, view |-> NoLicence,
         answer |-> NoLicence]

Init ==
    /\ today = 0
    /\ entitled = NoLicence
    /\ licence = [k \in Licences |-> "active"]
    /\ instances = [i \in Instances |-> NoLicence]
    /\ released = {}
    /\ call = [c \in Calls |-> Idle]
    /\ outages = 0
    /\ mixed = FALSE
    /\ outrun = FALSE
    /\ confirmed = 0
    /\ expiredOn = [k \in Licences |-> 0]
    /\ misread = FALSE

Stored == entitled # NoLicence

\* getSeatLimit, resolveEntitlementSeats: while active, or within the grace.
SeatLimit ==
    IF Stored /\ (entitled.status = "active" \/ entitled.grace > today) THEN entitled.seats ELSE BaseSeats

----------------------------------------------------------------------------
(* Lemon Squeezy. *)

\* A licence is valid for an instance of its own; its status is the licence's.
InUse(k, i) == i \in Instances \ released /\ instances[i] = k
Answer(k, i) ==
    [valid |-> licence[k] = "active" /\ InUse(k, i),
     status |-> licence[k], seats |-> SeatsOf[k]]

Outage == outages < MaxOutages /\ outages' = outages + 1

Expire(k) ==
    /\ licence[k] = "active"
    /\ licence' = [licence EXCEPT ![k] = "expired"]
    /\ expiredOn' = [expiredOn EXCEPT ![k] = today]
    /\ UNCHANGED <<today, entitled, instances, released, call, outages, mixed, outrun, confirmed, misread>>

Tick ==
    /\ today < MaxTime
    /\ today' = today + 1
    /\ UNCHANGED <<entitled, remote, call, outages, history>>

----------------------------------------------------------------------------
Goes(c, state) == call' = [call EXCEPT ![c] = state]
Ends(c) == Goes(c, Idle)
Local == UNCHANGED <<today, entitled, remote, outages, history>>

(* activateLicense *)

Activate(c, k) ==
    /\ c # Pass /\ call[c].pc = "idle"
    /\ Goes(c, [Idle EXCEPT !.pc = "activate", !.at = today, !.key = k])
    /\ Local

NewInstance == CHOOSE i \in Instances : instances[i] = NoLicence
MayActivate(k) == licence[k] = "active" /\ \E i \in Instances : instances[i] = NoLicence

LsActivates(c) ==
    /\ call[c].pc = "activate"
    /\ IF MayActivate(call[c].key)
         THEN /\ instances' = [instances EXCEPT ![NewInstance] = call[c].key]
              /\ Goes(c, [call[c] EXCEPT !.pc = "confirm", !.instance = NewInstance])
         ELSE Ends(c) /\ UNCHANGED instances
    /\ UNCHANGED <<today, entitled, licence, released, outages, history>>

\* No answer; the instance may have been taken.
LsActivateUnanswered(c) ==
    /\ call[c].pc = "activate" /\ Outage
    /\ \/ UNCHANGED instances
       \/ MayActivate(call[c].key) /\ instances' = [instances EXCEPT ![NewInstance] = call[c].key]
    /\ Ends(c)
    /\ UNCHANGED <<today, entitled, licence, released, history>>

LsConfirms(c) ==
    /\ call[c].pc = "confirm"
    /\ LET answer == Answer(call[c].key, call[c].instance) IN
       IF answer.valid THEN Goes(c, [call[c] EXCEPT !.pc = "save", !.answer = answer]) ELSE Ends(c)
    /\ Local

\* saveEntitlement: whatever row is there is replaced.  The grace runs from the
\* start of the call.
SaveEntitlement(c) ==
    /\ call[c].pc = "save"
    /\ entitled' = [key |-> call[c].key, instance |-> call[c].instance, status |-> call[c].answer.status,
                    seats |-> call[c].answer.seats, grace |-> call[c].at + Grace]
    /\ mixed' = FALSE /\ outrun' = FALSE /\ misread' = FALSE
    /\ confirmed' = call[c].at
    /\ Ends(c)
    /\ UNCHANGED <<today, remote, outages, expiredOn>>

(* deactivateLicense: the view, the key, Lemon Squeezy, and the row. *)

\* Of the view, the instance is used; there may be no row.
DeactivateReadView(c) ==
    /\ c # Pass /\ call[c].pc = "idle"
    /\ Goes(c, [Idle EXCEPT !.pc = "key", !.instance = IF Stored THEN entitled.instance ELSE NoLicence])
    /\ Local

\* Without a view or a key Lemon Squeezy is not called.
DeactivateReadKey(c) ==
    /\ call[c].pc = "key"
    /\ IF Stored /\ call[c].instance # NoLicence
         THEN Goes(c, [call[c] EXCEPT !.pc = "release", !.key = entitled.key])
         ELSE Goes(c, [Idle EXCEPT !.pc = "clear"])
    /\ Local

\* Best effort: the instance is given back when it is one of the key's.
Release(c) ==
    /\ call[c].pc = "release"
    /\ \/ InUse(call[c].key, call[c].instance) /\ released' = released \cup {call[c].instance} /\ UNCHANGED outages
       \/ ~InUse(call[c].key, call[c].instance) /\ UNCHANGED <<released, outages>>
       \/ Outage /\ UNCHANGED released
    /\ Goes(c, [Idle EXCEPT !.pc = "clear"])
    /\ UNCHANGED <<today, entitled, licence, instances, history>>

\* clearEntitlement: by org, whichever licence the row now holds.
ClearEntitlement(c) ==
    /\ call[c].pc = "clear"
    /\ entitled' = NoLicence
    /\ mixed' = FALSE /\ outrun' = FALSE /\ misread' = FALSE
    /\ Ends(c)
    /\ UNCHANGED <<today, remote, outages, confirmed, expiredOn>>

(* revalidateLicense: the key first, then the view. *)

ReadKey(c) ==
    /\ call[c].pc = "idle" /\ Stored
    /\ Goes(c, [Idle EXCEPT !.pc = "view", !.at = today, !.key = entitled.key])
    /\ Local

ReadView(c) ==
    /\ call[c].pc = "view"
    /\ IF Stored THEN Goes(c, [call[c] EXCEPT !.pc = "validate", !.view = entitled]) ELSE Ends(c)
    /\ Local

LsValidates(c) ==
    /\ call[c].pc = "validate"
    /\ Goes(c, [call[c] EXCEPT !.pc = "update", !.answer = Answer(call[c].key, call[c].view.instance)])
    /\ Local

\* A transport error changes nothing.
\* Mutation: it says the licence has expired.
UnansweredIsExpired(c) == Goes(c, [call[c] EXCEPT !.pc = "update",
                                   !.answer = [valid |-> FALSE, status |-> "expired", seats |-> BaseSeats]])
Unanswered(c) == Ends(c)
LsUnanswered(c) ==
    /\ call[c].pc \in {"confirm", "validate"} /\ Outage
    /\ IF call[c].pc = "validate" THEN Unanswered(c) ELSE Ends(c)
    /\ UNCHANGED <<today, entitled, remote, history>>

\* An error with a JSON body is read as an answer: invalid, of an unknown status.
LsErrs(c) ==
    /\ call[c].pc = "validate" /\ Outage
    /\ Goes(c, [call[c] EXCEPT !.pc = "update",
                               !.answer = [valid |-> FALSE, status |-> "unknown", seats |-> BaseSeats]])
    /\ UNCHANGED <<today, entitled, remote, history>>

\* The grace goes on from a valid answer only, and from the start of the call.
\* Mutations: an invalid answer renews the grace, ends it, or clears it.
GraceCleared(c) == IF call[c].answer.valid THEN call[c].at + Grace ELSE NoLicence
GraceRenewed(c) == call[c].at + Grace
GraceEnded(c) == IF call[c].answer.valid THEN call[c].at + Grace ELSE today
GraceAfter(c) == IF call[c].answer.valid THEN call[c].at + Grace ELSE call[c].view.grace

\* updateValidation: by org.  A row deleted meanwhile is not written.
\* Mutation: an invalid answer brings the licence's base seats at once.
SeatsAtOnce(c) == IF call[c].answer.valid THEN call[c].answer.seats ELSE BaseSeats
SeatsAfter(c) == IF call[c].answer.valid THEN call[c].answer.seats ELSE call[c].view.seats
UpdateValidation(c) ==
    /\ call[c].pc = "update"
    /\ IF Stored
         THEN /\ entitled' = [entitled EXCEPT !.status = call[c].answer.status, !.seats = SeatsAfter(c),
                                              !.instance = call[c].view.instance, !.grace = GraceAfter(c)]
              /\ mixed' = (mixed \/ entitled.key # call[c].key
                                 \/ entitled.instance # call[c].view.instance)
              /\ outrun' = (outrun \/ entitled # call[c].view)
              /\ misread' = (~call[c].answer.valid /\ (misread \/ call[c].answer.status = "unknown"))
              /\ confirmed' = IF call[c].answer.valid THEN call[c].at ELSE confirmed
         ELSE UNCHANGED <<entitled, mixed, outrun, confirmed, misread>>
    /\ Ends(c)
    /\ UNCHANGED <<today, remote, outages, expiredOn>>

Revalidating(c) == ReadKey(c) \/ ReadView(c) \/ LsValidates(c) \/ UpdateValidation(c)

Next ==
    \/ \E c \in Calls :
          \/ \E k \in Licences : Activate(c, k)
          \/ LsActivates(c) \/ LsActivateUnanswered(c) \/ LsConfirms(c) \/ SaveEntitlement(c)
          \/ DeactivateReadView(c) \/ DeactivateReadKey(c) \/ Release(c) \/ ClearEntitlement(c)
          \/ Revalidating(c) \/ LsUnanswered(c) \/ LsErrs(c)
    \/ \E k \in Licences : Expire(k)
    \/ Tick

\* The scheduler's passes follow one another (bin/scheduler.ts: `every').
Fairness == WF_licenseVars(Revalidating(Pass))

Spec == Init /\ [][Next]_licenseVars /\ Fairness

----------------------------------------------------------------------------
(* Properties *)

CallStates ==
    [pc : {"idle", "activate", "confirm", "save", "key", "release", "clear", "view", "validate", "update"},
     at : Nat, key : Licences \cup {NoLicence}, instance : Instances \cup {NoLicence},
     view : Rows \cup {NoLicence}, answer : Answers \cup {NoLicence}]

TypeOK ==
    /\ today \in 0..MaxTime
    /\ entitled \in Rows \cup {NoLicence}
    /\ licence \in [Licences -> {"active", "expired"}]
    /\ instances \in [Instances -> Licences \cup {NoLicence}] /\ released \subseteq Instances
    /\ call \in [Calls -> CallStates]
    /\ mixed \in BOOLEAN /\ outrun \in BOOLEAN /\ misread \in BOOLEAN /\ confirmed \in Nat

\* The row's seats are its own licence's, and its instance one taken for that
\* licence, unless a re-validation begun before the licence was replaced was
\* written over it (revalidateLicense: two reads, a call and an UPDATE by org).
SeatsAreTheLicences ==
    Stored /\ ~mixed => /\ entitled.seats = SeatsOf[entitled.key]
                        /\ instances[entitled.instance] = entitled.key

\* "A transport error changes NOTHING": while the licence is active and its
\* instance in use, the org has its seats, however long the clock has run and
\* whichever calls failed; but for an error that came as JSON, until a valid answer.
OutagesCostNothing ==
    /\ Stored /\ ~mixed /\ ~misread
    /\ licence[entitled.key] = "active" /\ InUse(entitled.key, entitled.instance)
    => SeatLimit = SeatsOf[entitled.key]

\* Seats never go at once: for the grace after the last call that found the
\* licence valid, the org has them, whatever the calls since found; unless one was
\* written over a newer one's result.
GraceIsGiven ==
    Stored /\ ~outrun /\ today < confirmed + Grace => SeatLimit = SeatsOf[entitled.key]

\* What a licence bought is there: its own seats and no other's, on an instance of
\* its own, through outages and through the grace.
SeatsStand == SeatsAreTheLicences /\ OutagesCostNothing /\ GraceIsGiven

\* A licence that has expired lapses: a grace after that the scheduler's passes
\* have found out, whatever calls were in flight, and the seats are gone.
ExpiredLapses ==
    <>[](/\ Stored /\ ~mixed /\ licence[entitled.key] = "expired"
         /\ expiredOn[entitled.key] + Grace <= today)
        => <>[](SeatLimit = BaseSeats)
=============================================================================
