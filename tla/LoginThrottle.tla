--------------------------- MODULE LoginThrottle ---------------------------
(***************************************************************************)
(* The sign-in form's throttle: failures from one address are counted in a *)
(* bucket that lasts a window.  Addresses do not share buckets, so one is  *)
(* modelled, in one process's life: the map is in memory.  The check comes *)
(* before the password is verified and the failure is recorded after, both *)
(* with the time the submission came in, so attempts overlap.              *)
(***************************************************************************)
EXTENDS Integers, Sequences, FiniteSets

CONSTANTS
    Forms,          \* submissions in flight at once
    MaxFailures, Window,
    NoBucket,       \* no failure recorded yet
    MaxTime         \* bound on the clock

Buckets == [count : Nat \ {0}, resetAt : Nat]

LoginThrottleAssumption ==
    /\ {MaxFailures, Window} \subseteq Nat \ {0} /\ MaxTime \in Nat /\ IsFiniteSet(Forms)
    /\ NoBucket \notin Buckets

VARIABLES
    clock,
    bucket,         \* [count, resetAt], or NoBucket
    form,           \* [Forms -> [pc, at, right]]
    tried,          \* history: when the verification of each wrong password began
    noted           \* history: when each failure was recorded

throttleVars == <<clock, bucket, form, tried, noted>>

Init ==
    /\ clock = 0 /\ bucket = NoBucket
    /\ form = [f \in Forms |-> [pc |-> "shown", at |-> 0, right |-> FALSE]]
    /\ tried = <<>> /\ noted = <<>>

Lapsed(at) == bucket = NoBucket \/ at >= bucket.resetAt
BelowMax(at) == Lapsed(at) \/ bucket.count < MaxFailures
\* Mutation: one attempt more than failures allowed.
UpToMax(at) == Lapsed(at) \/ bucket.count <= MaxFailures
Check(at) == BelowMax(at)

\* 429, and the form again; or the password goes to be verified.
Submit(f, right) ==
    /\ form[f].pc \in {"shown", "locked"}
    /\ form' = [form EXCEPT ![f] = [pc |-> IF Check(clock) THEN "verifying" ELSE "locked",
                                    at |-> clock, right |-> right]]
    /\ tried' = IF Check(clock) /\ ~right THEN Append(tried, clock) ELSE tried
    /\ UNCHANGED <<clock, bucket, noted>>

Recorded(at) ==
    IF Lapsed(at) THEN [count |-> 1, resetAt |-> at + Window]
                  ELSE [bucket EXCEPT !.count = @ + 1]
\* Mutation: every failure begins the window anew.
RecordedAnew(at) ==
    [count |-> IF bucket = NoBucket THEN 1 ELSE bucket.count + 1, resetAt |-> at + Window]
Record(at) == Recorded(at)

\* verifyLogin: whoever signs in leaves the bucket as it is.
Verified(f) ==
    /\ form[f].pc = "verifying"
    /\ form' = [form EXCEPT ![f].pc = "shown"]
    /\ bucket' = IF form[f].right THEN bucket ELSE Record(form[f].at)
    /\ noted' = IF form[f].right THEN noted ELSE Append(noted, clock)
    /\ UNCHANGED <<clock, tried>>

Tick ==
    /\ clock < MaxTime /\ clock' = clock + 1
    /\ UNCHANGED <<bucket, form, tried, noted>>

Next ==
    \/ \E f \in Forms : (\E right \in BOOLEAN : Submit(f, right)) \/ Verified(f)
    \/ Tick

Spec == Init /\ [][Next]_throttleVars

----------------------------------------------------------------------------
TypeOK ==
    /\ clock \in 0..MaxTime
    /\ bucket \in Buckets \cup {NoBucket}
    /\ form \in [Forms -> [pc : {"shown", "verifying", "locked"}, at : Nat, right : BOOLEAN]]
    /\ tried \in Seq(Nat) /\ noted \in Seq(Nat)
    /\ bucket # NoBucket => Window <= bucket.resetAt /\ bucket.resetAt <= clock + Window
    /\ \A f \in Forms : form[f].at <= clock

\* The times of a history from one to before another.
Between(history, from, to) == {i \in DOMAIN history : from <= history[i] /\ history[i] < to}

(* While a bucket lasts, no more wrong passwords are tried than it allows  *)
(* and those already being verified when it filled up, though each of them *)
(* passed the check; and whoever is refused is so for failures of no more  *)
(* than a window ago.  LoginThrottle.check and record, submitLogin.        *)
GuessesAreFew ==
    /\ bucket # NoBucket =>
           Cardinality(Between(tried, bucket.resetAt - Window, bucket.resetAt))
               < MaxFailures + Cardinality(Forms)
    /\ \A f \in Forms :
           form[f].pc = "locked" =>
               Cardinality(Between(noted, form[f].at - Window + 1, form[f].at + 1)) >= MaxFailures
=============================================================================
