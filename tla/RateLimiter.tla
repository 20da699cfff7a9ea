---------------------------- MODULE RateLimiter ----------------------------
(***************************************************************************)
(* The sliding-window rate limiter of the data plane, for one (key,        *)
(* paddock) bucket.  An instance stamps a check with its own clock and     *)
(* sends it; Redis evaluates the script atomically when it arrives, so     *)
(* checks are evaluated in another order than they were stamped, by clocks *)
(* that disagree, and under limits that differ while a changed fence or    *)
(* key override is still in some instance's cache.                         *)
(*                                                                         *)
(* Time is Redis's clock.  A member of the ZSET is the number of the       *)
(* admission that added it: its position in `admitted'.                    *)
(***************************************************************************)
EXTENDS Integers, Sequences, FiniteSets

CONSTANTS
    Checks,      \* checks in flight at a time
    Limits,      \* the limits in force, old and new: [windowSec, max]
    Second,      \* a second, in clock ticks (1000)
    Skew,        \* how far an instance's clock may be from Redis's
    MaxDelay,    \* the longest a check takes from its stamp to its evaluation
    MaxTime,     \* bound on the clock
    MaxLost      \* bound on lost replies

Window(limit) == limit.windowSec * Second

LimiterAssumption ==
    /\ Limits # {}
    /\ Limits \subseteq [windowSec : Nat \ {0}, max : Nat]
    /\ Second \in Nat \ {0}
    /\ {Skew, MaxDelay, MaxTime, MaxLost} \subseteq Nat

VARIABLES
    now,         \* Redis's clock
    zset,        \* the bucket: a set of [id, score]
    expireAt,    \* when PEXPIRE drops the bucket
    admitted,    \* history: when each admission was evaluated, in order
    check,       \* [Checks -> the check's stamp, limit and admission, if sent]
    promise,     \* history: the retry-after of the last refusal by a bucket just full
    lost         \* replies lost so far

vars == <<now, zset, expireAt, admitted, check, promise, lost>>

Unsent == [sent |-> FALSE, stamp |-> 0, at |-> 0, limit |-> CHOOSE l \in Limits : TRUE, id |-> 0]

NoPromise == [until |-> 0, count |-> -1, limit |-> CHOOSE l \in Limits : TRUE]

\* No time is before the epoch, whatever clock shows it.
Init ==
    /\ now = Skew
    /\ zset = {}
    /\ expireAt = 0
    /\ admitted = <<>>
    /\ check = [c \in Checks |-> Unsent]
    /\ promise = NoPromise
    /\ lost = 0

----------------------------------------------------------------------------
(* The script. *)

\* The members after ZREMRANGEBYSCORE 0 (now - windowMs), if the key is still there.
Kept(stamp, limit) ==
    IF now >= expireAt THEN {}
    ELSE {m \in zset : m.score > stamp - Window(limit)}

\* Mutation: one too many.
AllowsAtMax(stamp, limit) == Cardinality(Kept(stamp, limit)) <= limit.max
Allows(stamp, limit) == Cardinality(Kept(stamp, limit)) < limit.max

\* ZADD.  A check evaluated again after a lost reply brings the same member.
AddsAs(c) ==
    IF \E m \in Kept(check[c].stamp, check[c].limit) : m.id = check[c].id
      THEN check[c].id ELSE Len(admitted) + 1

Admit(c) ==
    LET stamp == check[c].stamp
        limit == check[c].limit
    IN
    /\ Allows(stamp, limit)
    /\ zset' = {m \in Kept(stamp, limit) : m.id # AddsAs(c)} \cup {[id |-> AddsAs(c), score |-> stamp]}
    /\ expireAt' = now + Window(limit)
    /\ admitted' = IF AddsAs(c) > Len(admitted) THEN Append(admitted, now) ELSE admitted
    /\ UNCHANGED promise

\* The oldest member says when a slot opens: seconds, rounded up, at least one.
Oldest(members) == CHOOSE m \in members : \A n \in members : m.score <= n.score
\* Mutation: seconds rounded down.
Floor(ms) == ms \div Second
Ceil(ms) == (ms + Second - 1) \div Second
RetryAfter(stamp, limit) ==
    LET members == Kept(stamp, limit)
        wait == IF members = {} THEN Window(limit)
                ELSE Oldest(members).score + Window(limit) - stamp
    IN IF Ceil(wait) < 1 THEN 1 ELSE Ceil(wait)

Refuse(c) ==
    LET stamp == check[c].stamp
        limit == check[c].limit
    IN
    /\ ~Allows(stamp, limit)
    /\ zset' = Kept(stamp, limit)
    /\ promise' = IF Cardinality(Kept(stamp, limit)) > limit.max THEN NoPromise
                  ELSE [until |-> stamp + RetryAfter(stamp, limit) * Second,
                        count |-> Len(admitted), limit |-> limit]
    /\ UNCHANGED <<expireAt, admitted>>

----------------------------------------------------------------------------
Send(c, limit, drift) ==
    /\ ~check[c].sent
    /\ check' = [check EXCEPT ![c] =
                  [sent |-> TRUE, stamp |-> now + drift, at |-> now, limit |-> limit, id |-> 0]]
    /\ UNCHANGED <<now, zset, expireAt, admitted, promise, lost>>

Eval(c) ==
    /\ check[c].sent
    /\ Admit(c) \/ Refuse(c)
    /\ check' = [check EXCEPT ![c] = Unsent]
    /\ UNCHANGED <<now, lost>>

\* Redis ran the script and the reply is lost: the client sends it again.
EvalUnanswered(c) ==
    /\ check[c].sent
    /\ lost < MaxLost
    /\ lost' = lost + 1
    /\ \/ Admit(c) /\ check' = [check EXCEPT ![c].id = AddsAs(c)]
       \/ Refuse(c) /\ UNCHANGED check
    /\ UNCHANGED now

Tick ==
    /\ now < MaxTime
    /\ \A c \in Checks : check[c].sent => now < check[c].at + MaxDelay
    /\ now' = now + 1
    /\ UNCHANGED <<zset, expireAt, admitted, check, promise, lost>>

Next ==
    \/ \E c \in Checks : \/ \E limit \in Limits, drift \in (-Skew)..Skew : Send(c, limit, drift)
                         \/ Eval(c)
                         \/ EvalUnanswered(c)
    \/ Tick

Spec == Init /\ [][Next]_vars

----------------------------------------------------------------------------
(* Properties *)

TypeOK ==
    /\ now \in Nat
    /\ zset \subseteq [id : 1..Len(admitted), score : Int]
    /\ expireAt \in Nat
    /\ admitted \in Seq(Nat)
    /\ check \in [Checks -> [sent : BOOLEAN, stamp : Int, at : Nat, limit : Limits, id : Nat]]
    /\ promise \in [until : Int, count : Int, limit : Limits]
    /\ lost \in 0..MaxLost

\* The limit that holds while several are in force, their clocks apart by Spread.
Spread == MaxDelay + 2 * Skew
LargestMax(n) == n \in Nat /\ \A l \in Limits : l.max <= n
ShortestWindow(w) == w \in Nat /\ \A l \in Limits : w <= Window(l)

\* Any max + 1 admissions span at least a window, less the disagreement of the
\* clocks: no reordering, lost reply, expiry of the bucket or change of limit
\* lets a burst through that no limit in force allows.
RateHolds ==
    \A l, m \in Limits :
        LargestMax(l.max) /\ ShortestWindow(Window(m)) =>
            \A n \in DOMAIN admitted :
                n > l.max => admitted[n] - admitted[n - l.max] >= Window(m) - Spread

\* A caller that waits out the retry-after it was given, while nobody else is
\* admitted and its limit stays, is not refused again; unless the bucket was
\* filled under a larger limit and one slot fewer still leaves it full, or the
\* limit admits nobody (a max of 0: a retry-after of one window, for ever).
RetryAfterSuffices ==
    [][\A c \in Checks :
          check[c].sent /\ Refuse(c) /\ promise.count = Len(admitted)
                        /\ promise.limit = check[c].limit /\ check[c].limit.max > 0
            => check[c].stamp < promise.until]_vars
=============================================================================
