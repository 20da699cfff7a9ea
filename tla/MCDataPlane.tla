---------------------------- MODULE MCDataPlane ----------------------------
(* Small instances of the data plane's components, in one run: Jobs        *)
(* itself; the rate limiter; the configuration cache, of two requests      *)
(* under faults and of one for a slug that moves; the gates, of two        *)
(* requests and of one under a configuration that changes; the tools of a  *)
(* paddock.  `focus' is the one that moves; the others stay as they began, *)
(* so the reachable states are the sum of theirs, not the product.         *)
EXTENDS Jobs, TLC

CONSTANTS c1, c2, s1, s2, q1, q2, ann, bob, k1, a, b, r1, r2, i1

\* RateLimiter
CONSTANTS Checks, Limits, Second, Skew, MaxDelay, MaxTime, MaxLost
VARIABLES now, zset, expireAt, admitted, check, promise, lost

\* ConfigCache
CONSTANTS Keys, Slugs, Paddocks, NoPaddock, Grants, ExpiresAt, Instances, ServedBy,
          Ttl, MaxEntries, MaxLookup, MaxClock, MaxWrites, MaxCacheFaults
VARIABLES clock, active, row, writes, lastActive, lastScope, lastPaddock,
          unpublished, inbox, missed, keyCache, paddockCache, req, cacheFaults

\* Gateway and Tools
CONSTANTS Nothing, Requests, Max, Cap, MaxImages, MaxChanges, MaxGateFaults, Nil, Every, m1, m2
VARIABLES breed, conf, slots, asking, stream, meter, emits, forgone, cut, changes, gateFaults
VARIABLES kind, templates, rules, listed, offered, left, edits

VARIABLE focus

Limiter == INSTANCE RateLimiter

Caching == INSTANCE ConfigCache WITH
    now <- clock, faults <- cacheFaults, At <- ServedBy, MaxTime <- MaxClock, MaxFaults <- MaxCacheFaults

Gate == INSTANCE Gateway WITH req <- asking, faults <- gateFaults, MaxFaults <- MaxGateFaults

\* Two ids that make one name, and the id whose name is that name with a suffix.
Cell(n, input) == [node |-> n, input |-> input]
Spec1(name, type, cells) == [name |-> name, type |-> type, cells |-> cells, min |-> 1, max |-> 2]
Shape(params) ==
    [nodes |-> {1}, params |-> params,
     graph |-> Cell(1, "a") :> [is |-> "string", n |-> 9] @@ Cell(1, "b") :> [is |-> "number", n |-> 9]]
\* Two params of one cell; a name twice over a seed's cells; a node that is missing.
ToolShapes ==
    {Shape(<<Spec1("p", "text", {Cell(1, "a")}), Spec1("q", "number", {Cell(1, "a")})>>),
     Shape(<<Spec1("q", "seed", {Cell(1, "a"), Cell(1, "b")}), Spec1("p", "image", {Cell(1, "b")}),
             Spec1("p", "image", {Cell(1, "a")})>>),
     Shape(<<Spec1("p", "text", {Cell(1, "a")}), Spec1("q", "number", {Cell(2, "a")})>>)}
Tooling == INSTANCE Tools WITH
    breed <- kind,
    Ids <- {"a b", "a_b", "a_b_2"}, MaxName <- 2,
    SafeName <- "a b" :> <<"a_b">> @@ "a_b" :> <<"a_b">> @@ "a_b_2" :> <<"a_b", "2">>,
    Shapes <- ToolShapes, ParamNames <- {"p", "q", "x"},
    Values <- {[is |-> "string", n |-> 0], [is |-> "number", n |-> 1], [is |-> "number", n |-> 3]},
    Models <- {m1, m2}, MaxTemplates <- 3, MaxEdits <- 4

ASSUME GateAssumption == Gate!GatewayAssumption
ASSUME LimiterAssumption == Limiter!LimiterAssumption
ASSUME Tooling!ToolsAssumption
ASSUME JobsAssumption
ASSUME CachingAssumption == Caching!CacheAssumption

LoweredLimit == {[windowSec |-> 2, max |-> 2], [windowSec |-> 3, max |-> 1]}

\* One process, and a key granted paddock a that expires while it may be cached.
GrantA == [k \in Keys |-> {a}]
Expiring == [k \in Keys |-> MaxClock]
OneProcess == [r \in Requests |-> i1]

\* ann submits and polls twice; bob submits.
TwoKeys == (s1 :> ann) @@ (s2 :> bob) @@ (q1 :> ann) @@ (q2 :> ann)

limiterVars == <<now, zset, expireAt, admitted, check, promise, lost>>
cacheVars == <<clock, active, row, writes, lastActive, lastScope, lastPaddock,
               unpublished, inbox, missed, keyCache, paddockCache, req, cacheFaults>>
gateVars == <<breed, conf, slots, asking, stream, meter, emits, forgone, cut, changes, gateFaults>>
toolVars == <<kind, templates, rules, listed, offered, left, edits>>
allVars == <<focus, limiterVars, vars, cacheVars, gateVars, toolVars>>

\* The cache in two small instances: two requests for one slug, one change and a fault; or
\* one request, two paddocks that change their slugs, and lookups that take no time.
\* Slugs are alike: the first is paddock a's, the other b's.
OneSlug ==
    /\ writes <= 1
    /\ row[a].slug = "s1" /\ row[b] = [state |-> "none", slug |-> "s1", on |-> TRUE]
    /\ \A r \in Requests : req[r].slug = "s1"
TwoSlugs ==
    /\ cacheFaults = 0
    /\ \E r \in Requests : \A q \in Requests \ {r} : req[q].pc = "idle"
    /\ \A r \in Requests : Caching!InFlight(r) => req[r].readAt = clock

\* A change that changes nothing would only flush.
Telling == writes' # writes => <<active, row>>' # <<active, row>>

\* The gates in two small instances: two requests under one configuration, or one request
\* under a configuration that changes.
Traffic == changes = 0
Shifting == \E r \in Requests : \A q \in Requests \ {r} : asking[q].pc = "new"

\* One initial state each for those out of focus.
CacheInit ==
    /\ Caching!Init
    /\ focus # "moved" => OneSlug
    /\ focus = "moved" => row[a].slug = "s1" /\ row[b].slug = "s2" /\ row[b].state = "exists"
GateInit ==
    /\ Gate!Init
    /\ focus \notin {"traffic", "shifting"} => breed = "ollama"
ToolInit == Tooling!Init /\ (focus # "tools" => kind = "ollama")

AllInit ==
    /\ focus \in {"limiter", "jobs", "recent", "moved", "traffic", "shifting", "tools"}
    /\ Limiter!Init /\ Init /\ CacheInit /\ GateInit /\ ToolInit

AllNext ==
    /\ UNCHANGED focus
    /\ \/ focus = "limiter" /\ Limiter!Next /\ UNCHANGED <<vars, cacheVars, gateVars, toolVars>>
       \/ focus = "jobs" /\ Next /\ UNCHANGED <<limiterVars, cacheVars, gateVars, toolVars>>
       \/ /\ focus = "recent"
          /\ (writes = 0 /\ Caching!Change) \/ Caching!Rest
          /\ Telling /\ OneSlug' /\ UNCHANGED <<limiterVars, vars, gateVars, toolVars>>
       \/ focus = "moved" /\ Caching!Next /\ Telling /\ TwoSlugs' /\ UNCHANGED <<limiterVars, vars, gateVars, toolVars>>
       \/ focus = "traffic" /\ Gate!Next /\ Traffic' /\ UNCHANGED <<limiterVars, vars, cacheVars, toolVars>>
       \/ focus = "shifting" /\ Gate!Next /\ Shifting' /\ UNCHANGED <<limiterVars, vars, cacheVars, toolVars>>
       \/ focus = "tools" /\ Tooling!Next /\ UNCHANGED <<limiterVars, vars, cacheVars, gateVars>>

AllSpec == AllInit /\ [][AllNext]_allVars

\* Two checks, two polls of one key and two requests are alike.  One component moves, so to
\* swap all three pairs is to swap the one that moves.
Twins ==
    {swap \in Permutations(Checks \cup Polls \cup Requests) :
        \A pair \in {Checks, Polls, Requests} :
            \A x \in pair : swap[x] \in pair /\ (swap[x] = x <=> swap[c1] = c1)}

\* The components' properties, as the components state them; Jobs' are its own.
\* Each invariant stands with the types of what it is about.

\* The limiter's rate, whatever is reordered, resent or dropped.
RateHolds == focus = "limiter" => Limiter!TypeOK /\ Limiter!RateHolds
\* Who waits for the retry-after is let through, if nobody came in between.
RetryAfterSuffices == Limiter!RetryAfterSuffices

\* What a request is answered from was true a moment ago, and stale only by a raced fill.
AnswersAreTimely ==
    focus \in {"recent", "moved"} =>
        Caching!TypeOK /\ Caching!CacheBounded /\ Caching!AnswersAreTimely /\ Caching!StaleOnlyIfRaced

\* The flock is reached past every gate, each asked in its place.
GatesHold == focus \in {"traffic", "shifting"} => Gate!TypeOK /\ Gate!GatesHold
\* A counted answer is emitted once, a broken one never.
ServedIsMetered == focus \in {"traffic", "shifting"} => Gate!ServedIsMetered
\* A call does what the list said its tool does.
ToolsKeepTheirWord == focus = "tools" => Tooling!TypeOK /\ Tooling!ToolsKeepTheirWord
=============================================================================
