---------------------------- MODULE ConfigCache ----------------------------
(***************************************************************************)
(* How a configuration change reaches the proxy.                           *)
(*                                                                         *)
(*   control plane --commit--> Postgres <--lookup-- data-plane instance    *)
(*        |                                          keyCache, paddockCache*)
(*        +--publish--> Redis channel --message--> invalidateAll           *)
(*                                                                         *)
(* A data-plane request resolves its key, then its paddock, each from a    *)
(* cache entry that is still fresh or from the database; whatever the      *)
(* database answered is cached when the answer arrives, which may be after *)
(* an invalidation has emptied the cache.  keyCache stands for either of   *)
(* the two key caches, by hash and by id: the same code over disjoint keys.*)
(***************************************************************************)
EXTENDS Integers, Sequences, FiniteSets, SequencesExt

CONSTANTS
    Keys,        \* API keys; all are active at the start
    Slugs,       \* paddock slugs
    Paddocks,    \* paddock ids
    NoPaddock,   \* what a slug nobody has resolves to
    Grants,      \* [Keys -> SUBSET Paddocks]: key_paddock, fixed when a key is created
    ExpiresAt,   \* [Keys -> Nat]: expires_at (beyond MaxTime: the key does not expire)
    Instances,   \* data-plane processes
    Requests,    \* requests in flight at a time
    At,          \* [Requests -> Instances]: the instance that serves a request
    Ttl,         \* how long an entry is fresh (30 s)
    MaxEntries,  \* entries a cache may hold (10000)
    MaxLookup,   \* the longest a lookup takes from its first query to its answer
    MaxTime,     \* bound on the clock
    MaxWrites,   \* bound on configuration changes
    MaxFaults    \* bound on lost messages, failed lookups and restarts

CacheAssumption ==
    /\ Keys # {} /\ Slugs # {}
    /\ NoPaddock \notin Paddocks
    /\ Grants \in [Keys -> SUBSET Paddocks]
    /\ ExpiresAt \in [Keys -> Nat]
    /\ At \in [Requests -> Instances]
    /\ Ttl \in Nat \ {0}
    /\ MaxEntries \in Nat \ {0}
    /\ {MaxLookup, MaxTime, MaxWrites, MaxFaults} \subseteq Nat

VARIABLES
    now,           \* the clock
    active,        \* keys whose status is 'active'
    row,           \* [Paddocks -> the paddock's row]
    writes,        \* configuration changes committed
    lastActive,    \* history: [Keys -> when a write last found the key active]
    lastScope,     \* history: [Keys \X SUBSET Slugs -> when a write last found that scope]
    lastPaddock,   \* history: [Slugs \X PaddockValues -> when a write last found that paddock]
    unpublished,   \* commits whose invalidation has not been sent
    inbox,         \* [Instances -> invalidations sent and not yet handled]
    missed,        \* history: instances that lost a message since their last flush
    keyCache,      \* [Instances -> sequence of entries, in insertion order]
    paddockCache,
    req,           \* [Requests -> the request's local state]
    faults

vars == <<now, active, row, writes, lastActive, lastScope, lastPaddock,
          unpublished, inbox, missed, keyCache, paddockCache, req, faults>>
db == <<active, row, writes, lastActive, lastScope, lastPaddock>>
bus == <<unpublished, inbox, missed>>
caches == <<keyCache, paddockCache>>

----------------------------------------------------------------------------
(* What the lookups answer. *)

\* resolveKeyBy...: null, or the key with the slugs of the paddocks it is scoped to.
KeyValues == [live : BOOLEAN, slugs : SUBSET Slugs]
NoKey == [live |-> FALSE, slugs |-> {}]

\* getPaddockBySlug: null, or the paddock and its status.
PaddockValues == [id : Paddocks \cup {NoPaddock}, on : BOOLEAN]
NoRow == [id |-> NoPaddock, on |-> FALSE]

HasSlug(p, s) == row[p].state = "exists" /\ row[p].slug = s
Usable(k) == k \in active /\ now < ExpiresAt[k]
ScopedSlugs(k) == {s \in Slugs : \E p \in Grants[k] : HasSlug(p, s)}
PaddockBySlug(s) ==
    IF \E p \in Paddocks : HasSlug(p, s)
      THEN LET p == CHOOSE p \in Paddocks : HasSlug(p, s) IN [id |-> p, on |-> row[p].on]
      ELSE NoRow

----------------------------------------------------------------------------
(* The cache *)

\* Mutation: an entry lasts two times to live.
EntryTwiceAsLong(name, value, raced) ==
    [name |-> name, value |-> value, expiresAt |-> now + 2 * Ttl, raced |-> raced]

Entry(name, value, raced) ==
    [name |-> name, value |-> value, expiresAt |-> now + Ttl, raced |-> raced]

\* The entries of a cache that answer for a name: at most one, fresh or not.
Cached(cache, name) == {e \in Range(cache) : e.name = name}
\* Mutation: an entry is fresh for as long as it is there.
FreshForever(cache, name) == Cached(cache, name)
Fresh(cache, name) == {e \in Cached(cache, name) : e.expiresAt > now}

\* setBounded: Map.set keeps the place of a name it has; a new name goes last,
\* and the oldest entry makes room when the cache is full.
\* Mutation: a full cache drops its oldest entry after it grew, one too late.
SetBoundedLate(cache, entry) ==
    IF Cached(cache, entry.name) # {}
      THEN [i \in DOMAIN cache |-> IF cache[i].name = entry.name THEN entry ELSE cache[i]]
      ELSE Append(IF Len(cache) > MaxEntries THEN Tail(cache) ELSE cache, entry)
SetBounded(cache, entry) ==
    IF Cached(cache, entry.name) # {}
      THEN [i \in DOMAIN cache |-> IF cache[i].name = entry.name THEN entry ELSE cache[i]]
      ELSE Append(IF Len(cache) >= MaxEntries THEN Tail(cache) ELSE cache, entry)

----------------------------------------------------------------------------
Idle == [pc |-> "idle", key |-> CHOOSE k \in Keys : TRUE, slug |-> CHOOSE s \in Slugs : TRUE,
         got |-> NoKey, keyAt |-> 0, paddock |-> NoRow, paddockAt |-> 0,
         readAt |-> 0, raced |-> FALSE, sure |-> FALSE]

LongAgo == -(Ttl + MaxLookup) - 1

Init ==
    /\ now = 0
    /\ active = Keys
    /\ row \in [Paddocks -> [state : {"none", "exists"}, slug : Slugs, on : {TRUE}]]
    /\ \A p, q \in Paddocks, s \in Slugs : HasSlug(p, s) /\ HasSlug(q, s) => p = q
    /\ \A k \in Keys : \A p \in Grants[k] : row[p].state = "exists"
    /\ writes = 0
    /\ lastActive = [k \in Keys |-> LongAgo]
    /\ lastScope = [x \in Keys \X SUBSET Slugs |-> LongAgo]
    /\ lastPaddock = [x \in Slugs \X PaddockValues |-> LongAgo]
    /\ unpublished = 0
    /\ inbox = [i \in Instances |-> 0]
    /\ missed = {}
    /\ keyCache = [i \in Instances |-> <<>>]
    /\ paddockCache = [i \in Instances |-> <<>>]
    /\ req = [r \in Requests |-> Idle]
    /\ faults = 0

Fault == faults < MaxFaults /\ faults' = faults + 1

----------------------------------------------------------------------------
(* The control plane: a change commits, and its invalidation is sent after. *)

Write ==
    /\ writes < MaxWrites
    /\ writes' = writes + 1
    /\ unpublished' = unpublished + 1
    /\ lastActive' = [k \in Keys |-> IF k \in active THEN now ELSE lastActive[k]]
    /\ lastScope' = [x \in Keys \X SUBSET Slugs |->
                       IF x[2] = ScopedSlugs(x[1]) THEN now ELSE lastScope[x]]
    /\ lastPaddock' = [x \in Slugs \X PaddockValues |->
                         IF x[2] = PaddockBySlug(x[1]) THEN now ELSE lastPaddock[x]]
    /\ UNCHANGED <<now, inbox, missed, caches, req, faults>>

RevokeKey(k) ==
    /\ k \in active
    /\ Write
    /\ active' = active \ {k}
    /\ UNCHANGED row

\* savePaddock creates a paddock or changes its slug and status (flock and fence
\* edits reach the proxy the same way); the slug is unique.
SavePaddock(p, s, on) ==
    /\ row[p].state # "deleted"
    /\ \A q \in Paddocks \ {p} : ~HasSlug(q, s)
    /\ Write
    /\ row' = [row EXCEPT ![p] = [state |-> "exists", slug |-> s, on |-> on]]
    /\ UNCHANGED active

SetPaddockStatus(p, on) ==
    /\ row[p].state = "exists"
    /\ Write
    /\ row' = [row EXCEPT ![p].on = on]
    /\ UNCHANGED active

\* The row goes and, by cascade, its key_paddock rows.
DeletePaddock(p) ==
    /\ row[p].state = "exists"
    /\ Write
    /\ row' = [row EXCEPT ![p].state = "deleted"]
    /\ UNCHANGED active

\* publishConfigInvalidation reaches every subscribed instance.
Publish ==
    /\ unpublished > 0
    /\ unpublished' = unpublished - 1
    /\ inbox' = [i \in Instances |-> inbox[i] + 1]
    /\ UNCHANGED <<now, db, missed, caches, req, faults>>

\* The publish fails, or the control plane dies before it: nobody hears.  Or it
\* succeeds while some instances are not subscribed.  It is not retried.
PublishLost(deaf) ==
    /\ unpublished > 0
    /\ Fault
    /\ deaf # {}
    /\ unpublished' = unpublished - 1
    /\ inbox' = [i \in Instances |-> IF i \in deaf THEN inbox[i] ELSE inbox[i] + 1]
    /\ missed' = missed \cup deaf
    /\ UNCHANGED <<now, db, caches, req>>

----------------------------------------------------------------------------
(* A data-plane instance *)

InFlight(r) == req[r].pc \in {"links", "keyFill", "paddockFill"}

\* Mutation: invalidateAll clears the paddocks only.
FlushPaddocks(i) ==
    /\ inbox[i] > 0
    /\ inbox' = [inbox EXCEPT ![i] = @ - 1]
    /\ missed' = missed \ {i}
    /\ paddockCache' = [paddockCache EXCEPT ![i] = <<>>]
    /\ req' = [r \in Requests |-> IF At[r] = i /\ InFlight(r)
                                    THEN [req[r] EXCEPT !.raced = TRUE] ELSE req[r]]
    /\ UNCHANGED <<now, db, unpublished, keyCache, faults>>

\* invalidateAll.  It cannot reach the answers still on their way.
Flush(i) ==
    /\ inbox[i] > 0
    /\ inbox' = [inbox EXCEPT ![i] = @ - 1]
    /\ missed' = missed \ {i}
    /\ keyCache' = [keyCache EXCEPT ![i] = <<>>]
    /\ paddockCache' = [paddockCache EXCEPT ![i] = <<>>]
    /\ req' = [r \in Requests |-> IF At[r] = i /\ InFlight(r)
                                    THEN [req[r] EXCEPT !.raced = TRUE] ELSE req[r]]
    /\ UNCHANGED <<now, db, unpublished, faults>>

Restart(i) ==
    /\ Fault
    /\ inbox' = [inbox EXCEPT ![i] = 0]
    /\ missed' = missed \ {i}
    /\ keyCache' = [keyCache EXCEPT ![i] = <<>>]
    /\ paddockCache' = [paddockCache EXCEPT ![i] = <<>>]
    /\ req' = [r \in Requests |-> IF At[r] = i THEN Idle ELSE req[r]]
    /\ UNCHANGED <<now, db, unpublished>>

\* The rest of a step that only moves request r.
Moves(r, state) ==
    /\ req' = [req EXCEPT ![r] = state]
    /\ UNCHANGED <<now, db, bus, faults>>

\* history: every change to key k was heard and handled before the request came.
Heard(i, k) == k \notin active /\ unpublished = 0 /\ inbox[i] = 0 /\ i \notin missed

Arrive(r, k, s) ==
    /\ req[r].pc \in {"idle", "ok", "401", "403", "404", "500"}
    /\ Moves(r, [Idle EXCEPT !.pc = "key", !.key = k, !.slug = s, !.sure = Heard(At[r], k)])
    /\ UNCHANGED caches

\* Mutation: the cached key's own expiry is not looked at.
AfterCachedKey(r, value) ==
    [req[r] EXCEPT !.pc = IF value.live THEN "paddock" ELSE "401",
                   !.got = value, !.keyAt = now]

\* liveKey and authenticateMcp: no usable key, or one that expired in the cache.
AfterKey(r, value) ==
    [req[r] EXCEPT !.pc = IF value.live /\ now < ExpiresAt[req[r].key] THEN "paddock" ELSE "401",
                   !.got = value, !.keyAt = now]

KeyHit(r) ==
    /\ req[r].pc = "key"
    /\ \E e \in Fresh(keyCache[At[r]], req[r].key) : Moves(r, AfterKey(r, e.value))
    /\ UNCHANGED caches

\* The first query: an active and unexpired row.  Only its key goes on to the
\* second query.
KeyMiss(r) ==
    /\ req[r].pc = "key"
    /\ Fresh(keyCache[At[r]], req[r].key) = {}
    /\ Moves(r, [req[r] EXCEPT !.pc = IF Usable(req[r].key) THEN "links" ELSE "keyFill",
                               !.got = NoKey, !.readAt = now, !.raced = FALSE])
    /\ UNCHANGED caches

\* Mutation: the second query selects paddock ids instead of slugs.
ReadLinkIds(r) ==
    /\ req[r].pc = "links"
    /\ Moves(r, [req[r] EXCEPT !.pc = "keyFill",
                               !.got = [live |-> TRUE, slugs |-> Grants[req[r].key]]])
    /\ UNCHANGED caches

ReadLinks(r) ==
    /\ req[r].pc = "links"
    /\ Moves(r, [req[r] EXCEPT !.pc = "keyFill",
                               !.got = [live |-> TRUE, slugs |-> ScopedSlugs(req[r].key)]])
    /\ UNCHANGED caches

KeyFill(r) ==
    /\ req[r].pc = "keyFill"
    /\ keyCache' = [keyCache EXCEPT ![At[r]] =
                      SetBounded(@, Entry(req[r].key, req[r].got, req[r].raced))]
    /\ Moves(r, AfterKey(r, req[r].got))
    /\ UNCHANGED paddockCache

\* paddockScope: the paddock exists and is active, and the key names its slug.
AfterPaddock(r, value) ==
    [req[r] EXCEPT !.pc = IF ~value.on THEN "404"
                          ELSE IF req[r].slug \notin req[r].got.slugs THEN "403" ELSE "ok",
                   !.paddock = value, !.paddockAt = now]

PaddockHit(r) ==
    /\ req[r].pc = "paddock"
    /\ \E e \in Fresh(paddockCache[At[r]], req[r].slug) : Moves(r, AfterPaddock(r, e.value))
    /\ UNCHANGED caches

PaddockMiss(r) ==
    /\ req[r].pc = "paddock"
    /\ Fresh(paddockCache[At[r]], req[r].slug) = {}
    /\ Moves(r, [req[r] EXCEPT !.pc = "paddockFill", !.paddock = PaddockBySlug(req[r].slug),
                               !.readAt = now, !.raced = FALSE])
    /\ UNCHANGED caches

PaddockFill(r) ==
    /\ req[r].pc = "paddockFill"
    /\ paddockCache' = [paddockCache EXCEPT ![At[r]] =
                          SetBounded(@, Entry(req[r].slug, req[r].paddock, req[r].raced))]
    /\ Moves(r, AfterPaddock(r, req[r].paddock))
    /\ UNCHANGED keyCache

\* A query throws: the request fails and nothing is cached.
LookupFails(r) ==
    /\ InFlight(r)
    /\ Fault
    /\ req' = [req EXCEPT ![r] = [Idle EXCEPT !.pc = "500"]]
    /\ UNCHANGED <<now, db, bus, caches>>

\* Time passes, but no lookup outlives MaxLookup.
Tick ==
    /\ now < MaxTime
    /\ \A r \in Requests : InFlight(r) => now < req[r].readAt + MaxLookup
    /\ now' = now + 1
    /\ UNCHANGED <<db, bus, caches, req, faults>>

Request(r) ==
    \/ \E k \in Keys, s \in Slugs : Arrive(r, k, s)
    \/ KeyHit(r) \/ KeyMiss(r) \/ ReadLinks(r) \/ KeyFill(r)
    \/ PaddockHit(r) \/ PaddockMiss(r) \/ PaddockFill(r)
    \/ LookupFails(r)

\* What an administrator does; the rest is what follows from it, or happens anyway.
Change ==
    \/ \E k \in Keys : RevokeKey(k)
    \/ \E p \in Paddocks, s \in Slugs, on \in BOOLEAN : SavePaddock(p, s, on)
    \/ \E p \in Paddocks, on \in BOOLEAN : SetPaddockStatus(p, on)
    \/ \E p \in Paddocks : DeletePaddock(p)

Rest ==
    \/ Publish
    \/ \E deaf \in SUBSET Instances : PublishLost(deaf)
    \/ \E i \in Instances : Flush(i) \/ Restart(i)
    \/ \E r \in Requests : Request(r)
    \/ Tick

Next == Change \/ Rest

Spec == Init /\ [][Next]_vars

----------------------------------------------------------------------------
(* Properties *)

EntriesOf(Names, Values) ==
    [name : Names, value : Values, expiresAt : Int, raced : BOOLEAN]

TypeOK ==
    /\ now \in 0..MaxTime
    /\ active \subseteq Keys
    /\ row \in [Paddocks -> [state : {"none", "exists", "deleted"}, slug : Slugs, on : BOOLEAN]]
    /\ writes \in 0..MaxWrites
    /\ lastActive \in [Keys -> Int]
    /\ lastScope \in [Keys \X SUBSET Slugs -> Int]
    /\ lastPaddock \in [Slugs \X PaddockValues -> Int]
    /\ unpublished \in Nat
    /\ inbox \in [Instances -> Nat]
    /\ missed \subseteq Instances
    /\ keyCache \in [Instances -> Seq(EntriesOf(Keys, KeyValues))]
    /\ paddockCache \in [Instances -> Seq(EntriesOf(Slugs, PaddockValues))]
    /\ req \in [Requests ->
          [pc : {"idle", "key", "links", "keyFill", "paddock", "paddockFill",
                 "ok", "401", "403", "404", "500"},
           key : Keys, slug : Slugs, got : KeyValues, keyAt : Int,
           paddock : PaddockValues, paddockAt : Int,
           readAt : Int, raced : BOOLEAN, sure : BOOLEAN]]
    /\ faults \in 0..MaxFaults

\* A fact is true, or was at most a time to live and a lookup before instant `at'.
Recent(holds, lastHeld, at) == holds \/ at < lastHeld + Ttl + MaxLookup

KeyRecent(r) ==
    /\ Recent(req[r].key \in active, lastActive[req[r].key], req[r].keyAt)
    /\ Recent(req[r].got.slugs = ScopedSlugs(req[r].key),
              lastScope[<<req[r].key, req[r].got.slugs>>], req[r].keyAt)
PaddockRecent(r) ==
    Recent(req[r].paddock = PaddockBySlug(req[r].slug),
           lastPaddock[<<req[r].slug, req[r].paddock>>], req[r].paddockAt)

\* However messages, lookups and instances fail, a request is answered from a
\* configuration that is no older than a time to live and a lookup: a revoked
\* key, a disabled or deleted paddock, a moved slug stop counting by then.
AnswersFromRecentConfig ==
    \A r \in Requests :
        req[r].pc \in {"ok", "403", "404"} => KeyRecent(r) /\ PaddockRecent(r)

\* No request is let through on a key past its expires_at, though the cache may
\* hold the key as valid for a time to live after it.
ExpiredKeyNeverAdmitted ==
    \A r \in Requests :
        req[r].pc \in {"ok", "403", "404"} => req[r].keyAt < ExpiresAt[req[r].key]

\* What a request is answered from was true a moment ago, and its key was alive.
AnswersAreTimely == AnswersFromRecentConfig /\ ExpiredKeyNeverAdmitted

\* An instance that has handled every invalidation holds nothing that differs
\* from the database, but for what was read before a flush and cached after it.
Quiet(i) == unpublished = 0 /\ inbox[i] = 0 /\ i \notin missed
StaleOnlyIfRaced ==
    \A i \in Instances : Quiet(i) =>
        /\ \A e \in Range(keyCache[i]) :
              \/ e.raced
              \/ now >= ExpiresAt[e.name]
              \/ e.value = IF e.name \in active
                             THEN [live |-> TRUE, slugs |-> ScopedSlugs(e.name)] ELSE NoKey
        /\ \A e \in Range(paddockCache[i]) : e.raced \/ e.value = PaddockBySlug(e.name)

\* A cache never exceeds its bound and never has two answers for one name.
CacheBounded ==
    \A i \in Instances : \A c \in {keyCache[i], paddockCache[i]} :
        /\ Len(c) <= MaxEntries
        /\ \A m, n \in DOMAIN c : c[m].name = c[n].name => m = n

\* admin-api.md: a revoked key takes effect at the proxy as soon as the message
\* arrives; caching-config-store.ts: the next request refuses it.
NextRequestRefused ==
    \A r \in Requests : req[r].pc = "ok" => ~req[r].sure
=============================================================================
