# Metamodels in TLA+

Metamodels puts an authenticated, metered proxy in front of model servers. An
organization's operator registers a *flock* (an upstream server of a *breed*:
Ollama or ComfyUI), publishes *paddocks* (a slug over a flock, with a *fence* of
rules: templates, rate limit, quota) and hands out keys; members may also let MCP
clients in by approving them at the sign-in service (the *OP*). This directory
holds TLA+ models of the parts of it that keep state and run concurrently, the TLC
configurations that check them, and TLAPS proofs about metering, jobs, the rate limiter,
the gates of a request, the organization and its seats, the admin calls, token
verification, flocks and their credentials, consent, the licence, the console's sign-in
and edits, and the CLI's credentials.

Paths below are relative to `src/`.

## 1. The system and its components

| Component | State | Operations | Interacts with | Module |
|---|---|---|---|---|
| Usage metering (`apps/data-plane/src/meter`, `apps/worker`) | Redis stream, consumer group, `usage_rollup` | emit, ensureGroup, readBatch, applyEvents, ackBatch, periodUsage | pipeline (emits, reads the quota); deleting a paddock cascades | `Metering`, `UsageLedger` |
| Configuration cache (`apps/data-plane/src/config`) | per instance: maps of keys and paddocks with expiry | lookup, fill, evict, invalidateAll | control plane over a Redis channel; Postgres | `ConfigCache` |
| Rate limiter (`apps/data-plane/src/ratelimit`) | one sorted set per bucket in Redis | check | pipeline | `RateLimiter` |
| Jobs (`packages/connectors/src/comfyui`, `apps/data-plane/src/jobs`) | `job` rows; the flock's own queue | submit, create, get, markMetered | pipeline, flock, metering | `Jobs` |
| Pipeline and MCP endpoint (`apps/data-plane/src/app.ts`, `pipeline.ts`, `mcp/`, `proxy/`) | a request's own | authenticate, scope, limits, read the body, proxy and tee, result | all of the data plane | `Gateway` |
| Breeds (`packages/connectors`) | none; fences are theirs to read | name tools, plan a call, rebuild a graph, guard a body | pipeline, console (dry run) | `Tools` |
| Members, invites, seats, keys (`apps/control-plane/src/server`) | `user`, `invite`, `api_key` rows, the org row lock | inviteUser, acceptInvite, revokeInvite, changeUserRole, setUserStatus, mintOauthKey, revokeKey | console, consent, licence | `Org` |
| Licence (`license-service.ts`, `ls-client.ts`) | the `entitlement` row | activate, revalidate, deactivate, grace | Lemon Squeezy; seat limits of Org | `License` |
| Flocks, health, sealed credentials (`flocks-service.ts`, `flock-health.ts`, `packages/schema/src/reseal.ts`, `apps/migrate`) | `flock` rows, the services' keyrings | create, save, delete, probe, test, reseal | cache, deployment | `Flocks` |
| Paddocks, fences, templates | `paddock`, `fence` rows | save, status, constraint, limits, templates | the flock's breed, the cache | `Fences` |
| Admin API and the CLI's calls (`admin-route.ts`, `apps/cli/src/client.ts`) | rows with their audit rows | guard, list by pages, create, retire; refresh and retry | access tokens, cache | `AdminCalls` |
| Usage reports (`usage-query.ts`, `usage-range.ts`, the usage page) | none; reads `usage_rollup` | matrix, daily series, ranking | metering's writes | `Reports` |
| Access tokens (`packages/schema/src/access-token.ts`) | JWKS copy with a cooldown | verify | the OP's keys and their rotation | `KeySet` |
| Consent (`apps/auth/src/interactions.ts`, `consent-api.ts`, control plane `internal-route.ts`) | interactions, grants, spent assertions | approve, mint, save grant, issue, refresh | Org's mintOauthKey | `Consent` |
| Console sign-in (`oidc-session.ts`, `auth/callback`, `auth/oidc-client.ts`, OP) | cookies, OP session, codes | begin, type password, callback, sign out | the OP's sessions | `SignIn` |
| Login throttle (`apps/auth/src/login-throttle.ts`) | a bucket per address, in memory | check, record | the sign-in form | `LoginThrottle` |
| CLI credentials (`apps/cli/src/credentials.ts`, `session.ts`) | a file and a lock file | login, refresh, logout | several CLI processes; the OP's refresh-token rotation | `CliSession` |
| Rest of the console, web site, build, deployment | none | rendering, forms, configuration | - | - |

What is hard in it (`PROJECT.json` "hazards" has each at its line): a log with
at-most-once reads in front of an upsert that is not idempotent; a cache that awaits
a database while invalidations arrive; clocks that disagree; jobs accepted in three
awaited steps and metered by whichever poll wins; one lock in the organization and
three operations that do not take it; calls to other services (Lemon Squeezy, the
control plane's mint, a flock's probe) between a read and the write that relies on
it; answers that are lost after the other side acted; two tabs with one cookie;
several processes with one file; key rotations that no single moment of the system
sees whole.

## 2. Modules

Each module keeps its mutated operators (marked `Mutation:`) beside the operator
they stand in for. They are not part of the specification; each property of a
passing run is known to fail when its mutant replaces the original.

### Metering, UsageLedger

`request[e]` follows one metered request: admitted by `Pipeline.limits` (`Admit`,
`Refuse`), its event handed unawaited to the sink (`pending`), then `sent` or
`lost`. `log` is the stream as it would be with nothing trimmed, so ids are
positions; `trimmed`, `delivered` and `pel` are Redis's view. A worker is `down`,
or at `readBatch`, `applyEvents` or `ackBatch` of `processOnce`. `counted[i]` is
how often entry `i` was added to its row. One event has unit weight and a paddock
has one row. The faults are a set (`FaultKinds`) that a configuration chooses from,
and `FaultBound` bounds them. `MAXLEN ~` trims approximately: `XAdd` cuts any amount
that leaves `MaxLen` entries, or none. `ApplyFails` covers a commit whose reply is
lost. `UsageLedger` is what billing promises: each unit of spend is billed at most
once, after it is spent, to a paddock that exists.

### ConfigCache

`active` and `row` are the database; the caches are sequences, because `Map`
keeps insertion order and evicts the first. A lookup is a miss, one or two
queries, and a fill; the answer travels for up to `MaxLookup`. `raced` marks an
answer whose lookup was in flight when the instance flushed, `missed` an instance
that did not hear a message. `lastActive`, `lastScope` and `lastPaddock` say when
a write last found a fact true, which is what "recent" is measured by.

### RateLimiter

`zset` is a bucket, `expireAt` its PEXPIRE. `Eval` runs the script as one step,
as Redis does; `EvalUnanswered` runs it and loses the reply, and the client's
resend brings the same member again. Clocks are up to `Skew` from Redis's, and a
check takes up to `MaxDelay` to arrive. Time is in ticks, `Second` of them.

### Jobs

`pc` walks a submit through `create`, `meter`, `accepted`, and a poll through
`fetch`, `mark`, `emit`, `done`. The flock's prompt ids are its own: it may answer
one again (`reused`), and `Insert` then keeps the row it finds. `unmetered`
accounts for claims whose events were lost.

### Gateway

One request per `Requests`, of the proxy's three kinds, the result poll's, and the
MCP endpoint's. Each route's order of gates is a sequence (`ProxyGates`,
`ToolGates` and so on, from the order of the awaits in `app.ts` and `endpoint.ts`),
each gate a step, and a write of the console (`Writing`: a key revoked, a paddock, a
flock or a fence saved) moves the configuration between two. The answer is a stream
teed into the client's half and the meter's: the client may leave, the flock may break
off, the sink may fail, the process may die. `ProxyGates` reads the body
after the limiter; the MCP endpoint before.

### Tools

A tool name is the sequence of its parts, so the suffix that parts two ids may meet
an id that ends so. `ListTools` is a client's list; every later call is planned
from the fence as it is by then. `Reconstruct` sets the cells of a template's graph,
`DraftOk` is the console's dry run, `Plan`, `Guards` and `Offers` the Ollama fence. A
template reaches the fence through the dry run or, unproved, through `SaveFence`; what
`ToolsKeepTheirWord` says of running is said of those the dry run proves.

### Org

A locked request loads its actor and the seat limit (`Load`), waits for the org
row (`Begin`), makes its second count (`CountPending`) and writes (`Write`). Under
READ COMMITTED each statement sees what was committed before it, so an unlocked
`AcceptInsert` or `RevokeInvite` may fall between any two. `Abort` is a lost
connection. The histories `crossed`, `joined` and `late` say what no check could
have seen, so that the rest can be stated exactly.

### License

A re-validation reads the key and the row, asks Lemon Squeezy, and writes; a
deactivation reads the row, then the key, gives the instance back, and deletes whichever
row is there by then, also when it read none. Lemon Squeezy keeps which licence an
instance was taken for (`instances`) and which were given back (`released`). It may
act and not answer (`LsActivateUnanswered`), not answer at all (`LsUnanswered`), or
answer an error as JSON that is taken for a verdict (`LsErrs`, history `misread`).
`mixed` and `outrun` mark a result written over a row that had changed. The
scheduler's call is `Pass`; licences expire and the clock ticks.

### Flocks

A save that leaves the credential alone reads the row FOR UPDATE and writes later;
any other is one UPDATE. A probe (the scheduler's pass or the console's test) holds
a copy of the connection from its read to its record. A pass reads every flock at
once (`PassStart`: `pass` has a reading per flock) and then probes them one by one, in
the order of the query (`Turn`). A rotation is the documented
sequence: a new key in front of the ring, `migrate` reseals under row locks, the
services restart one by one, the previous key is dropped. `Misplace` is a value
copied between rows by hand, which the envelope's binding must make useless; only the
copied row counts as `strayed`.

### Fences

A request reads what it validates against (the flock's breed, the template list)
and writes later without a lock. `serial`, `limited` and `asked` are what the
committed edits should leave; `overlapped` and `moved` mark the two overlaps that
the code lets through.

### AdminCalls

A call loads the stored credential, renews it when it is about to run out, sends,
and once more after a 401; it ends in `ok`, `problem`, `failed` or `unsent`. The
handler's transaction is one step, of which the answer may be lost. A listing is
read by repeating the command with the cursor it printed: a page is the set of the
rows it shows (`FirstOf`), which the service returns sorted, and a listing the
sequence of its pages. `owed` is what was there when it began.

### Reports

`rollup` is read by three queries at three moments; `totals` collects what the
window held at any of them, and `version` says which reports saw the same state.
Buckets are hours and days of `HoursPerDay`, so that a window cut in the middle of a
day differs from one cut at its start.

### KeySet

The OP publishes its signing key and previous ones; a resource server's copy has an
age, a cooldown and one shared load (jose, external, with the settings the verifier
gives it). `Verifying` is the verifier's own: look at the cooldown, await the set,
decide between an answer of ok, 401 and 503. `Rotate` and `Drop` are the documented
rotation, `Replace` the replacement that is meant to invalidate.

### Consent

An authorization starts from a grant (`ExistingGrant`) and is answered with a code or
with the consent screen (`Proceed`). Approving mints by an assertion (`call`, `claimed`)
and then saves the grant with what it had when it was read and what the prompt listed as
missing (`WithMissing`), which is nothing when only the key had gone; the OP gives the
mint up after 5 s while the control plane goes on. When the browser resumes, the prompts
are gone through again, on the new grant or on the session's, which another tab may have
changed meanwhile.
A token is issued by finding the active key for the grant and the paddock each time
(`KeyFor`). `failed` are the approvals the user was told had failed.

### SignIn

Cookies are read when a request arrives and set when its answer does. `callback` is
a callback's progress, `codes` and `links` what the OP has given out, `since` who
has typed a password in that browser since its OP session ended.

### LoginThrottle

One address's bucket: the check comes before the password is verified, the failure
is recorded after, both with the time the form came in.

### CliSession

The lock is one file. A waiter looks at it, judges it stale, looks again and unlinks
it, in four steps; the OP rotates refresh tokens and revokes the grant of a spent
one presented again. `Crash` leaves the lock behind, named or not. `shared` records
that two processes held the lock at once; `StoreIsCurrent` says that this takes a crash
or a minute's sleep (`SharedAfterMishap`), and excepts what follows from it.

## 3. Runs

A run over several components has a `focus`: one component moves while the others
stay as they began, so its states are the sum of theirs and its properties are each
component's own. It composes nothing; it lets one model-checking run speak for
components that share no state. Composition proper is inside the modules:
`Metering` (data plane, Redis, workers, database), `ConfigCache` (control plane and
instances), `Consent` (OP, control plane, user), `Flocks` (console, scheduler,
migration, services), `AdminCalls` (CLI and API).

| Run | Shows | Bounds, and why they are enough |
|---|---|---|
| `MeteringSafety` | types; no double count; acknowledged means counted | 2 workers, 3 events of 2 paddocks, batches of 2, any 2 faults of all 7 kinds: a batch that mixes paddocks, a worker that overtakes another, a fault while recovering from one. `MaxLen` 1 makes trimming overtake the reader |
| `MeteringLedger` | the quota overshoots by lag only; refinement of `UsageLedger`; the stream drains | as above with 1 fault and fairness. No lost XADD reply (it puts the event in the stream twice, and the ledger would bill it twice) and no lost Redis (below) |
| `MeteringCrash` | **violation**: a crash loses a batch | 1 worker, 2 events, 1 crash |
| `OrgMembers` | an admin remains; status by the active; consents leave one key, of a user with standing | 2 people of every role and status, 2 locked requests of every kind, 1 invite and its accept, a licence change, an expiry |
| `OrgOverSeats` | **violation**: one seat too many | 3 people, 2 invites, 2 requests, 1 accept |
| `OrgLateKey` | **violation**: a key for a deactivated user | 2 people, 2 requests |
| `CacheNextRequest` | **violation**: a raced fill outlives the invalidation | 2 requests, 1 change, no fault |
| `DataPlane` | rate and retry-after; job ownership and one claim; recency of the cache; the gates; the meter of streams; tools | limiter: 2 checks in flight, skew 1, limits (2 per 2 s) and (1 per 3 s), a lost reply, 5 ticks: more than one window passes. Jobs: 2 submits of 2 keys, 2 polls of one of them, 2 prompt ids of which 1 may be given again, 2 faults. Cache: one instance, in two parts of its state space: 2 requests for one slug and a key that expires while cached, 1 change, 1 fault (`OneSlug`); 1 request and 2 slugs that change hands in a cache of 1 entry, lookups that take no time (`TwoSlugs`). Its clock has 3 instants and entries live for 1, so one that was filled lapses and is filled again; a change that changes nothing is not made (`Telling`), it would only flush. Gates: one instance, in two parts of its state space: 2 requests for 1 slot with a fault and no change (`Traffic`); 1 request with 2 changes (`Shifting`), enough to pass one gate before it closes and another after it opens. Tools: 3 ids whose names meet, also by a suffix, 3 template shapes (a cell set twice, a name used twice, a missing node), 4 edits |
| `Console` | sign-in; consent; fences; flocks and rotation; licence; throttle | 2 browsers, 2 users, 2 callbacks, 2 transactions; 2 tabs, 2 slugs, 2 approvals (3 without faults), 1 change, 1 fault; 2 flocks of both breeds, 2 templates, 4 edits of which 2 overlap; 2 flocks and 1 save, or 1 flock with 2 saves, a probe, a test and a rotation; 2 licences, 2 instances, 1 outage; 2 forms, 2 failures, a window of 2 and 3 ticks, so that a bucket fills, lapses and another begins. Members of a set are alike, so the first to act may be chosen: the browser of the first tab and of the first sign-in (`FaultyInit`, `FirstSignsIn`), the user of the first password (`FirstTypes`), the paddock of the first approval (`FirstApproved`), the flock a paddock begins on (`OnFirst`) and, as only their numbers of seats differ and none is compared with another's, the licence that takes the first instance (`FewerSeatsFirst`) |
| `Service` | seats hold but for crossed accepts; an invite joins once; CLI calls; listings; verification; reports | 3 people, 2 invites, 2 locked requests, 2 accepts, limits 1 and 2, a licence change, an expiry; 2 CLI processes, 2 calls, 2 tokens, 1 fault; 4 rows at 2 to a page with 2 writes; 2 requests, 1 rotation or replacement, 4 ticks with an age limit of 2, a cooldown of 1 and loads that take up to 1 tick; 2 days of 2 hours, 2 writes. People begin in order of their standing and the second invite follows the first (`ByStanding`, `InOrder`): they are alike |
| `Upkeep` | health catches up; an expired licence lapses; everyone gets the credentials lock; the store stays current | fairness; 1 flock with and without TLS trust; 2 licences; 3 CLI processes, 3 commands, 1 sign-in, 1 crash or overrun or lost answer. The first instance is k5's, as in `Console`; an activation is not under fairness, so nothing fair is withheld |
| `ConsentGranted` | **violation**: "nothing was granted", and a token follows | `Console`'s instance |

Deadlock is not checked: the inputs are finite (events, requests, edits, a clock
with a last instant), so every behaviour ends with nothing left to do.

Symmetry is declared for workers (`MeteringSafety`), for the requests and the accepts of
the org (`OrgMembers`, `Service`), in `Service` the requests together with the CLI
processes and the verifications, and, together, for the
checks, polls and requests of `DataPlane` (`Twins`: one component moves, so one swap of
every pair is enough, and cheaper than a swap for each). The specifications treat the
members alike, no definition chooses among them, and no run that declares symmetry
checks liveness: invariants and action properties only. Where a member can be told by
what it did first, the run fixes who that is instead, as the table says.

Where a theorem states a property of a component, the run that checks it EXTENDS that
component (`MCConsole` extends `Flocks`, `MCUpkeep` `CliSession`, `MCDataPlane` `Jobs`,
`MCService` `Org`) and instantiates the others, so that both speak of one definition.
Where a run instantiates a component whose property it repeats by name, as `MCConsole`
does all but `Flocks`, `MCService` all but `Org` and `MCDataPlane` all but `Jobs`, the
theorem of that name is about the run itself (section 5: the console's run, the
service's and the data plane's).

**Fairness.** In `MeteringLedger` and `MeteringCrash`: an emit once started either
completes or fails, and failing is a separate fault; a worker's cycle is fair because
`docker-compose.yml` restarts the worker unless it is stopped, and its loop never
ends by itself. In `Upkeep`: the scheduler's passes follow one another
(`bin/scheduler.ts`, `every`), for health and for the licence; a transaction ends; a
deploy once begun goes on; a CLI process that runs goes on running, and a lock whose
holder has exited grows old. No fault, no user's request and no answer of another
service is fair, except that a pass's call ends, answered or not.

## 4. What the runs found

1. **A crash under-counts** (`MeteringCrash`). `worker.ts` says a crash between
   commit and acknowledgement redelivers the batch and only over-counts.
   `readBatch` reads `>` only, and nothing reads or claims pending entries, so a
   batch delivered and not committed is never counted. By the same fact nothing
   is ever counted twice, which is `CountedAtMostOnce`.
2. **The next request may be let through** (`CacheNextRequest`). The comment on
   `invalidateAll` and `docs/admin-api.md` promise a refusal as soon as the message
   arrives. A lookup in flight across the invalidation installs the old answer
   after it; `AnswersAreTimely` bounds the damage.
3. **Seats can be over-provisioned** (`OrgOverSeats`). `acceptInvite` does not take
   the org lock. Committing between the two counts of another invitation, it is in
   neither.
4. **A key for a deactivated user** (`OrgLateKey`). `mintOauthKey` waits for the
   lock, and does not look at the user again once it has it.
5. **"Nothing was granted", and something was** (`ConsentGranted`). The OP gives a
   mint up after 5 s and tells the user so; the control plane may commit it
   afterwards. It binds the key to the grant the session already has, and a code or
   refresh token issued earlier under that grant works again.

Not findings, but worth knowing:

- After Redis loses its data the group is gone and only a worker's boot makes it, so
  a running worker fails every read with NOGROUP until it restarts (hence no `redis`
  fault under `StreamDrains`).
- A job's result is metered at most once, not exactly once: a crash or a failed emit
  after `markMetered` loses it (`unmetered`). `server.ts` does not wait for meters
  still under way when it stops, which is a `Crash` here.
- A `retry-after` is too short when the limit was lowered and the bucket still holds
  more than the new one allows, and it promises nothing under a limit of 0, which the
  schema allows (`packages/schema/src/config.ts:13`): the caller is told to come back
  after one window and refused again. The second exception came out of the proof.
- Lemon Squeezy's errors come as JSON too, and `ls-client.ts` takes them for an
  answer: "a transport error changes nothing" (`license-service.ts:56`) does not
  hold for those (`misread`).
- An entitlement row of one licence with another's instance does not heal while that
  instance stays wrong (`mixed`).
- The dry run refuses a number param with a negative `max` and no `min`, though some
  call could set it.
- The usage page's "24h" is today since midnight UTC; the dashboard's is since the
  bucket 24 h ago.
- "could not send the request" is what the CLI says after a lost answer too.
- The throttle is per process and in memory: a restart forgets it, and attempts in
  parallel exceed the count by those in flight.

## 5. Proofs

### Metering (`MeteringProofs`)

For every set of events, paddocks and workers, every batch size, stream length and
quota, every set of faults and every bound on them:

- `TypeCorrect`: `Spec => []TypeOK`;
- `NeverCountedTwice`: `Spec => []CountedAtMostOnce`;
- `AcknowledgedIsCounted`: `Spec => []AckedOnlyIfCounted`.

The only assumption is `MeteringAssumption` on the constants, which TLC evaluates
in each Metering run. Neither safety property is inductive. That no entry is
counted twice depends on no entry being handed out twice, which depends on what
`delivered` has passed. The inductive invariant `IInv` is `TypeOK` and

- `Holdings`: an entry beyond `delivered` is in no row and was given to nobody; what
  a worker holds is not beyond it; no two workers hold one entry;
- `Stages`: an entry held at `apply` is not counted yet, and still pending if this
  group gave it; one held at `ack` is counted, or its paddock is gone;
- the two properties themselves.

Every action has one step that preserves each conjunct it can disturb. A restart
of Redis forgets who was given what and moves `delivered` past the whole log,
which is why the entries already read stay out of reach.

### Metering implements the ledger (`MeteringProofs`, second part)

`PipelineIsLedger`: `Spec => ImplementsLedger`, assuming `Answered` (no XADD reply
is lost; a resent XADD puts the event in the stream twice, and the ledger would bill
it twice). It is the refinement `MeteringLedger` checks, for every value of the
constants and with a Redis that restarts, which the run leaves out.

`Logged`, invariant beside `IInv`, says that an event has one entry in the stream at
most, and then its request is `sent`. So the sum over an event's entries, a fold, is
a sum over one entry or over none, which `SumOfNone` and `SumOfOne` evaluate
(`RowsByEntry`). `Admit` is then `Spend`; a commit is the `Bill` of the events of its
batch, none billed before because `Stages` says the entries are uncounted;
`DeletePaddock` is `Close`; an emit adds an entry that counts nothing, and every
other step leaves the ledger as it is.

### Org (`ServiceProofs`)

For any people and invites, any number of locked requests and accepts in flight,
any roles, operations and licences, under `OrgAssumption`:

- `TypeCorrect`: types, and the lock belongs to exactly the request that is between
  its first read and its end;
- `AnAdminRemains`: `Spec => []AdminRemains`;
- `AnInviteJoinsOnce`: `Spec => []InviteJoinsOnce`;
- `ConsentKeys`: `Spec => []ConsentKeysStand`;
- `OnlyActiveChangeStatus`: `Spec => StatusChangedByActive`.

The argument is that what a request decided under the lock still holds when it
writes. `Decided` says what that is for each operation: the target of a demotion or
deactivation is not the last admin, the actor of a status change is active, a mint
that found no key still has none to find. The lock keeps the other locked requests
out. An accept is not kept out, and `AcceptInsertIInv` shows why it does no harm
there: it adds a user who did not exist, so it can neither make an existing user the
last admin nor touch the target of a decision. `Written` says that an accepted
invite's email is taken, so the unique index stops a second accept. The lemma
`RequestMovesIInv` covers every step that only moves a request; one lemma per write
and per unlocked operation covers the rest.

### Jobs (`DataPlaneProofs`)

For any submits, any finite set of polls, any keys and prompt ids, any number of ids
the flock gives again and any number of faults (`JobsAssumption`, which TLC
evaluates in `DataPlane`):

- `TypeCorrect`: `Spec => []TypeOK`;
- `JobsOwned`: `Spec => []JobsAreOwned`;
- `RowsStay`: `Spec => RowsAreKept`.

The inductive invariant is `TypeOK` and

- `Owning`: a prompt id nobody was given has no row (`Unqueued`); one that two submits
  hold was given again (`Distinct`); a submit that holds an id of its own finds no row
  before its insert and its own row after it (`Inserting`); a prompt that runs without
  a row belongs to a submit that has yet to insert it, or failed (`Orphans`);
- `Claiming`: a poll past its lookup asks for its own key's job, and past the
  compare-and-set for a marked one (`Asked`); the results emitted, being emitted and
  lost of a job are one if it is marked and none if not (`ResultClaimedOnce`).

A crash moves every claim under way to the lost ones, so that step is where the sum
has to be followed with the cardinality of the claims.

### The rate limiter (`DataPlaneProofs`, second part)

For any checks in flight, any set of limits (old and new ones at once), any skew of the
clocks, any delay and any number of lost replies (`LimiterAssumption`):

- `TheRateHolds`: `AllSpec => []RateHolds`;
- `WaitingSuffices`: `AllSpec => RetryAfterSuffices`.

`RateHolds` compares an admission with the one `max` places earlier, which the script
never sees: it sees a set of members scored by whatever clock stamped them. The invariant
`RateInv` ties the two together. A member's score is at most `MaxDelay + Skew` before the
moment it was admitted (`Scored`), and the bucket holds every admission that is recent by
any clock and outlives it (`Remembered`), which is where the script's PEXPIRE and its
ZREMRANGEBYSCORE by the caller's own clock come in; a check that is evaluated again brings
the member it added (`SameMember`), so a resend is not a second admission. Whoever is
admitted then counted all the admissions of the last window less `Spread`, and they were
fewer than its limit. The counting is of the members against the indices of the admissions
(an injection), with the cardinality of an interval. `Promised` follows one refusal: while
nothing is added, the bucket only shrinks, and if nothing was dropped its oldest member is
the one the promise was computed from. The seconds are rounded up (`Ceil`), so waiting
them out is enough.

### The gates and the meter of streams (`DataPlaneProofs`, third part)

For any requests of either breed, any rate limit and image cap, any number of images, of
changes of the configuration and of faults (`GatewayAssumption`):

- `EveryGateHolds`: `AllSpec => []GatesHold`;
- `EveryAnswerIsMetered`: `AllSpec => []ServedIsMetered`.

`GateInv` gives each request its `Place`: it stands at a gate of its own route (`OnRoute`,
which `RouteIsGates` shows to be the sequence of that route), holds what the gates behind
it gave it, and nothing yet of those ahead. That alone orders the gates; that the flock is
reached only after a moment at which all of them stood open is `Moment`. The gates look at
the configuration one by one, so with two changes a request can pass the first before it
closes and the second after it opens; with one it cannot, and the invariant has to say
why: who asks is known by a key that was in scope when it was looked up, so if all the
gates were never open at once and no more than one thing changed since, the paddock itself
is shut now, and the next gate will say so.

`Flowing` and `Served` follow the tee: a stream is metered while it is open and until its
usage is emitted or forgone, whatever the client does with its half; a crash or a break of
the flock makes it broken, and `cut` remembers whose.

### The configuration cache (`DataPlaneProofs`, fourth part)

For any keys, slugs, paddocks and grants, any instances and requests, any time to live,
bound on the cache and longest lookup, and any changes, lost messages, failed lookups and
restarts (`CacheAssumption`):

- `AnswersStayTimely`: `AllSpec => []AnswersAreTimely`.

`AnswersAreTimely` speaks of requests that have been answered; `CacheInv` speaks of what
they will be answered from. Every entry of a cache, and every answer on its way into one,
carries two claims. It *stood* when it was read (`Stood`: it is true now, or a write last
found it so no earlier): an entry was made at most a lookup after it was read, and is fresh
for a time to live, which is all that `Recent` allows. And it stands now, unless it is
`Excused`: a flush went by while it was on its way, or a change is still to be heard by
that instance, or its message was lost. The second claim is `StaleOnlyIfRaced` with the
changes that have not arrived; a write excuses everybody at once (`WriteKeeps`), a flush
takes the excuse from an instance and its entries with it, and leaves a mark on what was in
flight (`EmptiesKeeps`). A key is read by two queries, and the second can see links that
the first did not: what the fill stores is dated by the first (`ReadLinksKeeps`). Nothing
is said of the order of messages, so none of it has to be in the invariant. `BoundedSet`
is the lemma about `setBounded`: a full cache makes room before it grows, and a name that
is there keeps its place.

### The data plane's run (`DataPlaneProofs`, last part)

As for the service's run: `JobsRuns`, `LimiterRuns`, `GateRuns` and `CacheRuns` say that a
run of `AllSpec` is a run of each component, and `JobsAreOwnedInTheRun` carries the jobs'
theorem over. The steps of the gates and of the cache are restricted to parts of their
state spaces (`Traffic`, `Shifting`; `OneSlug`, `TwoSlugs`) in the run that is checked,
while the proofs are about every step of `Gateway` and of `ConfigCache`. The tools are in
the run and have no theorem.

### Seats (`ServiceProofs`, second part)

On top of that invariant of `Org`, for any people, invites, licences, requests and
accepts, any number of each in flight:

- `SeatsAreHeld`: `Spec => []SeatsHeldUnlessCrossed`;
- `UncrossedSeatsAreHeld`: `Spec => [](crossed = {} => SeatsHeld)`, so the accepts
  recorded as `crossed` are the only way to the over-provisioning of `OrgOverSeats`.

The check is inductive only with what each request saw on its way (`SeatChecked`):
after the first count, the users are no more than it found plus the crossings since;
after the second, a request about to take a seat finds one free, counting the invites
pending at the moment it read. An accept after both counts moves one seat from the
invites to the users, which leaves the sum; one between them is counted by neither and
is what `crossed` grows by. Time only lets invites expire. The counts are
cardinalities, so the steps rest on small lemmas about a set that gains or loses one
element (`OneMore`, `OneLess`, `Within`).

### Admin calls and listings (`ServiceProofs`, third part)

For any processes, rows and page sizes, either collection, any number of calls, tokens,
console writes and faults (`AdminCallsAssumption`):

- `CallsReportWhatTheyDid`: `AllSpec => []CallsAreHonest`;
- `PagesMissNothing`: `AllSpec => []ListingsAreWhole`.

That a call refreshes once and is sent twice at most says nothing about the next step of
one on its way; `Frugal` reads off how far a call is what it has left: before sending
nothing is spent, a call waiting to renew after a 401 has sent once and not refreshed,
one about to send again was refreshed or was refused a refresh early, and only an ended
call has written anything. `Strangers` extends the property's last clause to the
credential that is stored: a token of another console, held or stored, came by a sign-in
during the call. A listing is whole because a row that went never comes back, ids being
fresh, and because up to the cursor everything owed was shown and nothing behind it was
(`Owed`); a page that is shorter than it may be is all that was left
(`PageIsBeginning`, which needs the least row left out and counts the rows before it).

### Token verification (`ServiceProofs`, fourth part)

For any number of concurrent verifications and of keys, any token life, cache age and
cooldown, and a load's timeout shorter than the age at which the copy is loaded anew
(`KeySetAssumption`; 5 s and 10 minutes):

- `VerdictsAreRight`: `AllSpec => VerdictsStand`.

The invariant says what the copy is a copy of: what the OP published at some moment
between the load's request and its answer (`Reflects`), so no key in it was gone at the
request and no key missing from it had begun to sign by then (`Copies`); that a token
carries the times of its key (`Genuine`); how long a verification can have been at it
(`Prompt`): what is not waiting for a load takes no time, so one that began in a cooldown
never waits for a first load, and ends within a load's time; and what a verification that
no other load crossed has found so far (`Found`). The timeout matters to `DroppedByTheBook`: the operator waits for
the tokens of a key to expire and for the age of a copy on top before dropping it, so a
verification begun while its token lived must be over by then, and it may wait for a load.

### The service's run (`ServiceProofs`, last part)

Each step of `AllSpec` is one of a component's or leaves it alone, so a run of it is a run
of `Org`, of `AdminCalls` and of `KeySet` (`OrgRuns`, `AdminRuns`, `VerifierRuns`). The
theorems above about calls, listings and verification are stated for the run that checks
them, and `SeatsAreHeldInTheRun` carries `Org`'s over. `Reports` is in the run and has no
theorem.

### Flocks (`FlocksProofs`)

For any flocks, addresses, credentials, saves and tests in flight, any number of
rotations and any faults (`FlocksAssumption`):

- `TypeCorrect`: `Spec => []TypeOK`;
- `CredentialStays`: `Spec => []CredentialStaysWhereGiven`;
- `HealthOfConnection`: `Spec => []HealthIsOfConnection`;
- `RotationKeeps`: `Spec => []RotationKeepsCredentials`.

What a save decided under its row's lock must still hold at its write (`Editing`: the
row is locked by it, and its new connection does not move the credential). A
credential whose envelope is bound to its row was given for that row's address, with
no less trust (`Bound`); one in the clear is of its own row, and gone after the first
`migrate` (`Sealed`). `Deployed` says where a deploy stands: before `migrate`, every
key a running service seals under is among those it will hold, so it can open what they
save meanwhile; after it, every credential is under the current key, or strayed; when
it is done, the services hold the environment's ring.

### Consent (`ConsentProofs`)

For any tabs, browsers and paddocks, any number of approvals, revocations, changes of
role and faults (`ConsentAssumption`):

- `GrantsStand`: `Spec => []GrantsStandOnMints`;
- `TokensFollow`: `Spec => TokensFollowApproval`;
- `ScopesKept`: `Spec => ScopesAreKept`.

The invariant follows an approval from its assertion to the key. `CallsStand`: one that
is claimed and has not minted yet mints for the first time, however often it was sent;
one that never claimed has not minted. `KeysStand`: an active key names the approval
that made or rebound it, for its paddock and grant, and that approval's key was never
revoked. `FlowsStand` and `ScopesStand`: what an interaction has read, and what a grant
covers, was minted. `ReadsStand`: an interaction about to save a grant that no other one
had read is alone with it and has read all of it, so the save takes nothing away.
`CodesStand`: a code is issued only with its key there (`ProceedIInv`), for `/auth` as
for a resumed interaction, and whoever rebinds or revokes the key before the exchange
notes it in `disturbed`.

### CLI credentials (`CliProofs`)

For any processes, commands and sign-ins and any number of mishaps (`CliAssumption`):

- `CredentialCurrent`: `Spec => []StoreIsCurrent`.

The invariant follows a refresh token from the OP to the file. What is current at the OP
is at least as new as anything anybody holds (`AllIssued`); a token just answered
(`OwnToken`), or obtained by a sign-in that still waits for the lock (`OwnGrant`), is
known to its process alone; a process that sends the stored token is alone inside the
lock, or that token is already excused (`Alone`, `Unspent`). `Exclusive` is what holds as
long as two processes were never inside at once, and `Excludes` that they are not as long
as nothing went wrong: who is inside made the lock file that is there. A stale lock's
takeover spoils the token in the file, which is what the property excepts.

### Licence (`LicenseProofs`)

For any licences, seats and calls in flight, any number of instances, outages and
ticks (`LicenseAssumption`):

- `LicenceSeatsStand`: `Spec => []SeatsStand`.

An instance is of one licence for good, also after it was given back. A re-validation
may pair one licence's key with another's instance, in the row (`RowStands`) or in what a
call has read (`CallStands`), but seats and instance are always written together: the
seats are those of the instance's licence (`SeatsOfInstance`), and that licence is the
row's unless the write was recorded as both `mixed` and `outrun`. An answer "expired" is
only ever about a licence that has expired, and an expiry is for good, so neither an
outage nor an error's JSON body can take an active licence's status but as `misread`
says.

### The console's run (`ConsoleProofs`)

About three components, each for any values of its constants:

- `EditsAlwaysKept`: `Fencing!Spec => []EditsAreKept`;
- `OneSignInPerLogin`, `PasswordsBeginSessions`: `Console!Spec => []SignInsAreAsBegun`
  and `Console!Spec => SessionsAreProved`;
- `GuessesStayFew`: `Throttle!Spec => []GuessesAreFew`.

A fence's invariant adds that while there is none, no request has read one and nothing
was saved for it to forget (`Unfenced`): this is why the insert of a request that found
no fence loses nothing, and one that finds another's insert updates it. A template edit
that read what is still there writes the next list; if it read another, the two overlapped.

A sign-in's invariant says of each thing on the way to a session what stands behind it:
a code, a transaction whose password was typed if it was hinted, in the browser that
began it (`LinksStand`); a callback past its exchange, a password typed since the OP
session ended, or that it was in flight then (`CallbacksStand`). A transaction has one
callback at a time (`Alone`) and, once it signed in, neither a cookie nor a callback left
(`Over`), but for those recorded as overlapped.

The throttle's invariant counts: a wrong password tried in the bucket's window is one the
bucket has counted or a form is still verifying (`CountedOrTrying`); one tried after it is
still being verified (`LaterAreTrying`), or it would have begun the next bucket, for the
failure is recorded at the time the form came in; and what is counted was noted since the
bucket began (`CountedAreNoted`). `LaterAreTrying` is what makes the first two inductive
when a bucket gives way to another.

For the run as it is checked, `AllSpec`, the same follows because each of its steps is one
of a component's or leaves it alone: `EditsStayKept`, `SessionsFollowPasswords`,
`SignInsStayAsBegun`. So do `ApprovalsStand`, `TokensNameKeys`, `ScopesStayKept` (the
properties of both instances of `Consent`) and `LicencesStand`, from `ConsentProofs` and
`LicenseProofs`. The run instantiates `Consent` and the theorems come from an instance of
its proofs; the lemmas named `...Alike` show, definition by definition, that the two
instances name the same formulas.

### Model-checked only

The quota overshoot (a sum over a whole row, which takes induction over the fold), the
usage reports (`ReportsAgree`), which are sums too, and the tools
(`ToolsKeepTheirWord`), where a template's graph is a fold over its params. All liveness
stays with TLC: fairness and ENABLED are outside the prover's reach.

## 6. Not modelled

- Within the modelled parts: the dimensions and periods of `usage_rollup` in
  `Metering` (they are in `Reports`) and its 32-bit values: an hour of one key,
  paddock and dimension past 2^31-1 makes Postgres refuse the batch, which is the
  `db` fault; the in-memory limiter and job store (tests and development); a Redis
  that loses a rate-limit bucket, after which a full burst passes; image uploads (one
  refusal); `createPaddock`; the device flow's polling, of which the sign-in is one
  step; audience and issuer of a token, which are equality checks; the cipher.
- What is data: the translation of Ollama's request bodies and usage counters, the
  OpenAPI document, error wording, HTTP headers and URL rewriting, the JSON-RPC
  framing and the negotiation of its version.
- The React pages and server actions beyond those named (rendering), client metadata
  documents and the clean-up of expired OP rows, deployment (configuration).
- External: Redis, Postgres, oidc-provider, jose, Lemon Squeezy and the flocks are
  modelled as the code uses them.

## 7. Plan

Done: every component that keeps state has a module. Left, in order of worth:
the composition of `Consent` with `Org` (one user table under both) and of `License`
with `Org`'s seats; the device flow as a protocol; lemmas about the folds that the tools
are built from.
