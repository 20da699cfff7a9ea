------------------------------ MODULE Metering ------------------------------
(***************************************************************************)
(* Usage metering, from the request that spends to the row that bills.     *)
(*                                                                         *)
(*   data plane  --XADD-->  Redis stream  --XREADGROUP-->  worker          *)
(*   (pipeline.ts,          (one consumer                  (worker.ts,     *)
(*    redis-meter-sink.ts)   group, "rollup")               consumer.ts,   *)
(*        ^                                                 aggregator.ts) *)
(*        |  quota check                                        |          *)
(*        +---------------- usage_rollup (Postgres) <--upsert---+          *)
(*                                                                         *)
(* A meter event is a model value of unit value; every event of a paddock  *)
(* falls in one usage_rollup row (one key, one dimension, one period), so  *)
(* a row is named by its paddock.  A row is kept as the entries summed     *)
(* into it: counted[i] is how many times stream entry i was added, and the *)
(* row's value is Usage(p).  Stream ids are positions in the log of every  *)
(* XADD ever made.                                                         *)
(***************************************************************************)
EXTENDS Naturals, Sequences, FiniteSets, FiniteSetsExt

CONSTANTS
    Events,      \* meter events, one per metered request
    Paddocks,    \* paddocks, one rollup row each
    PaddockOf,   \* the paddock a request, hence its event, is for
    Workers,     \* worker processes in the consumer group
    BatchMax,    \* COUNT of XREADGROUP (100 in processOnce)
    MaxLen,      \* MAXLEN ~ of XADD (100000 by default)
    QuotaMax,    \* the fence's quota rule: refuse at or above this usage
    Deletable,   \* paddocks an operator may delete while the model runs
    Faults,      \* which faults may happen: see FaultKinds
    FaultBound   \* how many faults a behaviour may contain

FaultKinds == {
    "crash",     \* a worker process dies, at any point
    "emit",      \* the data plane dies, or its XADD fails, before Redis has the entry
    "resend",    \* the XADD reply is lost and the client library sends it again
    "reply",     \* the XREADGROUP reply is lost; Redis has already delivered
    "db",        \* the rollup transaction fails, or commits and its reply is lost
    "ack",       \* XACK fails, before or after Redis ran it
    "redis" }    \* Redis restarts without its data

ASSUME MeteringAssumption ==
    /\ PaddockOf \in [Events -> Paddocks]
    /\ BatchMax \in Nat \ {0}
    /\ MaxLen \in Nat
    /\ QuotaMax \in Nat
    /\ Deletable \subseteq Paddocks
    /\ Faults \subseteq FaultKinds
    /\ FaultBound \in Nat

VARIABLES
    request,     \* [Events -> "idle" | "refused" | "pending" | "sent" | "lost"]
    log,         \* the event of every entry ever added to the stream, in order
    trimmed,     \* entries 1..trimmed are no longer in the stream
    group,       \* does the consumer group exist?
    delivered,   \* the group's last-delivered id
    pel,         \* the group's pending entries: delivered, not acknowledged
    given,       \* history: entries delivered to some worker by this group
    pc,          \* [Workers -> "down" | "read" | "apply" | "ack"]
    batch,       \* [Workers -> the entry ids the worker holds in memory]
    counted,     \* [entry id -> times added to its usage_rollup row]
    live,        \* paddocks that exist in the database
    lag,         \* history: the uncounted events when a paddock last admitted
    faults       \* faults so far

vars == <<request, log, trimmed, group, delivered, pel, given, pc, batch,
          counted, live, lag, faults>>

stream == <<log, trimmed, group, delivered, pel, given>>

Entries == 1..Len(log)
PaddockOfEntry(i) == PaddockOf[log[i]]

Init ==
    /\ request = [e \in Events |-> "idle"]
    /\ log = <<>>
    /\ trimmed = 0
    /\ group = FALSE
    /\ delivered = 0
    /\ pel = {}
    /\ given = {}
    /\ pc = [w \in Workers |-> "down"]
    /\ batch = [w \in Workers |-> {}]
    /\ counted = [i \in {} |-> 0]
    /\ live = Paddocks
    /\ lag = [p \in Paddocks |-> {}]
    /\ faults = 0

Fault(kind) ==
    /\ kind \in Faults
    /\ faults < FaultBound
    /\ faults' = faults + 1

----------------------------------------------------------------------------
(* The data plane *)

\* The quota window's usage: the sum over the paddock's rollup rows.
Usage(p) ==
    MapThenSumSet(LAMBDA i : counted[i], {i \in Entries : PaddockOfEntry(i) = p})

\* Spend of a paddock that was admitted and is in no row (yet, or ever).
Uncounted(p) ==
    {e \in Events : /\ PaddockOf[e] = p
                    /\ request[e] \in {"pending", "sent", "lost"}
                    /\ \A i \in Entries : log[i] = e => counted[i] = 0}

\* Mutation: the quota rule lets a request through at the cap.
AdmitAtTheCap(e) ==
    /\ request[e] = "idle"
    /\ Usage(PaddockOf[e]) <= QuotaMax
    /\ request' = [request EXCEPT ![e] = "pending"]
    /\ lag' = [lag EXCEPT ![PaddockOf[e]] = Uncounted(PaddockOf[e])]
    /\ UNCHANGED <<stream, pc, batch, counted, live, faults>>

\* Pipeline.limits passes: the rollup is read and is below the cap, so the
\* request goes upstream and its event is handed to the sink, unawaited.  The
\* config cache may still serve a deleted paddock, whose rows then sum to 0.
Admit(e) ==
    LET p == PaddockOf[e] IN
    /\ request[e] = "idle"
    /\ Usage(p) < QuotaMax
    /\ request' = [request EXCEPT ![e] = "pending"]
    /\ lag' = [lag EXCEPT ![p] = Uncounted(p)]
    /\ UNCHANGED <<stream, pc, batch, counted, live, faults>>

\* 429 quota exceeded.
Refuse(e) ==
    /\ request[e] = "idle"
    /\ Usage(PaddockOf[e]) >= QuotaMax
    /\ request' = [request EXCEPT ![e] = "refused"]
    /\ UNCHANGED <<stream, pc, batch, counted, live, lag, faults>>

\* XADD with MAXLEN ~: the stream grows by one entry, and Redis may cut old
\* entries off as long as MaxLen of them remain.
XAdd(e) ==
    /\ log' = Append(log, e)
    /\ counted' = [i \in 1..(Len(log) + 1) |-> IF i \in Entries THEN counted[i] ELSE 0]
    /\ trimmed' \in {trimmed} \cup {n \in trimmed..(Len(log) + 1) : Len(log) + 1 - n >= MaxLen}
    /\ UNCHANGED <<group, delivered, pel, given>>

Emit(e) ==
    /\ request[e] = "pending"
    /\ request' = [request EXCEPT ![e] = "sent"]
    /\ XAdd(e)
    /\ UNCHANGED <<pc, batch, live, lag, faults>>

\* The entry is in the stream but the reply is lost: the event stays
\* unfulfilled in the client, which sends the same XADD again on reconnecting.
EmitUnanswered(e) ==
    /\ request[e] = "pending"
    /\ Fault("resend")
    /\ XAdd(e)
    /\ UNCHANGED <<request, pc, batch, live, lag>>

\* emitScoped swallows a failed emit; a dying process takes `pending` with it.
EmitLost(e) ==
    /\ request[e] = "pending"
    /\ Fault("emit")
    /\ request' = [request EXCEPT ![e] = "lost"]
    /\ UNCHANGED <<stream, pc, batch, counted, live, lag>>

----------------------------------------------------------------------------
(* The worker *)

\* main: ensureGroup, then the loop.  XGROUP CREATE at "$" starts the group
\* after the last entry; an existing group answers BUSYGROUP and is kept.
Boot(w) ==
    /\ pc[w] = "down"
    /\ pc' = [pc EXCEPT ![w] = "read"]
    /\ group' = TRUE
    /\ delivered' = IF group THEN delivered ELSE Len(log)
    /\ UNCHANGED <<request, log, trimmed, pel, given, batch, counted, live, lag, faults>>

\* What XREADGROUP ... ">" delivers next: entries after the last delivered one
\* that are still in the stream, BatchMax of them at most.
NextFirst == IF delivered < trimmed THEN trimmed + 1 ELSE delivered + 1
\* Mutation: a batch is as long as COUNT, whether or not the stream is.
NextLastIsCount == NextFirst + BatchMax - 1
NextLast == IF Len(log) < NextFirst + BatchMax - 1 THEN Len(log) ELSE NextFirst + BatchMax - 1
\* Mutation: a read gets the pending entries again, as with id "0".
NextBatchRereads == pel \cup (NextFirst..NextLast)
NextBatch == NextFirst..NextLast

Deliver ==
    /\ group
    /\ NextBatch # {}
    /\ delivered' = NextLast
    /\ pel' = pel \cup NextBatch
    /\ given' = given \cup NextBatch
    /\ UNCHANGED <<log, trimmed, group>>

\* readBatch.  With no group (NOGROUP) or nothing to read the cycle changes
\* nothing: the loop logs the error, or returns 0, and comes round again.
Read(w) ==
    /\ pc[w] = "read"
    /\ Deliver
    /\ pc' = [pc EXCEPT ![w] = "apply"]
    /\ batch' = [batch EXCEPT ![w] = NextBatch]
    /\ UNCHANGED <<request, counted, live, lag, faults>>

\* Redis delivered, the worker never heard: the resent read gets later entries.
ReadUnanswered(w) ==
    /\ pc[w] = "read"
    /\ Fault("reply")
    /\ Deliver
    /\ UNCHANGED <<request, pc, batch, counted, live, lag>>

\* The transaction of applyEvents: one additive upsert per event, all or none.
\* usage_rollup's foreign keys refuse an event whose paddock has been deleted.
\* Mutation: usage_rollup has no foreign key on the paddock.
CanCommitUnreferenced(w) == batch[w] # {}
CanCommit(w) == \A i \in batch[w] : PaddockOfEntry(i) \in live
\* Mutation: of a batch's events on one row, only the last is added.
CommitLastOfRow(w) ==
    counted' = [i \in Entries |->
        IF i \in batch[w] /\ \A j \in batch[w] : PaddockOfEntry(i) = PaddockOfEntry(j) => j <= i
          THEN counted[i] + 1 ELSE counted[i]]
Commit(w) ==
    counted' = [i \in Entries |-> IF i \in batch[w] THEN counted[i] + 1 ELSE counted[i]]

Apply(w) ==
    /\ pc[w] = "apply"
    /\ CanCommit(w)
    /\ Commit(w)
    /\ pc' = [pc EXCEPT ![w] = "ack"]
    /\ UNCHANGED <<request, stream, batch, live, lag, faults>>

\* The loop's catch: the batch is forgotten, and the next cycle reads on.
NextCycle(w) ==
    /\ pc' = [pc EXCEPT ![w] = "read"]
    /\ batch' = [batch EXCEPT ![w] = {}]

\* Mutations: the refusal is swallowed and the batch acknowledged; or the same
\* batch is tried again until it commits.
ApplyRefusalAcked(w) ==
    /\ pc[w] = "apply"
    /\ ~CanCommit(w)
    /\ pc' = [pc EXCEPT ![w] = "ack"]
    /\ UNCHANGED <<request, stream, batch, counted, live, lag, faults>>
ApplyRetried(w) ==
    /\ pc[w] = "apply"
    /\ ~CanCommit(w)
    /\ UNCHANGED vars

ApplyRefused(w) ==
    /\ pc[w] = "apply"
    /\ ~CanCommit(w)
    /\ NextCycle(w)
    /\ UNCHANGED <<request, stream, counted, live, lag, faults>>

\* The database fails the transaction, or commits it and the reply is lost.
ApplyFails(w) ==
    /\ pc[w] = "apply"
    /\ Fault("db")
    /\ UNCHANGED counted \/ (CanCommit(w) /\ Commit(w))
    /\ NextCycle(w)
    /\ UNCHANGED <<request, stream, live, lag>>

\* XACK.
Ack(w) ==
    /\ pc[w] = "ack"
    /\ pel' = pel \ batch[w]
    /\ NextCycle(w)
    /\ UNCHANGED <<request, log, trimmed, group, delivered, given, counted, live, lag, faults>>

AckFails(w) ==
    /\ pc[w] = "ack"
    /\ Fault("ack")
    /\ pel' \in {pel, pel \ batch[w]}
    /\ NextCycle(w)
    /\ UNCHANGED <<request, log, trimmed, group, delivered, given, counted, live, lag>>

Crash(w) ==
    /\ pc[w] # "down"
    /\ Fault("crash")
    /\ pc' = [pc EXCEPT ![w] = "down"]
    /\ batch' = [batch EXCEPT ![w] = {}]
    /\ UNCHANGED <<request, stream, counted, live, lag>>

----------------------------------------------------------------------------
(* The environment *)

\* deletePaddock: the cascade drops the paddock's usage_rollup rows.
DeletePaddock(p) ==
    /\ p \in live \cap Deletable
    /\ live' = live \ {p}
    /\ counted' = [i \in Entries |-> IF PaddockOfEntry(i) = p THEN 0 ELSE counted[i]]
    /\ UNCHANGED <<request, stream, pc, batch, lag, faults>>

\* The stream and its group are gone; the log keeps what was in it.
RedisRestart ==
    /\ Fault("redis")
    /\ trimmed' = Len(log)
    /\ group' = FALSE
    /\ delivered' = Len(log)
    /\ pel' = {}
    /\ given' = {}
    /\ UNCHANGED <<request, log, pc, batch, counted, live, lag>>

DataPlane(e) == Admit(e) \/ Refuse(e) \/ Emit(e) \/ EmitUnanswered(e) \/ EmitLost(e)
Worker(w) == \/ Boot(w) \/ Read(w) \/ ReadUnanswered(w) \/ Apply(w) \/ ApplyRefused(w)
             \/ ApplyFails(w) \/ Ack(w) \/ AckFails(w) \/ Crash(w)

Next ==
    \/ \E e \in Events : DataPlane(e)
    \/ \E w \in Workers : Worker(w)
    \/ \E p \in Paddocks : DeletePaddock(p)
    \/ RedisRestart

Spec == Init /\ [][Next]_vars

\* What the code's scheduling gives: a started emit finishes, `restart:
\* unless-stopped` brings a worker back, and its loop never stops by itself.
Cycle(w) == Boot(w) \/ Read(w) \/ Apply(w) \/ ApplyRefused(w) \/ Ack(w)
Fairness ==
    /\ \A e \in Events : WF_vars(Emit(e))
    /\ \A w \in Workers : WF_vars(Cycle(w))
FairSpec == Spec /\ Fairness

----------------------------------------------------------------------------
(* Properties *)

TypeOK ==
    /\ request \in [Events -> {"idle", "refused", "pending", "sent", "lost"}]
    /\ log \in Seq(Events)
    /\ trimmed \in 0..Len(log)
    /\ group \in BOOLEAN
    /\ delivered \in 0..Len(log)
    /\ pel \subseteq Entries
    /\ given \subseteq Entries
    /\ pc \in [Workers -> {"down", "read", "apply", "ack"}]
    /\ batch \in [Workers -> SUBSET Entries]
    /\ counted \in [Entries -> Nat]
    /\ live \subseteq Paddocks
    /\ lag \in [Paddocks -> SUBSET Events]
    /\ faults \in 0..FaultBound

\* No stream entry is ever summed into usage_rollup twice, whatever crashes,
\* lost replies and failed acknowledgements happen: the additive upsert of
\* applyEvents is not idempotent, so a second application would over-bill.
CountedAtMostOnce == \A i \in Entries : counted[i] <= 1

\* An entry leaves the pending list only when its row holds it (or its paddock
\* is gone): processOnce acknowledges after the commit, never before.
AckedOnlyIfCounted ==
    \A i \in given \ pel : counted[i] = 1 \/ PaddockOfEntry(i) \notin live

\* A row passes its quota by no more than what was spent but not counted when
\* its last request was admitted (pipeline.ts, limits: "bounded by worker lag").
QuotaOvershootIsLag ==
    \A p \in Paddocks : Usage(p) <= QuotaMax + Cardinality(lag[p])

\* While every XADD is answered, the rollup is a faithful ledger: each admitted
\* event is billed at most once, after it was spent, and never to a paddock that
\* is gone.  (A lost XADD reply puts one event in the stream twice.)
Ledger == INSTANCE UsageLedger WITH
    spent <- {e \in Events : request[e] \in {"pending", "sent", "lost"}},
    billed <- [e \in Events |->
                 MapThenSumSet(LAMBDA i : counted[i], {i \in Entries : log[i] = e})],
    open <- live
ImplementsLedger == Ledger!Spec

\* Every entry the group was given is eventually counted, or its paddock is
\* deleted: a worker crash redelivers the batch, and never under-counts
\* (worker.ts, processOnce).
NeverUnderCounts ==
    \A e \in Events :
        (\E i \in given : log[i] = e)
          ~> (\E i \in Entries : log[i] = e /\ (counted[i] = 1 \/ PaddockOf[e] \notin live))

\* The stream is never stuck: while Redis keeps its data, each entry is sooner
\* or later handed to a worker, skipped by a new group or trimmed, whatever
\* batch fails before it.
StreamDrains ==
    \A e \in Events :
        (request[e] = "sent")
          ~> (group /\ \A i \in Entries : log[i] = e => i <= delivered \/ i <= trimmed)
=============================================================================
