------------------------------- MODULE Jobs -------------------------------
(***************************************************************************)
(* ComfyUI jobs: the submit flow (the breed's `handle') and the scoped     *)
(* result route (`jobResult'), over the flock's own queue and the job      *)
(* table.  A job is accepted in three awaited steps (submit upstream,      *)
(* record, meter); its result is metered by the poll that wins the         *)
(* compare-and-set on job.metered, before it answers.                      *)
(***************************************************************************)
EXTENDS Naturals, FiniteSets

CONSTANTS
    Submits,        \* submit requests
    Polls,          \* result requests in flight at a time
    KeyOf,          \* [Submits \cup Polls -> keys]: who asks (on one paddock)
    JobIds,         \* prompt ids the flock may answer
    NoId, NoOne,    \* no prompt id, no owner
    MaxReused,      \* bound on the prompt ids the flock answers again
    MaxFaults       \* bound on failed calls, lost replies and crashes

Callers == Submits \cup Polls

JobsAssumption ==
    /\ Submits \cap Polls = {} /\ IsFiniteSet(Polls)
    /\ NoId \notin JobIds
    /\ NoOne \notin {KeyOf[c] : c \in Callers}
    /\ {MaxReused, MaxFaults} \subseteq Nat

VARIABLES
    prompt,      \* [JobIds -> the flock's view: "none" | "running" | "completed" | "failed"]
    owner,       \* [JobIds -> the job row's key, or NoOne: no row]
    metered,     \* the job rows whose metered is true
    pc,          \* [Callers -> where the request is, or its answer]
    id,          \* [Callers -> the prompt id it holds or asks for]
    units,       \* [JobIds -> `jobs' events emitted]
    results,     \* [JobIds -> `images' and `gpu_ms' event pairs emitted]
    reused,      \* history: the prompt ids answered again
    unmetered,   \* history: [JobIds -> results claimed whose events were lost]
    faults

vars == <<prompt, reused, owner, metered, pc, id, units, results, unmetered, faults>>
flock == <<prompt, reused>>
rows == <<owner, metered>>
meters == <<units, results, unmetered>>

Init ==
    /\ prompt = [j \in JobIds |-> "none"]
    /\ reused = {}
    /\ owner = [j \in JobIds |-> NoOne]
    /\ metered = {}
    /\ pc = [c \in Callers |-> "idle"]
    /\ id = [c \in Callers |-> NoId]
    /\ units = [j \in JobIds |-> 0]
    /\ results = [j \in JobIds |-> 0]
    /\ unmetered = [j \in JobIds |-> 0]
    /\ faults = 0

Fault == faults < MaxFaults /\ faults' = faults + 1

Go(c, state) == pc' = [pc EXCEPT ![c] = state]

----------------------------------------------------------------------------
(* handle *)

\* The body, the template or its parameters are wrong (422, 404), or an image
\* upload fails (502): nothing was submitted.
Reject(s) ==
    /\ pc[s] = "idle"
    /\ Go(s, "refused")
    /\ UNCHANGED <<flock, rows, id, meters, faults>>

\* The flock queues the graph as prompt j.
Queue(j) ==
    /\ prompt' = [prompt EXCEPT ![j] = "running"]
    /\ reused' = IF prompt[j] = "none" THEN reused ELSE reused \cup {j}
    /\ Cardinality(reused') <= MaxReused

\* Mutation: an answer without a prompt id is taken for a job.
SubmitUnidentified(s, j) ==
    /\ pc[s] = "idle"
    /\ Queue(j)
    /\ Go(s, "create")
    /\ UNCHANGED <<id, rows, meters, faults>>

Submit(s, j) ==
    /\ pc[s] = "idle"
    /\ Queue(j)
    /\ Go(s, "create")
    /\ id' = [id EXCEPT ![s] = j]
    /\ UNCHANGED <<rows, meters, faults>>

\* No usable answer (502), whether or not the flock queued the graph.
SubmitFails(s, j) ==
    /\ pc[s] = "idle"
    /\ Fault
    /\ Go(s, "failed")
    /\ \/ Queue(j) /\ id' = [id EXCEPT ![s] = j]
       \/ UNCHANGED <<flock, id>>
    /\ UNCHANGED <<rows, meters>>

\* Mutation: the in-memory store's create, which overwrites the row.
InsertOver(s) == owner' = [owner EXCEPT ![id[s]] = KeyOf[s]]

\* jobStore.create: a prompt id that has a row keeps it, owner and metered alike.
Insert(s) == owner' = [owner EXCEPT ![id[s]] = IF @ = NoOne THEN KeyOf[s] ELSE @]

\* Mutation: the job is recorded after the answer, by nobody.
CreateSkipped(s) ==
    /\ pc[s] = "create"
    /\ Go(s, "meter")
    /\ UNCHANGED <<flock, rows, id, meters, faults>>

Create(s) ==
    /\ pc[s] = "create"
    /\ Insert(s)
    /\ Go(s, "meter")
    /\ UNCHANGED <<flock, metered, id, meters, faults>>

\* The insert throws, and the request with it; it may have committed.
CreateFails(s) ==
    /\ pc[s] = "create"
    /\ Fault
    /\ Insert(s) \/ UNCHANGED owner
    /\ Go(s, "failed")
    /\ UNCHANGED <<flock, metered, id, meters>>

\* One `jobs' event; emitMeter swallows a failure.  Then 202.
MeterUnit(s) ==
    /\ pc[s] = "meter"
    /\ units' = [units EXCEPT ![id[s]] = @ + 1]
    /\ Go(s, "accepted")
    /\ UNCHANGED <<flock, rows, id, results, unmetered, faults>>

MeterUnitLost(s) ==
    /\ pc[s] = "meter"
    /\ Fault
    /\ Go(s, "accepted")
    /\ UNCHANGED <<flock, rows, id, meters>>

----------------------------------------------------------------------------
(* jobResult *)

\* Mutation: any key may ask for any job.
GetAnyones(p, j) ==
    /\ pc[p] \in {"idle", "404", "pending", "done", "failed"}
    /\ id' = [id EXCEPT ![p] = j]
    /\ Go(p, "fetch")
    /\ UNCHANGED <<flock, rows, meters, faults>>

\* The job row, which must exist and be this key's (404 otherwise).
Get(p, j) ==
    /\ pc[p] \in {"idle", "404", "pending", "done", "failed"}
    /\ id' = [id EXCEPT ![p] = j]
    /\ Go(p, IF owner[j] = KeyOf[p] THEN "fetch" ELSE "404")
    /\ UNCHANGED <<flock, rows, meters, faults>>

\* The flock's history.  A failed or failing prompt is never `completed'.
Fetch(p) ==
    /\ pc[p] = "fetch"
    /\ Go(p, IF prompt[id[p]] = "completed" THEN "mark" ELSE "pending")
    /\ UNCHANGED <<flock, rows, id, meters, faults>>

\* A flock that cannot be reached is a job that is not done.
FetchFails(p) ==
    /\ pc[p] = "fetch"
    /\ Fault
    /\ Go(p, "pending")
    /\ UNCHANGED <<flock, rows, id, meters>>

\* Mutation: markMetered without "AND metered = false".
MarkAlwaysWins(j) == owner[j] # NoOne

\* markMetered: UPDATE ... WHERE metered = false RETURNING id.
MarkWins(j) == owner[j] # NoOne /\ j \notin metered

Mark(p) ==
    /\ pc[p] = "mark"
    /\ metered' = metered \cup (IF MarkWins(id[p]) THEN {id[p]} ELSE {})
    /\ Go(p, IF MarkWins(id[p]) THEN "emit" ELSE "done")
    /\ UNCHANGED <<flock, owner, id, meters, faults>>

\* The update throws (500); it may have committed, and then no poll will win.
MarkFails(p) ==
    /\ pc[p] = "mark"
    /\ Fault
    /\ \/ UNCHANGED <<metered, unmetered>>
       \/ /\ MarkWins(id[p])
          /\ metered' = metered \cup {id[p]}
          /\ unmetered' = [unmetered EXCEPT ![id[p]] = @ + 1]
    /\ Go(p, "failed")
    /\ UNCHANGED <<flock, owner, id, units, results>>

Emit(p) ==
    /\ pc[p] = "emit"
    /\ results' = [results EXCEPT ![id[p]] = @ + 1]
    /\ Go(p, "done")
    /\ UNCHANGED <<flock, rows, id, units, unmetered, faults>>

EmitLost(p) ==
    /\ pc[p] = "emit"
    /\ Fault
    /\ unmetered' = [unmetered EXCEPT ![id[p]] = @ + 1]
    /\ Go(p, "done")
    /\ UNCHANGED <<flock, rows, id, units, results>>

----------------------------------------------------------------------------
\* The data plane dies under every request it is serving.
Serving == {"create", "meter", "fetch", "mark", "emit"}
Crash ==
    /\ Fault
    /\ \E c \in Callers : pc[c] \in Serving
    /\ pc' = [c \in Callers |-> IF pc[c] \in Serving THEN "failed" ELSE pc[c]]
    /\ unmetered' = [j \in JobIds |->
          unmetered[j] + Cardinality({p \in Polls : pc[p] = "emit" /\ id[p] = j})]
    /\ UNCHANGED <<flock, rows, id, units, results>>

FlockRuns(j, outcome) ==
    /\ prompt[j] = "running"
    /\ prompt' = [prompt EXCEPT ![j] = outcome]
    /\ UNCHANGED <<reused, rows, pc, id, meters, faults>>

Submission(s) ==
    \/ Reject(s) \/ (\E j \in JobIds : Submit(s, j) \/ SubmitFails(s, j))
    \/ Create(s) \/ CreateFails(s) \/ MeterUnit(s) \/ MeterUnitLost(s)
Poll(p) ==
    \/ \E j \in JobIds : Get(p, j)
    \/ Fetch(p) \/ FetchFails(p) \/ Mark(p) \/ MarkFails(p) \/ Emit(p) \/ EmitLost(p)

Next ==
    \/ \E s \in Submits : Submission(s)
    \/ \E p \in Polls : Poll(p)
    \/ Crash
    \/ \E j \in JobIds, outcome \in {"completed", "failed"} : FlockRuns(j, outcome)

Spec == Init /\ [][Next]_vars

----------------------------------------------------------------------------
(* Properties *)

TypeOK ==
    /\ prompt \in [JobIds -> {"none", "running", "completed", "failed"}]
    /\ reused \subseteq JobIds
    /\ owner \in [JobIds -> {KeyOf[s] : s \in Submits} \cup {NoOne}]
    /\ metered \subseteq {j \in JobIds : owner[j] # NoOne}
    /\ pc \in [Callers -> {"idle", "refused", "create", "meter", "accepted", "failed",
                           "404", "fetch", "pending", "mark", "emit", "done"}]
    /\ id \in [Callers -> JobIds \cup {NoId}]
    /\ \A c \in Callers : pc[c] \in Serving \cup {"accepted", "done"} => id[c] \in JobIds
    /\ units \in [JobIds -> Nat]
    /\ results \in [JobIds -> Nat]
    /\ unmetered \in [JobIds -> Nat]
    /\ faults \in 0..MaxFaults

\* A job's result is claimed once, and each claim is emitted, about to be, or
\* known to be lost: concurrent polls, crashes and a prompt id answered twice
\* never meter it again (markMetered, and the insert that never resets metered).
Claims(j) == {p \in Polls : pc[p] = "emit" /\ id[p] = j}
ResultClaimedOnce ==
    \A j \in JobIds :
        results[j] + Cardinality(Claims(j)) + unmetered[j] = IF j \in metered THEN 1 ELSE 0

\* Nobody is told a job is done before its result is claimed for metering, and
\* only the key that owns the job is told.
DoneIsClaimed ==
    \A p \in Polls : pc[p] = "done" => id[p] \in metered /\ owner[id[p]] = KeyOf[p]

\* A finished job's result is metered once: never before anyone knows of it, and
\* never again, to however many polls its owner is told it is done.
DoneIsMeteredOnce == ResultClaimedOnce /\ DoneIsClaimed

\* A job row keeps its owner, and stays metered, whatever the flock answers.
RowsAreKept ==
    [][\A j \in JobIds : owner[j] # NoOne =>
          owner'[j] = owner[j] /\ (j \in metered => j \in metered')]_vars

\* A caller told 202 owns the job it was given, unless the flock gave its prompt
\* id before; a prompt that runs for nobody comes from a request that failed.
AcceptedIsOwned ==
    /\ \A s \in Submits :
          pc[s] = "accepted" /\ id[s] \notin reused => owner[id[s]] = KeyOf[s]
    /\ \A j \in JobIds : prompt[j] # "none" /\ owner[j] = NoOne =>
          \E s \in Submits : id[s] = j /\ pc[s] \in {"create", "failed"}

\* A job is its submitter's, from the prompt the flock queued to the one event that
\* bills its result.
JobsAreOwned == AcceptedIsOwned /\ DoneIsMeteredOnce
=============================================================================
