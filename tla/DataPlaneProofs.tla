-------------------------- MODULE DataPlaneProofs --------------------------
(***************************************************************************)
(* Proofs about what the DataPlane run checks: the jobs, the rate limiter, *)
(* the gates of a request and the configuration cache, each for any values *)
(* of its constants that its assumption allows.                            *)
(*                                                                         *)
(* Of Jobs: any submits and polls, any keys and prompt ids, any number of  *)
(* prompt ids the flock answers again and any faults.                      *)
(***************************************************************************)
EXTENDS MCDataPlane, Sequences, FiniteSetTheorems, NaturalsInduction, TLAPS

(***************************************************************************)
(* The inductive invariant.  That an accepted job is its caller's rests on *)
(* a prompt id that is not reused being one submit's alone, and having no  *)
(* row until that submit inserts it; that a result is claimed once, on     *)
(* every claim being held by a poll that holds the job's own key.          *)
(***************************************************************************)
Unqueued ==
    \A j \in JobIds : prompt[j] = "none" => owner[j] = NoOne /\ \A s \in Submits : id[s] # j

Distinct ==
    \A s, t \in Submits : s # t /\ id[s] = id[t] /\ id[s] \in JobIds => id[s] \in reused

Inserting ==
    \A s \in Submits : id[s] \notin reused =>
        /\ pc[s] = "create" => owner[id[s]] = NoOne
        /\ pc[s] \in {"meter", "accepted"} => owner[id[s]] = KeyOf[s]

Orphans ==
    \A j \in JobIds : prompt[j] # "none" /\ owner[j] = NoOne =>
        \E s \in Submits : id[s] = j /\ pc[s] \in {"create", "failed"}

Owning == Unqueued /\ Distinct /\ Inserting /\ Orphans

Asked ==
    \A p \in Polls :
        /\ pc[p] \in {"fetch", "mark", "emit", "done"} => owner[id[p]] = KeyOf[p]
        /\ pc[p] \in {"emit", "done"} => id[p] \in metered

Claiming == Asked /\ ResultClaimedOnce

IInv == TypeOK /\ Owning /\ Claiming

\* The invariant says what the runs check.
LEMMA IInvJobsAreOwned == IInv => JobsAreOwned
BY DEF IInv, Owning, Inserting, Orphans, Claiming, Asked, JobsAreOwned, AcceptedIsOwned,
       DoneIsMeteredOnce, DoneIsClaimed

\* Finitely many polls hold a job's claim.
LEMMA ClaimsFinite ==
  ASSUME JobsAssumption, NEW j
  PROVE  IsFiniteSet(Claims(j)) /\ Cardinality(Claims(j)) \in Nat
BY FS_Subset, FS_CardinalityType DEF JobsAssumption, Claims

\* Nothing is queued and nobody asks at first.
LEMMA InitIInv == ASSUME JobsAssumption, Init PROVE IInv
<1> USE DEF Init, JobsAssumption
<1>1. TypeOK
  BY DEF TypeOK, Serving
<1>2. Owning
  BY DEF Owning, Unqueued, Distinct, Inserting, Orphans, Callers
<1>3. ASSUME NEW j \in JobIds
      PROVE  results[j] + Cardinality(Claims(j)) + unmetered[j] = 0
  <2>1. Claims(j) = {}
    BY DEF Claims, Callers
  <2>2. QED
    BY <2>1, FS_EmptySet
<1>4. Claiming
  BY <1>3 DEF Claiming, Asked, ResultClaimedOnce, Callers
<1>5. QED
  BY <1>1, <1>2, <1>4 DEF IInv

(***************************************************************************)
(* A poll leaves what submits own alone, and a submit what polls claim.    *)
(***************************************************************************)
LEMMA PollFrame ==
  ASSUME Owning, UNCHANGED <<flock, owner>>,
         \A s \in Submits : pc'[s] = pc[s] /\ id'[s] = id[s]
  PROVE  Owning'
BY DEF Owning, Unqueued, Distinct, Inserting, Orphans, flock

LEMMA SubmitFrame ==
  ASSUME JobsAssumption, TypeOK, Claiming, UNCHANGED <<metered, results, unmetered>>,
         \A j \in JobIds : owner[j] # NoOne => owner'[j] = owner[j],
         \A p \in Polls : pc'[p] = pc[p] /\ id'[p] = id[p]
  PROVE  Claiming'
<1>1. Asked'
  <2> SUFFICES ASSUME NEW p \in Polls
               PROVE  /\ pc[p] \in {"fetch", "mark", "emit", "done"} => owner'[id[p]] = KeyOf[p]
                      /\ pc[p] \in {"emit", "done"} => id[p] \in metered
    BY DEF Asked
  <2>1. pc[p] \in {"fetch", "mark", "emit", "done"} => id[p] \in JobIds
    BY DEF TypeOK, Serving, Callers
  <2>2. KeyOf[p] # NoOne
    BY DEF JobsAssumption, Callers
  <2>3. QED
    BY <2>1, <2>2 DEF Claiming, Asked
<1>2. ResultClaimedOnce'
  <2>1. \A j \in JobIds : Claims(j)' = Claims(j)
    BY DEF Claims
  <2>2. QED
    BY <2>1 DEF Claiming, ResultClaimedOnce
<1>3. QED
  BY <1>1, <1>2 DEF Claiming

(***************************************************************************)
(* Submits.                                                                *)
(***************************************************************************)
\* The flock queues the graph: for s alone, unless the id had been given before.
LEMMA QueueOwning ==
  ASSUME JobsAssumption, IInv, NEW s \in Submits, NEW j \in JobIds, pc[s] = "idle",
         Queue(j), id' = [id EXCEPT ![s] = j], UNCHANGED owner,
         NEW to \in {"create", "failed"}, Go(s, to)
  PROVE  Owning'
<1> USE DEF IInv, Owning, Queue, Go
<1>1. /\ id' \in [Callers -> JobIds \cup {NoId}] /\ s \in Callers
      /\ id'[s] = j /\ pc'[s] = to
      /\ \A t \in Submits \ {s} : id'[t] = id[t] /\ pc'[t] = pc[t]
  BY DEF TypeOK, Callers
<1>2. /\ prompt'[j] = "running" /\ \A i \in JobIds \ {j} : prompt'[i] = prompt[i]
      /\ reused \subseteq reused' /\ (prompt[j] # "none" => j \in reused')
  BY DEF TypeOK
<1>3. Unqueued'
  BY <1>1, <1>2 DEF Unqueued
<1>4. Distinct'
  BY <1>1, <1>2 DEF Distinct, Unqueued
<1>5. Inserting'
  BY <1>1, <1>2 DEF Inserting, Unqueued
<1>6. Orphans'
  BY <1>1, <1>2 DEF Orphans
<1>7. QED
  BY <1>3, <1>4, <1>5, <1>6

\* A submit that moves without a queue and without a row.
LEMMA MoveOwning ==
  ASSUME JobsAssumption, IInv, NEW s \in Submits, UNCHANGED <<flock, owner, id>>,
         NEW to \in {"refused", "accepted", "failed"}, Go(s, to),
         \/ pc[s] = "idle" /\ to \in {"refused", "failed"}
         \/ pc[s] = "create" /\ to = "failed"
         \/ pc[s] = "meter" /\ to = "accepted"
  PROVE  Owning'
<1> USE DEF IInv, Owning, Go, flock
<1>1. pc'[s] = to /\ \A t \in Submits \ {s} : pc'[t] = pc[t]
  BY DEF TypeOK, Callers
<1>2. Unqueued' /\ Distinct'
  BY DEF Unqueued, Distinct
<1>3. Inserting'
  BY <1>1 DEF Inserting
<1>4. Orphans'
  <2> SUFFICES ASSUME NEW j \in JobIds, prompt[j] # "none", owner[j] = NoOne
               PROVE  \E t \in Submits : id[t] = j /\ pc'[t] \in {"create", "failed"}
    BY DEF Orphans
  <2>1. PICK t \in Submits : id[t] = j /\ pc[t] \in {"create", "failed"}
    BY DEF Orphans
  <2>2. CASE t # s
    BY <1>1, <2>1, <2>2
  <2>3. CASE t = s
    BY <1>1, <2>1, <2>3
  <2>4. QED
    BY <2>2, <2>3
<1>5. QED
  BY <1>2, <1>3, <1>4

\* The row is the submit's own, unless the flock has answered its id to another.
LEMMA InsertOwning ==
  ASSUME JobsAssumption, IInv, NEW s \in Submits, pc[s] = "create", Insert(s),
         UNCHANGED <<flock, id>>, NEW to \in {"meter", "failed"}, Go(s, to)
  PROVE  /\ Owning'
         /\ \A j \in JobIds : owner[j] # NoOne => owner'[j] = owner[j]
         /\ owner' \in [JobIds -> {KeyOf[t] : t \in Submits} \cup {NoOne}]
<1> USE DEF IInv, Owning, Insert, Go, flock
<1>1. /\ id[s] \in JobIds /\ KeyOf[s] # NoOne
      /\ pc'[s] = to /\ \A t \in Submits \ {s} : pc'[t] = pc[t]
  BY DEF TypeOK, Serving, Callers, JobsAssumption
<1>2. /\ owner' \in [JobIds -> {KeyOf[t] : t \in Submits} \cup {NoOne}]
      /\ owner'[id[s]] = IF owner[id[s]] = NoOne THEN KeyOf[s] ELSE owner[id[s]]
      /\ \A j \in JobIds \ {id[s]} : owner'[j] = owner[j]
  BY <1>1 DEF TypeOK
<1>3. \A j \in JobIds : owner[j] # NoOne => owner'[j] = owner[j]
  BY <1>2
<1>4. Unqueued'
  BY <1>2, <1>1 DEF Unqueued
<1>5. Distinct'
  BY DEF Distinct
<1>6. Inserting'
  <2> SUFFICES ASSUME NEW t \in Submits, id[t] \notin reused
               PROVE  /\ pc'[t] = "create" => owner'[id[t]] = NoOne
                      /\ pc'[t] \in {"meter", "accepted"} => owner'[id[t]] = KeyOf[t]
    BY DEF Inserting
  <2>1. CASE t = s
    BY <1>1, <1>2, <2>1 DEF Inserting
  <2>2. CASE t # s
    <3>1. pc[t] \in {"create", "meter", "accepted"} => id[t] \in JobIds \ {id[s]}
      BY <1>1, <2>2 DEF Distinct, TypeOK, Serving, Callers
    <3>2. QED
      BY <1>1, <1>2, <2>2, <3>1 DEF Inserting
  <2>3. QED
    BY <2>1, <2>2
<1>7. Orphans'
  <2> SUFFICES ASSUME NEW j \in JobIds, prompt[j] # "none", owner'[j] = NoOne
               PROVE  \E t \in Submits : id[t] = j /\ pc'[t] \in {"create", "failed"}
    BY DEF Orphans
  <2>1. j # id[s] /\ owner[j] = NoOne
    BY <1>1, <1>2
  <2>2. PICK t \in Submits : id[t] = j /\ pc[t] \in {"create", "failed"}
    BY <2>1 DEF Orphans
  <2>3. QED
    BY <1>1, <2>1, <2>2
<1>8. QED
  BY <1>2, <1>3, <1>4, <1>5, <1>6, <1>7

LEMMA SubmissionIInv ==
  ASSUME JobsAssumption, IInv, NEW s \in Submits, Submission(s)
  PROVE  IInv'
<1> USE DEF IInv
<1>0. s \in Callers /\ \A p \in Polls : p # s /\ p \in Callers
  BY DEF Callers, JobsAssumption
<1>1. CASE Reject(s)
  <2>1. TypeOK'
    BY <1>1, <1>0 DEF Reject, Go, TypeOK, Serving, flock, rows, meters
  <2>2. Owning'
    BY <1>1, MoveOwning DEF Reject, rows
  <2>3. \A p \in Polls : pc'[p] = pc[p] /\ id'[p] = id[p]
    BY <1>1, <1>0 DEF Reject, Go, TypeOK
  <2>4. Claiming'
    BY <1>1, <2>3, SubmitFrame DEF Reject, rows, meters
  <2>5. QED
    BY <2>1, <2>2, <2>4
<1>2. ASSUME NEW j \in JobIds, Submit(s, j)
      PROVE  IInv'
  <2>1. TypeOK'
    BY <1>2, <1>0 DEF Submit, Queue, Go, TypeOK, Serving, rows, meters
  <2>2. Owning'
    BY <1>2, QueueOwning DEF Submit, rows
  <2>3. \A p \in Polls : pc'[p] = pc[p] /\ id'[p] = id[p]
    BY <1>2, <1>0 DEF Submit, Go, TypeOK
  <2>4. Claiming'
    BY <1>2, <2>3, SubmitFrame DEF Submit, rows, meters
  <2>5. QED
    BY <2>1, <2>2, <2>4
<1>3. ASSUME NEW j \in JobIds, SubmitFails(s, j)
      PROVE  IInv'
  <2>1. TypeOK'
    <3>1. CASE Queue(j) /\ id' = [id EXCEPT ![s] = j]
      BY <1>3, <1>0, <3>1 DEF SubmitFails, Fault, Queue, Go, TypeOK, Serving, rows, meters, JobsAssumption
    <3>2. CASE UNCHANGED <<flock, id>>
      BY <1>3, <1>0, <3>2 DEF SubmitFails, Fault, Go, TypeOK, Serving, flock, rows, meters, JobsAssumption
    <3>3. QED
      BY <1>3, <3>1, <3>2 DEF SubmitFails
  <2>2. Owning'
    <3>1. CASE Queue(j) /\ id' = [id EXCEPT ![s] = j]
      BY <1>3, <3>1, QueueOwning DEF SubmitFails, rows
    <3>2. CASE UNCHANGED <<flock, id>>
      BY <1>3, <3>2, MoveOwning DEF SubmitFails, rows
    <3>3. QED
      BY <1>3, <3>1, <3>2 DEF SubmitFails
  <2>3. \A p \in Polls : pc'[p] = pc[p] /\ id'[p] = id[p]
    BY <1>3, <1>0 DEF SubmitFails, Go, TypeOK
  <2>4. Claiming'
    BY <1>3, <2>3, SubmitFrame DEF SubmitFails, rows, meters
  <2>5. QED
    BY <2>1, <2>2, <2>4
<1>4. CASE Create(s)
  <2>1. /\ Owning'
        /\ \A j \in JobIds : owner[j] # NoOne => owner'[j] = owner[j]
        /\ owner' \in [JobIds -> {KeyOf[t] : t \in Submits} \cup {NoOne}]
    BY <1>4, InsertOwning DEF Create
  <2>2. TypeOK'
    BY <1>4, <1>0, <2>1 DEF Create, Go, TypeOK, Serving, flock, meters
  <2>3. \A p \in Polls : pc'[p] = pc[p] /\ id'[p] = id[p]
    BY <1>4, <1>0 DEF Create, Go, TypeOK
  <2>4. Claiming'
    BY <1>4, <2>1, <2>3, SubmitFrame DEF Create, meters
  <2>5. QED
    BY <2>1, <2>2, <2>4
<1>5. CASE CreateFails(s)
  <2>1. /\ Owning'
        /\ \A j \in JobIds : owner[j] # NoOne => owner'[j] = owner[j]
        /\ owner' \in [JobIds -> {KeyOf[t] : t \in Submits} \cup {NoOne}]
    <3>1. CASE Insert(s)
      BY <1>5, <3>1, InsertOwning DEF CreateFails
    <3>2. CASE UNCHANGED owner
      BY <1>5, <3>2, MoveOwning DEF CreateFails, TypeOK
    <3>3. QED
      BY <1>5, <3>1, <3>2 DEF CreateFails
  <2>2. TypeOK'
    BY <1>5, <1>0, <2>1 DEF CreateFails, Fault, Go, TypeOK, Serving, flock, meters, JobsAssumption
  <2>3. \A p \in Polls : pc'[p] = pc[p] /\ id'[p] = id[p]
    BY <1>5, <1>0 DEF CreateFails, Go, TypeOK
  <2>4. Claiming'
    BY <1>5, <2>1, <2>3, SubmitFrame DEF CreateFails, meters
  <2>5. QED
    BY <2>1, <2>2, <2>4
<1>6. CASE MeterUnit(s) \/ MeterUnitLost(s)
  <2>1. TypeOK'
    BY <1>6, <1>0 DEF MeterUnit, MeterUnitLost, Fault, Go, TypeOK, Serving, flock, rows, meters, JobsAssumption
  <2>2. Owning'
    BY <1>6, MoveOwning DEF MeterUnit, MeterUnitLost, rows
  <2>3. \A p \in Polls : pc'[p] = pc[p] /\ id'[p] = id[p]
    BY <1>6, <1>0 DEF MeterUnit, MeterUnitLost, Go, TypeOK
  <2>4. Claiming'
    BY <1>6, <2>3, SubmitFrame DEF MeterUnit, MeterUnitLost, rows, meters
  <2>5. QED
    BY <2>1, <2>2, <2>4
<1>7. QED
  BY <1>1, <1>2, <1>3, <1>4, <1>5, <1>6 DEF Submission

(***************************************************************************)
(* Polls.                                                                  *)
(***************************************************************************)
\* A poll that moves without claiming, and holds no claim before or after.
LEMMA LookIInv ==
  ASSUME JobsAssumption, IInv, NEW p \in Polls, pc[p] # "emit",
         NEW to \in {"404", "fetch", "pending", "mark", "done", "failed"}, Go(p, to),
         UNCHANGED <<prompt, reused, owner, metered, units, results, unmetered>>,
         NEW j \in JobIds, id' = [id EXCEPT ![p] = j],
         to \in {"fetch", "mark", "done"} => owner[j] = KeyOf[p],
         to = "done" => j \in metered,
         faults' \in 0..MaxFaults
  PROVE  IInv'
<1> USE DEF IInv, Go
<1>1. /\ p \in Callers /\ p \notin Submits
      /\ pc'[p] = to /\ id'[p] = j
      /\ \A c \in Callers \ {p} : pc'[c] = pc[c] /\ id'[c] = id[c]
  BY DEF Callers, JobsAssumption, TypeOK
<1>2. TypeOK'
  BY <1>1 DEF TypeOK, Serving
<1>3. Owning'
  BY <1>1, PollFrame DEF Callers, flock
<1>4. Asked'
  BY <1>1 DEF Claiming, Asked, Callers
<1>5. \A i \in JobIds : Claims(i)' = Claims(i)
  BY <1>1 DEF Claims, Callers
<1>6. ResultClaimedOnce'
  BY <1>5 DEF Claiming, ResultClaimedOnce
<1>7. QED
  BY <1>2, <1>3, <1>4, <1>6 DEF Claiming

LEMMA MarkIInv ==
  ASSUME JobsAssumption, IInv, NEW p \in Polls, Mark(p)
  PROVE  IInv'
<1> USE DEF IInv, Mark, Go
<1>1. /\ p \in Callers /\ p \notin Submits /\ id[p] \in JobIds
      /\ owner[id[p]] = KeyOf[p] /\ KeyOf[p] # NoOne
      /\ \A c \in Callers \ {p} : pc'[c] = pc[c]
      /\ UNCHANGED <<prompt, reused, owner, id, units, results, unmetered, faults>>
  BY DEF Callers, JobsAssumption, TypeOK, Serving, Claiming, Asked, flock, meters
<1>2. CASE MarkWins(id[p])
  <2>1. pc'[p] = "emit" /\ id[p] \notin metered /\ metered' = metered \cup {id[p]}
    BY <1>1, <1>2 DEF MarkWins, TypeOK
  <2>2. TypeOK'
    BY <1>1, <1>2, <2>1 DEF TypeOK, Serving, MarkWins
  <2>3. Owning'
    BY <1>1, PollFrame DEF Callers, flock
  <2>4. Asked'
    BY <1>1, <2>1 DEF Claiming, Asked, Callers
  <2>5. ASSUME NEW j \in JobIds
        PROVE  results'[j] + Cardinality(Claims(j)') + unmetered'[j] = IF j \in metered' THEN 1 ELSE 0
    <3>1. CASE j = id[p]
      <4>1. p \notin Claims(j) /\ Claims(j)' = Claims(j) \cup {p}
        BY <1>1, <2>1, <3>1 DEF Claims, Callers
      <4>2. Cardinality(Claims(j)') = Cardinality(Claims(j)) + 1
        BY <4>1, ClaimsFinite, FS_AddElement
      <4>3. /\ results[j] \in Nat /\ unmetered[j] \in Nat /\ Cardinality(Claims(j)) \in Nat
            /\ results'[j] = results[j] /\ unmetered'[j] = unmetered[j]
            /\ j \notin metered /\ j \in metered'
        BY <1>1, <2>1, <3>1, ClaimsFinite DEF TypeOK
      <4>4. results[j] + Cardinality(Claims(j)) + unmetered[j] = 0
        BY <4>3 DEF Claiming, ResultClaimedOnce
      <4>5. QED
        BY <4>2, <4>3, <4>4
    <3>2. CASE j # id[p]
      <4>1. Claims(j)' = Claims(j)
        BY <1>1, <3>2 DEF Claims, Callers
      <4>2. QED
        BY <1>1, <2>1, <3>2, <4>1 DEF Claiming, ResultClaimedOnce
    <3>3. QED
      BY <3>1, <3>2
  <2>6. QED
    BY <2>2, <2>3, <2>4, <2>5 DEF Claiming, ResultClaimedOnce
<1>3. CASE ~MarkWins(id[p])
  <2>1. /\ id[p] \in metered /\ metered' = metered /\ pc[p] = "mark"
        /\ id' = [id EXCEPT ![p] = id[p]] /\ Go(p, "done")
    BY <1>1, <1>3 DEF MarkWins, TypeOK
  <2>2. faults' \in 0..MaxFaults
    BY <1>1 DEF TypeOK
  <2>3. QED
    BY <1>1, <2>1, <2>2, LookIInv
<1>4. QED
  BY <1>2, <1>3

\* The update commits and its answer is lost: nobody will claim the result again.
LEMMA MarkFailsIInv ==
  ASSUME JobsAssumption, IInv, NEW p \in Polls, MarkFails(p)
  PROVE  IInv'
<1> USE DEF IInv, MarkFails, Go
<1>1. /\ p \in Callers /\ p \notin Submits /\ id[p] \in JobIds /\ pc[p] = "mark"
      /\ pc'[p] = "failed" /\ \A c \in Callers \ {p} : pc'[c] = pc[c]
      /\ UNCHANGED <<prompt, reused, owner, id, units, results>>
      /\ faults' \in 0..MaxFaults
  BY DEF Callers, JobsAssumption, TypeOK, Serving, flock, Fault
<1>2. CASE UNCHANGED <<metered, unmetered>>
  <2>1. id' = [id EXCEPT ![p] = id[p]] /\ Go(p, "failed")
    BY <1>1 DEF TypeOK
  <2>2. QED
    BY <1>1, <1>2, <2>1, LookIInv
<1>3. CASE /\ MarkWins(id[p])
           /\ metered' = metered \cup {id[p]}
           /\ unmetered' = [unmetered EXCEPT ![id[p]] = @ + 1]
  <2>1. TypeOK'
    BY <1>1, <1>3 DEF TypeOK, Serving, MarkWins
  <2>2. Owning'
    BY <1>1, PollFrame DEF Callers, flock
  <2>3. Asked'
    BY <1>1, <1>3 DEF Claiming, Asked, Callers
  <2>4. ASSUME NEW j \in JobIds
        PROVE  results'[j] + Cardinality(Claims(j)') + unmetered'[j] = IF j \in metered' THEN 1 ELSE 0
    <3>1. Claims(j)' = Claims(j)
      BY <1>1 DEF Claims, Callers
    <3>2. QED
      BY <1>1, <1>3, <3>1, ClaimsFinite DEF Claiming, ResultClaimedOnce, TypeOK, MarkWins
  <2>5. QED
    BY <2>1, <2>2, <2>3, <2>4 DEF Claiming, ResultClaimedOnce
<1>4. QED
  BY <1>2, <1>3

\* The claim becomes the event, or is accounted for as lost.
LEMMA EmitIInv ==
  ASSUME JobsAssumption, IInv, NEW p \in Polls, Emit(p) \/ EmitLost(p)
  PROVE  IInv'
<1> USE DEF IInv, Emit, EmitLost, Go
<1>1. /\ p \in Callers /\ p \notin Submits /\ id[p] \in JobIds /\ pc[p] = "emit"
      /\ pc'[p] = "done" /\ \A c \in Callers \ {p} : pc'[c] = pc[c]
      /\ UNCHANGED <<prompt, reused, owner, metered, id, units>>
      /\ faults' \in 0..MaxFaults
  BY DEF Callers, JobsAssumption, TypeOK, Serving, flock, rows, Fault
<1>2. \/ results' = [results EXCEPT ![id[p]] = @ + 1] /\ unmetered' = unmetered
      \/ unmetered' = [unmetered EXCEPT ![id[p]] = @ + 1] /\ results' = results
  OBVIOUS
<1>3. TypeOK'
  BY <1>1, <1>2 DEF TypeOK, Serving
<1>4. Owning'
  BY <1>1, PollFrame DEF Callers, flock
<1>5. Asked'
  BY <1>1 DEF Claiming, Asked, Callers
<1>6. ASSUME NEW j \in JobIds
      PROVE  results'[j] + Cardinality(Claims(j)') + unmetered'[j] = IF j \in metered' THEN 1 ELSE 0
  <2>1. CASE j = id[p]
    <3>1. p \in Claims(j) /\ Claims(j)' = Claims(j) \ {p}
      BY <1>1, <2>1 DEF Claims, Callers
    <3>2. Cardinality(Claims(j)') = Cardinality(Claims(j)) - 1
      BY <3>1, ClaimsFinite, FS_RemoveElement
    <3>3. QED
      BY <1>1, <1>2, <2>1, <3>2, ClaimsFinite DEF Claiming, ResultClaimedOnce, TypeOK
  <2>2. CASE j # id[p]
    <3>1. Claims(j)' = Claims(j)
      BY <1>1, <2>2 DEF Claims, Callers
    <3>2. QED
      BY <1>1, <1>2, <2>2, <3>1 DEF Claiming, ResultClaimedOnce, TypeOK
  <2>3. QED
    BY <2>1, <2>2
<1>7. QED
  BY <1>3, <1>4, <1>5, <1>6 DEF Claiming, ResultClaimedOnce

LEMMA PollIInv ==
  ASSUME JobsAssumption, IInv, NEW p \in Polls, Poll(p)
  PROVE  IInv'
<1>1. ASSUME NEW j \in JobIds, Get(p, j)
      PROVE  IInv'
  BY <1>1, LookIInv DEF Get, flock, rows, meters, IInv, TypeOK
<1>2. CASE Fetch(p) \/ FetchFails(p)
  <2>1. p \in Callers /\ pc[p] = "fetch" /\ id' = id /\ id \in [Callers -> JobIds \cup {NoId}]
    BY <1>2 DEF Fetch, FetchFails, rows, IInv, TypeOK, Callers
  <2>2. id[p] \in JobIds /\ owner[id[p]] = KeyOf[p]
    BY <2>1 DEF IInv, TypeOK, Serving, Claiming, Asked
  <2>3. id' = [id EXCEPT ![p] = id[p]]
    BY <2>1
  <2>4. faults \in 0..MaxFaults /\ MaxFaults \in Nat
    BY DEF IInv, TypeOK, JobsAssumption
  <2>5. CASE Fetch(p)
    BY <2>2, <2>3, <2>4, <2>5, LookIInv DEF Fetch, flock, rows, meters
  <2>6. CASE FetchFails(p)
    <3>1. faults' \in 0..MaxFaults
      BY <2>4, <2>6 DEF FetchFails, Fault
    <3>2. QED
      BY <2>2, <2>3, <2>6, <3>1, LookIInv DEF FetchFails, flock, rows, meters
  <2>7. QED
    BY <1>2, <2>5, <2>6
<1>3. QED
  BY <1>1, <1>2, MarkIInv, MarkFailsIInv, EmitIInv DEF Poll

(***************************************************************************)
(* The data plane and the flock.                                           *)
(***************************************************************************)
\* Every request being served fails; a claim that was being emitted is lost.
LEMMA CrashIInv == ASSUME JobsAssumption, IInv, Crash PROVE IInv'
<1> USE DEF IInv, Crash
<1>1. /\ \A c \in Callers : pc'[c] = IF pc[c] \in Serving THEN "failed" ELSE pc[c]
      /\ \A j \in JobIds : unmetered'[j] = unmetered[j] + Cardinality(Claims(j))
      /\ UNCHANGED <<prompt, reused, owner, metered, id, units, results>>
      /\ faults' \in 0..MaxFaults
  <2>1. \A c \in Callers : pc'[c] = IF pc[c] \in Serving THEN "failed" ELSE pc[c]
    OBVIOUS
  <2>2. \A j \in JobIds : unmetered'[j] = unmetered[j] + Cardinality(Claims(j))
    BY DEF Claims
  <2>3. UNCHANGED <<prompt, reused, owner, metered, id, units, results>>
    BY DEF flock, rows
  <2>4. faults' \in 0..MaxFaults
    BY DEF JobsAssumption, TypeOK, Fault
  <2>5. QED
    BY <2>1, <2>2, <2>3, <2>4
<1>2. TypeOK'
  <2>1. unmetered' \in [JobIds -> Nat]
    BY <1>1, ClaimsFinite DEF TypeOK
  <2>2. QED
    BY <1>1, <2>1 DEF TypeOK, Serving
<1>3. Owning'
  BY <1>1 DEF Owning, Unqueued, Distinct, Inserting, Orphans, Serving, Callers
<1>4. Asked'
  BY <1>1 DEF Claiming, Asked, Serving, Callers
<1>5. ASSUME NEW j \in JobIds
      PROVE  results'[j] + Cardinality(Claims(j)') + unmetered'[j] = IF j \in metered' THEN 1 ELSE 0
  <2>1. Claims(j)' = {}
    BY <1>1 DEF Claims, Serving, Callers
  <2>2. QED
    BY <1>1, <2>1, ClaimsFinite, FS_EmptySet DEF Claiming, ResultClaimedOnce, TypeOK
<1>6. QED
  BY <1>2, <1>3, <1>4, <1>5 DEF Claiming, ResultClaimedOnce

LEMMA FlockRunsIInv ==
  ASSUME JobsAssumption, IInv, NEW j \in JobIds,
         NEW outcome \in {"completed", "failed"}, FlockRuns(j, outcome)
  PROVE  IInv'
<1> USE DEF IInv, FlockRuns, rows, meters
<1>1. TypeOK'
  BY DEF TypeOK, Serving
<1>2. Owning'
  BY DEF Owning, Unqueued, Distinct, Inserting, Orphans, TypeOK
<1>3. Claiming'
  BY DEF Claiming, Asked, ResultClaimedOnce, Claims
<1>4. QED
  BY <1>1, <1>2, <1>3

LEMMA NextIInv == ASSUME JobsAssumption, IInv, [Next]_vars PROVE IInv'
<1>1. CASE UNCHANGED vars
  BY <1>1 DEF vars, IInv, TypeOK, Serving, Owning, Unqueued, Distinct, Inserting, Orphans,
              Claiming, Asked, ResultClaimedOnce, Claims
<1>2. CASE Next
  BY <1>2, SubmissionIInv, PollIInv, CrashIInv, FlockRunsIInv DEF Next
<1>3. QED
  BY <1>1, <1>2

(***************************************************************************)
(* The results.                                                            *)
(***************************************************************************)
\* Every request, failure, crash and run of the flock keeps the invariant.
THEOREM Invariance == ASSUME JobsAssumption PROVE Spec => []IInv
<1>1. Init => IInv
  BY InitIInv
<1>2. IInv /\ [Next]_vars => IInv'
  BY NextIInv
<1>3. QED
  BY <1>1, <1>2, PTL DEF Spec

\* The jobs' state keeps its types: a request past its submission or its lookup
\* holds a prompt id, and only a job with a row is marked.
THEOREM TypeCorrect == ASSUME JobsAssumption PROVE Spec => []TypeOK
<1>1. IInv => TypeOK
  BY DEF IInv
<1>2. QED
  BY <1>1, Invariance, PTL

\* A caller told 202 owns its job, a prompt that runs for nobody comes from a failed
\* request, and a finished job's result is claimed for metering once, by its owner.
THEOREM JobsOwned == ASSUME JobsAssumption PROVE Spec => []JobsAreOwned
<1>1. QED
  BY IInvJobsAreOwned, Invariance, PTL

\* No step changes a row's owner or drops its mark.
LEMMA StepKeepsRows ==
  ASSUME JobsAssumption, IInv, [Next]_vars
  PROVE  [\A j \in JobIds : owner[j] # NoOne =>
             owner'[j] = owner[j] /\ (j \in metered => j \in metered')]_vars
<1> SUFFICES ASSUME Next, NEW j \in JobIds, owner[j] # NoOne
             PROVE  owner'[j] = owner[j] /\ (j \in metered => j \in metered')
  OBVIOUS
<1>1. ASSUME NEW s \in Submits, Submission(s)
      PROVE  owner'[j] = owner[j] /\ metered' = metered
  BY <1>1 DEF Submission, Reject, Submit, SubmitFails, Create, CreateFails, MeterUnit, MeterUnitLost,
              Insert, rows, IInv, TypeOK
<1>2. ASSUME NEW p \in Polls, Poll(p)
      PROVE  owner' = owner /\ metered \subseteq metered'
  BY <1>2 DEF Poll, Get, Fetch, FetchFails, Mark, MarkFails, Emit, EmitLost, rows
<1>3. CASE Crash \/ \E i \in JobIds, outcome \in {"completed", "failed"} : FlockRuns(i, outcome)
  BY <1>3 DEF Crash, FlockRuns, rows
<1>4. QED
  BY <1>1, <1>2, <1>3 DEF Next

\* A job is one key's for good, and billed once for good: the insert of a prompt id
\* that has a row leaves the row alone, and nothing unmarks it.
THEOREM RowsStay == ASSUME JobsAssumption PROVE Spec => RowsAreKept
<1>1. QED
  BY StepKeepsRows, Invariance, PTL DEF Spec, RowsAreKept

----------------------------------------------------------------------------
(***************************************************************************)
(* The rate limiter: any checks in flight, any limits, old and new, any    *)
(* clocks, delays and lost replies.                                        *)
(*                                                                         *)
(* The inductive invariant: a member of the bucket is scored at most the   *)
(* spread of the clocks before its admission, and the bucket holds every   *)
(* admission that is recent by any clock, so whoever is admitted sees all  *)
(* that count against it.                                                  *)
(***************************************************************************)
\* The limiter and the gates count as this module does.
LEMMA SameCount ==
  \A S : Limiter!Cardinality(S) = Cardinality(S) /\ Gate!Cardinality(S) = Cardinality(S)
BY DEF Limiter!Cardinality, Limiter!IsFiniteSet, Gate!Cardinality, Gate!IsFiniteSet, Cardinality, IsFiniteSet

\* A check is evaluated no later than it may be, and its stamp is of an instance's clock.
Stamped ==
    \A c \in Checks : check[c].sent =>
        /\ Skew <= check[c].at /\ check[c].at <= now /\ now <= check[c].at + MaxDelay
        /\ check[c].at - Skew <= check[c].stamp /\ check[c].stamp <= check[c].at + Skew

\* A check that is evaluated again brings the member it added.
SameMember ==
    \A c \in Checks :
        /\ check[c].id \in 0..Len(admitted)
        /\ \A m \in zset : m.id = check[c].id => m.score = check[c].stamp

\* Admissions are in order.
InTime ==
    /\ now >= Skew
    /\ \A i \in DOMAIN admitted :
          /\ admitted[i] <= now
          /\ \A j \in DOMAIN admitted : i <= j => admitted[i] <= admitted[j]

\* A member's score is not long before its admission.
Scored ==
    /\ IsFiniteSet(zset)
    /\ \A m \in zset : m.score >= 0 /\ m.score >= admitted[m.id] - MaxDelay - Skew

\* The bucket outlives its admissions, and holds every one that is recent by any clock.
Remembered ==
    \A w \in Nat : Limiter!ShortestWindow(w) =>
        \A i \in DOMAIN admitted :
            /\ admitted[i] + w <= expireAt
            /\ admitted[i] > now - w + Limiter!Spread => \E m \in zset : m.id = i

\* Since a refusal nothing was added, and if nothing was dropped either the oldest is
\* still there, whose slot opens no later than the promise said.
Promised ==
    /\ promise.count <= Len(admitted)
    /\ promise.count = Len(admitted) /\ promise.limit.max > 0 =>
          /\ Cardinality(zset) <= promise.limit.max
          /\ Cardinality(zset) = promise.limit.max =>
                \E m \in zset : m.score + Limiter!Window(promise.limit) <= promise.until

RateInv ==
    /\ Limiter!TypeOK /\ Stamped /\ SameMember /\ InTime /\ Scored /\ Remembered /\ Promised /\ Limiter!RateHolds

Members == [id : 1..Len(admitted), score : Int]
CheckStates == [sent : BOOLEAN, stamp : Int, at : Nat, limit : Limits, id : Nat]

\* A window is as long as its limit says.
LEMMA WindowIsNat ==
  ASSUME Limiter!LimiterAssumption, NEW l \in Limits
  PROVE  l.max \in Nat /\ Limiter!Window(l) \in Nat /\ Limiter!Window(l) > 0
<1>1. l.windowSec \in Nat \ {0} /\ l.max \in Nat /\ Second \in Nat \ {0}
  BY DEF Limiter!LimiterAssumption
<1>2. \A x, y \in Nat \ {0} : x * y \in Nat /\ x * y > 0
  BY SMT
<1>3. QED
  BY <1>1, <1>2 DEF Limiter!Window

LEMMA Bounds ==
  ASSUME Limiter!LimiterAssumption
  PROVE  /\ Skew \in Nat /\ MaxDelay \in Nat /\ MaxTime \in Nat /\ MaxLost \in Nat /\ Second \in Nat
         /\ Second > 0 /\ Limiter!Spread \in Nat
         /\ (CHOOSE l \in Limits : TRUE) \in Limits
<1>1. Second \in Nat \ {0} /\ {Skew, MaxDelay, MaxTime, MaxLost} \subseteq Nat /\ Limits # {}
  BY DEF Limiter!LimiterAssumption
<1>2. QED
  BY <1>1 DEF Limiter!Spread

\* Some numbers have a least.
LEMMA Least ==
  ASSUME NEW S \in SUBSET Nat, S # {}
  PROVE  \E i \in S : \A j \in S : i <= j
<1>1. PICK i \in S : \A j \in S : ~(<<j, i>> \in OpToRel(<, Nat))
  BY NatLessThanWellFounded, WFMin
<1>2. ASSUME NEW j \in S PROVE i <= j
  <2>1. i \in Nat /\ j \in Nat
    OBVIOUS
  <2>2. ~(j < i)
    BY <1>1, <2>1 DEF OpToRel
  <2>3. QED
    BY <2>1, <2>2
<1>3. QED
  BY <1>2

\* What the script keeps is part of the bucket, and all of it that is recent.
LEMMA KeptIsRecent ==
  ASSUME Limiter!LimiterAssumption, RateInv, NEW c \in Checks, check[c].sent,
         NEW kept, kept = Limiter!Kept(check[c].stamp, check[c].limit)
  PROVE  /\ kept \in SUBSET zset /\ IsFiniteSet(kept) /\ Cardinality(kept) \in Nat
         /\ \A w \in Nat, i \in DOMAIN admitted :
               Limiter!ShortestWindow(w) /\ admitted[i] > now - w + Limiter!Spread => \E m \in kept : m.id = i
<1>1. kept \in SUBSET zset
  BY DEF Limiter!Kept
<1>2. IsFiniteSet(kept) /\ Cardinality(kept) \in Nat
  BY <1>1, FS_Subset, FS_CardinalityType DEF RateInv, Scored
<1>3. ASSUME NEW w \in Nat, NEW i \in DOMAIN admitted, Limiter!ShortestWindow(w), admitted[i] > now - w + Limiter!Spread
      PROVE  \E m \in kept : m.id = i
  <2>1. /\ admitted[i] \in Nat /\ now \in Nat /\ expireAt \in Nat
        /\ check[c].stamp \in Int /\ check[c].at \in Nat /\ check[c].limit \in Limits
    BY DEF RateInv, Limiter!TypeOK
  <2>2. admitted[i] + w <= expireAt /\ \E m \in zset : m.id = i
    BY <1>3 DEF RateInv, Remembered
  <2>3. PICK m \in zset : m.id = i
    BY <2>2
  <2>4. m.score \in Int /\ m.score >= admitted[i] - MaxDelay - Skew
    BY <2>3 DEF RateInv, Limiter!TypeOK, Scored
  <2>5. check[c].stamp <= now + Skew
    BY <2>1, Bounds DEF RateInv, Stamped
  <2>6. Limiter!Window(check[c].limit) \in Nat /\ w <= Limiter!Window(check[c].limit)
    BY <1>3, <2>1, WindowIsNat DEF Limiter!ShortestWindow
  <2>7. ~(now >= expireAt)
    BY <1>3, <2>1, <2>2, Bounds
  <2>8. m.score > check[c].stamp - Limiter!Window(check[c].limit)
    BY <1>3, <2>1, <2>4, <2>5, <2>6, Bounds DEF Limiter!Spread
  <2>9. m \in kept
    BY <2>3, <2>7, <2>8 DEF Limiter!Kept
  <2>10. QED
    BY <2>3, <2>9
<1>4. QED
  BY <1>1, <1>2, <1>3

\* So a check is let through only if the admission max before it is long enough ago.
LEMMA NoBurst ==
  ASSUME Limiter!LimiterAssumption, RateInv, NEW c \in Checks, check[c].sent,
         Limiter!Allows(check[c].stamp, check[c].limit),
         NEW n \in Nat, Limiter!LargestMax(n), Len(admitted) >= n, n > 0,
         NEW w \in Nat, Limiter!ShortestWindow(w)
  PROVE  now - admitted[Len(admitted) + 1 - n] >= w - Limiter!Spread
<1> DEFINE kept == Limiter!Kept(check[c].stamp, check[c].limit)
           last == Len(admitted)
           first == last + 1 - n
           member == [i \in first..last |-> CHOOSE m \in kept : m.id = i]
<1>1. /\ admitted \in Seq(Nat) /\ now \in Nat /\ check[c].limit \in Limits
      /\ last \in Nat /\ first \in 1..last
  BY DEF RateInv, Limiter!TypeOK
<1>2. SUFFICES ASSUME ~(now - admitted[first] >= w - Limiter!Spread) PROVE FALSE
  OBVIOUS
<1>3. ASSUME NEW i \in first..last PROVE \E m \in kept : m.id = i
  <2>1. i \in DOMAIN admitted /\ first \in DOMAIN admitted /\ first <= i
    BY <1>1
  <2>2. admitted[first] <= admitted[i] /\ admitted[i] \in Nat /\ admitted[first] \in Nat
    BY <1>1, <2>1 DEF RateInv, InTime
  <2>3. admitted[i] > now - w + Limiter!Spread
    <3> DEFINE early == admitted[first]
               late == admitted[i]
    <3>1. early \in Nat /\ late \in Nat /\ early <= late /\ ~(now - early >= w - Limiter!Spread)
      BY <1>2, <2>2
    <3>2. now \in Nat /\ Limiter!Spread \in Nat
      BY <1>1, Bounds
    <3> HIDE DEF early, late
    <3>3. late > now - w + Limiter!Spread
      BY <3>1, <3>2
    <3>4. QED
      BY <3>3 DEF late
  <2>4. QED
    BY <2>1, <2>3, KeptIsRecent
<1>4. IsFiniteSet(kept) /\ Cardinality(kept) \in Nat
  BY KeptIsRecent
<1>5. member \in Injection(first..last, kept)
  <2>1. \A i \in first..last : member[i] \in kept /\ member[i].id = i
    BY <1>3
  <2> HIDE DEF kept, first, last
  <2>2. member \in [first..last -> kept]
    BY <2>1
  <2>3. \A i, j \in first..last : member[i] = member[j] => i = j
    BY <2>1
  <2> HIDE DEF member
  <2>4. QED
    BY <2>2, <2>3 DEF Injection, IsInjective
<1>6. Cardinality(first..last) = n
  BY <1>1, FS_Interval
<1>7. Cardinality(first..last) <= Cardinality(kept)
  BY <1>4, <1>5, FS_Injection
<1>8. Cardinality(kept) < check[c].limit.max
  BY SameCount DEF Limiter!Allows
<1>9. check[c].limit.max \in Nat /\ check[c].limit.max <= n
  BY <1>1, WindowIsNat DEF Limiter!LargestMax
<1>10. QED
  BY <1>4, <1>6, <1>7, <1>8, <1>9

\* No check is sent and nothing was admitted at first.
LEMMA RateInit == ASSUME Limiter!LimiterAssumption, Limiter!Init PROVE RateInv
<1> USE DEF Limiter!Init, Limiter!Unsent, Limiter!NoPromise
<1>1. Limiter!TypeOK
  BY Bounds DEF Limiter!TypeOK
<1>2. Stamped /\ SameMember /\ InTime /\ Remembered /\ Promised /\ Limiter!RateHolds
  BY Bounds DEF Stamped, SameMember, InTime, Remembered, Promised, Limiter!RateHolds
<1>3. Scored
  BY FS_EmptySet DEF Scored
<1>4. QED
  BY <1>1, <1>2, <1>3 DEF RateInv

\* What the clock, the bucket and the promise alone are about.
BucketInv ==
    /\ zset \subseteq Members /\ expireAt \in Nat /\ admitted \in Seq(Nat)
    /\ promise \in [until : Int, count : Int, limit : Limits]
    /\ InTime /\ Scored /\ Remembered /\ Promised /\ Limiter!RateHolds

\* A promise stands while nothing is added.
LEMMA PromiseStands ==
  ASSUME Limiter!LimiterAssumption, RateInv, zset' \in SUBSET zset, admitted' = admitted, promise' = promise
  PROVE  Promised'
<1>1. IsFiniteSet(zset) /\ promise.limit \in Limits /\ Promised
  BY DEF RateInv, Scored, Limiter!TypeOK
<1>2. /\ Cardinality(zset') <= Cardinality(zset) /\ (Cardinality(zset) = Cardinality(zset') => zset = zset')
      /\ Cardinality(zset) \in Nat /\ Cardinality(zset') \in Nat
  BY <1>1, FS_Subset, FS_CardinalityType
<1>3. promise.limit.max \in Nat
  BY <1>1, WindowIsNat
<1>4. QED
  BY <1>1, <1>2, <1>3 DEF Promised

\* The bucket after an admission holds what was kept and the check's own member.
LEMMA AdmitKeeps ==
  ASSUME Limiter!LimiterAssumption, RateInv, NEW c \in Checks, check[c].sent, Limiter!Admit(c), now' = now
  PROVE  /\ BucketInv'
         /\ Len(admitted') >= Len(admitted) /\ Limiter!AddsAs(c) \in 1..Len(admitted')
         /\ \A m \in zset' : \/ m \in zset /\ m.id # Limiter!AddsAs(c)
                             \/ m.id = Limiter!AddsAs(c) /\ m.score = check[c].stamp
         /\ Limiter!AddsAs(c) = check[c].id \/ Limiter!AddsAs(c) > Len(admitted)
<1> DEFINE stamp == check[c].stamp
           limit == check[c].limit
           kept == Limiter!Kept(stamp, limit)
           added == Limiter!AddsAs(c)
           mine == [id |-> added, score |-> stamp]
<1>1. /\ now \in Nat /\ zset \subseteq Members /\ expireAt \in Nat /\ admitted \in Seq(Nat)
      /\ stamp \in Int /\ check[c].at \in Nat /\ limit \in Limits /\ Len(admitted) \in Nat
      /\ promise \in [until : Int, count : Int, limit : Limits]
      /\ \A i \in 1..Len(admitted) : admitted[i] \in Nat
  BY DEF RateInv, Limiter!TypeOK, Members
<1>2. /\ Limiter!Allows(stamp, limit)
      /\ zset' = {m \in kept : m.id # added} \cup {mine}
      /\ expireAt' = now + Limiter!Window(limit)
      /\ admitted' = IF added > Len(admitted) THEN Append(admitted, now) ELSE admitted
      /\ promise' = promise /\ now' = now
  BY DEF Limiter!Admit
<1>3. /\ kept \in SUBSET zset /\ IsFiniteSet(kept) /\ Cardinality(kept) \in Nat
      /\ \A w \in Nat, i \in DOMAIN admitted :
            Limiter!ShortestWindow(w) /\ admitted[i] > now - w + Limiter!Spread => \E m \in kept : m.id = i
  BY KeptIsRecent
<1>4. \/ added \in 1..Len(admitted) /\ added = check[c].id /\ mine \in kept /\ \E m \in zset : m.id = added
      \/ added = Len(admitted) + 1
  <2>1. CASE \E m \in kept : m.id = check[c].id
    <3>1. PICK m \in kept : m.id = check[c].id
      BY <2>1
    <3>2. added = check[c].id
      BY <2>1 DEF Limiter!AddsAs
    <3>3. m \in Members /\ m.score = stamp
      BY <1>1, <1>3, <3>1 DEF RateInv, SameMember
    <3>4. m = mine
      BY <3>1, <3>2, <3>3 DEF Members
    <3>5. QED
      BY <1>3, <3>1, <3>2, <3>3, <3>4 DEF Members
  <2>2. CASE ~\E m \in kept : m.id = check[c].id
    BY <2>2 DEF Limiter!AddsAs
  <2>3. QED
    BY <2>1, <2>2
<1>5. /\ stamp >= 0 /\ now >= Skew /\ now - MaxDelay - Skew <= stamp /\ stamp <= now + Skew
  <2>1. /\ Skew <= check[c].at /\ check[c].at <= now /\ now <= check[c].at + MaxDelay
        /\ check[c].at - Skew <= stamp /\ stamp <= check[c].at + Skew
    BY DEF RateInv, Stamped
  <2> DEFINE at == check[c].at
  <2>2. stamp \in Int /\ at \in Nat /\ now \in Nat /\ Skew \in Nat /\ MaxDelay \in Nat
    BY <1>1, Bounds
  <2> HIDE DEF stamp, at
  <2>3. QED
    BY <2>1, <2>2 DEF at
<1> HIDE DEF stamp, limit, kept, added, mine
<1>6. /\ admitted' \in Seq(Nat) /\ Len(admitted') \in Nat /\ Len(admitted') >= Len(admitted) /\ added \in 1..Len(admitted')
      /\ \A i \in 1..Len(admitted) : i \in 1..Len(admitted') /\ admitted'[i] = admitted[i]
      /\ \A i \in 1..Len(admitted') : \/ i \in 1..Len(admitted)
                                      \/ i = Len(admitted) + 1 /\ admitted'[i] = now /\ added = i
      /\ DOMAIN admitted = 1..Len(admitted) /\ DOMAIN admitted' = 1..Len(admitted')
  <2>1. CASE added = Len(admitted) + 1
    BY <1>1, <1>2, <2>1
  <2>2. CASE added \in 1..Len(admitted)
    BY <1>1, <1>2, <2>2
  <2>3. QED
    BY <1>4, <2>1, <2>2
<1>7. \A m \in zset' : (m \in zset /\ m \in kept /\ m.id # added) \/ m = mine
  BY <1>2, <1>3
<1>8. mine.id = added /\ mine.score = stamp /\ mine \in zset'
  BY <1>2 DEF mine
<1>9. (zset \subseteq Members)'
  <2>1. \A m \in zset : m \in Members'
    BY <1>1, <1>6 DEF Members
  <2>2. mine \in Members'
    BY <1>1, <1>6 DEF Members, mine
  <2>3. QED
    BY <1>7, <2>1, <2>2
<1>10. Limiter!Window(limit) \in Nat /\ Limiter!Window(limit) > 0
  BY <1>1, WindowIsNat
<1>11. InTime'
  <2>1. \A i \in 1..Len(admitted) : admitted[i] <= now
    BY <1>6 DEF RateInv, InTime
  <2>2. \A i, j \in 1..Len(admitted) : i <= j => admitted[i] <= admitted[j]
    BY <1>6 DEF RateInv, InTime
  <2>3. ASSUME NEW i \in 1..Len(admitted') PROVE admitted'[i] \in Nat /\ admitted'[i] <= now
    <3>1. CASE i \in 1..Len(admitted)
      BY <1>1, <1>6, <2>1, <3>1
    <3>2. CASE admitted'[i] = now
      BY <1>1, <3>2
    <3>3. QED
      BY <1>6, <3>1, <3>2
  <2>4. ASSUME NEW i \in 1..Len(admitted'), NEW j \in 1..Len(admitted'), i <= j PROVE admitted'[i] <= admitted'[j]
    <3>1. CASE j = Len(admitted) + 1
      <4>1. admitted'[j] = now
        BY <1>1, <1>6, <3>1
      <4>2. QED
        BY <2>3, <4>1
    <3>2. CASE j \in 1..Len(admitted)
      <4>1. i \in 1..Len(admitted)
        BY <1>1, <2>4, <3>2
      <4>2. QED
        BY <1>6, <2>2, <2>4, <3>2, <4>1
    <3>3. QED
      BY <1>6, <3>1, <3>2
  <2>5. QED
    BY <1>2, <1>5, <1>6, <2>3, <2>4 DEF InTime
<1>12. Scored'
  <2>1. IsFiniteSet(zset')
    <3>1. IsFiniteSet({m \in kept : m.id # added})
      BY <1>3, FS_Subset
    <3>2. QED
      BY <1>2, <3>1, FS_AddElement
  <2>2. ASSUME NEW m \in zset, m \in kept PROVE m.score >= 0 /\ m.score >= admitted'[m.id] - MaxDelay - Skew
    <3>1. m.id \in 1..Len(admitted)
      BY <1>1 DEF Members
    <3>2. QED
      BY <1>6, <3>1 DEF RateInv, Scored
  <2>3. admitted'[added] \in Nat /\ admitted'[added] <= now
    BY <1>6, <1>2, <1>11 DEF InTime
  <2>4. stamp >= admitted'[added] - MaxDelay - Skew
    <3> DEFINE then == admitted'[added]
    <3>1. then \in Nat /\ then <= now /\ now - MaxDelay - Skew <= stamp
      BY <1>5, <2>3
    <3>2. now \in Nat /\ stamp \in Int /\ MaxDelay \in Nat /\ Skew \in Nat
      BY <1>1, Bounds
    <3> HIDE DEF then
    <3>3. stamp >= then - MaxDelay - Skew
      BY <3>1, <3>2
    <3>4. QED
      BY <3>3 DEF then
  <2>5. ASSUME NEW m \in zset' PROVE m.score >= 0 /\ m.score >= admitted'[m.id] - MaxDelay - Skew
    BY <1>5, <1>7, <1>8, <2>2, <2>4
  <2>6. QED
    BY <2>1, <2>5 DEF Scored
<1>13. Remembered'
  <2> SUFFICES ASSUME NEW w \in Nat, Limiter!ShortestWindow(w), NEW i \in 1..Len(admitted')
               PROVE  /\ admitted'[i] + w <= expireAt'
                      /\ admitted'[i] > now - w + Limiter!Spread => \E m \in zset' : m.id = i
    BY <1>2, <1>6 DEF Remembered, Limiter!ShortestWindow
  <2>1. admitted'[i] \in Nat /\ admitted'[i] <= now
    BY <1>1, <1>6, <1>2, <1>11 DEF InTime
  <2>2. w <= Limiter!Window(limit)
    BY <1>1 DEF Limiter!ShortestWindow
  <2>3. admitted'[i] + w <= expireAt'
    BY <1>1, <1>2, <1>10, <2>1, <2>2
  <2>4. ASSUME admitted'[i] > now - w + Limiter!Spread PROVE \E m \in zset' : m.id = i
    <3>1. CASE i = added
      BY <1>8, <3>1
    <3>2. CASE i # added
      <4>1. i \in 1..Len(admitted)
        BY <1>6, <1>1, <3>2
      <4>2. PICK m \in kept : m.id = i
        BY <1>3, <1>6, <2>4, <4>1
      <4>3. m \in zset'
        BY <1>2, <3>2, <4>2
      <4>4. QED
        BY <4>2, <4>3
    <3>3. QED
      BY <3>1, <3>2
  <2>5. QED
    BY <2>3, <2>4
<1>14. Limiter!RateHolds'
  <2> SUFFICES ASSUME NEW l \in Limits, NEW m \in Limits, Limiter!LargestMax(l.max), Limiter!ShortestWindow(Limiter!Window(m)),
                      NEW n \in 1..Len(admitted'), n > l.max
               PROVE  admitted'[n] - admitted'[n - l.max] >= Limiter!Window(m) - Limiter!Spread
    BY <1>6 DEF Limiter!RateHolds, Limiter!LargestMax, Limiter!ShortestWindow, Limiter!Window
  <2>1. l.max \in Nat /\ Limiter!Window(m) \in Nat
    BY WindowIsNat
  <2>2. CASE n \in 1..Len(admitted)
    <3>1. admitted[n] - admitted[n - l.max] >= Limiter!Window(m) - Limiter!Spread
      BY <1>6, <2>2 DEF RateInv, Limiter!RateHolds
    <3>2. n - l.max \in 1..Len(admitted)
      BY <1>1, <2>1, <2>2
    <3>3. QED
      BY <1>6, <2>2, <3>1, <3>2
  <2>3. CASE n = Len(admitted) + 1
    <3>1. limit.max > 0 /\ limit.max <= l.max /\ limit.max \in Nat
      BY <1>1, <1>2, <1>3, WindowIsNat, SameCount DEF Limiter!Allows, Limiter!LargestMax, kept
    <3>2. now - admitted[Len(admitted) + 1 - l.max] >= Limiter!Window(m) - Limiter!Spread
      <4>1. l.max > 0 /\ Len(admitted) >= l.max
        BY <1>1, <2>1, <2>3, <3>1
      <4>2. Limiter!Allows(check[c].stamp, check[c].limit)
        BY <1>2 DEF stamp, limit
      <4>3. QED
        BY <2>1, <4>1, <4>2, NoBurst
    <3>3. n - l.max \in 1..Len(admitted) /\ n - l.max = Len(admitted) + 1 - l.max
      <4> DEFINE max == l.max
                 len == Len(admitted)
      <4>1. max \in Nat /\ max > 0 /\ len \in Nat /\ n = len + 1 /\ n > max
        BY <1>1, <2>1, <2>3, <3>1
      <4> HIDE DEF max, len
      <4>2. n - max \in 1..len /\ n - max = len + 1 - max
        BY <4>1
      <4>3. QED
        BY <4>2 DEF max, len
    <3>4. n \notin 1..Len(admitted)
      BY <1>1, <2>3
    <3>5. admitted'[n] = now /\ admitted'[n - l.max] = admitted[Len(admitted) + 1 - l.max]
      BY <1>6, <3>3, <3>4
    <3>6. QED
      BY <3>2, <3>5
  <2>4. QED
    BY <1>6, <2>2, <2>3
<1>15. Promised'
  <2>1. promise.count \in Int /\ promise.count <= Len(admitted)
    BY <1>1 DEF RateInv, Promised
  <2>2. CASE added = Len(admitted) + 1
    <3>1. Len(admitted') = Len(admitted) + 1
      BY <1>1, <1>2, <2>2
    <3>2. promise'.count <= Len(admitted') /\ promise'.count # Len(admitted')
      BY <1>1, <1>2, <2>1, <3>1
    <3>3. QED
      BY <3>2 DEF Promised
  <2>3. CASE added \in 1..Len(admitted) /\ mine \in kept
    <3>1. admitted' = admitted /\ zset' \in SUBSET zset
      BY <1>1, <1>2, <1>3, <2>3
    <3>2. QED
      BY <1>2, <3>1, PromiseStands
  <2>4. QED
    BY <1>4, <2>2, <2>3
<1>16. QED
  BY <1>1, <1>2, <1>4, <1>6, <1>7, <1>8, <1>9, <1>10, <1>11, <1>12, <1>13, <1>14, <1>15 DEF BucketInv,
       added, stamp

\* Seconds rounded up are no shorter than what they round.
LEMMA RoundsUp ==
  ASSUME Limiter!LimiterAssumption, NEW ms \in Int
  PROVE  Limiter!Ceil(ms) \in Int /\ Limiter!Ceil(ms) * Second \in Int /\ Limiter!Ceil(ms) * Second >= ms
<1>1. Second \in Nat /\ Second > 0
  BY Bounds
<1>2. \A x \in Int, d \in Nat \ {0} : x \div d \in Int /\ (x \div d) * d + d > x
  BY Z3
<1>3. QED
  BY <1>1, <1>2 DEF Limiter!Ceil

\* Members have an oldest.
LEMMA OldestExists ==
  ASSUME NEW kept, kept # {}, \A m \in kept : m.score \in Int /\ m.score >= 0
  PROVE  Limiter!Oldest(kept) \in kept
<1> DEFINE scores == {m.score : m \in kept}
<1>1. scores \in SUBSET Nat /\ scores # {}
  OBVIOUS
<1>2. PICK s \in scores : \A r \in scores : s <= r
  BY <1>1, Least
<1>3. PICK m \in kept : \A n \in kept : m.score <= n.score
  BY <1>2
<1>4. QED
  BY <1>3 DEF Limiter!Oldest

\* Who waits out what it is told outlives the window of the oldest member.
LEMMA WaitIsEnough ==
  ASSUME Limiter!LimiterAssumption, NEW stamp \in Int, NEW l \in Limits, NEW kept,
         kept = Limiter!Kept(stamp, l),
         \A m \in kept : m.score \in Int /\ m.score >= 0
  PROVE  /\ stamp + Limiter!RetryAfter(stamp, l) * Second \in Int
         /\ kept # {} => \E m \in kept : m.score + Limiter!Window(l) <= stamp + Limiter!RetryAfter(stamp, l) * Second
<1> DEFINE wait == IF kept = {} THEN Limiter!Window(l) ELSE Limiter!Oldest(kept).score + Limiter!Window(l) - stamp
<1>1. Limiter!Window(l) \in Nat /\ Second \in Nat /\ Second > 0
  BY WindowIsNat, Bounds
<1>2. wait \in Int
  <2>1. CASE kept = {}
    BY <1>1, <2>1
  <2>2. CASE kept # {}
    BY <1>1, <2>2, OldestExists
  <2>3. QED
    BY <2>1, <2>2
<1>3. Limiter!RetryAfter(stamp, l) = IF Limiter!Ceil(wait) < 1 THEN 1 ELSE Limiter!Ceil(wait)
  BY DEF Limiter!RetryAfter
<1>4. Limiter!Ceil(wait) \in Int /\ Limiter!Ceil(wait) * Second \in Int /\ Limiter!Ceil(wait) * Second >= wait
  BY <1>2, RoundsUp
<1> HIDE DEF wait
<1>5. \A n \in Int, d \in Nat : n < 1 => n * d <= d
  BY Z3
<1>6. Limiter!RetryAfter(stamp, l) * Second \in Int /\ Limiter!RetryAfter(stamp, l) * Second >= wait
  <2>1. CASE Limiter!Ceil(wait) < 1
    <3>1. Limiter!Ceil(wait) * Second <= Second
      BY <1>1, <1>4, <1>5, <2>1
    <3>2. Limiter!RetryAfter(stamp, l) * Second = Second
      BY <1>1, <1>3, <2>1
    <3>3. QED
      BY <1>1, <1>2, <1>4, <3>1, <3>2
  <2>2. CASE ~(Limiter!Ceil(wait) < 1)
    BY <1>3, <1>4, <2>2
  <2>3. QED
    BY <2>1, <2>2
<1>7. ASSUME kept # {} PROVE \E m \in kept : m.score + Limiter!Window(l) <= stamp + Limiter!RetryAfter(stamp, l) * Second
  <2>1. Limiter!Oldest(kept) \in kept /\ Limiter!Oldest(kept).score \in Int
    BY <1>7, OldestExists
  <2>2. wait = Limiter!Oldest(kept).score + Limiter!Window(l) - stamp
    BY <1>7 DEF wait
  <2> DEFINE oldest == Limiter!Oldest(kept).score
             told == Limiter!RetryAfter(stamp, l) * Second
  <2>3. oldest \in Int /\ told \in Int /\ told >= oldest + Limiter!Window(l) - stamp
    BY <1>6, <2>1, <2>2
  <2> HIDE DEF oldest, told
  <2>4. oldest + Limiter!Window(l) <= stamp + told
    BY <1>1, <2>3
  <2>5. QED
    BY <2>1, <2>4 DEF oldest, told
<1>8. QED
  BY <1>6, <1>7

\* A refusal drops what is old, and promises by what it leaves.
LEMMA RefuseKeeps ==
  ASSUME Limiter!LimiterAssumption, RateInv, NEW c \in Checks, check[c].sent, Limiter!Refuse(c), now' = now
  PROVE  BucketInv' /\ zset' \in SUBSET zset /\ admitted' = admitted
<1> DEFINE stamp == check[c].stamp
           limit == check[c].limit
           kept == Limiter!Kept(stamp, limit)
<1>1. /\ now \in Nat /\ zset \subseteq Members /\ expireAt \in Nat /\ admitted \in Seq(Nat)
      /\ stamp \in Int /\ limit \in Limits /\ Len(admitted) \in Nat
      /\ promise \in [until : Int, count : Int, limit : Limits]
  BY DEF RateInv, Limiter!TypeOK, Members
<1>2. /\ ~Limiter!Allows(stamp, limit) /\ zset' = kept /\ now' = now
      /\ promise' = IF Cardinality(kept) > limit.max THEN Limiter!NoPromise
                    ELSE [until |-> stamp + Limiter!RetryAfter(stamp, limit) * Second,
                          count |-> Len(admitted), limit |-> limit]
      /\ expireAt' = expireAt /\ admitted' = admitted
  BY SameCount DEF Limiter!Refuse
<1>3. /\ kept \in SUBSET zset /\ IsFiniteSet(kept) /\ Cardinality(kept) \in Nat
      /\ \A w \in Nat, i \in DOMAIN admitted :
            Limiter!ShortestWindow(w) /\ admitted[i] > now - w + Limiter!Spread => \E m \in kept : m.id = i
  BY KeptIsRecent
<1>4. limit.max \in Nat /\ ~(Cardinality(kept) < limit.max)
  BY <1>1, <1>2, WindowIsNat, SameCount DEF Limiter!Allows
<1>5. \A m \in kept : m.score \in Int /\ m.score >= 0
  BY <1>1, <1>3 DEF RateInv, Scored, Members
<1>6. /\ stamp + Limiter!RetryAfter(stamp, limit) * Second \in Int
      /\ kept # {} => \E m \in kept : m.score + Limiter!Window(limit) <= stamp + Limiter!RetryAfter(stamp, limit) * Second
  BY <1>1, <1>5, WaitIsEnough
<1> HIDE DEF stamp, limit, kept
<1>7. promise' \in [until : Int, count : Int, limit : Limits] /\ Promised'
  <2>1. CASE Cardinality(kept) > limit.max
    <3>1. promise' \in [until : Int, count : Int, limit : Limits] /\ promise'.count = -1
      BY <1>2, <2>1, Bounds DEF Limiter!NoPromise
    <3>2. QED
      BY <1>1, <1>2, <3>1 DEF Promised
  <2>2. CASE ~(Cardinality(kept) > limit.max)
    <3>1. promise' = [until |-> stamp + Limiter!RetryAfter(stamp, limit) * Second, count |-> Len(admitted), limit |-> limit]
      BY <1>2, <2>2
    <3>2. Cardinality(kept) = limit.max
      BY <1>3, <1>4, <2>2
    <3>3. limit.max > 0 => kept # {}
      BY <1>3, <3>2, FS_EmptySet
    <3>4. QED
      BY <1>1, <1>2, <1>4, <1>6, <3>1, <3>2, <3>3 DEF Promised
  <2>3. QED
    BY <2>1, <2>2
<1>8. InTime' /\ Scored'
  BY <1>2, <1>3 DEF RateInv, InTime, Scored
<1>9. Remembered'
  <2>1. \A w \in Nat : Limiter!ShortestWindow(w) => \A i \in DOMAIN admitted : admitted[i] + w <= expireAt
    BY DEF RateInv, Remembered
  <2>2. QED
    BY <1>2, <1>3, <2>1 DEF Remembered, Limiter!ShortestWindow
<1>10. Limiter!RateHolds'
  BY <1>2 DEF RateInv, Limiter!RateHolds, Limiter!LargestMax, Limiter!ShortestWindow, Limiter!Window
<1>11. QED
  BY <1>1, <1>2, <1>3, <1>7, <1>8, <1>9, <1>10 DEF BucketInv, Members

LEMMA SendKeeps ==
  ASSUME Limiter!LimiterAssumption, RateInv, NEW c \in Checks, NEW limit \in Limits,
         NEW drift \in (-Skew)..Skew,
         Limiter!Send(c, limit, drift)
  PROVE  RateInv'
<1> DEFINE sent == [sent |-> TRUE, stamp |-> now + drift, at |-> now, limit |-> limit, id |-> 0]
<1>1. /\ now \in Nat /\ zset \subseteq Members /\ check \in [Checks -> CheckStates] /\ drift \in Int
      /\ -Skew <= drift /\ drift <= Skew /\ Len(admitted) \in Nat /\ now >= Skew
  BY Bounds DEF RateInv, Limiter!TypeOK, Members, CheckStates, InTime
<1>2. check' = [check EXCEPT ![c] = sent] /\ UNCHANGED <<now, zset, expireAt, admitted, promise, lost>>
  BY DEF Limiter!Send
<1>3. sent \in CheckStates
  BY <1>1 DEF CheckStates
<1>4. check' \in [Checks -> CheckStates] /\ \A d \in Checks : check'[d] = IF d = c THEN sent ELSE check[d]
  BY <1>1, <1>2, <1>3
<1>5. Limiter!TypeOK'
  BY <1>2, <1>4 DEF RateInv, Limiter!TypeOK, CheckStates
<1>6. Stamped'
  <2>1. /\ Skew <= sent.at /\ sent.at <= now /\ now <= sent.at + MaxDelay
        /\ sent.at - Skew <= sent.stamp /\ sent.stamp <= sent.at + Skew
    BY <1>1, Bounds
  <2>2. QED
    BY <1>2, <1>4, <2>1 DEF RateInv, Stamped
<1>7. SameMember'
  BY <1>1, <1>2, <1>4 DEF RateInv, SameMember, Members
<1>8. (InTime /\ Scored /\ Remembered /\ Promised /\ Limiter!RateHolds)'
  BY <1>2 DEF RateInv, InTime, Scored, Remembered, Promised, Limiter!RateHolds, Limiter!ShortestWindow
<1>9. QED
  BY <1>5, <1>6, <1>7, <1>8 DEF RateInv

\* What an evaluated check leaves, whether or not its sender hears of it.
LEMMA EvalKeeps ==
  ASSUME Limiter!LimiterAssumption, RateInv, NEW c \in Checks, check[c].sent, now' = now, lost' \in 0..MaxLost,
         \/ Limiter!Admit(c) /\ (check' = [check EXCEPT ![c] = Limiter!Unsent] \/ check' = [check EXCEPT ![c].id = Limiter!AddsAs(c)])
         \/ Limiter!Refuse(c) /\ (check' = [check EXCEPT ![c] = Limiter!Unsent] \/ UNCHANGED check)
  PROVE  RateInv'
<1>1. /\ check \in [Checks -> CheckStates] /\ Limiter!Unsent \in CheckStates /\ now \in Nat /\ Len(admitted) \in Nat
      /\ \A d \in Checks : check[d].id \in 0..Len(admitted) /\ check[d].id \in Nat
  BY Bounds DEF RateInv, Limiter!TypeOK, CheckStates, SameMember, Limiter!Unsent
<1>2. BucketInv' /\ Len(admitted') \in Nat /\ Len(admitted') >= Len(admitted)
  <2>1. BucketInv' /\ Len(admitted') >= Len(admitted)
    BY <1>1, AdmitKeeps, RefuseKeeps
  <2>2. QED
    BY <2>1 DEF BucketInv
<1>3. \A d \in Checks : \/ check'[d] = Limiter!Unsent
                        \/ check'[d] = check[d]
                        \/ d = c /\ check'[d] = [check[d] EXCEPT !.id = Limiter!AddsAs(c)] /\ Limiter!Admit(c)
  BY <1>1
<1>4. \A d \in Checks : \A m \in zset' : m.id = check'[d].id => m.score = check'[d].stamp
  <2> SUFFICES ASSUME NEW d \in Checks, NEW m \in zset', m.id = check'[d].id PROVE m.score = check'[d].stamp
    OBVIOUS
  <2>1. m.id \in 1..Len(admitted') /\ m.id # 0
    BY <1>2 DEF BucketInv, Members
  <2>2. check'[d] # Limiter!Unsent
    BY <2>1 DEF Limiter!Unsent
  <2>3. CASE Limiter!Refuse(c)
    <3>1. m \in zset
      BY <2>3, RefuseKeeps
    <3>2. CASE check'[d] = check[d]
      BY <3>1, <3>2 DEF RateInv, SameMember
    <3>3. CASE Limiter!Admit(c)
      BY <2>3, <3>3 DEF Limiter!Admit, Limiter!Refuse
    <3>4. QED
      BY <1>3, <2>2, <3>2, <3>3
  <2>4. CASE Limiter!Admit(c)
    <3>1. /\ \/ m \in zset /\ m.id # Limiter!AddsAs(c)
             \/ m.id = Limiter!AddsAs(c) /\ m.score = check[c].stamp
          /\ Limiter!AddsAs(c) = check[c].id \/ Limiter!AddsAs(c) > Len(admitted)
      BY <2>4, AdmitKeeps
    <3>2. CASE m \in zset /\ m.id # Limiter!AddsAs(c)
      <4>1. check'[d] = check[d]
        BY <1>1, <1>3, <2>2, <3>2 DEF CheckStates
      <4>2. QED
        BY <3>2, <4>1 DEF RateInv, SameMember
    <3>3. CASE m.id = Limiter!AddsAs(c) /\ m.score = check[c].stamp
      <4>1. CASE d = c
        BY <1>1, <1>3, <2>2, <3>3, <4>1 DEF CheckStates
      <4>2. CASE d # c
        <5>1. check'[d] = check[d] /\ check[d].id \in 0..Len(admitted) /\ check[d].id = Limiter!AddsAs(c)
          BY <1>1, <1>3, <2>2, <3>3, <4>2
        <5>2. Limiter!AddsAs(c) = check[c].id /\ check[c].id # 0
          BY <1>1, <2>1, <3>1, <3>3, <5>1
        <5>3. Limiter!AddsAs(c) # Len(admitted) + 1
          BY <1>1, <5>1
        <5>4. \E n \in Limiter!Kept(check[c].stamp, check[c].limit) : n.id = check[c].id
          BY <5>3 DEF Limiter!AddsAs
        <5>5. PICK n \in zset : n.id = check[c].id
          BY <5>4 DEF Limiter!Kept
        <5>6. n.score = check[c].stamp /\ n.score = check[d].stamp
          BY <5>1, <5>2, <5>5 DEF RateInv, SameMember
        <5>7. QED
          BY <3>3, <5>1, <5>6
      <4>3. QED
        BY <4>1, <4>2
    <3>4. QED
      BY <3>1, <3>2, <3>3
  <2>5. QED
    BY <2>3, <2>4
<1>5. \A d \in Checks : check'[d] \in CheckStates /\ check'[d].id \in 0..Len(admitted')
  <2> SUFFICES ASSUME NEW d \in Checks PROVE check'[d] \in CheckStates /\ check'[d].id \in 0..Len(admitted')
    OBVIOUS
  <2>1. CASE check'[d] = Limiter!Unsent
    BY <1>1, <1>2, <2>1 DEF Limiter!Unsent
  <2>2. CASE check'[d] = check[d]
    BY <1>1, <1>2, <2>2
  <2>3. CASE d = c /\ check'[d] = [check[d] EXCEPT !.id = Limiter!AddsAs(c)] /\ Limiter!Admit(c)
    <3>1. Limiter!AddsAs(c) \in 1..Len(admitted')
      BY <2>3, AdmitKeeps
    <3>2. Limiter!AddsAs(c) \in Nat /\ Limiter!AddsAs(c) \in 0..Len(admitted')
      BY <1>2, <3>1
    <3>3. check'[d].id = Limiter!AddsAs(c) /\ check'[d] \in CheckStates
      BY <1>1, <2>3, <3>2 DEF CheckStates
    <3>4. QED
      BY <3>2, <3>3
  <2>4. QED
    BY <1>3, <2>1, <2>2, <2>3
<1>6. check' \in [Checks -> CheckStates]
  BY <1>1, <1>5
<1>7. Limiter!TypeOK'
  BY <1>1, <1>2, <1>6 DEF RateInv, Limiter!TypeOK, BucketInv, CheckStates, Members
<1>8. SameMember'
  BY <1>4, <1>5 DEF SameMember
<1>9. Stamped'
  <2> SUFFICES ASSUME NEW d \in Checks, check'[d].sent
               PROVE /\ Skew <= check'[d].at /\ check'[d].at <= now /\ now <= check'[d].at + MaxDelay
                     /\ check'[d].at - Skew <= check'[d].stamp /\ check'[d].stamp <= check'[d].at + Skew
    BY DEF Stamped
  <2>1. check'[d].at = check[d].at /\ check'[d].stamp = check[d].stamp /\ check[d].sent
    BY <1>1, <1>3 DEF Limiter!Unsent, CheckStates
  <2>2. QED
    BY <2>1 DEF RateInv, Stamped
<1>10. QED
  BY <1>2, <1>7, <1>8, <1>9 DEF RateInv, BucketInv

LEMMA TickKeeps == ASSUME Limiter!LimiterAssumption, RateInv, Limiter!Tick PROVE RateInv'
<1>1. /\ now \in Nat /\ check \in [Checks -> CheckStates] /\ expireAt \in Nat /\ admitted \in Seq(Nat)
      /\ now' = now + 1 /\ UNCHANGED <<zset, expireAt, admitted, check, promise, lost>>
      /\ \A c \in Checks : check[c].sent => now < check[c].at + MaxDelay
  BY DEF RateInv, Limiter!TypeOK, CheckStates, Limiter!Tick
<1>2. Limiter!TypeOK' /\ SameMember' /\ Scored' /\ Promised' /\ Limiter!RateHolds'
  BY <1>1 DEF RateInv, Limiter!TypeOK, SameMember, Scored, Promised, Limiter!RateHolds
<1>3. Stamped'
  <2> SUFFICES ASSUME NEW c \in Checks, check[c].sent PROVE check[c].at <= now + 1 /\ now + 1 <= check[c].at + MaxDelay
    BY <1>1 DEF RateInv, Stamped
  <2>1. check[c].at \in Nat /\ check[c].at <= now /\ now < check[c].at + MaxDelay
    BY <1>1 DEF RateInv, Stamped, CheckStates
  <2>2. QED
    BY <1>1, <2>1, Bounds
<1>4. InTime'
  <2>1. \A i \in DOMAIN admitted : admitted[i] \in Nat /\ admitted[i] <= now
    BY <1>1 DEF RateInv, InTime
  <2>2. QED
    BY <1>1, <2>1, Bounds DEF RateInv, InTime
<1>5. Remembered'
  <2> SUFFICES ASSUME NEW w \in Nat, Limiter!ShortestWindow(w), NEW i \in DOMAIN admitted
               PROVE  /\ admitted[i] + w <= expireAt
                      /\ admitted[i] > now' - w + Limiter!Spread => \E m \in zset : m.id = i
    BY <1>1 DEF Remembered, Limiter!ShortestWindow
  <2>1. admitted[i] \in Nat
    BY <1>1
  <2>2. admitted[i] > now' - w + Limiter!Spread => admitted[i] > now - w + Limiter!Spread
    BY <1>1, <2>1, Bounds
  <2>3. QED
    BY <2>2 DEF RateInv, Remembered
<1>6. QED
  BY <1>2, <1>3, <1>4, <1>5 DEF RateInv

LEMMA RateNext == ASSUME Limiter!LimiterAssumption, RateInv, [Limiter!Next]_(Limiter!vars) PROVE RateInv'
<1>1. CASE Limiter!Next
  <2>1. CASE \E c \in Checks, limit \in Limits, drift \in (-Skew)..Skew : Limiter!Send(c, limit, drift)
    BY <2>1, SendKeeps
  <2>2. CASE \E c \in Checks : Limiter!Eval(c)
    <3>1. PICK c \in Checks : Limiter!Eval(c)
      BY <2>2
    <3>2. lost' \in 0..MaxLost /\ now' = now /\ check[c].sent
      BY <3>1 DEF Limiter!Eval, RateInv, Limiter!TypeOK
    <3>3. QED
      BY <3>1, <3>2, EvalKeeps DEF Limiter!Eval
  <2>3. CASE \E c \in Checks : Limiter!EvalUnanswered(c)
    <3>1. PICK c \in Checks : Limiter!EvalUnanswered(c)
      BY <2>3
    <3>2. lost' \in 0..MaxLost /\ now' = now /\ check[c].sent
      BY <3>1, Bounds DEF Limiter!EvalUnanswered, RateInv, Limiter!TypeOK
    <3>3. QED
      BY <3>1, <3>2, EvalKeeps DEF Limiter!EvalUnanswered
  <2>4. CASE Limiter!Tick
    BY <2>4, TickKeeps
  <2>5. QED
    BY <1>1, <2>1, <2>2, <2>3, <2>4 DEF Limiter!Next
<1>2. CASE UNCHANGED Limiter!vars
  BY <1>2 DEF Limiter!vars, RateInv, Limiter!TypeOK, Stamped, SameMember, InTime, Scored, Remembered,
       Promised, Limiter!RateHolds, Limiter!ShortestWindow
<1>3. QED
  BY <1>1, <1>2

\* A refusal where nothing was added since the last is for one who came too early.
LEMMA RefusedEarly ==
  ASSUME Limiter!LimiterAssumption, RateInv, NEW c \in Checks, check[c].sent, Limiter!Refuse(c),
         promise.count = Len(admitted), promise.limit = check[c].limit, check[c].limit.max > 0
  PROVE  check[c].stamp < promise.until
<1> DEFINE kept == Limiter!Kept(check[c].stamp, check[c].limit)
<1>1. /\ kept \in SUBSET zset /\ IsFiniteSet(kept) /\ Cardinality(kept) \in Nat /\ ~Limiter!Allows(check[c].stamp, check[c].limit)
      /\ IsFiniteSet(zset) /\ Cardinality(zset) \in Nat
  BY KeptIsRecent, FS_CardinalityType DEF RateInv, Scored, Limiter!Refuse
<1>2. /\ check[c].stamp \in Int /\ check[c].limit \in Limits /\ promise.until \in Int /\ zset \subseteq Members
      /\ check[c].limit.max \in Nat /\ Limiter!Window(check[c].limit) \in Nat
  <2>1. check[c].limit \in Limits
    BY DEF RateInv, Limiter!TypeOK
  <2>2. QED
    BY <2>1, WindowIsNat DEF RateInv, Limiter!TypeOK, Members
<1>3. Cardinality(zset) <= check[c].limit.max /\ Cardinality(kept) >= check[c].limit.max
  BY <1>1, <1>2, SameCount DEF RateInv, Promised, Limiter!Allows
<1>4. kept = zset /\ Cardinality(zset) = check[c].limit.max
  BY <1>1, <1>2, <1>3, FS_Subset
<1>5. PICK m \in zset : m.score + Limiter!Window(check[c].limit) <= promise.until
  BY <1>4 DEF RateInv, Promised
<1>6. m.score > check[c].stamp - Limiter!Window(check[c].limit) /\ m.score \in Int
  BY <1>2, <1>4 DEF Limiter!Kept, Members
<1>7. QED
  BY <1>2, <1>5, <1>6

----------------------------------------------------------------------------
(***************************************************************************)
(* The gates: any requests, any rate limit, image cap and number of        *)
(* images, any changes of the configuration and any faults.                *)
(*                                                                         *)
(* The inductive invariant: a request stands at a gate of its route and    *)
(* holds what the gates behind it gave it; and since a caller is known by  *)
(* a key that is in scope, a paddock that was never open to it while it    *)
(* asked is shut now, unless two things have changed since it came.        *)
(***************************************************************************)
Stages == {"new", "auth", "scope", "limits", "body", "run", "plan", "list", "result", "images", "waiting", "done"}
RequestStates ==
    [kind : Gate!Proxied \cup Gate!Mcp \cup {"poll", Nothing}, pc : Stages,
     key : BOOLEAN \cup {Nothing}, paddock : BOOLEAN \cup {Nothing},
     paid : BOOLEAN, read : BOOLEAN, reached : BOOLEAN, images : 0..MaxImages, bytes : 0..Cap,
     answer : Gate!Answers \cup {Nothing}, open : BOOLEAN, moved : Nat]

\* A request is at a gate of its route.
OnRoute(q) ==
    \/ q.pc \in {"new", "done"}
    \/ q.kind \in Gate!Proxied /\ q.pc \in {"auth", "scope", "limits", "body", "run"}
    \/ q.kind = "poll" /\ q.pc \in {"auth", "scope", "result"}
    \/ q.kind = "note" /\ q.pc \in {"auth", "body"}
    \/ q.kind = "list" /\ q.pc \in {"auth", "body", "scope", "list"}
    \/ q.kind = "job tool" /\ q.pc \in {"auth", "body", "scope", "plan", "limits", "result", "images"}
    \/ q.kind \in {"infer tool", "run tool"} /\ q.pc \in {"auth", "body", "scope", "plan", "limits", "run"}
    \/ q.kind \in {"infer", "infer tool"} /\ q.pc = "waiting"

\* It is known who asks, but not yet whether the paddock is open to him; and it is.
Known(q) == q.pc = "scope" \/ (q.kind \in Gate!Mcp /\ q.pc = "body")
Scoped(q) ==
    \/ q.pc \in {"limits", "plan", "list", "run", "result", "images", "waiting"}
    \/ q.kind \in Gate!Proxied /\ q.pc = "body"

\* What the gates behind it have left in it, and those before it not yet.
Place(q) ==
    /\ OnRoute(q)
    /\ q.pc \in {"new", "auth"} => ~q.read
    /\ Known(q) \/ Scoped(q) => q.key \in BOOLEAN
    /\ q.kind \in Gate!Mcp /\ Known(q) => q.key = TRUE
    /\ Scoped(q) => q.key = TRUE /\ q.paddock \in BOOLEAN
    /\ q.pc \in {"images", "waiting"} \/ (q.kind \in Gate!Tools /\ q.pc \in {"limits", "result", "run"}) => q.paddock = TRUE
    /\ q.pc \in {"new", "auth", "scope", "limits", "plan", "list"} \/ Known(q) => ~q.paid
    /\ q.pc \in {"run", "images", "waiting"} \/ (q.kind # "poll" /\ q.pc = "result")
       \/ (q.kind \in Gate!Proxied /\ q.pc = "body") => q.paid
    /\ q.pc \notin {"images", "waiting", "done"} => ~q.reached
    /\ q.answer # Nothing <=> q.pc = "done"

\* When every gate stood open.  Who is known was let in by a key in scope, so unless two
\* things have changed since it came, the paddock is not open now, or it was open once.
Moment(q, c) ==
    /\ q.pc \notin {"new", "done"} /\ ~q.open => ~Gate!InOrder(c)
    /\ Known(q) /\ q.key = TRUE /\ ~q.open =>
          \/ q.moved > 1
          \/ ~(c.on /\ c.credential) /\ (q.moved = 0 => c.key /\ c.scoped)
    /\ Scoped(q) => q.open \/ q.moved > 1

Gated(q, c) ==
    /\ q \in RequestStates
    /\ Place(q) /\ Moment(q, c)
    /\ Gate!AsksInOrder(q) /\ Gate!ReachesInOrder(q) /\ Gate!AttachesAll(q)

\* A stream is metered while it is open and until its usage is emitted or forgone.
Flowing(r) ==
    /\ asking[r].pc \notin {"waiting", "done"} => stream[r] = "none"
    /\ asking[r].pc = "waiting" => stream[r] # "none"
    /\ stream[r] = "none" => meter[r] = "none" /\ emits[r] = 0
    /\ stream[r] = "open" => meter[r] = "reading"
    /\ stream[r] = "broken" => r \in cut
    /\ meter[r] = "emitting" => stream[r] = "counted"
    /\ meter[r] # "none" => emits[r] = 0

\* ServedIsMetered, of one request.
Served(r) ==
    /\ emits[r] <= 1
    /\ emits[r] = 1 => stream[r] = "counted"
    /\ stream[r] = "counted" => emits[r] = 1 \/ meter[r] # "none" \/ r \in forgone
    /\ asking[r].answer = "whole" => stream[r] \in {"counted", "uncounted"}
    /\ asking[r].answer = "left" /\ stream[r] = "broken" => r \in cut

\* The variables of the metered streams, and those every request shares.
FlowTypes ==
    /\ stream \in [Requests -> {"none", "open", "counted", "uncounted", "broken"}]
    /\ meter \in [Requests -> {"none", "reading", "emitting"}]
    /\ emits \in [Requests -> 0..1]
    /\ forgone \subseteq Requests /\ cut \subseteq Requests
Settings ==
    /\ breed \in {"ollama", "comfyui"} /\ conf \in Gate!Configured
    /\ changes \in 0..MaxChanges /\ gateFaults \in 0..MaxGateFaults
SlotsHeld ==
    /\ slots \subseteq {r \in Requests : asking[r].paid}
    /\ IsFiniteSet(slots) /\ Cardinality(slots) <= Max
Kind(q) == q.kind \in Gate!KindsOf(breed) \cup {Nothing}

GateInv ==
    /\ Settings /\ FlowTypes /\ SlotsHeld
    /\ asking \in [Requests -> RequestStates]
    /\ \A r \in Requests : Kind(asking[r]) /\ Gated(asking[r], conf) /\ Flowing(r) /\ Served(r)

LEMMA Joined ==
  ASSUME NEW s \in Seq(Stages), NEW t \in Seq(Stages)
  PROVE  /\ s \o t \in Seq(Stages) /\ Len(s \o t) = Len(s) + Len(t) /\ DOMAIN (s \o t) = 1..Len(s) + Len(t)
         /\ \A i \in 1..Len(s) : (s \o t)[i] = s[i]
         /\ \A i \in 1..Len(t) : (s \o t)[Len(s) + i] = t[i]
OBVIOUS

\* The gates of each route, in order.
LEMMA Routes ==
  /\ DOMAIN Gate!ProxyGates = 1..5 /\ Gate!ProxyGates[1] = "auth" /\ Gate!ProxyGates[2] = "scope" /\ Gate!ProxyGates[3] = "limits"
     /\ Gate!ProxyGates[4] = "body" /\ Gate!ProxyGates[5] = "run"
  /\ DOMAIN Gate!PollGates = 1..3 /\ Gate!PollGates[1] = "auth" /\ Gate!PollGates[2] = "scope" /\ Gate!PollGates[3] = "result"
  /\ LET note == <<"auth", "body">> IN DOMAIN note = 1..2 /\ note[1] = "auth" /\ note[2] = "body"
  /\ LET list == Append(Gate!McpGates, "list")
     IN  DOMAIN list = 1..4 /\ list[1] = "auth" /\ list[2] = "body" /\ list[3] = "scope" /\ list[4] = "list"
  /\ LET run == Gate!McpGates \o Gate!ToolGates \o <<"run">>
     IN  DOMAIN run = 1..6 /\ run[1] = "auth" /\ run[2] = "body" /\ run[3] = "scope"
         /\ run[4] = "plan" /\ run[5] = "limits" /\ run[6] = "run"
  /\ LET job == Gate!McpGates \o Gate!ToolGates \o <<"result", "images">>
     IN  DOMAIN job = 1..7 /\ job[1] = "auth" /\ job[2] = "body" /\ job[3] = "scope"
         /\ job[4] = "plan" /\ job[5] = "limits" /\ job[6] = "result" /\ job[7] = "images"
<1> DEFINE tool == Gate!McpGates \o Gate!ToolGates
<1>1. /\ tool \in Seq(Stages) /\ Len(tool) = 5 /\ tool[1] = "auth" /\ tool[2] = "body" /\ tool[3] = "scope"
      /\ tool[4] = "plan" /\ tool[5] = "limits"
  <2> DEFINE s == Gate!McpGates
             t == Gate!ToolGates
  <2>1. /\ s \in Seq(Stages) /\ Len(s) = 3 /\ s[1] = "auth" /\ s[2] = "body" /\ s[3] = "scope"
        /\ t \in Seq(Stages) /\ Len(t) = 2 /\ t[1] = "plan" /\ t[2] = "limits"
    BY DEF Gate!McpGates, Gate!ToolGates, Stages
  <2> HIDE DEF s, t
  <2> DEFINE st == s \o t
  <2>2. /\ st \in Seq(Stages) /\ Len(st) = Len(s) + Len(t)
        /\ \A i \in 1..Len(s) : st[i] = s[i]
        /\ \A i \in 1..Len(t) : st[Len(s) + i] = t[i]
    BY <2>1, Joined
  <2> HIDE DEF st
  <2>3. /\ st \in Seq(Stages) /\ Len(st) = 5 /\ st[1] = "auth" /\ st[2] = "body" /\ st[3] = "scope"
        /\ st[3 + 1] = "plan" /\ st[3 + 2] = "limits"
    BY <2>1, <2>2
  <2>4. QED
    BY <2>3 DEF st, s, t
<1> HIDE DEF tool
<1> DEFINE run == tool \o <<"run">>
           job == tool \o <<"result", "images">>
<1>2. /\ DOMAIN run = 1..6 /\ run[1] = "auth" /\ run[2] = "body" /\ run[3] = "scope"
      /\ run[4] = "plan" /\ run[5] = "limits" /\ run[6] = "run"
  <2> DEFINE t == <<"run">>
  <2>1. t \in Seq(Stages) /\ Len(t) = 1 /\ t[1] = "run"
    BY DEF Stages
  <2> HIDE DEF t
  <2> DEFINE st == tool \o t
  <2>2. /\ DOMAIN st = 1..Len(tool) + Len(t)
        /\ \A i \in 1..Len(tool) : st[i] = tool[i]
        /\ \A i \in 1..Len(t) : st[Len(tool) + i] = t[i]
    BY <1>1, <2>1, Joined
  <2> HIDE DEF st
  <2>3. /\ DOMAIN st = 1..6 /\ st[1] = "auth" /\ st[2] = "body" /\ st[3] = "scope"
        /\ st[4] = "plan" /\ st[5] = "limits" /\ st[5 + 1] = "run"
    BY <1>1, <2>1, <2>2
  <2>4. QED
    BY <2>3 DEF st, t
<1>3. /\ DOMAIN job = 1..7 /\ job[1] = "auth" /\ job[2] = "body" /\ job[3] = "scope"
      /\ job[4] = "plan" /\ job[5] = "limits" /\ job[6] = "result" /\ job[7] = "images"
  <2> DEFINE t == <<"result", "images">>
  <2>1. t \in Seq(Stages) /\ Len(t) = 2 /\ t[1] = "result" /\ t[2] = "images"
    BY DEF Stages
  <2> HIDE DEF t
  <2> DEFINE st == tool \o t
  <2>2. /\ DOMAIN st = 1..Len(tool) + Len(t)
        /\ \A i \in 1..Len(tool) : st[i] = tool[i]
        /\ \A i \in 1..Len(t) : st[Len(tool) + i] = t[i]
    BY <1>1, <2>1, Joined
  <2> HIDE DEF st
  <2>3. /\ DOMAIN st = 1..7 /\ st[1] = "auth" /\ st[2] = "body" /\ st[3] = "scope"
        /\ st[4] = "plan" /\ st[5] = "limits" /\ st[5 + 1] = "result" /\ st[5 + 2] = "images"
    BY <1>1, <2>1, <2>2
  <2>4. QED
    BY <2>3 DEF st, t
<1> HIDE DEF run, job
<1>4. LET list == Append(Gate!McpGates, "list")
      IN  DOMAIN list = 1..4 /\ list[1] = "auth" /\ list[2] = "body" /\ list[3] = "scope" /\ list[4] = "list"
  BY DEF Gate!McpGates
<1>5. /\ DOMAIN Gate!ProxyGates = 1..5 /\ Gate!ProxyGates[1] = "auth" /\ Gate!ProxyGates[2] = "scope" /\ Gate!ProxyGates[3] = "limits"
         /\ Gate!ProxyGates[4] = "body" /\ Gate!ProxyGates[5] = "run"
      /\ DOMAIN Gate!PollGates = 1..3 /\ Gate!PollGates[1] = "auth" /\ Gate!PollGates[2] = "scope" /\ Gate!PollGates[3] = "result"
  BY DEF Gate!ProxyGates, Gate!PollGates
<1>6. LET note == <<"auth", "body">> IN DOMAIN note = 1..2 /\ note[1] = "auth" /\ note[2] = "body"
  OBVIOUS
<1>7. LET all == Gate!McpGates \o Gate!ToolGates \o <<"run">>
      IN  DOMAIN all = 1..6 /\ all[1] = "auth" /\ all[2] = "body" /\ all[3] = "scope"
          /\ all[4] = "plan" /\ all[5] = "limits" /\ all[6] = "run"
  BY <1>2, Zenon DEF run, tool
<1>8. LET all == Gate!McpGates \o Gate!ToolGates \o <<"result", "images">>
      IN  DOMAIN all = 1..7 /\ all[1] = "auth" /\ all[2] = "body" /\ all[3] = "scope"
          /\ all[4] = "plan" /\ all[5] = "limits" /\ all[6] = "result" /\ all[7] = "images"
  BY <1>3, Zenon DEF job, tool
<1>9. QED
  BY <1>4, <1>5, <1>6, <1>7, <1>8, Zenon

\* A request on its route is at a gate of it.
LEMMA RouteIsGates ==
  ASSUME NEW q, OnRoute(q)
  PROVE  q.pc \in {"new", "waiting", "done"} \/ \E i \in DOMAIN Gate!Gates(q.kind) : Gate!Gates(q.kind)[i] = q.pc
<1> DEFINE gates == Gate!Gates(q.kind)
           run == Gate!McpGates \o Gate!ToolGates \o <<"run">>
           job == Gate!McpGates \o Gate!ToolGates \o <<"result", "images">>
           list == Append(Gate!McpGates, "list")
           note == <<"auth", "body">>
<1>1. CASE q.kind \in Gate!Proxied /\ q.pc \in {"auth", "scope", "limits", "body", "run"}
  <2>1. gates = Gate!ProxyGates
    BY <1>1 DEF Gate!Gates, Gate!Proxied
  <2>2. QED
    BY <1>1, <2>1, Routes
<1>2. CASE q.kind = "poll" /\ q.pc \in {"auth", "scope", "result"}
  <2>1. gates = Gate!PollGates
    BY <1>2 DEF Gate!Gates, Gate!Proxied
  <2>2. QED
    BY <1>2, <2>1, Routes
<1>3. CASE q.kind = "note" /\ q.pc \in {"auth", "body"}
  <2>1. gates = note
    BY <1>3 DEF Gate!Gates, Gate!Proxied
  <2>2. note[1] = "auth" /\ note[2] = "body" /\ {1, 2} \subseteq DOMAIN note
    BY Routes
  <2> HIDE DEF note
  <2>3. QED
    BY <1>3, <2>1, <2>2
<1>4. CASE q.kind = "list" /\ q.pc \in {"auth", "body", "scope", "list"}
  <2>1. gates = list
    BY <1>4 DEF Gate!Gates, Gate!Proxied
  <2> HIDE DEF list
  <2>2. list[1] = "auth" /\ list[2] = "body" /\ list[3] = "scope" /\ list[4] = "list"
        /\ {1, 2, 3, 4} \subseteq DOMAIN list
    BY Routes DEF list
  <2>3. QED
    BY <1>4, <2>1, <2>2
<1>5. CASE q.kind = "job tool" /\ q.pc \in {"auth", "body", "scope", "plan", "limits", "result", "images"}
  <2>1. gates = job
    BY <1>5 DEF Gate!Gates, Gate!Proxied
  <2> HIDE DEF job
  <2>2. job[1] = "auth" /\ job[2] = "body" /\ job[3] = "scope" /\ job[4] = "plan" /\ job[5] = "limits"
        /\ job[6] = "result" /\ job[7] = "images" /\ {1, 2, 3, 4, 5, 6, 7} \subseteq DOMAIN job
    BY Routes, SMTT(20) DEF job
  <2>3. QED
    BY <1>5, <2>1, <2>2
<1>6. CASE q.kind \in {"infer tool", "run tool"} /\ q.pc \in {"auth", "body", "scope", "plan", "limits", "run"}
  <2>1. gates = run
    BY <1>6 DEF Gate!Gates, Gate!Proxied
  <2> HIDE DEF run
  <2>2. run[1] = "auth" /\ run[2] = "body" /\ run[3] = "scope" /\ run[4] = "plan" /\ run[5] = "limits"
        /\ run[6] = "run" /\ {1, 2, 3, 4, 5, 6} \subseteq DOMAIN run
    BY Routes DEF run
  <2>3. QED
    BY <1>6, <2>1, <2>2
<1>7. QED
  BY <1>1, <1>2, <1>3, <1>4, <1>5, <1>6 DEF OnRoute

LEMMA NextGate ==
  ASSUME NEW q, NEW gates, Gate!Gates(q.kind) = gates,
         \A i, j \in DOMAIN gates : gates[i] = gates[j] => i = j
  PROVE  \A i \in DOMAIN gates : q.pc = gates[i] => Gate!On(q) = [q EXCEPT !.pc = gates[i + 1]]
<1> DEFINE here == CHOOSE i \in DOMAIN gates : gates[i] = q.pc
<1> SUFFICES ASSUME NEW i \in DOMAIN gates, q.pc = gates[i] PROVE Gate!On(q) = [q EXCEPT !.pc = gates[i + 1]]
  OBVIOUS
<1>1. here \in DOMAIN gates /\ gates[here] = q.pc
  OBVIOUS
<1>2. here = i
  BY <1>1
<1>3. Gate!On(q) = [q EXCEPT !.pc = gates[here + 1]]
  BY DEF Gate!On
<1>4. QED
  BY <1>2, <1>3

\* The gate after the one a request is at.
Following(q) ==
    CASE q.pc = "auth" -> IF q.kind \in Gate!Mcp THEN "body" ELSE "scope"
      [] q.pc = "body" -> IF q.kind \in Gate!Proxied THEN "run" ELSE "scope"
      [] q.pc = "scope" -> IF q.kind \in Gate!Proxied THEN "limits"
                           ELSE IF q.kind = "poll" THEN "result"
                           ELSE IF q.kind = "list" THEN "list" ELSE "plan"
      [] q.pc = "plan" -> "limits"
      [] q.pc = "limits" -> IF q.kind \in Gate!Proxied THEN "body"
                            ELSE IF q.kind = "job tool" THEN "result" ELSE "run"
      [] OTHER -> "images"

\* The gates a request may be let past.
Leads(q) ==
    \/ q.pc \in {"auth", "scope", "plan", "limits"}
    \/ q.pc = "body" /\ q.kind # "note"
    \/ q.pc = "result" /\ q.kind = "job tool"

LEMMA OnFollows ==
  ASSUME NEW q, OnRoute(q), Leads(q)
  PROVE  Gate!On(q) = [q EXCEPT !.pc = Following(q)]
<1> DEFINE note == <<"auth", "body">>
           list == Append(Gate!McpGates, "list")
           run == Gate!McpGates \o Gate!ToolGates \o <<"run">>
           job == Gate!McpGates \o Gate!ToolGates \o <<"result", "images">>
<1> HIDE DEF note, list, run, job
<1>1. CASE q.kind \in Gate!Proxied /\ q.pc \in {"auth", "scope", "limits", "body"}
  <2>1. Gate!Gates(q.kind) = Gate!ProxyGates
    BY <1>1 DEF Gate!Gates, Gate!Proxied, note, list, run, job
  <2>2. /\ DOMAIN Gate!ProxyGates = 1..5 /\ Gate!ProxyGates[1] = "auth" /\ Gate!ProxyGates[2] = "scope"
        /\ Gate!ProxyGates[3] = "limits" /\ Gate!ProxyGates[4] = "body" /\ Gate!ProxyGates[5] = "run"
    BY Routes
  <2>3. \A i, j \in DOMAIN Gate!ProxyGates : Gate!ProxyGates[i] = Gate!ProxyGates[j] => i = j
    BY <2>2
  <2>4. \A i \in DOMAIN Gate!ProxyGates : q.pc = Gate!ProxyGates[i] => Gate!On(q) = [q EXCEPT !.pc = Gate!ProxyGates[i + 1]]
    BY <2>1, <2>3, NextGate
  <2>5. CASE q.pc = "auth"
    <3>1. Gate!On(q) = [q EXCEPT !.pc = Gate!ProxyGates[1 + 1]]
      BY <2>2, <2>4, <2>5
    <3>2. Gate!ProxyGates[1 + 1] = "scope"
      BY <2>2
    <3>3. Following(q) = "scope"
      BY <1>1, <2>5 DEF Following, Gate!Proxied, Gate!Mcp, Gate!Tools
    <3>4. QED
      BY <3>1, <3>2, <3>3
  <2>6. CASE q.pc = "scope"
    <3>1. Gate!On(q) = [q EXCEPT !.pc = Gate!ProxyGates[2 + 1]]
      BY <2>2, <2>4, <2>6
    <3>2. Gate!ProxyGates[2 + 1] = "limits"
      BY <2>2
    <3>3. Following(q) = "limits"
      BY <1>1, <2>6 DEF Following, Gate!Proxied, Gate!Mcp, Gate!Tools
    <3>4. QED
      BY <3>1, <3>2, <3>3
  <2>7. CASE q.pc = "limits"
    <3>1. Gate!On(q) = [q EXCEPT !.pc = Gate!ProxyGates[3 + 1]]
      BY <2>2, <2>4, <2>7
    <3>2. Gate!ProxyGates[3 + 1] = "body"
      BY <2>2
    <3>3. Following(q) = "body"
      BY <1>1, <2>7 DEF Following, Gate!Proxied, Gate!Mcp, Gate!Tools
    <3>4. QED
      BY <3>1, <3>2, <3>3
  <2>8. CASE q.pc = "body"
    <3>1. Gate!On(q) = [q EXCEPT !.pc = Gate!ProxyGates[4 + 1]]
      BY <2>2, <2>4, <2>8
    <3>2. Gate!ProxyGates[4 + 1] = "run"
      BY <2>2
    <3>3. Following(q) = "run"
      BY <1>1, <2>8 DEF Following, Gate!Proxied, Gate!Mcp, Gate!Tools
    <3>4. QED
      BY <3>1, <3>2, <3>3
  <2>9. QED
    BY <1>1, <2>5, <2>6, <2>7, <2>8
<1>2. CASE q.kind = "poll" /\ q.pc \in {"auth", "scope"}
  <2>1. Gate!Gates(q.kind) = Gate!PollGates
    BY <1>2 DEF Gate!Gates, Gate!Proxied, note, list, run, job
  <2>2. /\ DOMAIN Gate!PollGates = 1..3 /\ Gate!PollGates[1] = "auth" /\ Gate!PollGates[2] = "scope"
        /\ Gate!PollGates[3] = "result"
    BY Routes
  <2>3. \A i, j \in DOMAIN Gate!PollGates : Gate!PollGates[i] = Gate!PollGates[j] => i = j
    BY <2>2
  <2>4. \A i \in DOMAIN Gate!PollGates : q.pc = Gate!PollGates[i] => Gate!On(q) = [q EXCEPT !.pc = Gate!PollGates[i + 1]]
    BY <2>1, <2>3, NextGate
  <2>5. CASE q.pc = "auth"
    <3>1. Gate!On(q) = [q EXCEPT !.pc = Gate!PollGates[1 + 1]]
      BY <2>2, <2>4, <2>5
    <3>2. Gate!PollGates[1 + 1] = "scope"
      BY <2>2
    <3>3. Following(q) = "scope"
      BY <1>2, <2>5 DEF Following, Gate!Proxied, Gate!Mcp, Gate!Tools
    <3>4. QED
      BY <3>1, <3>2, <3>3
  <2>6. CASE q.pc = "scope"
    <3>1. Gate!On(q) = [q EXCEPT !.pc = Gate!PollGates[2 + 1]]
      BY <2>2, <2>4, <2>6
    <3>2. Gate!PollGates[2 + 1] = "result"
      BY <2>2
    <3>3. Following(q) = "result"
      BY <1>2, <2>6 DEF Following, Gate!Proxied, Gate!Mcp, Gate!Tools
    <3>4. QED
      BY <3>1, <3>2, <3>3
  <2>7. QED
    BY <1>2, <2>5, <2>6
<1>3. CASE q.kind = "note" /\ q.pc = "auth"
  <2>1. Gate!Gates(q.kind) = note
    BY <1>3 DEF Gate!Gates, Gate!Proxied, note, list, run, job
  <2>2. /\ DOMAIN note = 1..2 /\ note[1] = "auth" /\ note[2] = "body"
    BY Routes DEF note
  <2>3. \A i, j \in DOMAIN note : note[i] = note[j] => i = j
    BY <2>2
  <2>4. \A i \in DOMAIN note : q.pc = note[i] => Gate!On(q) = [q EXCEPT !.pc = note[i + 1]]
    BY <2>1, <2>3, NextGate
  <2>5. CASE q.pc = "auth"
    <3>1. Gate!On(q) = [q EXCEPT !.pc = note[1 + 1]]
      BY <2>2, <2>4, <2>5
    <3>2. note[1 + 1] = "body"
      BY <2>2
    <3>3. Following(q) = "body"
      BY <1>3, <2>5 DEF Following, Gate!Proxied, Gate!Mcp, Gate!Tools
    <3>4. QED
      BY <3>1, <3>2, <3>3
  <2>6. QED
    BY <1>3, <2>5
<1>4. CASE q.kind = "list" /\ q.pc \in {"auth", "body", "scope"}
  <2>1. Gate!Gates(q.kind) = list
    BY <1>4 DEF Gate!Gates, Gate!Proxied, note, list, run, job
  <2>2. /\ DOMAIN list = 1..4 /\ list[1] = "auth" /\ list[2] = "body" /\ list[3] = "scope"
        /\ list[4] = "list"
    BY Routes DEF list
  <2>3. \A i, j \in DOMAIN list : list[i] = list[j] => i = j
    BY <2>2
  <2>4. \A i \in DOMAIN list : q.pc = list[i] => Gate!On(q) = [q EXCEPT !.pc = list[i + 1]]
    BY <2>1, <2>3, NextGate
  <2>5. CASE q.pc = "auth"
    <3>1. Gate!On(q) = [q EXCEPT !.pc = list[1 + 1]]
      BY <2>2, <2>4, <2>5
    <3>2. list[1 + 1] = "body"
      BY <2>2
    <3>3. Following(q) = "body"
      BY <1>4, <2>5 DEF Following, Gate!Proxied, Gate!Mcp, Gate!Tools
    <3>4. QED
      BY <3>1, <3>2, <3>3
  <2>6. CASE q.pc = "body"
    <3>1. Gate!On(q) = [q EXCEPT !.pc = list[2 + 1]]
      BY <2>2, <2>4, <2>6
    <3>2. list[2 + 1] = "scope"
      BY <2>2
    <3>3. Following(q) = "scope"
      BY <1>4, <2>6 DEF Following, Gate!Proxied, Gate!Mcp, Gate!Tools
    <3>4. QED
      BY <3>1, <3>2, <3>3
  <2>7. CASE q.pc = "scope"
    <3>1. Gate!On(q) = [q EXCEPT !.pc = list[3 + 1]]
      BY <2>2, <2>4, <2>7
    <3>2. list[3 + 1] = "list"
      BY <2>2
    <3>3. Following(q) = "list"
      BY <1>4, <2>7 DEF Following, Gate!Proxied, Gate!Mcp, Gate!Tools
    <3>4. QED
      BY <3>1, <3>2, <3>3
  <2>8. QED
    BY <1>4, <2>5, <2>6, <2>7
<1>5. CASE q.kind = "job tool" /\ q.pc \in {"auth", "body", "scope", "plan", "limits", "result"}
  <2>1. Gate!Gates(q.kind) = job
    BY <1>5 DEF Gate!Gates, Gate!Proxied, note, list, run, job
  <2>2. /\ DOMAIN job = 1..7 /\ job[1] = "auth" /\ job[2] = "body" /\ job[3] = "scope"
        /\ job[4] = "plan" /\ job[5] = "limits" /\ job[6] = "result" /\ job[7] = "images"
    BY Routes DEF job
  <2>3. \A i, j \in DOMAIN job : job[i] = job[j] => i = j
    BY <2>2
  <2>4. \A i \in DOMAIN job : q.pc = job[i] => Gate!On(q) = [q EXCEPT !.pc = job[i + 1]]
    BY <2>1, <2>3, NextGate
  <2>5. CASE q.pc = "auth"
    <3>1. Gate!On(q) = [q EXCEPT !.pc = job[1 + 1]]
      BY <2>2, <2>4, <2>5
    <3>2. job[1 + 1] = "body"
      BY <2>2
    <3>3. Following(q) = "body"
      BY <1>5, <2>5 DEF Following, Gate!Proxied, Gate!Mcp, Gate!Tools
    <3>4. QED
      BY <3>1, <3>2, <3>3
  <2>6. CASE q.pc = "body"
    <3>1. Gate!On(q) = [q EXCEPT !.pc = job[2 + 1]]
      BY <2>2, <2>4, <2>6
    <3>2. job[2 + 1] = "scope"
      BY <2>2
    <3>3. Following(q) = "scope"
      BY <1>5, <2>6 DEF Following, Gate!Proxied, Gate!Mcp, Gate!Tools
    <3>4. QED
      BY <3>1, <3>2, <3>3
  <2>7. CASE q.pc = "scope"
    <3>1. Gate!On(q) = [q EXCEPT !.pc = job[3 + 1]]
      BY <2>2, <2>4, <2>7
    <3>2. job[3 + 1] = "plan"
      BY <2>2
    <3>3. Following(q) = "plan"
      BY <1>5, <2>7 DEF Following, Gate!Proxied, Gate!Mcp, Gate!Tools
    <3>4. QED
      BY <3>1, <3>2, <3>3
  <2>8. CASE q.pc = "plan"
    <3>1. Gate!On(q) = [q EXCEPT !.pc = job[4 + 1]]
      BY <2>2, <2>4, <2>8
    <3>2. job[4 + 1] = "limits"
      BY <2>2
    <3>3. Following(q) = "limits"
      BY <1>5, <2>8 DEF Following, Gate!Proxied, Gate!Mcp, Gate!Tools
    <3>4. QED
      BY <3>1, <3>2, <3>3
  <2>9. CASE q.pc = "limits"
    <3>1. Gate!On(q) = [q EXCEPT !.pc = job[5 + 1]]
      BY <2>2, <2>4, <2>9
    <3>2. job[5 + 1] = "result"
      BY <2>2
    <3>3. Following(q) = "result"
      BY <1>5, <2>9 DEF Following, Gate!Proxied, Gate!Mcp, Gate!Tools
    <3>4. QED
      BY <3>1, <3>2, <3>3
  <2>10. CASE q.pc = "result"
    <3>1. Gate!On(q) = [q EXCEPT !.pc = job[6 + 1]]
      BY <2>2, <2>4, <2>10
    <3>2. job[6 + 1] = "images"
      BY <2>2
    <3>3. Following(q) = "images"
      BY <1>5, <2>10 DEF Following, Gate!Proxied, Gate!Mcp, Gate!Tools
    <3>4. QED
      BY <3>1, <3>2, <3>3
  <2>11. QED
    BY <1>5, <2>5, <2>6, <2>7, <2>8, <2>9, <2>10
<1>6. CASE q.kind \in {"infer tool", "run tool"} /\ q.pc \in {"auth", "body", "scope", "plan", "limits"}
  <2>1. Gate!Gates(q.kind) = run
    BY <1>6 DEF Gate!Gates, Gate!Proxied, note, list, run, job
  <2>2. /\ DOMAIN run = 1..6 /\ run[1] = "auth" /\ run[2] = "body" /\ run[3] = "scope"
        /\ run[4] = "plan" /\ run[5] = "limits" /\ run[6] = "run"
    BY Routes DEF run
  <2>3. \A i, j \in DOMAIN run : run[i] = run[j] => i = j
    BY <2>2
  <2>4. \A i \in DOMAIN run : q.pc = run[i] => Gate!On(q) = [q EXCEPT !.pc = run[i + 1]]
    BY <2>1, <2>3, NextGate
  <2>5. CASE q.pc = "auth"
    <3>1. Gate!On(q) = [q EXCEPT !.pc = run[1 + 1]]
      BY <2>2, <2>4, <2>5
    <3>2. run[1 + 1] = "body"
      BY <2>2
    <3>3. Following(q) = "body"
      BY <1>6, <2>5 DEF Following, Gate!Proxied, Gate!Mcp, Gate!Tools
    <3>4. QED
      BY <3>1, <3>2, <3>3
  <2>6. CASE q.pc = "body"
    <3>1. Gate!On(q) = [q EXCEPT !.pc = run[2 + 1]]
      BY <2>2, <2>4, <2>6
    <3>2. run[2 + 1] = "scope"
      BY <2>2
    <3>3. Following(q) = "scope"
      BY <1>6, <2>6 DEF Following, Gate!Proxied, Gate!Mcp, Gate!Tools
    <3>4. QED
      BY <3>1, <3>2, <3>3
  <2>7. CASE q.pc = "scope"
    <3>1. Gate!On(q) = [q EXCEPT !.pc = run[3 + 1]]
      BY <2>2, <2>4, <2>7
    <3>2. run[3 + 1] = "plan"
      BY <2>2
    <3>3. Following(q) = "plan"
      BY <1>6, <2>7 DEF Following, Gate!Proxied, Gate!Mcp, Gate!Tools
    <3>4. QED
      BY <3>1, <3>2, <3>3
  <2>8. CASE q.pc = "plan"
    <3>1. Gate!On(q) = [q EXCEPT !.pc = run[4 + 1]]
      BY <2>2, <2>4, <2>8
    <3>2. run[4 + 1] = "limits"
      BY <2>2
    <3>3. Following(q) = "limits"
      BY <1>6, <2>8 DEF Following, Gate!Proxied, Gate!Mcp, Gate!Tools
    <3>4. QED
      BY <3>1, <3>2, <3>3
  <2>9. CASE q.pc = "limits"
    <3>1. Gate!On(q) = [q EXCEPT !.pc = run[5 + 1]]
      BY <2>2, <2>4, <2>9
    <3>2. run[5 + 1] = "run"
      BY <2>2
    <3>3. Following(q) = "run"
      BY <1>6, <2>9 DEF Following, Gate!Proxied, Gate!Mcp, Gate!Tools
    <3>4. QED
      BY <3>1, <3>2, <3>3
  <2>10. QED
    BY <1>6, <2>5, <2>6, <2>7, <2>8, <2>9
<1>7. QED
  BY <1>1, <1>2, <1>3, <1>4, <1>5, <1>6 DEF OnRoute, Leads

\* What every request must keep to, wherever it is.
Sound(q) == q \in RequestStates /\ q.answer = Nothing /\ Gate!AsksInOrder(q) /\ Gate!ReachesInOrder(q)

LEMMA NothingApart ==
  ASSUME Gate!GatewayAssumption
  PROVE  /\ Nothing \notin Gate!Answers /\ Nothing \notin BOOLEAN /\ Nothing \notin Gate!KindsOf(breed)
         /\ Max \in Nat /\ Cap \in Nat /\ Cap > 0
         /\ MaxImages \in Nat /\ MaxChanges \in Nat /\ MaxGateFaults \in Nat
<1>1. Nothing \notin BOOLEAN /\ Nothing \notin Gate!Answers /\ Nothing \notin Gate!Proxied \cup Gate!Mcp \cup {"poll"}
  BY DEF Gate!GatewayAssumption
<1>2. Gate!KindsOf(breed) \subseteq Gate!Proxied \cup Gate!Mcp \cup {"poll"}
  BY DEF Gate!KindsOf, Gate!Proxied, Gate!Mcp, Gate!Tools
<1>3. Max \in Nat /\ Cap \in Nat \ {0} /\ MaxImages \in Nat /\ MaxChanges \in Nat /\ MaxGateFaults \in Nat
  BY DEF Gate!GatewayAssumption
<1>4. QED
  BY <1>1, <1>2, <1>3

LEMMA AnswerGated ==
  ASSUME Gate!GatewayAssumption, NEW q, NEW c, NEW status \in Gate!Answers, Sound(q),
         status \in {"400", "unplannable", "invalid fence"} => ~q.paid,
         status = "503" => q.key = TRUE,
         status = "attached" => q.images = 0
  PROVE  /\ Gated(Gate!Answer(q, status), c)
         /\ Gate!Answer(q, status).pc = "done" /\ Gate!Answer(q, status).answer = status
         /\ Gate!Answer(q, status).kind = q.kind /\ Gate!Answer(q, status).paid = q.paid
<1> DEFINE p == Gate!Answer(q, status)
<1>1. /\ p \in RequestStates /\ p.pc = "done" /\ p.answer = status /\ p.kind = q.kind /\ p.key = q.key
      /\ p.paddock = q.paddock /\ p.paid = q.paid /\ p.read = q.read /\ p.reached = q.reached
      /\ p.images = q.images /\ p.bytes = q.bytes /\ p.open = q.open /\ p.moved = q.moved
  <2>1. "done" \in Stages
    BY DEF Stages
  <2>2. QED
    BY <2>1, ZenonT(20) DEF Gate!Answer, RequestStates, Sound
<1>2. status # Nothing
  BY NothingApart
<1> HIDE DEF p
<1>3. Place(p) /\ Moment(p, c)
  BY <1>1, <1>2 DEF Place, Moment, OnRoute, Known, Scoped
<1>4. Gate!AsksInOrder(p) /\ Gate!ReachesInOrder(p)
  BY <1>1 DEF Gate!AsksInOrder, Gate!ReachesInOrder, Sound
<1>5. Gate!AttachesAll(p)
  <2>1. p.bytes \in 0..Cap /\ Cap \in Nat
    BY <1>1 DEF RequestStates, Gate!GatewayAssumption
  <2>2. QED
    BY <1>1, <2>1 DEF Gate!AttachesAll
<1>6. QED
  BY <1>1, <1>3, <1>4, <1>5 DEF Gated, p

\* A request that moves among the gates, or is answered there.
LEMMA AskingKeeps ==
  ASSUME Gate!GatewayAssumption, GateInv, NEW r \in Requests, NEW q, Gate!Becomes(r, q),
         asking[r].pc \notin {"waiting", "done"}, q.pc # "waiting", q.answer \notin {"whole", "left"},
         Gated(q, conf), Kind(q), asking[r].paid => q.paid,
         UNCHANGED <<breed, conf, Gate!metering, changes, gateFaults>>,
         slots' = slots \/ (slots' = slots \cup {r} /\ q.paid /\ Cardinality(slots) < Max)
  PROVE  GateInv'
<1>1. /\ q \in RequestStates /\ asking \in [Requests -> RequestStates]
      /\ asking' \in [Requests -> RequestStates] /\ \A s \in Requests : asking'[s] = IF s = r THEN q ELSE asking[s]
  BY DEF GateInv, Gate!Becomes, Gated
<1>2. /\ breed' = breed /\ conf' = conf /\ stream' = stream /\ meter' = meter /\ emits' = emits
      /\ forgone' = forgone /\ cut' = cut /\ changes' = changes /\ gateFaults' = gateFaults
  BY DEF Gate!metering
<1>3. Settings' /\ FlowTypes'
  BY <1>2 DEF GateInv, Settings, FlowTypes
<1>4. SlotsHeld'
  <2>1. \A s \in slots : s \in Requests /\ asking'[s].paid
    BY <1>1 DEF GateInv, SlotsHeld
  <2>2. IsFiniteSet(slots) /\ Cardinality(slots) \in Nat /\ Cardinality(slots) <= Max /\ Max \in Nat
    BY FS_CardinalityType DEF GateInv, SlotsHeld, Gate!GatewayAssumption
  <2>3. CASE slots' = slots
    BY <2>1, <2>2, <2>3 DEF SlotsHeld
  <2>4. CASE slots' = slots \cup {r} /\ q.paid /\ Cardinality(slots) < Max
    <3> DEFINE more == slots \cup {r}
    <3>0. IsFiniteSet(more) /\ Cardinality(more) = IF r \in slots THEN Cardinality(slots) ELSE Cardinality(slots) + 1
      BY <2>2, FS_AddElement
    <3>1. IsFiniteSet(slots') /\ Cardinality(slots') <= Cardinality(slots) + 1
      <4>1. slots' = more
        BY <2>4
      <4> HIDE DEF more
      <4>2. QED
        BY <2>2, <3>0, <4>1
    <3>2. Cardinality(slots') \in Nat
      BY <3>1, FS_CardinalityType
    <3>3. \A s \in slots' : s \in Requests /\ asking'[s].paid
      BY <1>1, <2>1, <2>4
    <3>4. QED
      BY <2>2, <2>4, <3>1, <3>2, <3>3 DEF SlotsHeld
  <2>5. QED
    BY <2>3, <2>4
<1>5. ASSUME NEW s \in Requests PROVE (Kind(asking[s]) /\ Gated(asking[s], conf) /\ Flowing(s) /\ Served(s))'
  <2>1. CASE s = r
    <3>1. Kind(q) /\ Gated(q, conf) /\ Flowing(r) /\ Served(r)
      BY DEF GateInv
    <3>2. asking'[r] = q
      BY <1>1
    <3>3. (Kind(asking[r]) /\ Gated(asking[r], conf))'
      BY <1>2, <3>1, <3>2 DEF Kind, Gated, Moment
    <3>4. (Flowing(r) /\ Served(r))'
      BY <1>2, <3>1, <3>2 DEF Flowing, Served
    <3>5. QED
      BY <2>1, <3>3, <3>4
  <2>2. CASE s # r
    <3>1. Kind(asking[s]) /\ Gated(asking[s], conf) /\ Flowing(s) /\ Served(s)
      BY DEF GateInv
    <3>2. asking'[s] = asking[s]
      BY <1>1, <2>2
    <3>3. QED
      BY <1>2, <3>1, <3>2 DEF Kind, Gated, Moment, Flowing, Served
  <2>3. QED
    BY <2>1, <2>2
<1>6. QED
  BY <1>1, <1>3, <1>4, <1>5 DEF GateInv

\* A gate that answers.
LEMMA AnswerKeeps ==
  ASSUME Gate!GatewayAssumption, GateInv, NEW r \in Requests, NEW q,
         NEW status \in Gate!Answers \ {"whole", "left"},
         Gate!Becomes(r, Gate!Answer(q, status)), asking[r].pc \notin {"waiting", "done"},
         Sound(q), Kind(q), asking[r].paid => q.paid,
         status \in {"400", "unplannable", "invalid fence"} => ~q.paid,
         status = "503" => q.key = TRUE,
         status = "attached" => q.images = 0,
         UNCHANGED <<breed, conf, Gate!metering, changes, gateFaults>>,
         slots' = slots \/ (slots' = slots \cup {r} /\ q.paid /\ Cardinality(slots) < Max)
  PROVE  GateInv'
<1> DEFINE p == Gate!Answer(q, status)
<1>1. /\ Gated(p, conf) /\ p.pc = "done" /\ p.answer = status /\ p.kind = q.kind /\ p.paid = q.paid
  BY AnswerGated
<1>2. Gate!Becomes(r, p) /\ p.pc # "waiting" /\ p.answer \notin {"whole", "left"} /\ Kind(p)
  BY <1>1 DEF Kind
<1> HIDE DEF p
<1>3. QED
  BY <1>1, <1>2, AskingKeeps

\* A request at a gate is sound.
LEMMA GatedSound ==
  ASSUME GateInv, NEW r \in Requests, asking[r].pc # "done"
  PROVE  Sound(asking[r]) /\ Kind(asking[r]) /\ Gated(asking[r], conf) /\ OnRoute(asking[r])
BY DEF GateInv, Gated, Place, Sound

(* The gates. *)

\* A request comes in by a route of its paddock's breed.
LEMMA ArriveKeeps ==
  ASSUME Gate!GatewayAssumption, GateInv, NEW r \in Requests, Gate!Arrive(r)
  PROVE  GateInv'
<1>1. /\ asking[r].pc = "new" /\ UNCHANGED <<breed, conf, Gate!metering, changes, gateFaults>> /\ slots' = slots
  BY DEF Gate!Arrive, Gate!Alone, Gate!asked
<1>2. PICK route \in Gate!KindsOf(breed), fine \in BOOLEAN :
        LET q == [asking[r] EXCEPT !.kind = route, !.pc = "auth", !.open = Gate!InOrder(conf)]
        IN  Gate!Becomes(r, IF fine THEN q ELSE Gate!Answer(q, "refused"))
  BY DEF Gate!Arrive
<1> DEFINE stood == Gate!InOrder(conf)
           q == [asking[r] EXCEPT !.kind = route, !.pc = "auth", !.open = stood]
<1>3. Sound(asking[r]) /\ Gated(asking[r], conf) /\ conf \in Gate!Configured
  BY <1>1, GatedSound DEF GateInv, Settings
<1>4. route \in Gate!Proxied \cup Gate!Mcp \cup {"poll"}
  BY DEF Gate!KindsOf, Gate!Proxied, Gate!Mcp, Gate!Tools
<1>5. stood \in BOOLEAN /\ stood = Gate!InOrder(conf)
  BY DEF Gate!InOrder
<1> HIDE DEF stood
<1>6. /\ q \in RequestStates /\ q.kind = route /\ q.pc = "auth" /\ q.open = Gate!InOrder(conf)
      /\ q.key = asking[r].key /\ q.paid = asking[r].paid /\ q.read = asking[r].read
      /\ q.reached = asking[r].reached /\ q.answer = Nothing
      /\ ~q.paid /\ ~q.read /\ ~q.reached
  <2>1. asking[r] \in RequestStates /\ asking[r].answer = Nothing /\ ~asking[r].paid /\ ~asking[r].read /\ ~asking[r].reached
    BY <1>1, <1>3 DEF Sound, Gated, Place
  <2>2. "auth" \in Stages /\ route \in Gate!Proxied \cup Gate!Mcp \cup {"poll", Nothing}
    BY <1>4 DEF Stages
  <2>3. q \in RequestStates
    BY <1>5, <2>1, <2>2, ZenonT(20) DEF RequestStates
  <2>4. QED
    BY <1>5, <2>1, <2>3, ZenonT(20) DEF RequestStates
<1> HIDE DEF q
<1>7. Place(q) /\ Moment(q, conf)
  BY <1>4, <1>6 DEF Place, Moment, OnRoute, Known, Scoped, Gate!Proxied, Gate!Mcp, Gate!Tools
<1>8. Gate!AsksInOrder(q) /\ Gate!ReachesInOrder(q) /\ Gate!AttachesAll(q) /\ Kind(q)
  BY <1>6, NothingApart DEF Gate!AsksInOrder, Gate!ReachesInOrder, Gate!AttachesAll, Kind, Gate!Answers
<1>9. CASE fine
  <2>1. Gate!Becomes(r, q)
    BY <1>2, <1>9 DEF q, stood
  <2>2. Gated(q, conf) /\ q.answer \notin {"whole", "left"}
    BY <1>6, <1>7, <1>8, NothingApart DEF Gated, Gate!Answers
  <2>3. QED
    BY <1>1, <1>6, <1>8, <2>1, <2>2, AskingKeeps
<1>10. CASE ~fine
  <2>1. Gate!Becomes(r, Gate!Answer(q, "refused"))
    BY <1>2, <1>10 DEF q, stood
  <2>2. Sound(q) /\ "refused" \in Gate!Answers \ {"whole", "left"}
    BY <1>6, <1>8 DEF Sound, Gate!Answers
  <2>3. QED
    BY <1>1, <1>6, <1>8, <2>1, <2>2, AnswerKeeps
<1>11. QED
  BY <1>9, <1>10

\* A gate that lets a request on, to the gate that follows on its route.
LEMMA OnKeeps ==
  ASSUME Gate!GatewayAssumption, GateInv, NEW r \in Requests, NEW q, Gate!Becomes(r, Gate!On(q)),
         asking[r].pc \notin {"waiting", "done"}, Leads(q), OnRoute(q),
         q \in RequestStates, q.answer = Nothing, Kind(q), asking[r].paid => q.paid,
         NEW p, p = [q EXCEPT !.pc = Following(q)],
         Place(p), Moment(p, conf), Gate!AsksInOrder(p), Gate!ReachesInOrder(p),
         UNCHANGED <<breed, conf, Gate!metering, changes, gateFaults>>,
         slots' = slots \/ (slots' = slots \cup {r} /\ q.paid /\ Cardinality(slots) < Max)
  PROVE  GateInv'
<1>1. Gate!On(q) = p
  BY OnFollows
<1>2. Following(q) \in Stages \ {"waiting"}
  BY DEF Following, Stages
<1>3. /\ p \in RequestStates /\ p.pc = Following(q) /\ p.pc # "waiting" /\ p.answer = Nothing /\ p.kind = q.kind
      /\ p.paid = q.paid
  BY <1>2 DEF RequestStates
<1>4. p.answer \notin {"whole", "left", "attached"}
  BY <1>3, NothingApart DEF Gate!Answers
<1>5. Gated(p, conf) /\ Kind(p)
  BY <1>3, <1>4 DEF Gated, Gate!AttachesAll, Kind
<1>6. QED
  BY <1>1, <1>3, <1>4, <1>5, AskingKeeps
\* Who is let in has a live key; that it reaches the paddock is told of it.
LEMMA AuthenticateKeeps ==
  ASSUME Gate!GatewayAssumption, GateInv, NEW r \in Requests, Gate!Authenticate(r)
  PROVE  GateInv'
<1>1. /\ asking[r].pc = "auth" /\ UNCHANGED <<breed, conf, Gate!metering, changes, gateFaults>> /\ slots' = slots
  BY DEF Gate!Authenticate, Gate!At, Gate!Alone, Gate!asked
<1>2. Sound(asking[r]) /\ Gated(asking[r], conf) /\ Kind(asking[r]) /\ OnRoute(asking[r]) /\ conf \in Gate!Configured
  BY <1>1, GatedSound DEF GateInv, Settings
<1>3. CASE \E status \in {"401", "unverified"} : Gate!Becomes(r, Gate!Answer(asking[r], status))
  <2>1. PICK status \in {"401", "unverified"} : Gate!Becomes(r, Gate!Answer(asking[r], status))
    BY <1>3
  <2>2. status \in Gate!Answers \ {"whole", "left"}
    BY DEF Gate!Answers
  <2>3. QED
    BY <1>1, <1>2, <2>1, <2>2, AnswerKeeps
<1>4. CASE /\ IF asking[r].kind \in Gate!Mcp THEN Gate!McpKey ELSE Gate!LiveKey
           /\ Gate!Becomes(r, Gate!On([asking[r] EXCEPT !.key = conf.scoped]))
  <2> DEFINE q == [asking[r] EXCEPT !.key = conf.scoped]
             p == [q EXCEPT !.pc = Following(q)]
  <2>1. conf.key /\ conf.scoped \in BOOLEAN /\ (asking[r].kind \in Gate!Mcp => conf.scoped)
    BY <1>2, <1>4 DEF Gate!McpKey, Gate!LiveKey, Gate!Configured
  <2>2. /\ q \in RequestStates /\ q.kind = asking[r].kind /\ q.pc = "auth" /\ q.key = conf.scoped /\ q.paid = asking[r].paid
        /\ q.read = asking[r].read /\ q.reached = asking[r].reached /\ q.answer = Nothing
        /\ q.open = asking[r].open /\ q.moved = asking[r].moved /\ q.paddock = asking[r].paddock
        /\ ~q.read /\ ~q.paid /\ ~q.reached
    BY <1>1, <1>2, <2>1 DEF RequestStates, Sound, Gated, Place
  <2>3. /\ p.kind = q.kind /\ p.key = conf.scoped /\ p.paid = q.paid /\ p.paddock = q.paddock
        /\ p.read = q.read /\ p.reached = q.reached /\ p.answer = Nothing /\ p.open = q.open /\ p.moved = q.moved
        /\ p.pc = IF q.kind \in Gate!Mcp THEN "body" ELSE "scope"
    BY <2>2 DEF RequestStates, Following
  <2>4. Gate!Becomes(r, Gate!On(q)) /\ Leads(q) /\ OnRoute(q) /\ Kind(q)
    BY <1>1, <1>2, <1>4, <2>2 DEF Leads, OnRoute, Kind
  <2> HIDE DEF q, p
  <2>5. Place(p)
    BY <1>1, <1>2, <2>1, <2>2, <2>3 DEF Place, OnRoute, Known, Scoped, Gate!Proxied, Gate!Mcp, Gate!Tools
  <2>6. Moment(p, conf)
    BY <1>1, <1>2, <2>1, <2>2, <2>3 DEF Moment, Gated, Known, Scoped, Gate!InOrder, Gate!Mcp, Gate!Tools,
         Gate!Proxied
  <2>7. Gate!AsksInOrder(p) /\ Gate!ReachesInOrder(p)
    BY <2>2, <2>3, NothingApart DEF Gate!AsksInOrder, Gate!ReachesInOrder, Gate!Answers
  <2>8. QED
    BY <1>1, <2>2, <2>4, <2>5, <2>6, <2>7, OnKeeps DEF p
<1>5. QED
  BY <1>3, <1>4 DEF Gate!Authenticate, Gate!Unauthorized

\* Who passes is known, in scope and at an open paddock: unless two things changed, the
\* gates before this one stood open as well.
LEMMA PaddockScopeKeeps ==
  ASSUME Gate!GatewayAssumption, GateInv, NEW r \in Requests, Gate!PaddockScope(r)
  PROVE  GateInv'
<1>1. /\ asking[r].pc = "scope" /\ UNCHANGED <<breed, conf, Gate!metering, changes, gateFaults>> /\ slots' = slots
  BY DEF Gate!PaddockScope, Gate!At, Gate!Alone, Gate!asked
<1>2. Sound(asking[r]) /\ Gated(asking[r], conf) /\ Kind(asking[r]) /\ OnRoute(asking[r]) /\ conf \in Gate!Configured
  BY <1>1, GatedSound DEF GateInv, Settings
<1>3. asking[r].key \in BOOLEAN
  BY <1>1, <1>2 DEF Gated, Place, Known
<1>4. CASE \/ Gate!Becomes(r, Gate!Answer(asking[r], "404"))
           \/ Gate!Becomes(r, Gate!Answer(asking[r], "403"))
           \/ asking[r].key /\ Gate!Becomes(r, Gate!Answer(asking[r], "503"))
  <2>1. PICK status \in {"404", "403", "503"} :
           Gate!Becomes(r, Gate!Answer(asking[r], status)) /\ (status = "503" => asking[r].key = TRUE)
    BY <1>3, <1>4
  <2>2. status \in Gate!Answers \ {"whole", "left"}
    BY DEF Gate!Answers
  <2>3. QED
    BY <1>1, <1>2, <2>1, <2>2, AnswerKeeps
<1>5. CASE /\ conf.on /\ asking[r].key /\ conf.credential
           /\ Gate!Becomes(r, Gate!On([asking[r] EXCEPT !.paddock = conf.fence]))
  <2> DEFINE q == [asking[r] EXCEPT !.paddock = conf.fence]
             p == [q EXCEPT !.pc = Following(q)]
  <2>1. conf.fence \in BOOLEAN
    BY <1>2 DEF Gate!Configured
  <2>2. /\ q \in RequestStates /\ q.kind = asking[r].kind /\ q.pc = "scope" /\ q.key = TRUE /\ q.paid = asking[r].paid
        /\ q.read = asking[r].read /\ q.reached = asking[r].reached /\ q.answer = Nothing
        /\ q.open = asking[r].open /\ q.moved = asking[r].moved /\ q.paddock = conf.fence
        /\ ~q.paid /\ ~q.reached /\ (q.read => q.kind \notin Gate!Proxied)
    BY <1>1, <1>2, <1>3, <1>5, <2>1 DEF RequestStates, Sound, Gated, Place, Gate!AsksInOrder
  <2>3. /\ p.kind = q.kind /\ p.key = TRUE /\ p.paid = q.paid /\ p.paddock = conf.fence
        /\ p.read = q.read /\ p.reached = q.reached /\ p.answer = Nothing /\ p.open = q.open /\ p.moved = q.moved
        /\ p.pc = IF q.kind \in Gate!Proxied THEN "limits"
                  ELSE IF q.kind = "poll" THEN "result"
                  ELSE IF q.kind = "list" THEN "list" ELSE "plan"
    BY <2>2 DEF RequestStates, Following
  <2>4. Gate!Becomes(r, Gate!On(q)) /\ Leads(q) /\ OnRoute(q) /\ Kind(q)
    BY <1>1, <1>2, <1>5, <2>2 DEF Leads, OnRoute, Kind
  <2> HIDE DEF q, p
  <2>5. Place(p)
    BY <2>1, <2>2, <2>3, <2>4 DEF Place, OnRoute, Known, Scoped, Gate!Proxied, Gate!Mcp, Gate!Tools
  <2>6. q.open \/ q.moved > 1
    <3>1. ~q.open => q.moved > 1 \/ ~(conf.on /\ conf.credential)
      BY <1>1, <1>2, <1>3, <1>5, <2>2 DEF Gated, Moment, Known
    <3>2. QED
      BY <1>5, <3>1
  <2>7. Moment(p, conf)
    <3>1. ~q.open => ~Gate!InOrder(conf)
      BY <1>1, <1>2, <2>2 DEF Gated, Moment
    <3>2. ~Known(p)
      BY <2>3 DEF Known, Gate!Mcp, Gate!Tools, Gate!Proxied
    <3>3. QED
      BY <2>3, <2>6, <3>1, <3>2 DEF Moment
  <2>8. Gate!AsksInOrder(p) /\ Gate!ReachesInOrder(p)
    BY <2>2, <2>3, NothingApart DEF Gate!AsksInOrder, Gate!ReachesInOrder, Gate!Answers
  <2>9. QED
    BY <1>1, <2>2, <2>4, <2>5, <2>7, <2>8, OnKeeps DEF p
<1>6. QED
  BY <1>3, <1>4, <1>5 DEF Gate!PaddockScope

\* A slot is spent before the quota is looked at.
LEMMA LimitsKeeps ==
  ASSUME Gate!GatewayAssumption, GateInv, NEW r \in Requests, Gate!CheckLimits(r)
  PROVE  GateInv'
<1>1. /\ asking[r].pc = "limits" /\ UNCHANGED <<breed, conf, Gate!metering, changes, gateFaults>>
  BY DEF Gate!CheckLimits, Gate!At
<1>2. Sound(asking[r]) /\ Gated(asking[r], conf) /\ Kind(asking[r]) /\ OnRoute(asking[r]) /\ conf \in Gate!Configured
  BY <1>1, GatedSound DEF GateInv, Settings
<1>3. CASE Gate!Limited(r)
  <2>1. Gate!Becomes(r, Gate!Answer(asking[r], "429")) /\ slots' = slots
    BY <1>3 DEF Gate!CheckLimits
  <2>2. "429" \in Gate!Answers \ {"whole", "left"}
    BY DEF Gate!Answers
  <2>3. QED
    BY <1>1, <1>2, <2>1, <2>2, AnswerKeeps
<1>4. CASE ~Gate!Limited(r)
  <2> DEFINE q == [asking[r] EXCEPT !.paid = TRUE]
             p == [q EXCEPT !.pc = Following(q)]
  <2>1. slots' = slots \cup {r} /\ (Gate!Becomes(r, Gate!On(q)) \/ Gate!Becomes(r, Gate!Answer(q, "over quota")))
    BY <1>4 DEF Gate!CheckLimits
  <2>2. Cardinality(slots) < Max
    BY <1>4, FS_CardinalityType, NothingApart, SameCount DEF Gate!Limited, GateInv, SlotsHeld
  <2>3. /\ q \in RequestStates /\ q.kind = asking[r].kind /\ q.pc = "limits" /\ q.key = TRUE /\ q.paid = TRUE
        /\ q.read = asking[r].read /\ q.reached = asking[r].reached /\ q.answer = Nothing
        /\ q.open = asking[r].open /\ q.moved = asking[r].moved /\ q.paddock = asking[r].paddock /\ q.paddock \in BOOLEAN
        /\ ~q.reached /\ (q.kind \in Gate!Tools => q.paddock = TRUE) /\ (q.open \/ q.moved > 1)
        /\ (~q.open => ~Gate!InOrder(conf))
    BY <1>1, <1>2 DEF RequestStates, Sound, Gated, Place, Moment, Scoped
  <2>4. /\ p.kind = q.kind /\ p.key = TRUE /\ p.paid = TRUE /\ p.paddock = q.paddock
        /\ p.read = q.read /\ p.reached = q.reached /\ p.answer = Nothing /\ p.open = q.open /\ p.moved = q.moved
        /\ p.pc = IF q.kind \in Gate!Proxied THEN "body" ELSE IF q.kind = "job tool" THEN "result" ELSE "run"
    BY <2>3 DEF RequestStates, Following
  <2>5. Leads(q) /\ OnRoute(q) /\ Kind(q)
    BY <1>1, <1>2, <2>3 DEF Leads, OnRoute, Kind
  <2> HIDE DEF q, p
  <2>6. CASE Gate!Becomes(r, Gate!On(q))
    <3>1. Place(p)
      BY <2>3, <2>4, <2>5 DEF Place, OnRoute, Known, Scoped, Gate!Proxied, Gate!Mcp, Gate!Tools
    <3>2. ~Known(p)
      BY <2>3, <2>4 DEF Known, Gate!Mcp, Gate!Tools, Gate!Proxied
    <3>3. Moment(p, conf)
      BY <2>3, <2>4, <3>2 DEF Moment
    <3>4. Gate!AsksInOrder(p) /\ Gate!ReachesInOrder(p)
      BY <2>3, <2>4, NothingApart DEF Gate!AsksInOrder, Gate!ReachesInOrder, Gate!Answers
    <3>5. QED
      BY <1>1, <2>1, <2>2, <2>3, <2>5, <2>6, <3>1, <3>3, <3>4, OnKeeps DEF p
  <2>7. CASE Gate!Becomes(r, Gate!Answer(q, "over quota"))
    <3>1. "over quota" \in Gate!Answers \ {"whole", "left"}
      BY DEF Gate!Answers
    <3>2. Sound(q)
      BY <2>3, NothingApart DEF Sound, Gate!AsksInOrder, Gate!ReachesInOrder, Gate!Answers
    <3>3. QED
      BY <1>1, <2>1, <2>2, <2>3, <2>5, <2>7, <3>1, <3>2, AnswerKeeps
  <2>8. QED
    BY <2>1, <2>6, <2>7
<1>5. QED
  BY <1>3, <1>4

\* A body is read for who is known, and on the proxy's route for who has paid.
LEMMA ReadBodyKeeps ==
  ASSUME Gate!GatewayAssumption, GateInv, NEW r \in Requests, Gate!ReadBody(r)
  PROVE  GateInv'
<1> DEFINE q == [asking[r] EXCEPT !.read = TRUE]
           p == [q EXCEPT !.pc = Following(q)]
<1>1. /\ asking[r].pc = "body" /\ UNCHANGED <<breed, conf, Gate!metering, changes, gateFaults>> /\ slots' = slots
  BY DEF Gate!ReadBody, Gate!At, Gate!Alone, Gate!asked
<1>2. Sound(asking[r]) /\ Gated(asking[r], conf) /\ Kind(asking[r]) /\ OnRoute(asking[r]) /\ conf \in Gate!Configured
  BY <1>1, GatedSound DEF GateInv, Settings
<1>3. /\ asking[r].kind \in Gate!Proxied \cup Gate!Mcp /\ asking[r].key = TRUE
      /\ asking[r].kind \in Gate!Proxied => asking[r].paid /\ asking[r].kind \notin Gate!Mcp
      /\ asking[r].kind \in Gate!Mcp => ~asking[r].paid
  BY <1>1, <1>2 DEF Gated, Place, OnRoute, Known, Scoped, Gate!Proxied, Gate!Mcp, Gate!Tools
<1>4. /\ q \in RequestStates /\ q.kind = asking[r].kind /\ q.pc = "body" /\ q.key = TRUE /\ q.paid = asking[r].paid
      /\ q.read = TRUE /\ q.reached = asking[r].reached /\ q.answer = Nothing
      /\ q.open = asking[r].open /\ q.moved = asking[r].moved /\ q.paddock = asking[r].paddock
      /\ ~q.reached
  BY <1>1, <1>2, <1>3 DEF RequestStates, Sound, Gated, Place
<1>5. Leads(q) \/ q.kind = "note"
  BY <1>4 DEF Leads
<1>6. OnRoute(q) /\ Kind(q)
  BY <1>1, <1>2, <1>4 DEF OnRoute, Kind
<1>7. Gate!AsksInOrder(q) /\ Gate!ReachesInOrder(q)
  BY <1>3, <1>4, NothingApart DEF Gate!AsksInOrder, Gate!ReachesInOrder, Gate!Answers
<1>8. \/ \E verdict \in {"413", "400", "202"} : Gate!Becomes(r, Gate!Answer(q, verdict)) /\ (verdict = "400" => q.kind \in Gate!Mcp)
      \/ q.kind # "note" /\ Gate!Becomes(r, Gate!On(q))
  BY DEF Gate!ReadBody, Gate!RpcVerdicts, Gate!EraVerdicts
<1>9. q.kind \notin Gate!Mcp => Moment(q, conf) /\ (q.open \/ q.moved > 1) /\ q.paddock \in BOOLEAN
  BY <1>1, <1>2, <1>3, <1>4 DEF Gated, Place, Moment, Known, Scoped, Gate!InOrder
<1>10. ASSUME q.kind \in Gate!Mcp, ~q.open
       PROVE  /\ ~Gate!InOrder(conf)
              /\ q.moved > 1 \/ (~(conf.on /\ conf.credential) /\ (q.moved = 0 => conf.key /\ conf.scoped))
  BY <1>1, <1>2, <1>3, <1>4, <1>10 DEF Gated, Moment, Known
<1>11. /\ p.kind = q.kind /\ p.key = TRUE /\ p.paid = q.paid /\ p.paddock = q.paddock
       /\ p.read = TRUE /\ p.reached = q.reached /\ p.answer = Nothing /\ p.open = q.open /\ p.moved = q.moved
       /\ p.pc = IF q.kind \in Gate!Proxied THEN "run" ELSE "scope"
  BY <1>4 DEF RequestStates, Following
<1> HIDE DEF q, p
<1>12. ASSUME NEW verdict \in {"413", "400", "202"}, Gate!Becomes(r, Gate!Answer(q, verdict)), verdict = "400" => q.kind \in Gate!Mcp
       PROVE  GateInv'
  <2>1. verdict \in Gate!Answers \ {"whole", "left"} /\ verdict # "503" /\ verdict # "attached"
        /\ verdict \notin {"unplannable", "invalid fence"}
    BY DEF Gate!Answers
  <2>2. Sound(q)
    BY <1>4, <1>7 DEF Sound
  <2>3. verdict \in {"400", "unplannable", "invalid fence"} => ~q.paid
    BY <1>3, <1>4, <1>12, <2>1
  <2>4. QED
    BY <1>1, <1>4, <1>6, <1>12, <2>1, <2>2, <2>3, AnswerKeeps
<1>13. CASE q.kind # "note" /\ Gate!Becomes(r, Gate!On(q))
  <2>1. Place(p)
    BY <1>3, <1>4, <1>6, <1>9, <1>11, <1>13 DEF Place, OnRoute, Known, Scoped, Gate!Proxied, Gate!Mcp,
         Gate!Tools
  <2>2. Moment(p, conf)
    <3>1. CASE q.kind \in Gate!Proxied
      <4>1. ~Known(p)
        BY <1>3, <1>4, <1>11, <3>1 DEF Known
      <4>2. QED
        BY <1>3, <1>4, <1>9, <1>11, <3>1, <4>1 DEF Moment
    <3>2. CASE q.kind \notin Gate!Proxied
      <4>1. q.kind \in Gate!Mcp /\ ~Scoped(p) /\ p.pc = "scope"
        BY <1>3, <1>4, <1>11, <3>2 DEF Scoped
      <4>2. QED
        BY <1>10, <1>11, <4>1 DEF Moment
    <3>3. QED
      BY <3>1, <3>2
  <2>3. Gate!AsksInOrder(p) /\ Gate!ReachesInOrder(p)
    BY <1>3, <1>4, <1>11, NothingApart DEF Gate!AsksInOrder, Gate!ReachesInOrder, Gate!Answers
  <2>4. QED
    BY <1>1, <1>4, <1>5, <1>6, <1>13, <2>1, <2>2, <2>3, OnKeeps DEF p
<1>14. QED
  BY <1>8, <1>12, <1>13

\* A list, or a call that cannot be planned, costs nothing.
LEMMA ListKeeps ==
  ASSUME Gate!GatewayAssumption, GateInv, NEW r \in Requests, Gate!List(r)
  PROVE  GateInv'
<1>1. /\ asking[r].pc = "list" /\ UNCHANGED <<breed, conf, Gate!metering, changes, gateFaults>> /\ slots' = slots
  BY DEF Gate!List, Gate!At, Gate!Alone, Gate!asked
<1>2. Sound(asking[r]) /\ Gated(asking[r], conf) /\ Kind(asking[r]) /\ ~asking[r].paid
  BY <1>1, GatedSound DEF Gated, Place
<1>3. PICK status \in {"200", "invalid fence"} : Gate!Becomes(r, Gate!Answer(asking[r], status))
  BY DEF Gate!List
<1>4. status \in Gate!Answers \ {"whole", "left"} /\ status \notin {"503", "attached"}
  BY DEF Gate!Answers
<1>5. QED
  BY <1>1, <1>2, <1>3, <1>4, AnswerKeeps

LEMMA PlanKeeps ==
  ASSUME Gate!GatewayAssumption, GateInv, NEW r \in Requests, Gate!Plan(r)
  PROVE  GateInv'
<1> DEFINE p == [asking[r] EXCEPT !.pc = Following(asking[r])]
<1>1. /\ asking[r].pc = "plan" /\ UNCHANGED <<breed, conf, Gate!metering, changes, gateFaults>> /\ slots' = slots
  BY DEF Gate!Plan, Gate!At, Gate!Alone, Gate!asked
<1>2. /\ Sound(asking[r]) /\ Gated(asking[r], conf) /\ Kind(asking[r]) /\ OnRoute(asking[r]) /\ ~asking[r].paid
      /\ asking[r].paddock \in BOOLEAN /\ asking[r].key = TRUE /\ ~asking[r].reached /\ asking[r].kind \in Gate!Tools
  BY <1>1, GatedSound DEF Gated, Place, Scoped, OnRoute, Gate!Tools, Gate!Proxied
<1>3. CASE \E status \in {"unplannable", "invalid fence"} : Gate!Becomes(r, Gate!Answer(asking[r], status))
  <2>1. PICK status \in {"unplannable", "invalid fence"} : Gate!Becomes(r, Gate!Answer(asking[r], status))
    BY <1>3
  <2>2. status \in Gate!Answers \ {"whole", "left"} /\ status \notin {"503", "attached"}
    BY DEF Gate!Answers
  <2>3. QED
    BY <1>1, <1>2, <2>1, <2>2, AnswerKeeps
<1>4. CASE asking[r].paddock /\ Gate!Becomes(r, Gate!On(asking[r]))
  <2>1. asking[r] \in RequestStates /\ asking[r].answer = Nothing
    BY <1>2 DEF Sound
  <2>2. /\ p.kind = asking[r].kind /\ p.key = TRUE /\ ~p.paid /\ p.paddock = TRUE
        /\ p.read = asking[r].read /\ ~p.reached /\ p.answer = Nothing /\ p.open = asking[r].open
        /\ p.moved = asking[r].moved /\ p.pc = "limits"
    BY <1>1, <1>2, <1>4, <2>1 DEF RequestStates, Following
  <2>3. Leads(asking[r])
    BY <1>1 DEF Leads
  <2> HIDE DEF p
  <2>4. Place(p)
    BY <1>2, <2>2 DEF Place, OnRoute, Known, Scoped, Gate!Proxied, Gate!Mcp, Gate!Tools
  <2>5. Moment(p, conf)
    <3>1. asking[r].open \/ (asking[r].moved > 1 /\ ~Gate!InOrder(conf))
      BY <1>1, <1>2 DEF Gated, Moment, Scoped
    <3>2. ~Known(p)
      BY <2>2 DEF Known
    <3>3. QED
      BY <2>2, <3>1, <3>2 DEF Moment
  <2>6. Gate!AsksInOrder(p) /\ Gate!ReachesInOrder(p)
    BY <1>2, <2>2, NothingApart DEF Gate!AsksInOrder, Gate!ReachesInOrder, Gate!Answers, Gate!Tools,
         Gate!Proxied
  <2>7. QED
    BY <1>1, <1>2, <1>4, <2>1, <2>3, <2>4, <2>5, <2>6, OnKeeps DEF p
<1>5. QED
  BY <1>3, <1>4 DEF Gate!Plan

\* A request that reaches the flock does so past every gate.
LEMMA ReachedSound ==
  ASSUME Gate!GatewayAssumption, GateInv, NEW r \in Requests, asking[r].pc \in {"run", "result"},
         asking[r].pc = "run" => asking[r].paddock = TRUE /\ asking[r].kind # "direct",
         NEW q, q = [asking[r] EXCEPT !.reached = TRUE]
  PROVE  /\ Sound(q) /\ Kind(q) /\ OnRoute(q) /\ q.reached = TRUE /\ (q.open \/ q.moved > 1)
         /\ q.kind = asking[r].kind /\ q.pc = asking[r].pc /\ q.paid = asking[r].paid /\ q.key = TRUE
         /\ q.paddock = asking[r].paddock /\ q.read = asking[r].read /\ q.open = asking[r].open /\ q.moved = asking[r].moved
         /\ (q.kind = "poll" \/ (q.paddock = TRUE /\ q.paid)) /\ q.answer = Nothing
         /\ (~q.open => ~Gate!InOrder(conf)) /\ q.bytes = asking[r].bytes /\ q.images = asking[r].images
<1>1. Sound(asking[r]) /\ Gated(asking[r], conf) /\ Kind(asking[r]) /\ OnRoute(asking[r])
  BY GatedSound
<1>2. /\ q \in RequestStates /\ q.kind = asking[r].kind /\ q.pc = asking[r].pc /\ q.key = asking[r].key /\ q.paid = asking[r].paid
      /\ q.read = asking[r].read /\ q.reached = TRUE /\ q.answer = Nothing /\ q.paddock = asking[r].paddock
      /\ q.open = asking[r].open /\ q.moved = asking[r].moved /\ q.bytes = asking[r].bytes /\ q.images = asking[r].images
  BY <1>1 DEF RequestStates, Sound
<1>3. /\ q.key = TRUE /\ (q.open \/ q.moved > 1) /\ (~q.open => ~Gate!InOrder(conf))
  BY <1>1, <1>2 DEF Gated, Place, Moment, Scoped
<1>4. (q.kind = "poll" \/ (q.paddock = TRUE /\ q.paid)) /\ q.kind # "direct"
  BY <1>1, <1>2 DEF Gated, Place, OnRoute, Gate!Tools, Gate!Proxied
<1>5. Gate!AsksInOrder(q) /\ Gate!ReachesInOrder(q)
  BY <1>1, <1>2, <1>3, <1>4 DEF Sound, Gate!AsksInOrder, Gate!ReachesInOrder
<1>6. OnRoute(q) /\ Kind(q)
  BY <1>1, <1>2 DEF OnRoute, Kind
<1>7. QED
  BY <1>1, <1>2, <1>3, <1>4, <1>5, <1>6 DEF Sound

LEMMA JobResultKeeps ==
  ASSUME Gate!GatewayAssumption, GateInv, NEW r \in Requests, Gate!JobResult(r)
  PROVE  GateInv'
<1> DEFINE q == [asking[r] EXCEPT !.reached = TRUE]
<1>1. /\ asking[r].pc = "result" /\ UNCHANGED <<breed, conf, Gate!metering, changes, gateFaults>> /\ slots' = slots
  BY DEF Gate!JobResult, Gate!At, Gate!Alone, Gate!asked
<1>2. Sound(asking[r]) /\ Kind(asking[r]) /\ OnRoute(asking[r]) /\ Gated(asking[r], conf)
  BY <1>1, GatedSound
<1>3. /\ Sound(q) /\ Kind(q) /\ OnRoute(q) /\ q.reached = TRUE /\ (q.open \/ q.moved > 1)
      /\ q.kind = asking[r].kind /\ q.pc = "result" /\ q.paid = asking[r].paid /\ q.key = TRUE
      /\ q.paddock = asking[r].paddock /\ q.read = asking[r].read
      /\ (q.kind = "poll" \/ (q.paddock = TRUE /\ q.paid)) /\ q.answer = Nothing
      /\ (~q.open => ~Gate!InOrder(conf))
  BY <1>1, ReachedSound
<1>4. CASE Gate!Becomes(r, Gate!Answer(asking[r], "404"))
  <2>1. "404" \in Gate!Answers \ {"whole", "left"}
    BY DEF Gate!Answers
  <2>2. QED
    BY <1>1, <1>2, <1>4, <2>1, AnswerKeeps
<1>5. CASE \E status \in {"200", "running"} : Gate!Becomes(r, Gate!Answer(q, status))
  <2> HIDE DEF q
  <2>1. PICK status \in {"200", "running"} : Gate!Becomes(r, Gate!Answer(q, status))
    BY <1>5
  <2>2. status \in Gate!Answers \ {"whole", "left"} /\ status \notin {"400", "unplannable", "invalid fence", "503", "attached"}
    BY DEF Gate!Answers
  <2>3. QED
    BY <1>1, <1>3, <2>1, <2>2, AnswerKeeps
<1>6. ASSUME asking[r].kind = "job tool", NEW n \in 0..MaxImages,
             Gate!Becomes(r, Gate!On([asking[r] EXCEPT !.reached = TRUE, !.images = n]))
      PROVE  GateInv'
  <2> DEFINE i == [asking[r] EXCEPT !.reached = TRUE, !.images = n]
             p == [i EXCEPT !.pc = Following(i)]
  <2>1. /\ i \in RequestStates /\ i.kind = "job tool" /\ i.pc = "result" /\ i.key = TRUE /\ i.paid = TRUE
        /\ i.read = q.read /\ i.reached = TRUE /\ i.answer = Nothing /\ i.paddock = TRUE
        /\ i.open = q.open /\ i.moved = q.moved
    BY <1>1, <1>2, <1>3, <1>6 DEF RequestStates, Sound, Gated
  <2>2. /\ p.kind = "job tool" /\ p.pc = "images" /\ p.key = TRUE /\ p.paid = TRUE
        /\ p.read = q.read /\ p.reached = TRUE /\ p.answer = Nothing /\ p.paddock = TRUE
        /\ p.open = q.open /\ p.moved = q.moved
    BY <2>1 DEF RequestStates, Following, Gate!Proxied, Gate!Mcp, Gate!Tools
  <2>3. Gate!Becomes(r, Gate!On(i)) /\ Leads(i) /\ OnRoute(i) /\ Kind(i) /\ (asking[r].paid => i.paid)
    BY <1>2, <1>6, <2>1 DEF Leads, OnRoute, Kind
  <2> HIDE DEF q, i, p
  <2>4. Place(p)
    BY <2>2 DEF Place, OnRoute, Known, Scoped, Gate!Proxied, Gate!Mcp, Gate!Tools
  <2>5. Moment(p, conf)
    <3>1. ~Known(p)
      BY <2>2 DEF Known
    <3>2. QED
      BY <1>3, <2>2, <3>1 DEF Moment
  <2>6. Gate!AsksInOrder(p) /\ Gate!ReachesInOrder(p)
    BY <1>3, <2>2, NothingApart DEF Gate!AsksInOrder, Gate!ReachesInOrder, Gate!Answers, Gate!Tools,
         Gate!Proxied
  <2>7. QED
    BY <1>1, <2>1, <2>3, <2>4, <2>5, <2>6, OnKeeps DEF p
<1>7. QED
  BY <1>4, <1>5, <1>6 DEF Gate!JobResult

\* The images are held within the cap, to the last.
LEMMA AttachKeeps ==
  ASSUME Gate!GatewayAssumption, GateInv, NEW r \in Requests, Gate!Attach(r)
  PROVE  GateInv'
<1>1. /\ asking[r].pc = "images" /\ UNCHANGED <<breed, conf, Gate!metering, changes, gateFaults>> /\ slots' = slots
  BY DEF Gate!Attach, Gate!At, Gate!Alone, Gate!asked
<1>2. Sound(asking[r]) /\ Kind(asking[r]) /\ OnRoute(asking[r]) /\ Gated(asking[r], conf)
  BY <1>1, GatedSound
<1>3. CASE \E status \in {"attached", "unfetchable", "too big"} :
              Gate!Becomes(r, Gate!Answer(asking[r], status)) /\ (status = "attached" => asking[r].images = 0)
  <2>1. PICK status \in {"attached", "unfetchable", "too big"} :
              Gate!Becomes(r, Gate!Answer(asking[r], status)) /\ (status = "attached" => asking[r].images = 0)
    BY <1>3
  <2>2. status \in Gate!Answers \ {"whole", "left"} /\ status \notin {"400", "unplannable", "invalid fence", "503"}
    BY DEF Gate!Answers
  <2>3. QED
    BY <1>1, <1>2, <2>1, <2>2, AnswerKeeps
<1>4. ASSUME asking[r].images > 0, NEW size \in 0..(Cap + 1), ~Gate!TooBig(asking[r], size),
             Gate!Becomes(r, [asking[r] EXCEPT !.images = @ - 1, !.bytes = @ + size])
      PROVE  GateInv'
  <2> DEFINE p == [asking[r] EXCEPT !.images = @ - 1, !.bytes = @ + size]
  <2>1. asking[r].images - 1 \in 0..MaxImages /\ asking[r].bytes + size \in 0..Cap
    <3>1. asking[r].images \in 0..MaxImages /\ asking[r].bytes \in 0..Cap /\ Cap \in Nat /\ MaxImages \in Nat
      BY <1>2, NothingApart DEF Sound, RequestStates
    <3>2. QED
      BY <1>4, <3>1 DEF Gate!TooBig
  <2>2. /\ p \in RequestStates /\ p.kind = asking[r].kind /\ p.pc = "images" /\ p.key = asking[r].key /\ p.paid = asking[r].paid
        /\ p.read = asking[r].read /\ p.reached = asking[r].reached /\ p.answer = Nothing /\ p.paddock = asking[r].paddock
        /\ p.open = asking[r].open /\ p.moved = asking[r].moved
    BY <1>1, <1>2, <2>1 DEF RequestStates, Sound
  <2>3. Gate!Becomes(r, p)
    BY <1>4
  <2> HIDE DEF p
  <2>4. Place(p) /\ Moment(p, conf)
    BY <1>1, <1>2, <2>2 DEF Gated, Place, Moment, OnRoute, Known, Scoped, Sound
  <2>5. Gate!AsksInOrder(p) /\ Gate!ReachesInOrder(p) /\ Gate!AttachesAll(p)
    BY <1>2, <2>2, NothingApart DEF Sound, Gate!AsksInOrder, Gate!ReachesInOrder, Gate!AttachesAll, Gate!Answers
  <2>6. Gated(p, conf) /\ Kind(p) /\ p.answer \notin {"whole", "left"}
    BY <1>2, <2>2, <2>4, <2>5, NothingApart DEF Gated, Kind, Gate!Answers
  <2>7. QED
    BY <1>1, <2>2, <2>3, <2>6, AskingKeeps
<1>5. QED
  BY <1>3, <1>4 DEF Gate!Attach

(* The stream and its meter. *)

\* A step of one request and its stream; nothing another request lost or was cut off from is
\* taken back.
LEMMA FlowKeeps ==
  ASSUME Gate!GatewayAssumption, GateInv, NEW r \in Requests, NEW q, Gate!Becomes(r, q),
         Gated(q, conf), Kind(q), asking[r].paid => q.paid,
         UNCHANGED <<breed, slots, conf, changes>>, gateFaults' \in 0..MaxGateFaults,
         FlowTypes', Flowing(r)', Served(r)',
         \A s \in Requests \ {r} :
            /\ stream'[s] = stream[s] /\ meter'[s] = meter[s] /\ emits'[s] = emits[s]
            /\ s \in forgone => s \in forgone'
            /\ s \in cut => s \in cut'
  PROVE  GateInv'
<1>1. /\ q \in RequestStates /\ asking \in [Requests -> RequestStates]
      /\ asking' \in [Requests -> RequestStates] /\ \A s \in Requests : asking'[s] = IF s = r THEN q ELSE asking[s]
  BY DEF GateInv, Gate!Becomes, Gated
<1>2. Settings'
  BY DEF GateInv, Settings
<1>3. SlotsHeld'
  BY <1>1 DEF GateInv, SlotsHeld
<1>4. ASSUME NEW s \in Requests PROVE (Kind(asking[s]) /\ Gated(asking[s], conf) /\ Flowing(s) /\ Served(s))'
  <2>1. CASE s = r
    <3>1. asking'[r] = q
      BY <1>1
    <3>2. (Kind(asking[r]) /\ Gated(asking[r], conf))'
      BY <3>1 DEF Kind, Gated, Moment
    <3>3. QED
      BY <2>1, <3>2
  <2>2. CASE s # r
    <3>1. Kind(asking[s]) /\ Gated(asking[s], conf) /\ Flowing(s) /\ Served(s)
      BY DEF GateInv
    <3>2. /\ asking'[s] = asking[s] /\ stream'[s] = stream[s] /\ meter'[s] = meter[s] /\ emits'[s] = emits[s]
          /\ (s \in forgone => s \in forgone') /\ (s \in cut => s \in cut')
      BY <1>1, <2>2
    <3>3. QED
      BY <3>1, <3>2 DEF Kind, Gated, Moment, Flowing, Served
  <2>3. QED
    BY <2>1, <2>2
<1>5. QED
  BY <1>1, <1>2, <1>3, <1>4 DEF GateInv

\* What is known of a request and its stream.
LEMMA FlowNow ==
  ASSUME GateInv, NEW r \in Requests
  PROVE  /\ Kind(asking[r]) /\ Gated(asking[r], conf) /\ asking[r] \in RequestStates /\ Flowing(r) /\ Served(r) /\ FlowTypes
         /\ gateFaults \in 0..MaxGateFaults /\ (asking' = asking => Gate!Becomes(r, asking[r]))
<1>1. Kind(asking[r]) /\ Gated(asking[r], conf) /\ asking[r] \in RequestStates /\ Flowing(r) /\ Served(r) /\ FlowTypes
      /\ gateFaults \in 0..MaxGateFaults /\ asking \in [Requests -> RequestStates]
  BY DEF GateInv, Settings
<1>2. asking = [asking EXCEPT ![r] = asking[r]]
  BY <1>1
<1>3. QED
  BY <1>1, <1>2 DEF Gate!Becomes

\* Its answer is split in two as soon as its head is there.
LEMMA RunKeeps ==
  ASSUME Gate!GatewayAssumption, GateInv, NEW r \in Requests, Gate!Run(r)
  PROVE  GateInv'
<1> DEFINE q == [asking[r] EXCEPT !.reached = TRUE]
<1>1. /\ asking[r].pc = "run" /\ UNCHANGED <<Gate!asked, conf, emits, forgone, cut, changes, gateFaults>>
      /\ breed' = breed /\ slots' = slots
  BY DEF Gate!Run, Gate!At, Gate!asked
<1>2. Sound(asking[r]) /\ Kind(asking[r]) /\ OnRoute(asking[r]) /\ Gated(asking[r], conf)
  BY <1>1, GatedSound
<1>3. CASE /\ UNCHANGED <<stream, meter>>
           /\ \E status \in {"500", "forbidden"} : Gate!Becomes(r, Gate!Answer(asking[r], status))
  <2>1. PICK status \in {"500", "forbidden"} : Gate!Becomes(r, Gate!Answer(asking[r], status))
    BY <1>3
  <2>2. status \in Gate!Answers \ {"whole", "left"} /\ status \notin {"400", "unplannable", "invalid fence", "503", "attached"}
    BY DEF Gate!Answers
  <2>3. UNCHANGED <<breed, conf, Gate!metering, changes, gateFaults>>
    BY <1>1, <1>3 DEF Gate!metering
  <2>4. QED
    BY <1>1, <1>2, <2>1, <2>2, <2>3, AnswerKeeps
<1>4. CASE /\ UNCHANGED <<stream, meter>> /\ asking[r].paddock /\ asking[r].kind # "direct"
           /\ \E status \in {"unreachable", "handled"} : Gate!Becomes(r, Gate!Answer(q, status))
  <2>1. PICK status \in {"unreachable", "handled"} : Gate!Becomes(r, Gate!Answer(q, status))
    BY <1>4
  <2>2. status \in Gate!Answers \ {"whole", "left"} /\ status \notin {"400", "unplannable", "invalid fence", "503", "attached"}
    BY DEF Gate!Answers
  <2>3. UNCHANGED <<breed, conf, Gate!metering, changes, gateFaults>>
    BY <1>1, <1>4 DEF Gate!metering
  <2>4. asking[r].paddock = TRUE
    BY <1>1, <1>2, <1>4 DEF Gated, Place, Scoped
  <2>5. Sound(q) /\ Kind(q) /\ q.paid = asking[r].paid
    BY <1>1, <1>4, <2>4, ReachedSound
  <2> HIDE DEF q
  <2>6. QED
    BY <1>1, <2>1, <2>2, <2>3, <2>5, AnswerKeeps
<1>5. CASE /\ asking[r].paddock /\ q.kind \in {"infer", "infer tool"}
           /\ Gate!Becomes(r, [q EXCEPT !.pc = "waiting"])
           /\ stream' = [stream EXCEPT ![r] = "open"] /\ meter' = [meter EXCEPT ![r] = "reading"]
  <2> DEFINE p == [q EXCEPT !.pc = "waiting"]
  <2>1. asking[r].paddock = TRUE /\ asking[r].kind \in {"infer", "infer tool"}
    BY <1>1, <1>2, <1>5 DEF Gated, Place, Scoped, Sound, RequestStates
  <2>2. /\ Sound(q) /\ Kind(q) /\ OnRoute(q) /\ q.reached = TRUE /\ (q.open \/ q.moved > 1)
        /\ q.kind = asking[r].kind /\ q.paid = TRUE /\ q.key = TRUE /\ q.paddock = TRUE /\ q.read = asking[r].read
        /\ q.answer = Nothing /\ (~q.open => ~Gate!InOrder(conf))
    BY <1>1, <2>1, ReachedSound
  <2> HIDE DEF q
  <2>3. /\ p \in RequestStates /\ p.kind = q.kind /\ p.pc = "waiting" /\ p.key = TRUE /\ p.paid = TRUE /\ p.paddock = TRUE
        /\ p.read = q.read /\ p.reached = TRUE /\ p.answer = Nothing /\ p.open = q.open /\ p.moved = q.moved
    BY <2>2 DEF RequestStates, Stages, Sound
  <2>4. Gate!Becomes(r, p)
    BY <1>5
  <2> HIDE DEF p
  <2>5. Place(p) /\ Moment(p, conf)
    BY <2>1, <2>2, <2>3 DEF Place, Moment, OnRoute, Known, Scoped, Gate!Tools
  <2>6. Gate!AsksInOrder(p) /\ Gate!ReachesInOrder(p) /\ Gate!AttachesAll(p) /\ Kind(p)
    BY <2>1, <2>2, <2>3, NothingApart DEF Gate!AsksInOrder, Gate!ReachesInOrder, Gate!AttachesAll, Kind,
         Gate!Answers
  <2>7. Flowing(r) /\ Served(r) /\ FlowTypes /\ gateFaults \in 0..MaxGateFaults /\ asking \in [Requests -> RequestStates]
    BY DEF GateInv, Settings
  <2>8. stream[r] = "none" /\ emits[r] = 0
    BY <1>1, <2>7 DEF Flowing
  <2>9. FlowTypes' /\ stream'[r] = "open" /\ meter'[r] = "reading" /\ emits'[r] = 0
    BY <1>1, <1>5, <2>7, <2>8 DEF FlowTypes
  <2>10. asking'[r] = p
    BY <2>4, <2>7 DEF Gate!Becomes
  <2>11. Flowing(r)' /\ Served(r)'
    <3>1. asking'[r].pc = "waiting" /\ asking'[r].answer \notin {"whole", "left"}
      BY <2>3, <2>10, NothingApart DEF Gate!Answers
    <3>2. QED
      BY <2>9, <3>1 DEF Flowing, Served
  <2>12. \A s \in Requests \ {r} :
            /\ stream'[s] = stream[s] /\ meter'[s] = meter[s] /\ emits'[s] = emits[s]
            /\ (s \in forgone => s \in forgone') /\ (s \in cut => s \in cut')
    BY <1>1, <1>5, <2>7 DEF FlowTypes
  <2>13. QED
    BY <1>1, <2>3, <2>4, <2>5, <2>6, <2>7, <2>9, <2>11, <2>12, FlowKeeps DEF Gated
<1>6. QED
  BY <1>3, <1>4, <1>5 DEF Gate!Run

LEMMA StreamEndsKeeps ==
  ASSUME Gate!GatewayAssumption, GateInv, NEW r \in Requests, Gate!StreamEnds(r)
  PROVE  GateInv'
<1>1. /\ stream[r] = "open" /\ UNCHANGED <<breed, slots, conf, asking, meter, emits, forgone, changes, gateFaults>>
  BY DEF Gate!StreamEnds, Gate!asked
<1>2. PICK end \in {"counted", "uncounted", "broken"} :
         /\ stream' = [stream EXCEPT ![r] = end]
         /\ cut' = IF end = "broken" THEN cut \cup {r} ELSE cut
  BY DEF Gate!StreamEnds
<1>3. Kind(asking[r]) /\ Gated(asking[r], conf) /\ Flowing(r) /\ Served(r) /\ FlowTypes /\ gateFaults \in 0..MaxGateFaults
      /\ Gate!Becomes(r, asking[r])
  BY <1>1, FlowNow
<1>4. FlowTypes' /\ stream'[r] = end /\ (end = "broken" => r \in cut')
  BY <1>1, <1>2, <1>3 DEF FlowTypes
<1>5. Flowing(r)' /\ Served(r)'
  BY <1>1, <1>2, <1>3, <1>4 DEF Flowing, Served
<1>6. \A s \in Requests \ {r} :
         /\ stream'[s] = stream[s] /\ meter'[s] = meter[s] /\ emits'[s] = emits[s]
         /\ (s \in forgone => s \in forgone') /\ (s \in cut => s \in cut')
  BY <1>1, <1>2, <1>3 DEF FlowTypes
<1>7. QED
  BY <1>1, <1>3, <1>4, <1>5, <1>6, FlowKeeps

LEMMA ClientServedKeeps ==
  ASSUME Gate!GatewayAssumption, GateInv, NEW r \in Requests, Gate!ClientServed(r)
  PROVE  GateInv'
<1>1. /\ asking[r].pc = "waiting" /\ stream[r] # "open" /\ UNCHANGED <<breed, slots, conf, Gate!metering, changes, gateFaults>>
      /\ UNCHANGED <<stream, meter, emits, forgone, cut>>
  BY DEF Gate!ClientServed, Gate!Alone, Gate!asked, Gate!metering
<1> DEFINE status == IF stream[r] = "broken" THEN "broken" ELSE "whole"
           p == Gate!Answer(asking[r], status)
<1>2. Gate!Becomes(r, p)
  BY DEF Gate!ClientServed
<1>3. Kind(asking[r]) /\ Flowing(r) /\ Served(r) /\ FlowTypes /\ gateFaults \in 0..MaxGateFaults /\ asking \in [Requests -> RequestStates]
  BY DEF GateInv, Settings
<1>4. Sound(asking[r])
  BY <1>1, GatedSound
<1>5. status \in Gate!Answers /\ status \in {"broken", "whole"}
  BY DEF Gate!Answers
<1>6. Gated(p, conf) /\ p.pc = "done" /\ p.answer = status /\ p.kind = asking[r].kind /\ p.paid = asking[r].paid
  BY <1>4, <1>5, AnswerGated
<1>7. Kind(p)
  BY <1>3, <1>6 DEF Kind
<1>8. stream[r] = "broken" \/ stream[r] \in {"counted", "uncounted"}
  BY <1>1, <1>3 DEF Flowing, FlowTypes
<1>9. status = "whole" => stream[r] \in {"counted", "uncounted"}
  BY <1>8
<1> HIDE DEF p, status
<1>10. asking'[r] = p
  BY <1>2, <1>3 DEF Gate!Becomes
<1>11. Flowing(r)' /\ Served(r)'
  BY <1>1, <1>3, <1>5, <1>6, <1>9, <1>10 DEF Flowing, Served
<1>12. FlowTypes'
  BY <1>1, <1>3 DEF FlowTypes
<1>13. QED
  BY <1>1, <1>2, <1>3, <1>6, <1>7, <1>11, <1>12, FlowKeeps

\* Who leaves leaves the other branch reading.
LEMMA ClientLeavesKeeps ==
  ASSUME Gate!GatewayAssumption, GateInv, NEW r \in Requests, Gate!ClientLeaves(r)
  PROVE  GateInv'
<1> DEFINE p == Gate!Answer(asking[r], "left")
<1>1. Kind(asking[r]) /\ Flowing(r) /\ Served(r) /\ FlowTypes /\ gateFaults \in 0..MaxGateFaults /\ asking \in [Requests -> RequestStates]
  BY DEF GateInv, Settings
<1>2. /\ asking[r].pc = "waiting" /\ UNCHANGED <<breed, slots, conf, meter, emits, forgone, cut, changes, gateFaults>>
      /\ Gate!Becomes(r, p) /\ stream' = [stream EXCEPT ![r] = Gate!Leaving(@)]
  BY DEF Gate!ClientLeaves, Gate!asked
<1>3. stream' = stream
  BY <1>1, <1>2 DEF FlowTypes, Gate!Leaving
<1>4. Sound(asking[r]) /\ "left" \in Gate!Answers
  BY <1>2, GatedSound DEF Gate!Answers
<1>5. Gated(p, conf) /\ p.pc = "done" /\ p.answer = "left" /\ p.kind = asking[r].kind /\ p.paid = asking[r].paid
  BY <1>4, AnswerGated
<1>6. Kind(p)
  BY <1>1, <1>5 DEF Kind
<1> HIDE DEF p
<1>7. asking'[r] = p
  BY <1>1, <1>2 DEF Gate!Becomes
<1>8. Flowing(r)' /\ Served(r)'
  BY <1>1, <1>2, <1>3, <1>5, <1>7 DEF Flowing, Served
<1>9. FlowTypes'
  BY <1>1, <1>2, <1>3 DEF FlowTypes
<1>10. QED
  BY <1>1, <1>2, <1>3, <1>5, <1>6, <1>8, <1>9, FlowKeeps

\* Only a counted answer makes an event.
LEMMA MeterReadsKeeps ==
  ASSUME Gate!GatewayAssumption, GateInv, NEW r \in Requests, Gate!MeterReads(r)
  PROVE  GateInv'
<1>1. Kind(asking[r]) /\ Gated(asking[r], conf) /\ Flowing(r) /\ Served(r) /\ FlowTypes /\ gateFaults \in 0..MaxGateFaults
      /\ asking \in [Requests -> RequestStates]
  BY DEF GateInv, Settings
<1>2. /\ meter[r] = "reading" /\ stream[r] # "open"
      /\ UNCHANGED <<breed, slots, conf, stream, emits, forgone, cut, changes, gateFaults>>
      /\ meter' = [meter EXCEPT ![r] = IF stream[r] = "counted" THEN "emitting" ELSE "none"]
  BY DEF Gate!MeterReads, Gate!asked, Gate!Meters, Gate!FinalFrame
<1>3. stream[r] \in {"counted", "uncounted", "broken"} /\ emits[r] = 0
  BY <1>1, <1>2 DEF Flowing, FlowTypes
<1>4. FlowTypes' /\ meter'[r] = IF stream[r] = "counted" THEN "emitting" ELSE "none"
  BY <1>1, <1>2 DEF FlowTypes
<1>5. \A s \in Requests \ {r} :
         /\ stream'[s] = stream[s] /\ meter'[s] = meter[s] /\ emits'[s] = emits[s]
         /\ (s \in forgone => s \in forgone') /\ (s \in cut => s \in cut')
  BY <1>1, <1>2 DEF FlowTypes
<1>6. CASE asking[r].kind = "infer tool" /\ asking[r].pc = "waiting"
  <2> DEFINE status == IF stream[r] = "broken" THEN "unreachable" ELSE "whole"
             p == Gate!Answer(asking[r], status)
  <2>1. Gate!Becomes(r, p)
    BY <1>6 DEF Gate!MeterReads
  <2>2. Sound(asking[r])
    BY <1>6, GatedSound
  <2>3. status \in Gate!Answers /\ status \in {"unreachable", "whole"}
    BY DEF Gate!Answers
  <2>4. Gated(p, conf) /\ p.pc = "done" /\ p.answer = status /\ p.kind = asking[r].kind /\ p.paid = asking[r].paid
    BY <2>2, <2>3, AnswerGated
  <2>5. Kind(p) /\ (status = "whole" => stream[r] \in {"counted", "uncounted"})
    BY <1>1, <1>3, <2>4 DEF Kind
  <2> HIDE DEF p, status
  <2>6. asking'[r] = p
    BY <1>1, <2>1 DEF Gate!Becomes
  <2>7. Flowing(r)' /\ Served(r)'
    BY <1>1, <1>2, <1>3, <1>4, <2>3, <2>4, <2>5, <2>6 DEF Flowing, Served
  <2>8. QED
    BY <1>1, <1>2, <1>4, <1>5, <2>1, <2>4, <2>5, <2>7, FlowKeeps
<1>7. CASE ~(asking[r].kind = "infer tool" /\ asking[r].pc = "waiting")
  <2>1. Gate!Becomes(r, asking[r])
    BY <1>7 DEF Gate!MeterReads
  <2>2. asking'[r] = asking[r]
    BY <1>1, <2>1 DEF Gate!Becomes
  <2>3. Flowing(r)' /\ Served(r)'
    BY <1>1, <1>2, <1>3, <1>4, <2>2 DEF Flowing, Served
  <2>4. QED
    BY <1>1, <1>2, <1>4, <1>5, <2>1, <2>3, FlowKeeps
<1>8. QED
  BY <1>6, <1>7

LEMMA EmitKeeps ==
  ASSUME Gate!GatewayAssumption, GateInv, NEW r \in Requests, Gate!Emit(r) \/ Gate!EmitFails(r)
  PROVE  GateInv'
<1>1. /\ meter[r] = "emitting" /\ meter' = [meter EXCEPT ![r] = "none"]
      /\ UNCHANGED <<breed, slots, conf, asking, stream, cut, changes>>
      /\ \/ emits' = [emits EXCEPT ![r] = @ + 1] /\ forgone' = forgone /\ gateFaults' = gateFaults
         \/ emits' = emits /\ forgone' = forgone \cup {r} /\ gateFaults' = gateFaults + 1 /\ gateFaults < MaxGateFaults
  BY DEF Gate!Emit, Gate!EmitFails, Gate!asked
<1>2. Kind(asking[r]) /\ Gated(asking[r], conf) /\ Flowing(r) /\ Served(r) /\ FlowTypes /\ gateFaults \in 0..MaxGateFaults
      /\ Gate!Becomes(r, asking[r])
  BY <1>1, FlowNow
<1>3. stream[r] = "counted" /\ emits[r] = 0
  BY <1>1, <1>2 DEF Flowing
<1>4. /\ FlowTypes' /\ meter'[r] = "none"
      /\ \/ emits'[r] = 1 /\ forgone' = forgone
         \/ emits'[r] = 0 /\ r \in forgone'
  BY <1>1, <1>2, <1>3 DEF FlowTypes
<1>5. Flowing(r)' /\ Served(r)'
  BY <1>1, <1>2, <1>3, <1>4 DEF Flowing, Served
<1>6. \A s \in Requests \ {r} :
         /\ stream'[s] = stream[s] /\ meter'[s] = meter[s] /\ emits'[s] = emits[s]
         /\ (s \in forgone => s \in forgone') /\ (s \in cut => s \in cut')
  BY <1>1, <1>2 DEF FlowTypes
<1>7. gateFaults' \in 0..MaxGateFaults
  BY <1>1, <1>2, NothingApart
<1>8. QED
  BY <1>1, <1>2, <1>4, <1>5, <1>6, <1>7, FlowKeeps

\* What dies with the process.
LEMMA CrashKeeps ==
  ASSUME Gate!GatewayAssumption, GateInv, Gate!Crash
  PROVE  GateInv'
<1>1. /\ asking' = [r \in Requests |-> IF asking[r].pc \in {"new", "done"} THEN asking[r] ELSE Gate!Answer(asking[r], "cut off")]
      /\ stream' = [r \in Requests |-> IF stream[r] = "open" THEN "broken" ELSE stream[r]]
      /\ cut' = cut \cup {r \in Requests : stream[r] = "open"}
      /\ meter' = [r \in Requests |-> "none"]
      /\ forgone' = forgone \cup {r \in Requests : meter[r] # "none"}
      /\ gateFaults < MaxGateFaults /\ gateFaults' = gateFaults + 1
      /\ breed' = breed /\ slots' = slots /\ conf' = conf /\ emits' = emits /\ changes' = changes
  BY DEF Gate!Crash, Gate!asked
<1>2. Settings /\ FlowTypes /\ SlotsHeld /\ asking \in [Requests -> RequestStates]
  BY DEF GateInv
<1>3. Settings' /\ FlowTypes'
  <2>1. gateFaults' \in 0..MaxGateFaults
    <3>1. gateFaults \in 0..MaxGateFaults /\ MaxGateFaults \in Nat /\ gateFaults < MaxGateFaults /\ gateFaults' = gateFaults + 1
      BY <1>1, <1>2, NothingApart DEF Settings
    <3>2. QED
      BY <3>1
  <2>2. Settings'
    BY <1>1, <1>2, <2>1 DEF Settings
  <2>3. FlowTypes'
    BY <1>1, <1>2 DEF FlowTypes
  <2>4. QED
    BY <2>2, <2>3
<1>4. ASSUME NEW s \in Requests
      PROVE  /\ (Kind(asking[s]) /\ Gated(asking[s], conf) /\ Flowing(s) /\ Served(s))'
             /\ asking'[s] \in RequestStates /\ (asking[s].paid => asking'[s].paid)
  <2>1. Kind(asking[s]) /\ Gated(asking[s], conf) /\ Flowing(s) /\ Served(s)
    BY DEF GateInv
  <2>2. /\ stream'[s] = IF stream[s] = "open" THEN "broken" ELSE stream[s]
        /\ meter'[s] = "none" /\ emits'[s] = emits[s]
        /\ (s \in cut' <=> s \in cut \/ stream[s] = "open")
        /\ (s \in forgone' <=> s \in forgone \/ meter[s] # "none")
        /\ asking'[s] = IF asking[s].pc \in {"new", "done"} THEN asking[s] ELSE Gate!Answer(asking[s], "cut off")
    BY <1>1
  <2>3. CASE asking[s].pc \in {"new", "done"}
    <3>1. asking'[s] = asking[s]
      BY <2>2, <2>3
    <3>2. (Kind(asking[s]) /\ Gated(asking[s], conf))' /\ asking'[s] \in RequestStates
      BY <1>1, <2>1, <3>1 DEF Kind, Gated, Moment
    <3>3. (Flowing(s) /\ Served(s))'
      <4>1. asking[s].pc = "new" => asking[s].answer \notin {"whole", "left"}
        BY <2>1, NothingApart DEF Gated, Place, Gate!Answers
      <4>2. emits[s] \in 0..1
        BY <1>2 DEF FlowTypes
      <4>3. QED
        BY <2>1, <2>2, <2>3, <3>1, <4>1, <4>2 DEF Flowing, Served
    <3>4. QED
      BY <3>1, <3>2, <3>3
  <2>4. CASE asking[s].pc \notin {"new", "done"}
    <3> DEFINE p == Gate!Answer(asking[s], "cut off")
    <3>1. Sound(asking[s]) /\ "cut off" \in Gate!Answers
      BY <2>4, GatedSound DEF Gate!Answers
    <3>2. Gated(p, conf) /\ p.pc = "done" /\ p.answer = "cut off" /\ p.kind = asking[s].kind /\ p.paid = asking[s].paid
      BY <3>1, AnswerGated
    <3>3. asking'[s] = p
      BY <2>2, <2>4
    <3> HIDE DEF p
    <3>4. (Kind(asking[s]) /\ Gated(asking[s], conf))' /\ asking'[s] \in RequestStates
      BY <1>1, <2>1, <3>2, <3>3 DEF Kind, Gated, Moment
    <3>5. (Flowing(s) /\ Served(s))'
      BY <2>1, <2>2, <3>2, <3>3 DEF Flowing, Served
    <3>6. QED
      BY <3>2, <3>3, <3>4, <3>5
  <2>5. QED
    BY <2>3, <2>4
<1>5. SlotsHeld'
  BY <1>1, <1>2, <1>4 DEF SlotsHeld
<1>6. asking' \in [Requests -> RequestStates]
  BY <1>1, <1>4
<1>7. QED
  BY <1>3, <1>4, <1>5, <1>6 DEF GateInv

\* One change: who was known for a paddock that was not open is known no longer, or the
\* paddock is open now, or it takes a second change.
LEMMA MomentKept ==
  ASSUME NEW q \in RequestStates, NEW p \in RequestStates, NEW c, NEW d, Gated(q, c), q.pc \notin {"new",
         "done"},
         ~(c.on /\ c.credential) /\ d.on /\ d.credential => d.key = c.key /\ d.scoped = c.scoped,
         /\ p.kind = q.kind /\ p.pc = q.pc /\ p.key = q.key /\ p.paddock = q.paddock /\ p.paid = q.paid
         /\ p.read = q.read /\ p.reached = q.reached /\ p.images = q.images /\ p.bytes = q.bytes
         /\ p.answer = q.answer /\ (p.open <=> q.open \/ Gate!InOrder(d)) /\ p.moved = q.moved + 1
  PROVE  Gated(p, d)
<1>1. q.open \in BOOLEAN /\ q.moved \in Nat
  BY DEF RequestStates
<1>2. /\ p.kind = q.kind /\ p.pc = q.pc /\ p.key = q.key /\ p.paddock = q.paddock /\ p.paid = q.paid
      /\ p.read = q.read /\ p.reached = q.reached /\ p.images = q.images /\ p.bytes = q.bytes
      /\ p.answer = q.answer /\ (p.open <=> q.open \/ Gate!InOrder(d)) /\ p.moved = q.moved + 1
  OBVIOUS
<1>3. ~(c.on /\ c.credential) /\ d.on /\ d.credential => d.key = c.key /\ d.scoped = c.scoped
  OBVIOUS
<1>4. Place(p)
  BY <1>2 DEF Gated, Place, OnRoute, Known, Scoped
<1>5. (Known(p) <=> Known(q)) /\ (Scoped(p) <=> Scoped(q))
  BY <1>2 DEF Known, Scoped
<1>6. Moment(p, d)
  <2>1. ~p.open => ~q.open /\ ~Gate!InOrder(d)
    BY <1>2
  <2>2. Known(p) /\ p.key = TRUE /\ ~p.open => p.moved > 1 \/ ~(d.on /\ d.credential)
    <3>1. SUFFICES ASSUME Known(p), p.key = TRUE, ~p.open, d.on, d.credential, ~(p.moved > 1) PROVE FALSE
      OBVIOUS
    <3>2. q.moved = 0
      BY <1>1, <1>2, <3>1
    <3>3. ~(c.on /\ c.credential) /\ c.key /\ c.scoped
      BY <1>2, <1>5, <2>1, <3>1, <3>2 DEF Gated, Moment
    <3>4. d.key /\ d.scoped
      BY <1>3, <3>1, <3>3
    <3>5. QED
      BY <2>1, <3>1, <3>4 DEF Gate!InOrder
  <2>3. p.moved # 0
    BY <1>1, <1>2
  <2>4. Scoped(p) => p.open \/ p.moved > 1
    BY <1>1, <1>2, <1>5 DEF Gated, Moment
  <2>5. QED
    BY <2>1, <2>2, <2>3, <2>4 DEF Moment
<1>7. Gate!AsksInOrder(p) /\ Gate!AttachesAll(p)
  BY <1>2 DEF Gated, Gate!AsksInOrder, Gate!AttachesAll
<1>8. Gate!ReachesInOrder(p)
  BY <1>1, <1>2 DEF Gated, Gate!ReachesInOrder
<1>9. QED
  BY <1>2, <1>4, <1>6, <1>7, <1>8 DEF Gated

LEMMA ChangesKeep ==
  ASSUME Gate!GatewayAssumption, GateInv,
         NEW f \in {"key", "scoped", "on", "credential", "fence"}, Gate!Changes(f)
  PROVE  GateInv'
<1>1. /\ changes < MaxChanges /\ changes' = changes + 1
      /\ breed' = breed /\ slots' = slots /\ gateFaults' = gateFaults
      /\ stream' = stream /\ meter' = meter /\ emits' = emits /\ forgone' = forgone /\ cut' = cut
      /\ asking' = [r \in Requests |->
                      IF asking[r].pc \in {"new", "done"} THEN asking[r]
                      ELSE [asking[r] EXCEPT !.open = @ \/ Gate!InOrder(conf'), !.moved = @ + 1]]
  BY DEF Gate!Changes, Gate!asked, Gate!metering
<1>2. conf' = [conf EXCEPT ![f] = ~@]
  BY DEF Gate!Changes
<1>3. Settings /\ FlowTypes /\ SlotsHeld /\ asking \in [Requests -> RequestStates] /\ conf \in Gate!Configured
  BY DEF GateInv, Settings
<1>4. Settings' /\ FlowTypes'
  <2>1. conf' \in Gate!Configured
    BY <1>2, <1>3 DEF Gate!Configured
  <2>2. QED
    <3>1. changes' \in 0..MaxChanges
      <4>1. changes \in 0..MaxChanges /\ MaxChanges \in Nat /\ changes < MaxChanges /\ changes' = changes + 1
        BY <1>1, <1>3, NothingApart DEF Settings
      <4>2. QED
        BY <4>1
    <3>2. Settings'
      BY <1>1, <1>3, <2>1, <3>1 DEF Settings
    <3>3. FlowTypes'
      BY <1>1, <1>3 DEF FlowTypes
    <3>4. QED
      BY <3>2, <3>3
<1>5. ASSUME NEW s \in Requests
      PROVE  /\ (Kind(asking[s]) /\ Gated(asking[s], conf) /\ Flowing(s) /\ Served(s))'
             /\ asking'[s] \in RequestStates /\ (asking[s].paid => asking'[s].paid)
  <2>1. Kind(asking[s]) /\ Gated(asking[s], conf) /\ Flowing(s) /\ Served(s) /\ asking[s] \in RequestStates
    BY DEF GateInv
  <2>2. Gated(asking'[s], conf') /\ asking'[s].kind = asking[s].kind /\ asking'[s].pc = asking[s].pc
        /\ asking'[s].answer = asking[s].answer /\ asking'[s].paid = asking[s].paid
    <3>1. CASE asking[s].pc \in {"new", "done"}
      <4>1. asking'[s] = asking[s]
        BY <1>1, <3>1
      <4>2. Moment(asking[s], conf')
        BY <3>1, <2>1 DEF Moment, Known, Scoped, Gated, Place, OnRoute
      <4>3. QED
        BY <2>1, <4>1, <4>2 DEF Gated
    <3>2. CASE asking[s].pc \notin {"new", "done"}
      <4> DEFINE q == asking[s]
                 stood == Gate!InOrder(conf')
                 p == [q EXCEPT !.open = @ \/ stood, !.moved = @ + 1]
      <4>1. asking'[s] = p
        BY <1>1, <3>2
      <4>2. q \in RequestStates /\ Gated(q, conf)
        BY <2>1
      <4>3. stood \in BOOLEAN /\ stood = Gate!InOrder(conf')
        BY DEF Gate!InOrder
      <4> HIDE DEF q, stood
      <4>4. q.open \in BOOLEAN /\ q.moved \in Nat /\ (q.open \/ stood) \in BOOLEAN /\ q.moved + 1 \in Nat
        BY <4>2 DEF RequestStates
      <4>5. p \in RequestStates
        BY <4>2, <4>4 DEF RequestStates
      <4>6. /\ p.kind = q.kind /\ p.pc = q.pc /\ p.key = q.key /\ p.paddock = q.paddock /\ p.paid = q.paid
            /\ p.read = q.read /\ p.reached = q.reached /\ p.images = q.images /\ p.bytes = q.bytes
            /\ p.answer = q.answer /\ (p.open <=> q.open \/ stood) /\ p.moved = q.moved + 1
        BY <4>2, <4>4 DEF RequestStates
      <4>7. ~(conf.on /\ conf.credential) /\ conf'.on /\ conf'.credential
            => conf'.key = conf.key /\ conf'.scoped = conf.scoped
        BY <1>2, <1>3 DEF Gate!Configured
      <4> HIDE DEF p
      <4>8. q.pc \notin {"new", "done"}
        BY <3>2 DEF q
      <4>9. Gated(p, conf')
        BY <4>2, <4>3, <4>5, <4>6, <4>7, <4>8, MomentKept
      <4>10. QED
        BY <4>1, <4>6, <4>9 DEF q
    <3>3. QED
      BY <3>1, <3>2
  <2>3. Kind(asking[s])'
    BY <1>1, <2>1, <2>2 DEF Kind
  <2>4. (Flowing(s) /\ Served(s))'
    BY <1>1, <2>1, <2>2 DEF Flowing, Served
  <2>5. Gated(asking[s], conf)' /\ asking'[s] \in RequestStates
    BY <2>2 DEF Gated, Moment
  <2>6. QED
    BY <2>2, <2>3, <2>4, <2>5
<1>6. SlotsHeld'
  BY <1>1, <1>3, <1>5 DEF SlotsHeld
<1>7. asking' \in [Requests -> RequestStates]
  BY <1>1, <1>5
<1>8. QED
  BY <1>4, <1>5, <1>6, <1>7 DEF GateInv

LEMMA WindowKeeps ==
  ASSUME Gate!GatewayAssumption, GateInv, Gate!Window
  PROVE  GateInv'
<1>1. slots' = {} /\ UNCHANGED <<breed, conf, asking, stream, meter, emits, forgone, cut, changes, gateFaults>>
  BY DEF Gate!Window, Gate!metering
<1>2. IsFiniteSet({}) /\ Cardinality({}) = 0
  BY FS_EmptySet
<1>3. SlotsHeld'
  BY <1>1, <1>2, NothingApart DEF SlotsHeld
<1>4. Settings' /\ FlowTypes' /\ (asking \in [Requests -> RequestStates])'
  BY <1>1 DEF GateInv, Settings, FlowTypes
<1>5. ASSUME NEW s \in Requests PROVE (Kind(asking[s]) /\ Gated(asking[s], conf) /\ Flowing(s) /\ Served(s))'
  BY <1>1 DEF GateInv, Kind, Gated, Moment, Flowing, Served
<1>6. QED
  BY <1>3, <1>4, <1>5 DEF GateInv

(* The whole. *)
LEMMA GateBegins ==
  ASSUME Gate!GatewayAssumption, Gate!Init
  PROVE  GateInv
<1>1. Settings /\ FlowTypes
  <2>1. conf \in Gate!Configured
    <3>1. conf = [f \in {"key", "scoped", "on", "credential", "fence"} |-> TRUE]
      BY DEF Gate!Init
    <3>2. QED
      BY <3>1 DEF Gate!Configured
  <2>2. 0 \in 0..MaxChanges /\ 0 \in 0..MaxGateFaults
    BY NothingApart
  <2>3. Settings
    BY <2>1, <2>2 DEF Gate!Init, Settings
  <2>4. FlowTypes
    BY DEF Gate!Init, FlowTypes
  <2>5. QED
    BY <2>3, <2>4
<1>2. SlotsHeld
  BY FS_EmptySet, NothingApart DEF Gate!Init, SlotsHeld
<1>3. ASSUME NEW r \in Requests
      PROVE  asking[r] \in RequestStates /\ Kind(asking[r]) /\ Gated(asking[r], conf) /\ Flowing(r) /\ Served(r)
  <2>1. asking[r] = Gate!New /\ stream[r] = "none" /\ meter[r] = "none" /\ emits[r] = 0
    BY DEF Gate!Init
  <2>2. /\ Gate!New \in RequestStates /\ Gate!New.kind = Nothing /\ Gate!New.pc = "new" /\ Gate!New.key = Nothing /\ Gate!New.answer = Nothing
        /\ ~Gate!New.paid /\ ~Gate!New.read /\ ~Gate!New.reached
    BY NothingApart DEF Gate!New, RequestStates, Stages
  <2>3. Nothing \notin Gate!Answers /\ Nothing \notin Gate!Mcp /\ Nothing \notin Gate!Proxied
    BY DEF Gate!GatewayAssumption
  <2>4. Place(Gate!New) /\ Moment(Gate!New, conf)
    BY <2>2, <2>3 DEF Place, Moment, OnRoute, Known, Scoped, Gate!Tools, Gate!Mcp
  <2>5. Gated(Gate!New, conf)
    BY <2>2, <2>3, <2>4 DEF Gated, Gate!AsksInOrder, Gate!ReachesInOrder, Gate!AttachesAll, Gate!Answers
  <2>6. Flowing(r) /\ Served(r)
    <3>1. asking[r].pc = "new" /\ asking[r].answer \notin {"whole", "left"}
      BY <2>1, <2>2, <2>3 DEF Gate!Answers
    <3>2. QED
      BY <2>1, <3>1 DEF Flowing, Served
  <2>7. QED
    BY <2>1, <2>2, <2>5, <2>6 DEF Kind
<1>4. asking \in [Requests -> RequestStates]
  BY <1>3 DEF Gate!Init
<1>5. QED
  BY <1>1, <1>2, <1>3, <1>4 DEF GateInv

LEMMA GateSteps ==
  ASSUME Gate!GatewayAssumption, GateInv, [Gate!Next]_(Gate!vars)
  PROVE  GateInv'
<1>1. ASSUME NEW r \in Requests, Gate!Serving(r) PROVE GateInv'
  BY <1>1, ArriveKeeps, AuthenticateKeeps, PaddockScopeKeeps, LimitsKeeps, ReadBodyKeeps, ListKeeps, PlanKeeps,
     RunKeeps, JobResultKeeps, AttachKeeps, ClientServedKeeps, ClientLeavesKeeps DEF Gate!Serving
<1>2. ASSUME NEW r \in Requests, Gate!Metered(r) PROVE GateInv'
  BY <1>2, StreamEndsKeeps, MeterReadsKeeps, EmitKeeps DEF Gate!Metered
<1>3. CASE UNCHANGED Gate!vars
  <2>1. UNCHANGED <<breed, conf, slots, asking, stream, meter, emits, forgone, cut, changes, gateFaults>>
    BY <1>3 DEF Gate!vars, Gate!metering
  <2>2. Settings' /\ FlowTypes' /\ SlotsHeld' /\ (asking \in [Requests -> RequestStates])'
    BY <2>1 DEF GateInv, Settings, FlowTypes, SlotsHeld
  <2>3. ASSUME NEW s \in Requests PROVE (Kind(asking[s]) /\ Gated(asking[s], conf) /\ Flowing(s) /\ Served(s))'
    BY <2>1 DEF GateInv, Kind, Gated, Moment, Flowing, Served
  <2>4. QED
    BY <2>2, <2>3 DEF GateInv
<1>4. CASE Gate!Writing
  BY <1>4, ChangesKeep
     DEF Gate!Writing, Gate!RevokeKey, Gate!SavePaddock, Gate!SetPaddockStatus, Gate!SaveFlock, Gate!SaveFence
<1>5. QED
  BY <1>1, <1>2, <1>3, <1>4, CrashKeeps, WindowKeeps DEF Gate!Next

LEMMA GateShows ==
  ASSUME Gate!GatewayAssumption, GateInv
  PROVE  Gate!TypeOK /\ Gate!GatesHold /\ Gate!ServedIsMetered
<1>1. Gate!GatesHold
  BY SameCount DEF GateInv, Gated, Gate!GatesHold, SlotsHeld
<1>2. Gate!ServedIsMetered
  BY DEF GateInv, Served, Gate!ServedIsMetered
<1>3. Gate!TypeOK
  <2>1. ASSUME NEW r \in Requests
        PROVE  /\ asking[r].kind \in Gate!KindsOf(breed) \cup {Nothing}
               /\ \/ asking[r].pc \in {"new", "waiting", "done"}
                  \/ \E i \in DOMAIN Gate!Gates(asking[r].kind) : Gate!Gates(asking[r].kind)[i] = asking[r].pc
               /\ {asking[r].key, asking[r].paddock} \subseteq BOOLEAN \cup {Nothing}
               /\ asking[r].bytes \in 0..Cap /\ asking[r].images \in 0..MaxImages
               /\ asking[r].answer \in IF asking[r].pc = "done" THEN Gate!Answers ELSE {Nothing}
    <3>1. Kind(asking[r]) /\ asking[r] \in RequestStates /\ Place(asking[r]) /\ OnRoute(asking[r])
      BY DEF GateInv, Gated, Place
    <3>2. \/ asking[r].pc \in {"new", "waiting", "done"}
          \/ \E i \in DOMAIN Gate!Gates(asking[r].kind) : Gate!Gates(asking[r].kind)[i] = asking[r].pc
      BY <3>1, RouteIsGates
    <3>3. asking[r].answer \in IF asking[r].pc = "done" THEN Gate!Answers ELSE {Nothing}
      BY <3>1 DEF Place, RequestStates
    <3>4. QED
      BY <3>1, <3>2, <3>3 DEF Kind, RequestStates
  <2>2. QED
    BY <2>1 DEF Gate!TypeOK, GateInv, Settings, FlowTypes, SlotsHeld
<1>4. QED
  BY <1>1, <1>2, <1>3

----------------------------------------------------------------------------
(***************************************************************************)
(* The cache: any keys, slugs, paddocks and grants, any processes and      *)
(* requests, any time to live, and any changes, lost messages, failed      *)
(* lookups and restarts.                                                   *)
(*                                                                         *)
(* The inductive invariant: whatever is cached, or on its way into a       *)
(* cache, stood when it was read, which is a lookup ago at most; and it    *)
(* stands now, unless a change has still to be heard or was missed, or a   *)
(* flush went by while it was on its way.                                  *)
(***************************************************************************)
\* A fact is true, or a write last found it so no earlier than `at'.
Stood(holds, lastHeld, at) == holds \/ at <= lastHeld

KeyStood(k, v, at) ==
    /\ Stood(k \in active, lastActive[k], at)
    /\ Stood(v.slugs = Caching!ScopedSlugs(k), lastScope[<<k, v.slugs>>], at)
PaddockStood(s, v, at) == Stood(v = Caching!PaddockBySlug(s), lastPaddock[<<s, v>>], at)

\* What the lookups would answer now; an expired key is as good as any.
KeyCurrent(k, v) ==
    \/ clock >= ExpiresAt[k]
    \/ v = IF k \in active THEN [live |-> TRUE, slugs |-> Caching!ScopedSlugs(k)] ELSE Caching!NoKey
PaddockCurrent(s, v) == v = Caching!PaddockBySlug(s)

\* A flush went by, or has still to come, or never will.
Excused(i, raced) == raced \/ ~Caching!Quiet(i)

KeyEntryStands(i, e) ==
    /\ e.expiresAt <= clock + Ttl
    /\ e.value.live => KeyStood(e.name, e.value, e.expiresAt - Ttl - MaxLookup)
    /\ Excused(i, e.raced) \/ KeyCurrent(e.name, e.value)
PaddockEntryStands(i, e) ==
    /\ e.expiresAt <= clock + Ttl
    /\ PaddockStood(e.name, e.value, e.expiresAt - Ttl - MaxLookup)
    /\ Excused(i, e.raced) \/ PaddockCurrent(e.name, e.value)

\* A lookup on its way.
LookupStands(i, q) ==
    /\ q.pc \in {"links", "keyFill", "paddockFill"} => q.readAt <= clock /\ clock <= q.readAt + MaxLookup
    /\ q.pc = "links" =>
          /\ Stood(q.key \in active, lastActive[q.key], q.readAt)
          /\ Excused(i, q.raced) \/ clock >= ExpiresAt[q.key] \/ q.key \in active
    /\ q.pc = "keyFill" =>
          /\ q.got.live => KeyStood(q.key, q.got, q.readAt)
          /\ Excused(i, q.raced) \/ KeyCurrent(q.key, q.got)
    /\ q.pc = "paddockFill" =>
          /\ PaddockStood(q.slug, q.paddock, q.readAt)
          /\ Excused(i, q.raced) \/ PaddockCurrent(q.slug, q.paddock)

\* What a request has been answered from so far.
KeyAnswered(q) ==
    /\ q.keyAt <= clock /\ q.keyAt < ExpiresAt[q.key]
    /\ Caching!Recent(q.key \in active, lastActive[q.key], q.keyAt)
    /\ Caching!Recent(q.got.slugs = Caching!ScopedSlugs(q.key), lastScope[<<q.key, q.got.slugs>>], q.keyAt)
PaddockAnswered(q) ==
    /\ q.paddockAt <= clock
    /\ Caching!Recent(q.paddock = Caching!PaddockBySlug(q.slug), lastPaddock[<<q.slug, q.paddock>>], q.paddockAt)

RequestStands(i, q) ==
    /\ LookupStands(i, q)
    /\ q.pc \in {"paddock", "paddockFill", "ok", "403", "404"} => KeyAnswered(q)
    /\ q.pc \in {"ok", "403", "404"} => PaddockAnswered(q)

\* A cache within its bound, with one answer for a name.
Bounded(c) == Len(c) <= MaxEntries /\ \A m, n \in DOMAIN c : c[m].name = c[n].name => m = n

KeyCacheStands(i, c) == Bounded(c) /\ \A n \in DOMAIN c : KeyEntryStands(i, c[n])
PaddockCacheStands(i, c) == Bounded(c) /\ \A n \in DOMAIN c : PaddockEntryStands(i, c[n])

KeyEntries == Caching!EntriesOf(Keys, Caching!KeyValues)
PaddockEntries == Caching!EntriesOf(Slugs, Caching!PaddockValues)
Lookups ==
    [pc : {"idle", "key", "links", "keyFill", "paddock", "paddockFill", "ok", "401", "403", "404", "500"},
     key : Keys, slug : Slugs, got : Caching!KeyValues, keyAt : Int,
     paddock : Caching!PaddockValues, paddockAt : Int, readAt : Int, raced : BOOLEAN, sure : BOOLEAN]

DatabaseTypes ==
    /\ active \subseteq Keys
    /\ row \in [Paddocks -> [state : {"none", "exists", "deleted"}, slug : Slugs, on : BOOLEAN]]
    /\ writes \in 0..MaxWrites
    /\ lastActive \in [Keys -> Int]
    /\ lastScope \in [Keys \X SUBSET Slugs -> Int]
    /\ lastPaddock \in [Slugs \X Caching!PaddockValues -> Int]
BusTypes == unpublished \in Nat /\ inbox \in [Instances -> Nat] /\ missed \subseteq Instances

CacheInv ==
    /\ clock \in 0..MaxClock /\ cacheFaults \in 0..MaxCacheFaults
    /\ DatabaseTypes /\ BusTypes
    /\ keyCache \in [Instances -> Seq(KeyEntries)]
    /\ paddockCache \in [Instances -> Seq(PaddockEntries)]
    /\ \A i \in Instances : KeyCacheStands(i, keyCache[i]) /\ PaddockCacheStands(i, paddockCache[i])
    /\ req \in [Requests -> Lookups]
    /\ \A r \in Requests : RequestStands(ServedBy[r], req[r])

LEMMA CacheConstants ==
  ASSUME Caching!CacheAssumption
  PROVE  /\ Ttl \in Nat /\ Ttl > 0 /\ MaxEntries \in Nat /\ MaxEntries > 0 /\ MaxLookup \in Nat
         /\ MaxClock \in Nat /\ MaxWrites \in Nat /\ MaxCacheFaults \in Nat
         /\ ServedBy \in [Requests -> Instances] /\ ExpiresAt \in [Keys -> Nat]
BY DEF Caching!CacheAssumption

\* What the lookups answer is a matter of the rows.
ScopedIn(table, k) ==
    {s \in Slugs : \E p \in Grants[k] : table[p].state = "exists" /\ table[p].slug = s}
PaddockIn(table, s) ==
    IF \E p \in Paddocks : table[p].state = "exists" /\ table[p].slug = s
      THEN LET p == CHOOSE p \in Paddocks : table[p].state = "exists" /\ table[p].slug = s
           IN  [id |-> p, on |-> table[p].on]
      ELSE Caching!NoRow
LEMMA FromRows ==
  /\ \A k : Caching!ScopedSlugs(k) = ScopedIn(row, k)
  /\ \A s : Caching!PaddockBySlug(s) = PaddockIn(row, s)
BY DEF Caching!ScopedSlugs, Caching!PaddockBySlug, Caching!HasSlug, ScopedIn, PaddockIn
LEMMA FromRowsNext ==
  /\ \A k : Caching!ScopedSlugs(k)' = ScopedIn(row', k)
  /\ \A s : Caching!PaddockBySlug(s)' = PaddockIn(row', s)
BY DEF Caching!ScopedSlugs, Caching!PaddockBySlug, Caching!HasSlug, ScopedIn, PaddockIn
LEMMA AnswersSame ==
  ASSUME UNCHANGED row
  PROVE  /\ \A k : Caching!ScopedSlugs(k)' = Caching!ScopedSlugs(k)
         /\ \A s : Caching!PaddockBySlug(s)' = Caching!PaddockBySlug(s)
BY FromRows, FromRowsNext

LEMMA AnswerTypes ==
  ASSUME DatabaseTypes
  PROVE  /\ \A k : Caching!ScopedSlugs(k) \in SUBSET Slugs
         /\ \A s : Caching!PaddockBySlug(s) \in Caching!PaddockValues
         /\ Caching!NoKey \in Caching!KeyValues /\ Caching!NoRow \in Caching!PaddockValues
<1>1. \A k : Caching!ScopedSlugs(k) \in SUBSET Slugs
  BY DEF Caching!ScopedSlugs
<1>2. Caching!NoKey \in Caching!KeyValues
  BY DEF Caching!NoKey, Caching!KeyValues
<1>3. Caching!NoRow \in Caching!PaddockValues
  BY DEF Caching!NoRow, Caching!PaddockValues
<1>4. ASSUME NEW s PROVE Caching!PaddockBySlug(s) \in Caching!PaddockValues
  <2>1. CASE \E p \in Paddocks : Caching!HasSlug(p, s)
    <3> DEFINE p == CHOOSE p \in Paddocks : Caching!HasSlug(p, s)
    <3>1. p \in Paddocks
      BY <2>1
    <3>2. Caching!PaddockBySlug(s) = [id |-> p, on |-> row[p].on]
      BY <2>1 DEF Caching!PaddockBySlug
    <3>3. row[p].on \in BOOLEAN
      BY <3>1 DEF DatabaseTypes
    <3>4. QED
      BY <3>1, <3>2, <3>3 DEF Caching!PaddockValues
  <2>2. CASE ~\E p \in Paddocks : Caching!HasSlug(p, s)
    BY <2>2, <1>3 DEF Caching!PaddockBySlug
  <2>3. QED
    BY <2>1, <2>2
<1>5. QED
  BY <1>1, <1>2, <1>3, <1>4

\* A write: what stood goes on standing, and everybody has still to hear of it.
LEMMA KeyLasts ==
  ASSUME Caching!CacheAssumption, DatabaseTypes, clock \in Int, Caching!Write,
         NEW k \in Keys, NEW v \in Caching!KeyValues, NEW at \in Int, at <= clock
  PROVE  /\ KeyStood(k, v, at) => KeyStood(k, v, at)'
         /\ Stood(k \in active, lastActive[k], at) => Stood(k \in active, lastActive[k], at)'
         /\ Caching!Recent(k \in active, lastActive[k], at) => Caching!Recent(k \in active, lastActive[k], at)'
         /\ Caching!Recent(v.slugs = Caching!ScopedSlugs(k), lastScope[<<k, v.slugs>>], at)
            => Caching!Recent(v.slugs = Caching!ScopedSlugs(k), lastScope[<<k, v.slugs>>], at)'
<1>1. v.slugs \in SUBSET Slugs /\ <<k, v.slugs>> \in Keys \X SUBSET Slugs
  BY DEF Caching!KeyValues
<1>2. lastActive[k] \in Int /\ lastScope[<<k, v.slugs>>] \in Int
  BY <1>1 DEF DatabaseTypes
<1>3. lastActive'[k] = IF k \in active THEN clock ELSE lastActive[k]
  BY DEF Caching!Write
<1>4. lastScope'[<<k, v.slugs>>]
      = IF v.slugs = Caching!ScopedSlugs(k) THEN clock ELSE lastScope[<<k, v.slugs>>]
  <2> DEFINE x == <<k, v.slugs>>
  <2>1. lastScope' = [y \in Keys \X SUBSET Slugs |->
                        IF y[2] = Caching!ScopedSlugs(y[1]) THEN clock ELSE lastScope[y]]
    BY DEF Caching!Write
  <2>2. lastScope'[x] = IF x[2] = Caching!ScopedSlugs(x[1]) THEN clock ELSE lastScope[x]
    BY <1>1, <2>1
  <2>3. x[1] = k /\ x[2] = v.slugs
    OBVIOUS
  <2>4. QED
    BY <2>2, <2>3
<1>5. Stood(k \in active, lastActive[k], at) => Stood(k \in active', lastActive'[k], at)
  BY <1>2, <1>3 DEF Stood
<1>6. Stood(v.slugs = Caching!ScopedSlugs(k), lastScope[<<k, v.slugs>>], at)
      => Stood(v.slugs = Caching!ScopedSlugs(k)', lastScope'[<<k, v.slugs>>], at)
  BY <1>2, <1>4 DEF Stood
<1>7. Caching!Recent(k \in active, lastActive[k], at) => Caching!Recent(k \in active', lastActive'[k], at)
  BY <1>2, <1>3, CacheConstants DEF Caching!Recent
<1>8. Caching!Recent(v.slugs = Caching!ScopedSlugs(k), lastScope[<<k, v.slugs>>], at)
      => Caching!Recent(v.slugs = Caching!ScopedSlugs(k)', lastScope'[<<k, v.slugs>>], at)
  BY <1>2, <1>4, CacheConstants DEF Caching!Recent
<1>9. QED
  BY <1>5, <1>6, <1>7, <1>8 DEF KeyStood, Stood, Caching!Recent

LEMMA PaddockLasts ==
  ASSUME Caching!CacheAssumption, DatabaseTypes, clock \in Int, Caching!Write,
         NEW s \in Slugs, NEW v \in Caching!PaddockValues, NEW at \in Int, at <= clock
  PROVE  /\ PaddockStood(s, v, at) => PaddockStood(s, v, at)'
         /\ Caching!Recent(v = Caching!PaddockBySlug(s), lastPaddock[<<s, v>>], at)
            => Caching!Recent(v = Caching!PaddockBySlug(s), lastPaddock[<<s, v>>], at)'
<1> DEFINE x == <<s, v>>
<1>1. x \in Slugs \X Caching!PaddockValues /\ x[1] = s /\ x[2] = v
  OBVIOUS
<1>2. lastPaddock[x] \in Int
  BY <1>1 DEF DatabaseTypes
<1>3. lastPaddock'[x] = IF v = Caching!PaddockBySlug(s) THEN clock ELSE lastPaddock[x]
  <2>1. lastPaddock' = [y \in Slugs \X Caching!PaddockValues |->
                          IF y[2] = Caching!PaddockBySlug(y[1]) THEN clock ELSE lastPaddock[y]]
    BY DEF Caching!Write
  <2>2. lastPaddock'[x] = IF x[2] = Caching!PaddockBySlug(x[1]) THEN clock ELSE lastPaddock[x]
    BY <1>1, <2>1
  <2>3. QED
    BY <1>1, <2>2
<1>4. Stood(v = Caching!PaddockBySlug(s), lastPaddock[x], at)
      => Stood(v = Caching!PaddockBySlug(s)', lastPaddock'[x], at)
  BY <1>2, <1>3 DEF Stood
<1>5. Caching!Recent(v = Caching!PaddockBySlug(s), lastPaddock[x], at)
      => Caching!Recent(v = Caching!PaddockBySlug(s)', lastPaddock'[x], at)
  BY <1>2, <1>3, CacheConstants DEF Caching!Recent
<1>6. QED
  BY <1>4, <1>5 DEF PaddockStood, Stood, Caching!Recent

LEMMA EntryTypes ==
  ASSUME CacheInv, NEW i \in Instances
  PROVE  /\ \A n \in DOMAIN keyCache[i] :
               keyCache[i][n].name \in Keys /\ keyCache[i][n].value \in Caching!KeyValues
               /\ keyCache[i][n].expiresAt \in Int /\ keyCache[i][n].raced \in BOOLEAN
         /\ \A n \in DOMAIN paddockCache[i] :
               paddockCache[i][n].name \in Slugs /\ paddockCache[i][n].value \in Caching!PaddockValues
               /\ paddockCache[i][n].expiresAt \in Int /\ paddockCache[i][n].raced \in BOOLEAN
<1>1. keyCache[i] \in Seq(KeyEntries) /\ paddockCache[i] \in Seq(PaddockEntries)
  BY DEF CacheInv
<1>2. \A n \in DOMAIN keyCache[i] : keyCache[i][n] \in KeyEntries
  BY <1>1
<1>3. \A n \in DOMAIN paddockCache[i] : paddockCache[i][n] \in PaddockEntries
  BY <1>1
<1>4. QED
  BY <1>2, <1>3 DEF KeyEntries, PaddockEntries, Caching!EntriesOf

\* Everything stands after a change as it stood before it.
LEMMA WriteKeeps ==
  ASSUME Caching!CacheAssumption, CacheInv, Caching!Write, active' \subseteq Keys,
         row' \in [Paddocks -> [state : {"none", "exists", "deleted"}, slug : Slugs, on : BOOLEAN]]
  PROVE  CacheInv'
<1>1. /\ UNCHANGED <<clock, inbox, missed, keyCache, paddockCache, req, cacheFaults>>
      /\ unpublished' = unpublished + 1 /\ writes' = writes + 1 /\ writes < MaxWrites
  BY DEF Caching!Write, Caching!caches
<1>2. DatabaseTypes /\ BusTypes /\ clock \in Nat
  BY CacheConstants DEF CacheInv
<1>3. \A i, raced : Excused(i, raced)'
  BY <1>1, <1>2 DEF Excused, Caching!Quiet, BusTypes
<1>4. DatabaseTypes'
  <2>1. writes' \in 0..MaxWrites
    BY <1>1, <1>2, CacheConstants DEF DatabaseTypes
  <2>2. lastActive' \in [Keys -> Int] /\ lastScope' \in [Keys \X SUBSET Slugs -> Int]
        /\ lastPaddock' \in [Slugs \X Caching!PaddockValues -> Int]
    BY <1>2 DEF Caching!Write, DatabaseTypes
  <2>3. QED
    BY <2>1, <2>2 DEF DatabaseTypes
<1>5. BusTypes'
  BY <1>1, <1>2 DEF BusTypes
<1>6. ASSUME NEW i \in Instances PROVE (KeyCacheStands(i, keyCache[i]) /\ PaddockCacheStands(i, paddockCache[i]))'
  <2>1. KeyCacheStands(i, keyCache[i]) /\ PaddockCacheStands(i, paddockCache[i])
    BY DEF CacheInv
  <2>2. ASSUME NEW n \in DOMAIN keyCache[i] PROVE KeyEntryStands(i, keyCache[i][n])'
    <3> DEFINE e == keyCache[i][n]
    <3>1. e.name \in Keys /\ e.value \in Caching!KeyValues /\ e.expiresAt \in Int /\ KeyEntryStands(i, e)
      BY <2>1, EntryTypes DEF KeyCacheStands
    <3>2. e.expiresAt <= clock + Ttl /\ e.expiresAt - Ttl - MaxLookup \in Int
          /\ e.expiresAt - Ttl - MaxLookup <= clock
      BY <3>1, <1>2, CacheConstants DEF KeyEntryStands
    <3>3. KeyStood(e.name, e.value, e.expiresAt - Ttl - MaxLookup)
          => KeyStood(e.name, e.value, e.expiresAt - Ttl - MaxLookup)'
      BY <3>1, <3>2, <1>1, <1>2, KeyLasts DEF KeyStood
    <3>4. QED
      BY <3>1, <3>2, <3>3, <1>1, <1>3 DEF KeyEntryStands
  <2>3. ASSUME NEW n \in DOMAIN paddockCache[i] PROVE PaddockEntryStands(i, paddockCache[i][n])'
    <3> DEFINE e == paddockCache[i][n]
    <3>1. e.name \in Slugs /\ e.value \in Caching!PaddockValues /\ e.expiresAt \in Int /\ PaddockEntryStands(i, e)
      BY <2>1, EntryTypes DEF PaddockCacheStands
    <3>2. e.expiresAt <= clock + Ttl /\ e.expiresAt - Ttl - MaxLookup \in Int
          /\ e.expiresAt - Ttl - MaxLookup <= clock
      BY <3>1, <1>2, CacheConstants DEF PaddockEntryStands
    <3>3. PaddockStood(e.name, e.value, e.expiresAt - Ttl - MaxLookup)
          => PaddockStood(e.name, e.value, e.expiresAt - Ttl - MaxLookup)'
      BY <3>1, <3>2, <1>1, <1>2, PaddockLasts DEF PaddockStood
    <3>4. QED
      BY <3>1, <3>2, <3>3, <1>1, <1>3 DEF PaddockEntryStands
  <2>4. QED
    BY <2>1, <2>2, <2>3, <1>1 DEF KeyCacheStands, PaddockCacheStands, Bounded
<1>7. ASSUME NEW r \in Requests PROVE RequestStands(ServedBy[r], req[r])'
  <2> DEFINE q == req[r]
  <2>1. q \in Lookups /\ RequestStands(ServedBy[r], q) /\ q' = q
    BY <1>1 DEF CacheInv
  <2>2. q.key \in Keys /\ q.slug \in Slugs /\ q.got \in Caching!KeyValues /\ q.paddock \in Caching!PaddockValues
        /\ q.keyAt \in Int /\ q.paddockAt \in Int /\ q.readAt \in Int
    BY <2>1 DEF Lookups
  <2>3. LookupStands(ServedBy[r], q)'
    <3>1. LookupStands(ServedBy[r], q)
      BY <2>1 DEF RequestStands
    <3>2. q.readAt <= clock =>
            /\ KeyStood(q.key, q.got, q.readAt) => KeyStood(q.key, q.got, q.readAt)'
            /\ Stood(q.key \in active, lastActive[q.key], q.readAt)
               => Stood(q.key \in active, lastActive[q.key], q.readAt)'
            /\ PaddockStood(q.slug, q.paddock, q.readAt) => PaddockStood(q.slug, q.paddock, q.readAt)'
      BY <2>1, <2>2, <1>2, KeyLasts, PaddockLasts DEF KeyStood, PaddockStood
    <3>3. QED
      BY <3>1, <3>2, <2>1, <1>1, <1>3 DEF LookupStands
  <2>4. KeyAnswered(q) => KeyAnswered(q)'
    BY <2>1, <2>2, <1>1, <1>2, KeyLasts DEF KeyAnswered
  <2>5. PaddockAnswered(q) => PaddockAnswered(q)'
    BY <2>1, <2>2, <1>1, <1>2, PaddockLasts DEF PaddockAnswered
  <2>6. QED
    BY <2>1, <2>3, <2>4, <2>5 DEF RequestStands
<1>8. QED
  BY <1>1, <1>4, <1>5, <1>6, <1>7 DEF CacheInv

\* While the database and the clock stand still, what stood does, if nobody's excuse goes.
LEMMA Standing ==
  ASSUME UNCHANGED <<clock, active, row, lastActive, lastScope, lastPaddock>>, NEW i,
         \A raced : Excused(i, raced) => Excused(i, raced)'
  PROVE  /\ \A e : KeyEntryStands(i, e) => KeyEntryStands(i, e)'
         /\ \A e : PaddockEntryStands(i, e) => PaddockEntryStands(i, e)'
         /\ \A q : RequestStands(i, q) => RequestStands(i, q)'
<1>1. /\ \A k : Caching!ScopedSlugs(k)' = Caching!ScopedSlugs(k)
      /\ \A s : Caching!PaddockBySlug(s)' = Caching!PaddockBySlug(s)
  BY AnswersSame
<1>2. \A k, v, at : KeyStood(k, v, at) => KeyStood(k, v, at)'
  BY <1>1 DEF KeyStood, Stood
<1>3. \A s, v, at : PaddockStood(s, v, at) => PaddockStood(s, v, at)'
  BY <1>1 DEF PaddockStood, Stood
<1>4. \A k, v : KeyCurrent(k, v) => KeyCurrent(k, v)'
  BY <1>1 DEF KeyCurrent
<1>5. \A s, v : PaddockCurrent(s, v) => PaddockCurrent(s, v)'
  BY <1>1 DEF PaddockCurrent
<1>6. \A e : KeyEntryStands(i, e) => KeyEntryStands(i, e)'
  BY <1>2, <1>4 DEF KeyEntryStands
<1>7. \A e : PaddockEntryStands(i, e) => PaddockEntryStands(i, e)'
  BY <1>3, <1>5 DEF PaddockEntryStands
<1>8. \A q : LookupStands(i, q) => LookupStands(i, q)'
  BY <1>2, <1>3, <1>4, <1>5 DEF LookupStands, Stood
<1>9. \A q : KeyAnswered(q) => KeyAnswered(q)'
  BY <1>1 DEF KeyAnswered, Caching!Recent
<1>10. \A q : PaddockAnswered(q) => PaddockAnswered(q)'
  BY <1>1 DEF PaddockAnswered, Caching!Recent
<1>11. QED
  BY <1>6, <1>7, <1>8, <1>9, <1>10 DEF RequestStands

\* A message on its way, or lost to some: everybody hears it or misses it.
LEMMA PublishKeeps ==
  ASSUME Caching!CacheAssumption, CacheInv,
         Caching!Publish \/ \E deaf \in SUBSET Instances : Caching!PublishLost(deaf)
  PROVE  CacheInv'
<1>1. /\ UNCHANGED <<clock, active, row, writes, lastActive, lastScope, lastPaddock, keyCache, paddockCache, req>>
      /\ BusTypes' /\ cacheFaults' \in 0..MaxCacheFaults
      /\ \A i \in Instances : inbox'[i] > 0 \/ i \in missed'
  <2>1. BusTypes /\ cacheFaults \in 0..MaxCacheFaults /\ MaxCacheFaults \in Nat
    BY CacheConstants DEF CacheInv
  <2>2. CASE Caching!Publish
    BY <2>1, <2>2 DEF Caching!Publish, Caching!db, Caching!caches, BusTypes
  <2>3. ASSUME NEW deaf \in SUBSET Instances, Caching!PublishLost(deaf)
        PROVE  /\ UNCHANGED <<clock, active, row, writes, lastActive, lastScope, lastPaddock, keyCache, paddockCache, req>>
               /\ BusTypes' /\ cacheFaults' \in 0..MaxCacheFaults
               /\ \A i \in Instances : inbox'[i] > 0 \/ i \in missed'
    BY <2>1, <2>3 DEF Caching!PublishLost, Caching!Fault, Caching!db, Caching!caches, BusTypes
  <2>4. QED
    BY <2>2, <2>3
<1>2. \A i \in Instances : \A raced : Excused(i, raced)'
  BY <1>1 DEF Excused, Caching!Quiet
<1>3. ServedBy \in [Requests -> Instances]
  BY CacheConstants
<1>4. ASSUME NEW i \in Instances PROVE (KeyCacheStands(i, keyCache[i]) /\ PaddockCacheStands(i, paddockCache[i]))'
  <2>1. /\ \A e : KeyEntryStands(i, e) => KeyEntryStands(i, e)'
        /\ \A e : PaddockEntryStands(i, e) => PaddockEntryStands(i, e)'
    BY <1>1, <1>2, Standing
  <2>2. QED
    BY <2>1, <1>1 DEF CacheInv, KeyCacheStands, PaddockCacheStands, Bounded
<1>5. ASSUME NEW r \in Requests PROVE RequestStands(ServedBy[r], req[r])'
  <2>1. ServedBy[r] \in Instances
    BY <1>3
  <2>2. \A q : RequestStands(ServedBy[r], q) => RequestStands(ServedBy[r], q)'
    BY <2>1, <1>1, <1>2, Standing
  <2>3. QED
    BY <2>2, <1>1 DEF CacheInv
<1>6. QED
  BY <1>1, <1>4, <1>5 DEF CacheInv, DatabaseTypes

\* An instance empties its caches, and asks nothing or knows that a flush went by.
LEMMA EmptiesKeeps ==
  ASSUME Caching!CacheAssumption, CacheInv, NEW i \in Instances,
         UNCHANGED <<clock, active, row, writes, lastActive, lastScope, lastPaddock, unpublished>>,
         cacheFaults' \in 0..MaxCacheFaults,
         inbox' \in [Instances -> Nat], \A j \in Instances \ {i} : inbox'[j] = inbox[j],
         missed' = missed \ {i},
         keyCache' = [keyCache EXCEPT ![i] = <<>>], paddockCache' = [paddockCache EXCEPT ![i] = <<>>],
         req' \in [Requests -> Lookups],
         \A r \in Requests : ServedBy[r] # i => req'[r] = req[r],
         \A r \in Requests : ServedBy[r] = i =>
            \/ req'[r] = req[r] /\ req[r].pc \notin {"links", "keyFill", "paddockFill"}
            \/ req'[r] = [req[r] EXCEPT !.raced = TRUE]
            \/ req'[r].pc = "idle"
  PROVE  CacheInv'
<1>1. ServedBy \in [Requests -> Instances] /\ MaxEntries \in Nat /\ keyCache \in [Instances -> Seq(KeyEntries)]
      /\ paddockCache \in [Instances -> Seq(PaddockEntries)] /\ BusTypes
  BY CacheConstants DEF CacheInv
<1>2. ASSUME NEW j \in Instances \ {i}
      PROVE  /\ \A e : KeyEntryStands(j, e) => KeyEntryStands(j, e)'
             /\ \A e : PaddockEntryStands(j, e) => PaddockEntryStands(j, e)'
             /\ \A q : RequestStands(j, q) => RequestStands(j, q)'
  <2>1. \A raced : Excused(j, raced) => Excused(j, raced)'
    BY DEF Excused, Caching!Quiet
  <2>2. QED
    BY <2>1, Standing
<1>3. ASSUME NEW j \in Instances PROVE (KeyCacheStands(j, keyCache[j]) /\ PaddockCacheStands(j, paddockCache[j]))'
  <2>1. CASE j = i
    <3>1. keyCache'[j] = <<>> /\ paddockCache'[j] = <<>>
      BY <1>1, <2>1
    <3>2. QED
      BY <3>1, <1>1 DEF KeyCacheStands, PaddockCacheStands, Bounded
  <2>2. CASE j # i
    <3>1. keyCache'[j] = keyCache[j] /\ paddockCache'[j] = paddockCache[j]
      BY <1>1, <2>2
    <3>2. QED
      BY <3>1, <1>2, <2>2 DEF CacheInv, KeyCacheStands, PaddockCacheStands, Bounded
  <2>3. QED
    BY <2>1, <2>2
<1>4. ASSUME NEW r \in Requests PROVE RequestStands(ServedBy[r], req[r])'
  <2>1. RequestStands(ServedBy[r], req[r]) /\ ServedBy[r] \in Instances /\ req[r] \in Lookups
    BY <1>1 DEF CacheInv
  <2>2. CASE ServedBy[r] # i
    BY <2>1, <2>2, <1>2
  <2>3. ASSUME ServedBy[r] = i, NEW q \in Lookups, req'[r] = [q EXCEPT !.raced = TRUE], q = req[r]
        PROVE  RequestStands(ServedBy[r], req[r])'
    <3>1. /\ q.pc = req'[r].pc /\ q.key = req'[r].key /\ q.slug = req'[r].slug /\ q.got = req'[r].got
          /\ q.keyAt = req'[r].keyAt /\ q.paddock = req'[r].paddock /\ q.paddockAt = req'[r].paddockAt
          /\ q.readAt = req'[r].readAt /\ req'[r].raced
      BY <2>3 DEF Lookups
    <3>2. /\ \A k : Caching!ScopedSlugs(k)' = Caching!ScopedSlugs(k)
          /\ \A s : Caching!PaddockBySlug(s)' = Caching!PaddockBySlug(s)
      BY AnswersSame
    <3>3. LookupStands(ServedBy[r], req[r])'
      BY <3>1, <3>2, <2>1, <2>3 DEF RequestStands, LookupStands, Excused, KeyStood, PaddockStood, Stood
    <3>4. KeyAnswered(q) => KeyAnswered(req[r])'
      BY <3>1, <3>2 DEF KeyAnswered, Caching!Recent
    <3>5. PaddockAnswered(q) => PaddockAnswered(req[r])'
      BY <3>1, <3>2 DEF PaddockAnswered, Caching!Recent
    <3>6. QED
      BY <3>1, <3>3, <3>4, <3>5, <2>1, <2>3 DEF RequestStands
  <2>4. CASE req'[r].pc = "idle"
    BY <2>4 DEF RequestStands, LookupStands
  <2>5. CASE req'[r] = req[r] /\ req[r].pc \notin {"links", "keyFill", "paddockFill"}
    <3>1. /\ \A k : Caching!ScopedSlugs(k)' = Caching!ScopedSlugs(k)
          /\ \A s : Caching!PaddockBySlug(s)' = Caching!PaddockBySlug(s)
      BY AnswersSame
    <3>2. LookupStands(ServedBy[r], req[r])'
      BY <2>5 DEF LookupStands
    <3>3. KeyAnswered(req[r]) => KeyAnswered(req[r])'
      BY <3>1, <2>5 DEF KeyAnswered, Caching!Recent
    <3>4. PaddockAnswered(req[r]) => PaddockAnswered(req[r])'
      BY <3>1, <2>5 DEF PaddockAnswered, Caching!Recent
    <3>5. QED
      BY <3>2, <3>3, <3>4, <2>1, <2>5 DEF RequestStands
  <2>6. QED
    BY <2>1, <2>2, <2>3, <2>4, <2>5
<1>5. BusTypes'
  BY <1>1 DEF BusTypes
<1>6. keyCache' \in [Instances -> Seq(KeyEntries)] /\ paddockCache' \in [Instances -> Seq(PaddockEntries)]
  BY <1>1
<1>7. QED
  BY <1>3, <1>4, <1>5, <1>6 DEF CacheInv, DatabaseTypes

LEMMA IdleIsALookup ==
  ASSUME Caching!CacheAssumption
  PROVE  Caching!Idle \in Lookups /\ Caching!Idle.pc = "idle" /\ \A i : RequestStands(i, Caching!Idle)
<1>1. (CHOOSE k \in Keys : TRUE) \in Keys /\ (CHOOSE s \in Slugs : TRUE) \in Slugs
  BY DEF Caching!CacheAssumption
<1>2. Caching!NoKey \in Caching!KeyValues /\ Caching!NoRow \in Caching!PaddockValues
  BY DEF Caching!NoKey, Caching!KeyValues, Caching!NoRow, Caching!PaddockValues
<1>3. Caching!Idle \in Lookups /\ Caching!Idle.pc = "idle"
  BY <1>1, <1>2 DEF Caching!Idle, Lookups
<1>4. QED
  BY <1>3 DEF RequestStands, LookupStands

LEMMA FlushKeeps ==
  ASSUME Caching!CacheAssumption, CacheInv, NEW i \in Instances, Caching!Flush(i) \/ Caching!Restart(i)
  PROVE  CacheInv'
<1>1. BusTypes /\ cacheFaults \in 0..MaxCacheFaults /\ MaxCacheFaults \in Nat /\ req \in [Requests -> Lookups]
  BY CacheConstants DEF CacheInv
<1>2. CASE Caching!Flush(i)
  <2>1. \A r \in Requests : req'[r] = IF ServedBy[r] = i /\ Caching!InFlight(r)
                                        THEN [req[r] EXCEPT !.raced = TRUE] ELSE req[r]
    BY <1>2 DEF Caching!Flush
  <2>2. \A r \in Requests : [req[r] EXCEPT !.raced = TRUE] \in Lookups
    BY <1>1 DEF Lookups
  <2>3. req' \in [Requests -> Lookups]
    BY <1>1, <1>2, <2>2 DEF Caching!Flush
  <2>4. inbox' \in [Instances -> Nat] /\ \A j \in Instances \ {i} : inbox'[j] = inbox[j]
    BY <1>1, <1>2 DEF Caching!Flush, BusTypes
  <2>5. QED
    BY <1>1, <1>2, <2>1, <2>3, <2>4, EmptiesKeeps DEF Caching!Flush, Caching!InFlight, Caching!db
<1>3. CASE Caching!Restart(i)
  <2>1. \A r \in Requests : req'[r] = IF ServedBy[r] = i THEN Caching!Idle ELSE req[r]
    BY <1>3 DEF Caching!Restart
  <2>2. req' \in [Requests -> Lookups]
    BY <1>1, <1>3, IdleIsALookup DEF Caching!Restart
  <2>3. inbox' \in [Instances -> Nat] /\ \A j \in Instances \ {i} : inbox'[j] = inbox[j]
    BY <1>1, <1>3 DEF Caching!Restart, BusTypes
  <2>4. cacheFaults' \in 0..MaxCacheFaults
    BY <1>1, <1>3 DEF Caching!Restart, Caching!Fault
  <2>5. QED
    BY <1>3, <2>1, <2>2, <2>3, <2>4, IdleIsALookup, EmptiesKeeps DEF Caching!Restart, Caching!db
<1>4. QED
  BY <1>2, <1>3

LEMMA ClockKeeps ==
  ASSUME Caching!CacheAssumption, CacheInv, Caching!Tick
  PROVE  CacheInv'
<1>1. /\ UNCHANGED <<active, row, writes, lastActive, lastScope, lastPaddock, unpublished, inbox, missed>>
      /\ UNCHANGED <<keyCache, paddockCache, req, cacheFaults>>
      /\ clock' = clock + 1 /\ clock' \in 0..MaxClock /\ clock \in Nat
      /\ \A r \in Requests : Caching!InFlight(r) => clock < req[r].readAt + MaxLookup
  BY CacheConstants DEF Caching!Tick, Caching!db, Caching!bus, Caching!caches, CacheInv
<1>2. /\ \A k : Caching!ScopedSlugs(k)' = Caching!ScopedSlugs(k)
      /\ \A s : Caching!PaddockBySlug(s)' = Caching!PaddockBySlug(s)
  BY <1>1, AnswersSame
<1>3. /\ \A k, v, at : KeyStood(k, v, at) => KeyStood(k, v, at)'
      /\ \A s, v, at : PaddockStood(s, v, at) => PaddockStood(s, v, at)'
  BY <1>1, <1>2 DEF KeyStood, PaddockStood, Stood
<1>4. /\ \A k \in Keys : \A v : KeyCurrent(k, v) => KeyCurrent(k, v)'
      /\ \A s, v : PaddockCurrent(s, v) => PaddockCurrent(s, v)'
      /\ \A i, raced : Excused(i, raced) => Excused(i, raced)'
  BY <1>1, <1>2, CacheConstants DEF KeyCurrent, PaddockCurrent, Excused, Caching!Quiet
<1>5. ASSUME NEW i \in Instances PROVE (KeyCacheStands(i, keyCache[i]) /\ PaddockCacheStands(i, paddockCache[i]))'
  <2>1. KeyCacheStands(i, keyCache[i]) /\ PaddockCacheStands(i, paddockCache[i])
    BY DEF CacheInv
  <2>2. ASSUME NEW n \in DOMAIN keyCache[i] PROVE KeyEntryStands(i, keyCache[i][n])'
    <3>1. keyCache[i][n].name \in Keys /\ keyCache[i][n].expiresAt \in Int /\ KeyEntryStands(i, keyCache[i][n])
      BY <2>1, EntryTypes DEF KeyCacheStands
    <3>2. keyCache[i][n].expiresAt <= clock' + Ttl
      BY <3>1, <1>1, CacheConstants DEF KeyEntryStands
    <3>3. QED
      BY <3>1, <3>2, <1>1, <1>3, <1>4 DEF KeyEntryStands
  <2>3. ASSUME NEW n \in DOMAIN paddockCache[i] PROVE PaddockEntryStands(i, paddockCache[i][n])'
    <3>1. paddockCache[i][n].expiresAt \in Int /\ PaddockEntryStands(i, paddockCache[i][n])
      BY <2>1, EntryTypes DEF PaddockCacheStands
    <3>2. paddockCache[i][n].expiresAt <= clock' + Ttl
      BY <3>1, <1>1, CacheConstants DEF PaddockEntryStands
    <3>3. QED
      BY <3>1, <3>2, <1>1, <1>3, <1>4 DEF PaddockEntryStands
  <2>4. QED
    BY <2>1, <2>2, <2>3, <1>1 DEF KeyCacheStands, PaddockCacheStands, Bounded
<1>6. ASSUME NEW r \in Requests PROVE RequestStands(ServedBy[r], req[r])'
  <2> DEFINE q == req[r]
  <2>1. q \in Lookups /\ RequestStands(ServedBy[r], q)
    BY DEF CacheInv
  <2>2. q.key \in Keys /\ q.readAt \in Int /\ q.keyAt \in Int /\ q.paddockAt \in Int
    BY <2>1 DEF Lookups
  <2>3. q.pc \in {"links", "keyFill", "paddockFill"} => q.readAt <= clock' /\ clock' <= q.readAt + MaxLookup
    BY <2>1, <2>2, <1>1, CacheConstants DEF RequestStands, LookupStands, Caching!InFlight
  <2>4. LookupStands(ServedBy[r], q)'
    <3>1. clock >= ExpiresAt[q.key] => clock' >= ExpiresAt[q.key]
      BY <2>2, <1>1, CacheConstants
    <3>2. QED
      BY <2>1, <2>2, <2>3, <3>1, <1>1, <1>3, <1>4 DEF RequestStands, LookupStands, Stood
  <2>5. KeyAnswered(q) => KeyAnswered(q)'
    BY <2>2, <1>1, <1>2 DEF KeyAnswered, Caching!Recent
  <2>6. PaddockAnswered(q) => PaddockAnswered(q)'
    BY <2>2, <1>1, <1>2 DEF PaddockAnswered, Caching!Recent
  <2>7. QED
    BY <2>1, <2>4, <2>5, <2>6, <1>1 DEF RequestStands
<1>7. QED
  BY <1>1, <1>5, <1>6 DEF CacheInv, DatabaseTypes, BusTypes

\* setBounded: nothing but the new entry comes, and the bound and the names are kept.
LEMMA BoundedSet ==
  ASSUME Caching!CacheAssumption, NEW Entries, NEW c \in Seq(Entries), NEW e \in Entries, Bounded(c),
         NEW d, d = Caching!SetBounded(c, e)
  PROVE  /\ d \in Seq(Entries) /\ Bounded(d)
         /\ \A n \in DOMAIN d : d[n] = e \/ \E m \in DOMAIN c : d[n] = c[m]
<1>1. Caching!Cached(c, e.name) = {x \in {c[n] : n \in DOMAIN c} : x.name = e.name}
  BY DEF Caching!Cached, Caching!Range
<1>2. CASE Caching!Cached(c, e.name) # {}
  <2>1. d = [n \in DOMAIN c |-> IF c[n].name = e.name THEN e ELSE c[n]]
    BY <1>2 DEF Caching!SetBounded
  <2>2. d \in Seq(Entries) /\ Len(d) = Len(c) /\ DOMAIN d = DOMAIN c
    BY <2>1
  <2>3. \A n \in DOMAIN d : d[n].name = c[n].name
    BY <2>1
  <2>4. QED
    BY <2>1, <2>2, <2>3 DEF Bounded
<1>3. CASE Caching!Cached(c, e.name) = {}
  <2>0. PICK t : t = IF Len(c) >= MaxEntries THEN Tail(c) ELSE c
    OBVIOUS
  <2>1. d = Append(t, e)
    BY <1>3, <2>0 DEF Caching!SetBounded
  <2>2. \A n \in DOMAIN c : c[n].name # e.name
    BY <1>1, <1>3
  <2>3. /\ t \in Seq(Entries) /\ Len(t) < MaxEntries
        /\ \A n \in DOMAIN t : \E m \in DOMAIN c : t[n] = c[m]
        /\ \A m, n \in DOMAIN t : t[m].name = t[n].name => m = n
    <3>1. CASE Len(c) >= MaxEntries
      <4>1. Len(c) = MaxEntries /\ Len(c) > 0 /\ c # <<>>
        BY <3>1, CacheConstants DEF Bounded
      <4>2. /\ t = Tail(c) /\ t \in Seq(Entries) /\ Len(t) = Len(c) - 1
            /\ \A n \in 1..Len(t) : n + 1 \in 1..Len(c) /\ t[n] = c[n + 1]
        BY <2>0, <3>1, <4>1
      <4>3. \A n \in DOMAIN t : n \in 1..Len(t) /\ n + 1 \in DOMAIN c
        BY <4>2
      <4>4. \A n \in DOMAIN t : t[n] = c[n + 1] /\ n \in Int
        BY <4>2, <4>3
      <4>5. \A m, n \in DOMAIN t : t[m].name = t[n].name => m = n
        <5>1. \A m, n \in DOMAIN t : t[m].name = t[n].name => m + 1 = n + 1
          BY <4>3, <4>4 DEF Bounded
        <5>2. QED
          BY <4>4, <5>1
      <4>6. Len(t) < MaxEntries
        BY <4>1, <4>2, CacheConstants
      <4>7. \A n \in DOMAIN t : \E m \in DOMAIN c : t[n] = c[m]
        BY <4>3, <4>4
      <4>8. QED
        BY <4>2, <4>5, <4>6, <4>7
    <3>2. CASE ~(Len(c) >= MaxEntries)
      BY <2>0, <3>2, CacheConstants DEF Bounded
    <3>3. QED
      BY <3>1, <3>2
  <2>4. /\ d \in Seq(Entries) /\ Len(d) = Len(t) + 1 /\ DOMAIN d = 1..Len(t) + 1 /\ DOMAIN t = 1..Len(t)
        /\ d[Len(t) + 1] = e /\ \A n \in 1..Len(t) : d[n] = t[n]
    BY <2>1, <2>3
  <2>5. Len(t) \in Nat /\ Len(d) <= MaxEntries
    BY <2>3, <2>4, CacheConstants
  <2>6. \A n \in DOMAIN d : (n \in DOMAIN t /\ d[n] = t[n]) \/ (n = Len(t) + 1 /\ d[n] = e)
    BY <2>4, <2>5
  <2>7. \A n \in DOMAIN t : t[n].name # e.name
    BY <2>2, <2>3
  <2>8. \A m, n \in DOMAIN d : d[m].name = d[n].name => m = n
    BY <2>3, <2>6, <2>7
  <2>9. \A n \in DOMAIN d : d[n] = e \/ \E m \in DOMAIN c : d[n] = c[m]
    BY <2>3, <2>6
  <2>10. QED
    BY <2>4, <2>5, <2>8, <2>9 DEF Bounded
<1>4. QED
  BY <1>2, <1>3

\* A step of one request, which may leave an entry in a cache of its instance.
LEMMA MoveKeeps ==
  ASSUME Caching!CacheAssumption, CacheInv, NEW r \in Requests, NEW q \in Lookups,
         req' = [req EXCEPT ![r] = q], RequestStands(ServedBy[r], q),
         UNCHANGED <<clock, active, row, writes, lastActive, lastScope, lastPaddock, unpublished, inbox, missed>>,
         cacheFaults' \in 0..MaxCacheFaults,
         \/ keyCache' = keyCache
         \/ \E e \in KeyEntries : /\ KeyEntryStands(ServedBy[r], e)
                                  /\ keyCache' = [keyCache EXCEPT ![ServedBy[r]] = Caching!SetBounded(@, e)],
         \/ paddockCache' = paddockCache
         \/ \E e \in PaddockEntries : /\ PaddockEntryStands(ServedBy[r], e)
                                      /\ paddockCache' = [paddockCache EXCEPT ![ServedBy[r]] = Caching!SetBounded(@, e)]
  PROVE  CacheInv'
<1>1. ServedBy[r] \in Instances /\ ServedBy \in [Requests -> Instances] /\ req \in [Requests -> Lookups]
      /\ keyCache \in [Instances -> Seq(KeyEntries)] /\ paddockCache \in [Instances -> Seq(PaddockEntries)]
  BY CacheConstants DEF CacheInv
<1>2. ASSUME NEW i
      PROVE  /\ \A e : KeyEntryStands(i, e) => KeyEntryStands(i, e)'
             /\ \A e : PaddockEntryStands(i, e) => PaddockEntryStands(i, e)'
             /\ \A p : RequestStands(i, p) => RequestStands(i, p)'
  BY Standing DEF Excused, Caching!Quiet
<1>3. keyCache' \in [Instances -> Seq(KeyEntries)]
      /\ \A i \in Instances : KeyCacheStands(i, keyCache[i])'
  <2>1. CASE keyCache' = keyCache
    BY <1>1, <1>2, <2>1 DEF CacheInv, KeyCacheStands, Bounded
  <2>2. ASSUME NEW e \in KeyEntries, KeyEntryStands(ServedBy[r], e),
               keyCache' = [keyCache EXCEPT ![ServedBy[r]] = Caching!SetBounded(@, e)]
        PROVE  keyCache' \in [Instances -> Seq(KeyEntries)]
               /\ \A i \in Instances : KeyCacheStands(i, keyCache[i])'
    <3> DEFINE c == keyCache[ServedBy[r]]
    <3>0. PICK d : d = Caching!SetBounded(c, e)
      OBVIOUS
    <3>1. c \in Seq(KeyEntries) /\ KeyCacheStands(ServedBy[r], c) /\ keyCache'[ServedBy[r]] = d
      BY <1>1, <2>2, <3>0 DEF CacheInv
    <3>2. /\ d \in Seq(KeyEntries) /\ Bounded(d)
          /\ \A n \in DOMAIN d : d[n] = e \/ \E m \in DOMAIN c : d[n] = c[m]
      BY <2>2, <3>0, <3>1, BoundedSet DEF KeyCacheStands
    <3>3. \A n \in DOMAIN d : KeyEntryStands(ServedBy[r], d[n])
      BY <2>2, <3>1, <3>2 DEF KeyCacheStands
    <3>4. \A i \in Instances : i # ServedBy[r] => keyCache'[i] = keyCache[i]
      BY <1>1, <2>2
    <3>5. keyCache' \in [Instances -> Seq(KeyEntries)]
      BY <1>1, <2>2, <3>0, <3>2
    <3>6. KeyCacheStands(ServedBy[r], keyCache[ServedBy[r]])'
      <4>1. \A n \in DOMAIN d : KeyEntryStands(ServedBy[r], d[n])'
        BY <3>1, <3>3, <1>2
      <4>2. QED
        BY <4>1, <3>1, <3>2 DEF KeyCacheStands, Bounded
    <3>7. ASSUME NEW i \in Instances, i # ServedBy[r] PROVE KeyCacheStands(i, keyCache[i])'
      BY <3>4, <3>7, <1>2 DEF CacheInv, KeyCacheStands, Bounded
    <3>8. QED
      BY <3>5, <3>6, <3>7
  <2>3. QED
    BY <2>1, <2>2
<1>4. paddockCache' \in [Instances -> Seq(PaddockEntries)]
      /\ \A i \in Instances : PaddockCacheStands(i, paddockCache[i])'
  <2>1. CASE paddockCache' = paddockCache
    BY <1>1, <1>2, <2>1 DEF CacheInv, PaddockCacheStands, Bounded
  <2>2. ASSUME NEW e \in PaddockEntries, PaddockEntryStands(ServedBy[r], e),
               paddockCache' = [paddockCache EXCEPT ![ServedBy[r]] = Caching!SetBounded(@, e)]
        PROVE  paddockCache' \in [Instances -> Seq(PaddockEntries)]
               /\ \A i \in Instances : PaddockCacheStands(i, paddockCache[i])'
    <3> DEFINE c == paddockCache[ServedBy[r]]
    <3>0. PICK d : d = Caching!SetBounded(c, e)
      OBVIOUS
    <3>1. c \in Seq(PaddockEntries) /\ PaddockCacheStands(ServedBy[r], c) /\ paddockCache'[ServedBy[r]] = d
      BY <1>1, <2>2, <3>0 DEF CacheInv
    <3>2. /\ d \in Seq(PaddockEntries) /\ Bounded(d)
          /\ \A n \in DOMAIN d : d[n] = e \/ \E m \in DOMAIN c : d[n] = c[m]
      BY <2>2, <3>0, <3>1, BoundedSet DEF PaddockCacheStands
    <3>3. \A n \in DOMAIN d : PaddockEntryStands(ServedBy[r], d[n])
      BY <2>2, <3>1, <3>2 DEF PaddockCacheStands
    <3>4. \A i \in Instances : i # ServedBy[r] => paddockCache'[i] = paddockCache[i]
      BY <1>1, <2>2
    <3>5. paddockCache' \in [Instances -> Seq(PaddockEntries)]
      BY <1>1, <2>2, <3>0, <3>2
    <3>6. PaddockCacheStands(ServedBy[r], paddockCache[ServedBy[r]])'
      <4>1. \A n \in DOMAIN d : PaddockEntryStands(ServedBy[r], d[n])'
        BY <3>1, <3>3, <1>2
      <4>2. QED
        BY <4>1, <3>1, <3>2 DEF PaddockCacheStands, Bounded
    <3>7. ASSUME NEW i \in Instances, i # ServedBy[r] PROVE PaddockCacheStands(i, paddockCache[i])'
      BY <3>4, <3>7, <1>2 DEF CacheInv, PaddockCacheStands, Bounded
    <3>8. QED
      BY <3>5, <3>6, <3>7
  <2>3. QED
    BY <2>1, <2>2
<1>5. req' \in [Requests -> Lookups] /\ \A s \in Requests : RequestStands(ServedBy[s], req[s])'
  BY <1>1, <1>2 DEF CacheInv
<1>6. QED
  BY <1>3, <1>4, <1>5 DEF CacheInv, DatabaseTypes, BusTypes

Steps == {"idle", "key", "links", "keyFill", "paddock", "paddockFill", "ok", "401", "403", "404", "500"}
LEMMA KeyAnsweredTypes ==
  ASSUME NEW p \in Lookups, NEW to \in Steps, NEW v \in Caching!KeyValues, NEW t \in Int
  PROVE  [p EXCEPT !.pc = to, !.got = v, !.keyAt = t] \in Lookups
BY DEF Lookups, Steps
LEMMA PaddockAnsweredTypes ==
  ASSUME NEW p \in Lookups, NEW to \in Steps, NEW v \in Caching!PaddockValues, NEW t \in Int
  PROVE  [p EXCEPT !.pc = to, !.paddock = v, !.paddockAt = t] \in Lookups
BY DEF Lookups, Steps
LEMMA KeyReadTypes ==
  ASSUME NEW p \in Lookups, NEW to \in Steps, NEW v \in Caching!KeyValues, NEW t \in Int
  PROVE  [p EXCEPT !.pc = to, !.got = v, !.readAt = t, !.raced = FALSE] \in Lookups
BY DEF Lookups, Steps
LEMMA PaddockReadTypes ==
  ASSUME NEW p \in Lookups, NEW to \in Steps, NEW v \in Caching!PaddockValues, NEW t \in Int
  PROVE  [p EXCEPT !.pc = to, !.paddock = v, !.readAt = t, !.raced = FALSE] \in Lookups
BY DEF Lookups, Steps

\* What a key that stood is answered with is recent.
LEMMA AfterKeyStands ==
  ASSUME Caching!CacheAssumption, CacheInv, NEW r \in Requests, NEW v \in Caching!KeyValues,
         v.live => /\ Caching!Recent(req[r].key \in active, lastActive[req[r].key], clock)
                   /\ Caching!Recent(v.slugs = Caching!ScopedSlugs(req[r].key),
                                     lastScope[<<req[r].key, v.slugs>>], clock)
  PROVE  Caching!AfterKey(r, v) \in Lookups /\ RequestStands(ServedBy[r], Caching!AfterKey(r, v))
<1> DEFINE q == Caching!AfterKey(r, v)
<1>1. req[r] \in Lookups /\ clock \in Nat /\ clock \in Int
  BY CacheConstants DEF CacheInv
<1>2. /\ q.pc = IF v.live /\ clock < ExpiresAt[req[r].key] THEN "paddock" ELSE "401"
      /\ q.key = req[r].key /\ q.got = v /\ q.keyAt = clock
  BY <1>1 DEF Caching!AfterKey, Lookups
<1>3. q \in Lookups
  <2>1. (IF v.live /\ clock < ExpiresAt[req[r].key] THEN "paddock" ELSE "401") \in Steps
    BY DEF Steps
  <2>2. QED
    BY <1>1, <2>1, KeyAnsweredTypes DEF Caching!AfterKey
<1>4. q.pc = "paddock" => KeyAnswered(q)
  BY <1>1, <1>2 DEF KeyAnswered
<1>5. QED
  BY <1>2, <1>3, <1>4 DEF RequestStands, LookupStands

LEMMA AfterPaddockStands ==
  ASSUME Caching!CacheAssumption, CacheInv, NEW r \in Requests, NEW v \in Caching!PaddockValues,
         KeyAnswered(req[r]),
         Caching!Recent(v = Caching!PaddockBySlug(req[r].slug), lastPaddock[<<req[r].slug, v>>], clock)
  PROVE  Caching!AfterPaddock(r, v) \in Lookups /\ RequestStands(ServedBy[r], Caching!AfterPaddock(r, v))
<1> DEFINE q == Caching!AfterPaddock(r, v)
<1>1. req[r] \in Lookups /\ clock \in Nat /\ clock \in Int
  BY CacheConstants DEF CacheInv
<1>2. /\ q.pc \in {"404", "403", "ok"} /\ q.key = req[r].key /\ q.got = req[r].got /\ q.keyAt = req[r].keyAt
      /\ q.slug = req[r].slug /\ q.paddock = v /\ q.paddockAt = clock
  BY <1>1 DEF Caching!AfterPaddock, Lookups
<1>3. q \in Lookups
  <2>1. (IF ~v.on THEN "404" ELSE IF req[r].slug \notin req[r].got.slugs THEN "403" ELSE "ok") \in Steps
    BY DEF Steps
  <2>2. QED
    BY <1>1, <2>1, PaddockAnsweredTypes DEF Caching!AfterPaddock
<1>4. KeyAnswered(q) /\ PaddockAnswered(q)
  BY <1>1, <1>2 DEF KeyAnswered, PaddockAnswered
<1>5. QED
  BY <1>2, <1>3, <1>4 DEF RequestStands, LookupStands

\* A step that leaves the caches alone.
LEMMA OnlyMoveKeeps ==
  ASSUME Caching!CacheAssumption, CacheInv, NEW r \in Requests, NEW q \in Lookups, RequestStands(ServedBy[r], q),
         Caching!Moves(r, q), UNCHANGED Caching!caches
  PROVE  CacheInv'
<1>1. cacheFaults' \in 0..MaxCacheFaults
  BY DEF Caching!Moves, CacheInv
<1>2. QED
  BY <1>1, MoveKeeps DEF Caching!Moves, Caching!caches, Caching!db, Caching!bus

LEMMA RequestArrivesKeeps ==
  ASSUME Caching!CacheAssumption, CacheInv, NEW r \in Requests, NEW k \in Keys, NEW s \in Slugs,
         Caching!Arrive(r, k, s)
  PROVE  CacheInv'
<1> DEFINE q == [Caching!Idle EXCEPT !.pc = "key", !.key = k, !.slug = s, !.sure = Caching!Heard(ServedBy[r], k)]
<1>1. q \in Lookups /\ q.pc = "key"
  <2>1. Caching!Heard(ServedBy[r], k) \in BOOLEAN
    BY DEF Caching!Heard
  <2>2. QED
    BY <2>1, IdleIsALookup DEF Lookups
<1>2. RequestStands(ServedBy[r], q)
  BY <1>1 DEF RequestStands, LookupStands
<1>3. Caching!Moves(r, q) /\ UNCHANGED Caching!caches
  BY DEF Caching!Arrive
<1>4. QED
  BY <1>1, <1>2, <1>3, OnlyMoveKeeps

LEMMA KeyHitKeeps ==
  ASSUME Caching!CacheAssumption, CacheInv, NEW r \in Requests, Caching!KeyHit(r)
  PROVE  CacheInv'
<1>1. PICK e \in Caching!Fresh(keyCache[ServedBy[r]], req[r].key) : Caching!Moves(r, Caching!AfterKey(r, e.value))
  BY DEF Caching!KeyHit
<1>2. ServedBy[r] \in Instances /\ clock \in Nat /\ clock \in Int /\ DatabaseTypes /\ UNCHANGED Caching!caches
  BY CacheConstants DEF CacheInv, Caching!KeyHit
<1>3. PICK n \in DOMAIN keyCache[ServedBy[r]] : e = keyCache[ServedBy[r]][n]
  BY <1>1 DEF Caching!Fresh, Caching!Cached, Caching!Range
<1>4. e.name = req[r].key /\ clock < e.expiresAt
  <2>1. e.name = req[r].key /\ e.expiresAt > clock
    BY <1>1 DEF Caching!Fresh, Caching!Cached
  <2>2. e.expiresAt \in Int
    BY <1>2, <1>3, EntryTypes
  <2>3. QED
    BY <2>1, <2>2, <1>2
<1>5. e.name \in Keys /\ e.value \in Caching!KeyValues /\ e.expiresAt \in Int
  BY <1>2, <1>3, EntryTypes
<1>6. e.value.live => KeyStood(e.name, e.value, e.expiresAt - Ttl - MaxLookup)
  BY <1>2, <1>3 DEF CacheInv, KeyCacheStands, KeyEntryStands
<1>7. lastActive[e.name] \in Int /\ lastScope[<<e.name, e.value.slugs>>] \in Int
  BY <1>2, <1>5 DEF DatabaseTypes, Caching!KeyValues
<1>8. e.value.live => /\ Caching!Recent(e.name \in active, lastActive[e.name], clock)
                      /\ Caching!Recent(e.value.slugs = Caching!ScopedSlugs(e.name),
                                        lastScope[<<e.name, e.value.slugs>>], clock)
  BY <1>2, <1>4, <1>5, <1>6, <1>7, CacheConstants DEF KeyStood, Stood, Caching!Recent
<1>9. QED
  BY <1>1, <1>2, <1>4, <1>5, <1>8, AfterKeyStands, OnlyMoveKeeps

LEMMA KeyMissKeeps ==
  ASSUME Caching!CacheAssumption, CacheInv, NEW r \in Requests, Caching!KeyMiss(r)
  PROVE  CacheInv'
<1> DEFINE q == [req[r] EXCEPT !.pc = IF Caching!Usable(req[r].key) THEN "links" ELSE "keyFill",
                               !.got = Caching!NoKey, !.readAt = clock, !.raced = FALSE]
<1>1. req[r] \in Lookups /\ clock \in Nat /\ clock \in Int /\ DatabaseTypes
  BY CacheConstants DEF CacheInv
<1>2. /\ q.pc = (IF Caching!Usable(req[r].key) THEN "links" ELSE "keyFill") /\ q.key = req[r].key
      /\ q.got = Caching!NoKey /\ q.readAt = clock
  BY <1>1 DEF Lookups
<1>3. q \in Lookups
  <2>1. Caching!NoKey \in Caching!KeyValues
    BY <1>1, AnswerTypes
  <2>2. (IF Caching!Usable(req[r].key) THEN "links" ELSE "keyFill") \in Steps
    BY DEF Steps
  <2>3. QED
    BY <1>1, <2>1, <2>2, KeyReadTypes
<1>4. LookupStands(ServedBy[r], q)
  <2>1. q.key \in Keys /\ ExpiresAt[q.key] \in Nat
    BY <1>3, CacheConstants DEF Lookups
  <2>2. q.pc = "links" => q.key \in active
    BY <1>2 DEF Caching!Usable
  <2>3. q.pc = "keyFill" => KeyCurrent(q.key, q.got)
    BY <1>1, <1>2, <2>1 DEF Caching!Usable, KeyCurrent
  <2>4. ~q.got.live
    BY <1>2 DEF Caching!NoKey
  <2>5. q.pc # "paddockFill" /\ q.readAt <= clock /\ clock <= q.readAt + MaxLookup
    BY <1>1, <1>2, CacheConstants
  <2>6. QED
    BY <2>2, <2>3, <2>4, <2>5 DEF LookupStands, Stood
<1>5. RequestStands(ServedBy[r], q)
  BY <1>2, <1>4 DEF RequestStands
<1>6. Caching!Moves(r, q) /\ UNCHANGED Caching!caches
  BY DEF Caching!KeyMiss
<1>7. QED
  BY <1>3, <1>5, <1>6, OnlyMoveKeeps

LEMMA ReadLinksKeeps ==
  ASSUME Caching!CacheAssumption, CacheInv, NEW r \in Requests, Caching!ReadLinks(r)
  PROVE  CacheInv'
<1> DEFINE v == [live |-> TRUE, slugs |-> Caching!ScopedSlugs(req[r].key)]
           q == [req[r] EXCEPT !.pc = "keyFill", !.got = v]
<1>1. req[r] \in Lookups /\ clock \in Nat /\ clock \in Int /\ DatabaseTypes /\ RequestStands(ServedBy[r], req[r]) /\ req[r].pc = "links"
  BY CacheConstants DEF CacheInv, Caching!ReadLinks
<1>2. v \in Caching!KeyValues
  BY <1>1, AnswerTypes DEF Caching!KeyValues
<1>3. /\ q \in Lookups /\ q.pc = "keyFill" /\ q.key = req[r].key /\ q.got = v
      /\ q.readAt = req[r].readAt /\ q.raced = req[r].raced
  BY <1>1, <1>2 DEF Lookups
<1>4. LookupStands(ServedBy[r], q)
  <2>1. LookupStands(ServedBy[r], req[r])
    BY <1>1 DEF RequestStands
  <2>2. KeyStood(q.key, q.got, q.readAt)
    BY <1>1, <1>3, <2>1 DEF LookupStands, KeyStood, Stood
  <2>3. Excused(ServedBy[r], q.raced) \/ KeyCurrent(q.key, q.got)
    BY <1>1, <1>3, <2>1 DEF LookupStands, KeyCurrent
  <2>4. QED
    BY <1>1, <1>3, <2>1, <2>2, <2>3 DEF LookupStands
<1>5. RequestStands(ServedBy[r], q)
  BY <1>3, <1>4 DEF RequestStands
<1>6. Caching!Moves(r, q) /\ UNCHANGED Caching!caches
  BY DEF Caching!ReadLinks
<1>7. QED
  BY <1>3, <1>5, <1>6, OnlyMoveKeeps

LEMMA KeyFillKeeps ==
  ASSUME Caching!CacheAssumption, CacheInv, NEW r \in Requests, Caching!KeyFill(r)
  PROVE  CacheInv'
<1> DEFINE q == req[r]
           e == Caching!Entry(q.key, q.got, q.raced)
<1>1. q \in Lookups /\ clock \in Nat /\ clock \in Int /\ DatabaseTypes /\ LookupStands(ServedBy[r], q) /\ q.pc = "keyFill"
  BY CacheConstants DEF CacheInv, Caching!KeyFill, RequestStands
<1>2. q.key \in Keys /\ q.got \in Caching!KeyValues /\ q.raced \in BOOLEAN /\ q.readAt \in Int
  BY <1>1 DEF Lookups
<1>3. lastActive[q.key] \in Int /\ lastScope[<<q.key, q.got.slugs>>] \in Int
  BY <1>1, <1>2 DEF DatabaseTypes, Caching!KeyValues
<1>4. clock <= q.readAt + MaxLookup /\ (q.got.live => KeyStood(q.key, q.got, q.readAt))
      /\ (Excused(ServedBy[r], q.raced) \/ KeyCurrent(q.key, q.got))
  BY <1>1 DEF LookupStands
<1>5. /\ e \in KeyEntries /\ e.name = q.key /\ e.value = q.got /\ e.raced = q.raced /\ e.expiresAt = clock + Ttl
  BY <1>1, <1>2, CacheConstants DEF Caching!Entry, KeyEntries, Caching!EntriesOf
<1> HIDE DEF e
<1>6. KeyEntryStands(ServedBy[r], e)
  <2>1. e.expiresAt \in Int /\ e.expiresAt - Ttl - MaxLookup <= q.readAt
    BY <1>1, <1>2, <1>4, <1>5, CacheConstants
  <2>2. e.expiresAt <= clock + Ttl
    BY <1>1, <1>5, CacheConstants
  <2>3. e.value.live => KeyStood(e.name, e.value, e.expiresAt - Ttl - MaxLookup)
    BY <1>2, <1>3, <1>4, <1>5, <2>1, CacheConstants DEF KeyStood, Stood
  <2>4. Excused(ServedBy[r], e.raced) \/ KeyCurrent(e.name, e.value)
    BY <1>4, <1>5
  <2>5. QED
    BY <2>2, <2>3, <2>4 DEF KeyEntryStands
<1>7. Caching!AfterKey(r, q.got) \in Lookups /\ RequestStands(ServedBy[r], Caching!AfterKey(r, q.got))
  <2>1. q.got.live => /\ Caching!Recent(q.key \in active, lastActive[q.key], clock)
                      /\ Caching!Recent(q.got.slugs = Caching!ScopedSlugs(q.key),
                                        lastScope[<<q.key, q.got.slugs>>], clock)
    BY <1>1, <1>2, <1>3, <1>4, CacheConstants DEF KeyStood, Stood, Caching!Recent
  <2>2. QED
    BY <1>2, <2>1, AfterKeyStands
<1>8. /\ keyCache' = [keyCache EXCEPT ![ServedBy[r]] = Caching!SetBounded(@, e)] /\ UNCHANGED paddockCache
      /\ Caching!Moves(r, Caching!AfterKey(r, q.got))
  BY DEF Caching!KeyFill, e
<1>9. cacheFaults' \in 0..MaxCacheFaults
  BY <1>8 DEF Caching!Moves, CacheInv
<1>10. QED
  BY <1>5, <1>6, <1>7, <1>8, <1>9, MoveKeeps DEF Caching!Moves, Caching!db, Caching!bus

LEMMA PaddockHitKeeps ==
  ASSUME Caching!CacheAssumption, CacheInv, NEW r \in Requests, Caching!PaddockHit(r)
  PROVE  CacheInv'
<1>1. PICK e \in Caching!Fresh(paddockCache[ServedBy[r]], req[r].slug) : Caching!Moves(r, Caching!AfterPaddock(r, e.value))
  BY DEF Caching!PaddockHit
<1>2. ServedBy[r] \in Instances /\ clock \in Nat /\ clock \in Int /\ DatabaseTypes /\ UNCHANGED Caching!caches /\ req[r].pc = "paddock"
  BY CacheConstants DEF CacheInv, Caching!PaddockHit
<1>3. PICK n \in DOMAIN paddockCache[ServedBy[r]] : e = paddockCache[ServedBy[r]][n]
  BY <1>1 DEF Caching!Fresh, Caching!Cached, Caching!Range
<1>4. e.name \in Slugs /\ e.value \in Caching!PaddockValues /\ e.expiresAt \in Int
  BY <1>2, <1>3, EntryTypes
<1>5. e.name = req[r].slug /\ clock < e.expiresAt
  <2>1. e.name = req[r].slug /\ e.expiresAt > clock
    BY <1>1 DEF Caching!Fresh, Caching!Cached
  <2>2. QED
    BY <2>1, <1>2, <1>4
<1>6. PaddockStood(e.name, e.value, e.expiresAt - Ttl - MaxLookup)
  BY <1>2, <1>3 DEF CacheInv, PaddockCacheStands, PaddockEntryStands
<1>7. lastPaddock[<<e.name, e.value>>] \in Int
  BY <1>2, <1>4 DEF DatabaseTypes
<1>8. Caching!Recent(e.value = Caching!PaddockBySlug(e.name), lastPaddock[<<e.name, e.value>>], clock)
  BY <1>2, <1>4, <1>5, <1>6, <1>7, CacheConstants DEF PaddockStood, Stood, Caching!Recent
<1>9. KeyAnswered(req[r])
  BY <1>2 DEF CacheInv, RequestStands
<1>10. QED
  BY <1>1, <1>2, <1>4, <1>5, <1>8, <1>9, AfterPaddockStands, OnlyMoveKeeps

LEMMA PaddockMissKeeps ==
  ASSUME Caching!CacheAssumption, CacheInv, NEW r \in Requests, Caching!PaddockMiss(r)
  PROVE  CacheInv'
<1> DEFINE v == Caching!PaddockBySlug(req[r].slug)
           q == [req[r] EXCEPT !.pc = "paddockFill", !.paddock = v, !.readAt = clock, !.raced = FALSE]
<1>1. /\ req[r] \in Lookups /\ clock \in Nat /\ clock \in Int /\ DatabaseTypes /\ RequestStands(ServedBy[r], req[r])
      /\ req[r].pc = "paddock"
  BY CacheConstants DEF CacheInv, Caching!PaddockMiss
<1>2. v \in Caching!PaddockValues
  BY <1>1, AnswerTypes
<1>3. /\ q \in Lookups /\ q.pc = "paddockFill" /\ q.slug = req[r].slug /\ q.paddock = v /\ q.readAt = clock
      /\ q.key = req[r].key /\ q.got = req[r].got /\ q.keyAt = req[r].keyAt
  <2> HIDE DEF v
  <2>1. q \in Lookups
    BY <1>1, <1>2, PaddockReadTypes DEF Steps
  <2>2. QED
    BY <1>1, <2>1 DEF Lookups
<1>4. LookupStands(ServedBy[r], q)
  <2>1. PaddockStood(q.slug, q.paddock, q.readAt) /\ PaddockCurrent(q.slug, q.paddock)
    BY <1>3 DEF PaddockStood, PaddockCurrent, Stood
  <2>2. q.readAt <= clock /\ clock <= q.readAt + MaxLookup
    BY <1>1, <1>3, CacheConstants
  <2>3. QED
    BY <1>3, <2>1, <2>2 DEF LookupStands
<1>5. KeyAnswered(q)
  BY <1>1, <1>3 DEF RequestStands, KeyAnswered
<1>6. RequestStands(ServedBy[r], q)
  BY <1>3, <1>4, <1>5 DEF RequestStands
<1>7. Caching!Moves(r, q) /\ UNCHANGED Caching!caches
  BY DEF Caching!PaddockMiss
<1>8. QED
  BY <1>3, <1>6, <1>7, OnlyMoveKeeps

LEMMA PaddockFillKeeps ==
  ASSUME Caching!CacheAssumption, CacheInv, NEW r \in Requests, Caching!PaddockFill(r)
  PROVE  CacheInv'
<1> DEFINE q == req[r]
           e == Caching!Entry(q.slug, q.paddock, q.raced)
<1>1. /\ q \in Lookups /\ clock \in Nat /\ clock \in Int /\ DatabaseTypes /\ LookupStands(ServedBy[r], q) /\ q.pc = "paddockFill"
      /\ KeyAnswered(q)
  BY CacheConstants DEF CacheInv, Caching!PaddockFill, RequestStands
<1>2. q.slug \in Slugs /\ q.paddock \in Caching!PaddockValues /\ q.raced \in BOOLEAN /\ q.readAt \in Int
  BY <1>1 DEF Lookups
<1>3. lastPaddock[<<q.slug, q.paddock>>] \in Int
  BY <1>1, <1>2 DEF DatabaseTypes
<1>4. clock <= q.readAt + MaxLookup /\ PaddockStood(q.slug, q.paddock, q.readAt)
      /\ (Excused(ServedBy[r], q.raced) \/ PaddockCurrent(q.slug, q.paddock))
  BY <1>1 DEF LookupStands
<1>5. e \in PaddockEntries /\ e.name = q.slug /\ e.value = q.paddock /\ e.raced = q.raced /\ e.expiresAt = clock + Ttl
  BY <1>1, <1>2, CacheConstants DEF Caching!Entry, PaddockEntries, Caching!EntriesOf
<1> HIDE DEF e
<1>6. PaddockEntryStands(ServedBy[r], e)
  <2>1. e.expiresAt \in Int /\ e.expiresAt - Ttl - MaxLookup <= q.readAt
    BY <1>1, <1>2, <1>4, <1>5, CacheConstants
  <2>2. e.expiresAt <= clock + Ttl
    BY <1>1, <1>5, CacheConstants
  <2>3. PaddockStood(e.name, e.value, e.expiresAt - Ttl - MaxLookup)
    BY <1>2, <1>3, <1>4, <1>5, <2>1, CacheConstants DEF PaddockStood, Stood
  <2>4. Excused(ServedBy[r], e.raced) \/ PaddockCurrent(e.name, e.value)
    BY <1>4, <1>5
  <2>5. QED
    BY <2>2, <2>3, <2>4 DEF PaddockEntryStands
<1>7. Caching!AfterPaddock(r, q.paddock) \in Lookups /\ RequestStands(ServedBy[r], Caching!AfterPaddock(r, q.paddock))
  <2>1. Caching!Recent(q.paddock = Caching!PaddockBySlug(q.slug), lastPaddock[<<q.slug, q.paddock>>], clock)
    BY <1>1, <1>2, <1>3, <1>4, CacheConstants DEF PaddockStood, Stood, Caching!Recent
  <2>2. QED
    BY <1>1, <1>2, <2>1, AfterPaddockStands
<1>8. /\ paddockCache' = [paddockCache EXCEPT ![ServedBy[r]] = Caching!SetBounded(@, e)] /\ UNCHANGED keyCache
      /\ Caching!Moves(r, Caching!AfterPaddock(r, q.paddock))
  BY DEF Caching!PaddockFill, e
<1>9. cacheFaults' \in 0..MaxCacheFaults
  BY <1>8 DEF Caching!Moves, CacheInv
<1>10. QED
  BY <1>5, <1>6, <1>7, <1>8, <1>9, MoveKeeps DEF Caching!Moves, Caching!db, Caching!bus

LEMMA LookupFailsKeeps ==
  ASSUME Caching!CacheAssumption, CacheInv, NEW r \in Requests, Caching!LookupFails(r)
  PROVE  CacheInv'
<1> DEFINE q == [Caching!Idle EXCEPT !.pc = "500"]
<1>1. q \in Lookups /\ q.pc = "500"
  BY IdleIsALookup DEF Lookups
<1>2. RequestStands(ServedBy[r], q)
  BY <1>1 DEF RequestStands, LookupStands
<1>3. cacheFaults' \in 0..MaxCacheFaults
  BY CacheConstants DEF Caching!LookupFails, Caching!Fault, CacheInv
<1>4. QED
  BY <1>1, <1>2, <1>3, MoveKeeps DEF Caching!LookupFails, Caching!caches, Caching!db, Caching!bus

Rows == [state : {"none", "exists", "deleted"}, slug : Slugs, on : BOOLEAN]
LEMMA ConfigurationKeeps ==
  ASSUME Caching!CacheAssumption, CacheInv,
         \/ \E k \in Keys : Caching!RevokeKey(k)
         \/ \E p \in Paddocks, s \in Slugs, on \in BOOLEAN : Caching!SavePaddock(p, s, on)
         \/ \E p \in Paddocks, on \in BOOLEAN : Caching!SetPaddockStatus(p, on)
         \/ \E p \in Paddocks : Caching!DeletePaddock(p)
  PROVE  CacheInv'
<1>1. row \in [Paddocks -> Rows] /\ active \subseteq Keys
  BY DEF CacheInv, DatabaseTypes, Rows
<1>2. Caching!Write /\ active' \subseteq Keys /\ row' \in [Paddocks -> Rows]
  <2>1. ASSUME NEW k \in Keys, Caching!RevokeKey(k)
        PROVE  Caching!Write /\ active' \subseteq Keys /\ row' \in [Paddocks -> Rows]
    BY <1>1, <2>1 DEF Caching!RevokeKey
  <2>2. ASSUME NEW p \in Paddocks, NEW s \in Slugs, NEW on \in BOOLEAN, Caching!SavePaddock(p, s, on)
        PROVE  Caching!Write /\ active' \subseteq Keys /\ row' \in [Paddocks -> Rows]
    <3>1. [state |-> "exists", slug |-> s, on |-> on] \in Rows
      BY DEF Rows
    <3>2. QED
      BY <1>1, <2>2, <3>1 DEF Caching!SavePaddock
  <2>3. ASSUME NEW p \in Paddocks, NEW on \in BOOLEAN, Caching!SetPaddockStatus(p, on)
        PROVE  Caching!Write /\ active' \subseteq Keys /\ row' \in [Paddocks -> Rows]
    <3>1. [row[p] EXCEPT !.on = on] \in Rows
      BY <1>1 DEF Rows
    <3>2. QED
      BY <1>1, <2>3, <3>1 DEF Caching!SetPaddockStatus
  <2>4. ASSUME NEW p \in Paddocks, Caching!DeletePaddock(p)
        PROVE  Caching!Write /\ active' \subseteq Keys /\ row' \in [Paddocks -> Rows]
    <3>1. [row[p] EXCEPT !.state = "deleted"] \in Rows
      BY <1>1 DEF Rows
    <3>2. QED
      BY <1>1, <2>4, <3>1 DEF Caching!DeletePaddock
  <2>5. QED
    BY <2>1, <2>2, <2>3, <2>4
<1>3. QED
  BY <1>2, WriteKeeps DEF Rows

LEMMA CacheNext ==
  ASSUME Caching!CacheAssumption, CacheInv, [Caching!Next]_(Caching!vars)
  PROVE  CacheInv'
<1>0. CASE Caching!Change
  BY <1>0, ConfigurationKeeps DEF Caching!Change
<1>1. CASE Caching!Publish \/ \E deaf \in SUBSET Instances : Caching!PublishLost(deaf)
  BY <1>1, PublishKeeps
<1>2. CASE \E i \in Instances : Caching!Flush(i) \/ Caching!Restart(i)
  BY <1>2, FlushKeeps
<1>3. ASSUME NEW r \in Requests, Caching!Request(r) PROVE CacheInv'
  <2>1. CASE \E k \in Keys, s \in Slugs : Caching!Arrive(r, k, s)
    BY <2>1, RequestArrivesKeeps
  <2>2. CASE Caching!KeyHit(r)
    BY <2>2, KeyHitKeeps
  <2>3. CASE Caching!KeyMiss(r)
    BY <2>3, KeyMissKeeps
  <2>4. CASE Caching!ReadLinks(r)
    BY <2>4, ReadLinksKeeps
  <2>5. CASE Caching!KeyFill(r)
    BY <2>5, KeyFillKeeps
  <2>6. CASE Caching!PaddockHit(r)
    BY <2>6, PaddockHitKeeps
  <2>7. CASE Caching!PaddockMiss(r)
    BY <2>7, PaddockMissKeeps
  <2>8. CASE Caching!PaddockFill(r)
    BY <2>8, PaddockFillKeeps
  <2>9. CASE Caching!LookupFails(r)
    BY <2>9, LookupFailsKeeps
  <2>10. QED
    BY <1>3, <2>1, <2>2, <2>3, <2>4, <2>5, <2>6, <2>7, <2>8, <2>9 DEF Caching!Request
<1>4. CASE Caching!Tick
  BY <1>4, ClockKeeps
<1>5. CASE UNCHANGED Caching!vars
  <2>1. UNCHANGED <<clock, active, row, writes, lastActive, lastScope, lastPaddock, unpublished, inbox, missed,
                    keyCache, paddockCache, req, cacheFaults>>
    BY <1>5 DEF Caching!vars
  <2>2. \A i : /\ \A e : KeyEntryStands(i, e) => KeyEntryStands(i, e)'
               /\ \A e : PaddockEntryStands(i, e) => PaddockEntryStands(i, e)'
               /\ \A q : RequestStands(i, q) => RequestStands(i, q)'
    BY <2>1, Standing DEF Excused, Caching!Quiet
  <2>3. QED
    BY <2>1, <2>2 DEF CacheInv, DatabaseTypes, BusTypes, KeyCacheStands, PaddockCacheStands, Bounded
<1>6. QED
  BY <1>0, <1>1, <1>2, <1>3, <1>4, <1>5 DEF Caching!Next, Caching!Rest

LEMMA CacheBegins ==
  ASSUME Caching!CacheAssumption, Caching!Init
  PROVE  CacheInv
<1>1. DatabaseTypes
  <2>1. Caching!LongAgo \in Int
    BY CacheConstants DEF Caching!LongAgo
  <2>2. row \in [Paddocks -> [state : {"none", "exists", "deleted"}, slug : Slugs, on : BOOLEAN]]
    <3>1. row \in [Paddocks -> [state : {"none", "exists"}, slug : Slugs, on : {TRUE}]]
      BY DEF Caching!Init
    <3>2. [state : {"none", "exists"}, slug : Slugs, on : {TRUE}]
          \subseteq [state : {"none", "exists", "deleted"}, slug : Slugs, on : BOOLEAN]
      OBVIOUS
    <3>3. QED
      BY <3>1, <3>2
  <2>3. QED
    BY <2>1, <2>2, CacheConstants DEF Caching!Init, DatabaseTypes
<1>2. BusTypes /\ clock \in 0..MaxClock /\ cacheFaults \in 0..MaxCacheFaults
  BY CacheConstants DEF Caching!Init, BusTypes
<1>3. \A i \in Instances : keyCache[i] = <<>> /\ paddockCache[i] = <<>>
  BY DEF Caching!Init
<1>4. keyCache \in [Instances -> Seq(KeyEntries)] /\ paddockCache \in [Instances -> Seq(PaddockEntries)]
  BY DEF Caching!Init
<1>5. ASSUME NEW i \in Instances PROVE KeyCacheStands(i, keyCache[i]) /\ PaddockCacheStands(i, paddockCache[i])
  <2>1. DOMAIN keyCache[i] = {} /\ DOMAIN paddockCache[i] = {} /\ Len(keyCache[i]) = 0 /\ Len(paddockCache[i]) = 0
    BY <1>3
  <2>2. QED
    BY <2>1, CacheConstants DEF KeyCacheStands, PaddockCacheStands, Bounded
<1>6. req \in [Requests -> Lookups] /\ \A r \in Requests : RequestStands(ServedBy[r], req[r])
  <2>1. req = [r \in Requests |-> Caching!Idle]
    BY DEF Caching!Init
  <2>2. QED
    BY <2>1, IdleIsALookup
<1>7. QED
  BY <1>1, <1>2, <1>4, <1>5, <1>6 DEF CacheInv

LEMMA CacheShows ==
  ASSUME Caching!CacheAssumption, CacheInv
  PROVE  Caching!TypeOK /\ Caching!CacheBounded /\ Caching!AnswersAreTimely /\ Caching!StaleOnlyIfRaced
<1>1. Caching!TypeOK
  BY DEF CacheInv, DatabaseTypes, BusTypes, KeyEntries, PaddockEntries, Lookups, Caching!TypeOK
<1>2. Caching!CacheBounded
  BY DEF CacheInv, KeyCacheStands, PaddockCacheStands, Bounded, Caching!CacheBounded
<1>3. Caching!AnswersAreTimely
  <2>1. ASSUME NEW r \in Requests, req[r].pc \in {"ok", "403", "404"}
        PROVE  KeyAnswered(req[r]) /\ PaddockAnswered(req[r])
    BY <2>1 DEF CacheInv, RequestStands
  <2>2. Caching!AnswersFromRecentConfig
    BY <2>1 DEF KeyAnswered, PaddockAnswered, Caching!AnswersFromRecentConfig, Caching!KeyRecent, Caching!PaddockRecent
  <2>3. Caching!ExpiredKeyNeverAdmitted
    BY <2>1 DEF KeyAnswered, Caching!ExpiredKeyNeverAdmitted
  <2>4. QED
    BY <2>2, <2>3 DEF Caching!AnswersAreTimely
<1>4. Caching!StaleOnlyIfRaced
  <2>1. ASSUME NEW i \in Instances, Caching!Quiet(i)
        PROVE  /\ \A n \in DOMAIN keyCache[i] :
                     keyCache[i][n].raced \/ KeyCurrent(keyCache[i][n].name, keyCache[i][n].value)
               /\ \A n \in DOMAIN paddockCache[i] :
                     paddockCache[i][n].raced \/ PaddockCurrent(paddockCache[i][n].name, paddockCache[i][n].value)
    BY <2>1 DEF CacheInv, KeyCacheStands, PaddockCacheStands, KeyEntryStands, PaddockEntryStands, Excused
  <2>2. \A i \in Instances : /\ Caching!Range(keyCache[i]) = {keyCache[i][n] : n \in DOMAIN keyCache[i]}
                             /\ Caching!Range(paddockCache[i]) = {paddockCache[i][n] : n \in DOMAIN paddockCache[i]}
    BY DEF Caching!Range
  <2>3. QED
    BY <2>1, <2>2 DEF Caching!StaleOnlyIfRaced, KeyCurrent, PaddockCurrent
<1>5. QED
  BY <1>1, <1>2, <1>3, <1>4
----------------------------------------------------------------------------
(* The run: each component behaves in it as it does alone. *)

\* A run of the composition is, of each component, one of its own.
LEMMA JobsRuns == AllSpec => Spec
<1>1. AllInit => Init
  BY DEF AllInit
<1>2. [AllNext]_allVars => [Next]_vars
  BY DEF AllNext, allVars
<1>3. QED
  BY <1>1, <1>2, PTL DEF AllSpec, Spec

LEMMA LimiterRuns == AllSpec => Limiter!Spec
<1>1. AllInit => Limiter!Init
  BY DEF AllInit
<1>2. [AllNext]_allVars => [Limiter!Next]_(Limiter!vars)
  <2>1. UNCHANGED limiterVars => UNCHANGED Limiter!vars
    BY DEF limiterVars, Limiter!vars
  <2>2. QED
    BY <2>1 DEF AllNext, allVars
<1>3. QED
  BY <1>1, <1>2, PTL DEF AllSpec, Limiter!Spec

LEMMA GateRuns == AllSpec => Gate!Spec
<1>1. AllInit => Gate!Init
  BY DEF AllInit, GateInit
<1>2. [AllNext]_allVars => [Gate!Next]_(Gate!vars)
  <2>1. UNCHANGED gateVars => UNCHANGED Gate!vars
    BY DEF gateVars, Gate!vars, Gate!metering
  <2>2. QED
    BY <2>1 DEF AllNext, allVars
<1>3. QED
  BY <1>1, <1>2, PTL DEF AllSpec, Gate!Spec

LEMMA CacheRuns == AllSpec => Caching!Spec
<1>1. AllInit => Caching!Init
  BY DEF AllInit, CacheInit
<1>2. [AllNext]_allVars => [Caching!Next]_(Caching!vars)
  <2>1. UNCHANGED cacheVars => UNCHANGED Caching!vars
    BY DEF cacheVars, Caching!vars
  <2>2. QED
    BY <2>1 DEF AllNext, allVars, Caching!Next
<1>3. QED
  BY <1>1, <1>2, PTL DEF AllSpec, Caching!Spec
\* In the run as alone, a job is its submitter's and its result is claimed once.
THEOREM JobsAreOwnedInTheRun == AllSpec => []JobsAreOwned
<1>1. Spec => []JobsAreOwned
  BY JobsAssumption, JobsOwned
<1>2. QED
  BY <1>1, JobsRuns, PTL

LEMMA LimiterInvariance == Limiter!Spec => []RateInv
<1>1. Limiter!Init => RateInv
  BY LimiterAssumption, RateInit
<1>2. RateInv /\ [Limiter!Next]_(Limiter!vars) => RateInv'
  BY LimiterAssumption, RateNext
<1>3. QED
  BY <1>1, <1>2, PTL DEF Limiter!Spec

(***************************************************************************)
(* Any max + 1 admissions span a window, less the disagreement of the      *)
(* clocks, whatever is reordered, evaluated again, expired or changed in   *)
(* between.  SLIDING_WINDOW_LUA, check.                                    *)
(***************************************************************************)
THEOREM TheRateHolds == AllSpec => []RateHolds
<1>1. RateInv => RateHolds
  BY DEF RateInv, RateHolds
<1>2. QED
  BY <1>1, LimiterRuns, LimiterInvariance, PTL

(***************************************************************************)
(* Who waits for the retry-after, while nobody else is admitted and its    *)
(* limit stays, is not refused again.  SLIDING_WINDOW_LUA, check.          *)
(***************************************************************************)
THEOREM WaitingSuffices == AllSpec => RetryAfterSuffices
<1>1. RateInv =>
        [\A c \in Checks :
            check[c].sent /\ Limiter!Refuse(c) /\ promise.count = Len(admitted)
                          /\ promise.limit = check[c].limit /\ check[c].limit.max > 0
              => check[c].stamp < promise.until]_(Limiter!vars)
  BY LimiterAssumption, RefusedEarly
<1>2. QED
  BY <1>1, LimiterRuns, LimiterInvariance, PTL DEF RetryAfterSuffices, Limiter!RetryAfterSuffices

LEMMA GateInvariance == Gate!Spec => []GateInv
<1>1. Gate!Init => GateInv
  BY GateAssumption, GateBegins
<1>2. GateInv /\ [Gate!Next]_(Gate!vars) => GateInv'
  BY GateAssumption, GateSteps
<1>3. QED
  BY <1>1, <1>2, PTL DEF Gate!Spec

(***************************************************************************)
(* Every route asks its gates in order, the limiter lets no more through   *)
(* than the fence allows, and the flock is reached past all of them, with  *)
(* a moment at which they all stood open unless the configuration changed  *)
(* twice meanwhile.  app.ts, pipeline.ts, endpoint.ts, job-images.ts.      *)
(***************************************************************************)
THEOREM EveryGateHolds == AllSpec => []GatesHold
<1>1. GateInv => GatesHold
  BY GateAssumption, GateShows DEF GatesHold
<1>2. QED
  BY <1>1, GateRuns, GateInvariance, PTL

(***************************************************************************)
(* A counted answer is emitted once, whether its client read it, left or   *)
(* was never told, unless the sink or the process failed; a broken one     *)
(* never is, and nobody is told of a whole answer where there was none.    *)
(* meterOutcome, readOutcome, teeForMetering.                              *)
(***************************************************************************)
THEOREM EveryAnswerIsMetered == AllSpec => []ServedIsMetered
<1>1. GateInv => ServedIsMetered
  BY GateAssumption, GateShows DEF ServedIsMetered
<1>2. QED
  BY <1>1, GateRuns, GateInvariance, PTL

LEMMA CacheInvariance == Caching!Spec => []CacheInv
<1>1. Caching!Init => CacheInv
  BY CachingAssumption, CacheBegins
<1>2. CacheInv /\ [Caching!Next]_(Caching!vars) => CacheInv'
  BY CachingAssumption, CacheNext
<1>3. QED
  BY <1>1, <1>2, PTL DEF Caching!Spec

(***************************************************************************)
(* A request is answered from what was true within a time to live and a    *)
(* lookup, with a key that had not expired; a cache stays within its bound *)
(* with one answer for a name, and once every invalidation is handled only *)
(* what a flush overtook is stale: whatever changes, is lost, fails or     *)
(* restarts.  CachingConfigStore, PostgresConfigStore, liveKey.            *)
(***************************************************************************)
THEOREM AnswersStayTimely == AllSpec => []AnswersAreTimely
<1>1. CacheInv => AnswersAreTimely
  BY CachingAssumption, CacheShows DEF AnswersAreTimely
<1>2. QED
  BY <1>1, CacheRuns, CacheInvariance, PTL
=============================================================================
