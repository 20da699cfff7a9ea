--------------------------- MODULE MeteringProofs ---------------------------
(***************************************************************************)
(* Proofs about Metering, for any number of events, paddocks and workers,  *)
(* any batch size, stream bound and quota, and any sequence of faults.     *)
(***************************************************************************)
EXTENDS Metering, TLAPS

(***************************************************************************)
(* The inductive invariant.  At-most-once counting is not inductive by     *)
(* itself: a batch waiting to be applied must hold entries no one counted, *)
(* which needs each entry to be in one worker's hands only, which needs    *)
(* the group to move past every entry it delivers.                         *)
(***************************************************************************)
Holdings ==
    /\ \A i \in Entries : i > delivered => counted[i] = 0 /\ i \notin given
    /\ \A w \in Workers : \A i \in batch[w] : i <= delivered
    /\ \A v, w \in Workers : v # w => batch[v] \cap batch[w] = {}

Stages ==
    /\ \A w \in Workers : pc[w] \in {"down", "read"} => batch[w] = {}
    /\ \A w \in Workers : \A i \in batch[w] :
          /\ pc[w] = "apply" => counted[i] = 0 /\ (i \in given => i \in pel)
          /\ pc[w] = "ack" => counted[i] = 1 \/ PaddockOfEntry(i) \notin live

IInv == TypeOK /\ Holdings /\ Stages /\ CountedAtMostOnce /\ AckedOnlyIfCounted

\* The initial state satisfies the invariant: nothing has been emitted.
LEMMA InitIInv == Init => IInv
<1> SUFFICES ASSUME Init PROVE IInv
  OBVIOUS
<1> USE MeteringAssumption DEF Init
<1>1. log \in Seq(Events) /\ Len(log) = 0 /\ Entries = {}
  BY DEF Entries
<1>2. TypeOK
  <2>1. counted \in [Entries -> Nat]
    BY <1>1
  <2>2. /\ request \in [Events -> {"idle", "refused", "pending", "sent", "lost"}]
        /\ pc \in [Workers -> {"down", "read", "apply", "ack"}]
        /\ batch \in [Workers -> SUBSET Entries]
        /\ lag \in [Paddocks -> SUBSET Events]
    OBVIOUS
  <2>3. trimmed \in 0..Len(log) /\ delivered \in 0..Len(log) /\ faults \in 0..FaultBound
    BY <1>1
  <2>4. QED
    BY <1>1, <2>1, <2>2, <2>3 DEF TypeOK
<1>3. QED
  BY <1>1, <1>2 DEF IInv, Holdings, Stages, CountedAtMostOnce, AckedOnlyIfCounted

\* Adding an entry keeps the invariant: the new entry is beyond the last
\* delivered one, uncounted and in nobody's hands, and no older entry changes.
LEMMA XAddIInv ==
  ASSUME IInv, NEW e \in Events, XAdd(e),
         request' \in [Events -> {"idle", "refused", "pending", "sent", "lost"}],
         faults' \in 0..FaultBound,
         UNCHANGED <<pc, batch, live, lag>>
  PROVE  IInv'
<1> USE DEF IInv
<1>1. /\ log' \in Seq(Events)
      /\ Len(log') = Len(log) + 1
      /\ \A i \in Entries : log'[i] = log[i]
  BY DEF XAdd, TypeOK, Entries
<1>2. /\ Entries' = 1..(Len(log) + 1)
      /\ Entries \subseteq Entries'
      /\ \A i \in Entries' : i \notin Entries => i = Len(log) + 1
      /\ Len(log) \in Nat
  BY <1>1 DEF TypeOK, Entries
<1>3. /\ \A i \in Entries : counted'[i] = counted[i]
      /\ \A i \in Entries' : i \notin Entries => counted'[i] = 0
      /\ counted' \in [Entries' -> Nat]
  BY <1>2 DEF XAdd, TypeOK
<1>4. UNCHANGED <<group, delivered, pel, given, pc, batch, live>>
  BY DEF XAdd
<1>5. \A i \in Entries : PaddockOfEntry(i)' = PaddockOfEntry(i)
  BY <1>1 DEF PaddockOfEntry
<1>6. TypeOK'
  <2>1. trimmed' \in 0..Len(log')
    BY <1>1, <1>2 DEF XAdd, TypeOK
  <2>2. delivered' \in 0..Len(log')
    BY <1>1, <1>2, <1>4 DEF TypeOK
  <2>3. pel' \subseteq Entries' /\ given' \subseteq Entries' /\ batch' \in [Workers -> SUBSET (Entries')]
    BY <1>2, <1>4 DEF TypeOK
  <2>4. QED
    BY <1>1, <1>3, <1>4, <2>1, <2>2, <2>3 DEF TypeOK
<1>7. Holdings'
  <2>1. \A i \in Entries' : (i > delivered => counted[i] = 0 /\ i \notin given)'
    BY <1>2, <1>3, <1>4 DEF Holdings, TypeOK
  <2>2. QED
    BY <2>1, <1>4 DEF Holdings
<1>8. Stages'
  BY <1>3, <1>4, <1>5 DEF Stages, TypeOK
<1>9. CountedAtMostOnce'
  BY <1>3 DEF CountedAtMostOnce
<1>10. AckedOnlyIfCounted'
  BY <1>3, <1>4, <1>5 DEF AckedOnlyIfCounted, TypeOK
<1>11. QED
  BY <1>6, <1>7, <1>8, <1>9, <1>10

\* What XREADGROUP delivers is new: after everything delivered before, hence
\* uncounted and in no worker's hands.
LEMMA NextBatchIsNew ==
  ASSUME TypeOK, Deliver
  PROVE  /\ NextBatch \subseteq Entries
         /\ NextLast \in Entries
         /\ delivered < NextLast
         /\ \A i \in NextBatch : delivered < i /\ i <= NextLast
<1> USE MeteringAssumption DEF TypeOK
<1>1. Len(log) \in Nat /\ trimmed \in Nat /\ delivered \in Nat /\ BatchMax \in Nat
  OBVIOUS
<1>2. NextFirst \in Nat /\ delivered < NextFirst
  BY <1>1 DEF NextFirst
<1>3. NextLast \in Int /\ NextLast <= Len(log)
  BY <1>1, <1>2 DEF NextLast
<1>4. NextFirst <= NextLast
  BY <1>2, <1>3 DEF Deliver, NextBatch
<1>5. QED
  BY <1>1, <1>2, <1>3, <1>4 DEF NextBatch, Entries

\* A delivery keeps the invariant whether one worker gets the entries or, when
\* the reply is lost, nobody does.
LEMMA DeliverIInv ==
  ASSUME IInv, NEW w \in Workers, pc[w] = "read", Deliver,
         \/ /\ pc' = [pc EXCEPT ![w] = "apply"]
            /\ batch' = [batch EXCEPT ![w] = NextBatch]
         \/ UNCHANGED <<pc, batch>>,
         faults' \in 0..FaultBound,
         UNCHANGED <<request, counted, live, lag>>
  PROVE  IInv'
<1> USE DEF IInv
<1>1. /\ NextBatch \subseteq Entries
      /\ NextLast \in Entries
      /\ delivered < NextLast
      /\ \A i \in NextBatch : delivered < i /\ i <= NextLast
  BY NextBatchIsNew
<1>2. /\ UNCHANGED <<log, trimmed, group, counted, live>>
      /\ delivered' = NextLast
      /\ pel' = pel \cup NextBatch
      /\ given' = given \cup NextBatch
  BY DEF Deliver
<1>3. Entries' = Entries /\ \A i : PaddockOfEntry(i)' = PaddockOfEntry(i)
  BY <1>2 DEF Entries, PaddockOfEntry
<1>4. \A i \in Entries : i \in Nat /\ i <= Len(log)
  BY DEF Entries
<1>5. TypeOK'
  <2>1. delivered' \in 0..Len(log')
    BY <1>1, <1>2, <1>4 DEF TypeOK
  <2>2. batch' \in [Workers -> SUBSET Entries] /\ pc' \in [Workers -> {"down", "read", "apply", "ack"}]
    BY <1>1 DEF TypeOK
  <2>3. QED
    BY <1>1, <1>2, <1>3, <2>1, <2>2 DEF TypeOK
<1>6. Holdings'
  <2>1. \A i \in Entries : i > delivered' => counted[i] = 0 /\ i \notin given'
    BY <1>1, <1>2, <1>4 DEF Holdings, TypeOK
  <2>2. \A v \in Workers : \A i \in batch'[v] : i <= delivered'
    <3>1. \A v \in Workers : \A i \in batch[v] : i <= NextLast
      BY <1>1, <1>4 DEF Holdings, TypeOK
    <3>2. QED
      BY <1>1, <1>2, <3>1 DEF TypeOK
  <2>3. \A u, v \in Workers : u # v => batch'[u] \cap batch'[v] = {}
    <3>1. \A v \in Workers : batch[v] \cap NextBatch = {}
      BY <1>1, <1>4 DEF Holdings, TypeOK
    <3>2. QED
      BY <3>1 DEF Holdings, TypeOK
  <2>4. QED
    BY <1>2, <1>3, <2>1, <2>2, <2>3 DEF Holdings
<1>7. Stages'
  <2>1. \A v \in Workers : pc'[v] \in {"down", "read"} => batch'[v] = {}
    BY DEF Stages, TypeOK
  <2>2. \A i \in NextBatch : counted[i] = 0 /\ i \in pel'
    BY <1>1, <1>2, <1>4 DEF Holdings, TypeOK
  <2>3. \A v \in Workers : \A i \in batch'[v] :
          /\ pc'[v] = "apply" => counted[i] = 0 /\ (i \in given' => i \in pel')
          /\ pc'[v] = "ack" => counted[i] = 1 \/ PaddockOfEntry(i) \notin live
    BY <1>2, <2>2 DEF Stages, TypeOK
  <2>4. QED
    BY <1>2, <1>3, <2>1, <2>3 DEF Stages
<1>8. CountedAtMostOnce' /\ AckedOnlyIfCounted'
  BY <1>2, <1>3 DEF CountedAtMostOnce, AckedOnlyIfCounted
<1>9. QED
  BY <1>5, <1>6, <1>7, <1>8

\* A worker that drops its batch, having settled all of it or acknowledged none
\* of it, keeps the invariant: pending entries may leave only when settled.
LEMMA DropIInv ==
  ASSUME IInv, NEW w \in Workers,
         batch' = [batch EXCEPT ![w] = {}],
         pc' = [pc EXCEPT ![w] = "read"] \/ pc' = [pc EXCEPT ![w] = "down"],
         pel' = pel \/ (pc[w] = "ack" /\ pel' = pel \ batch[w]),
         faults' \in 0..FaultBound,
         UNCHANGED <<request, log, trimmed, group, delivered, given, counted, live, lag>>
  PROVE  IInv'
<1> USE DEF IInv
<1>1. Entries' = Entries /\ \A i : PaddockOfEntry(i)' = PaddockOfEntry(i)
  BY DEF Entries, PaddockOfEntry
<1>2. /\ pc' \in [Workers -> {"down", "read", "apply", "ack"}]
      /\ batch' \in [Workers -> SUBSET Entries]
      /\ \A v \in Workers : v # w => pc'[v] = pc[v] /\ batch'[v] = batch[v]
      /\ batch'[w] = {} /\ pc'[w] \in {"read", "down"}
  BY DEF TypeOK
<1>3. TypeOK'
  BY <1>1, <1>2 DEF TypeOK
<1>4. Holdings'
  BY <1>1, <1>2 DEF Holdings, TypeOK
<1>5. Stages'
  <2>1. ASSUME NEW v \in Workers, NEW i \in batch'[v], pc[v] = "apply", i \in given
        PROVE  i \in pel'
    <3>1. v # w /\ i \in batch[v] /\ i \in pel
      BY <1>2, <2>1 DEF Stages
    <3>2. i \notin batch[w]
      BY <3>1 DEF Holdings
    <3>3. QED
      BY <3>1, <3>2
  <2>2. QED
    BY <1>1, <1>2, <2>1 DEF Stages
<1>6. CountedAtMostOnce' /\ AckedOnlyIfCounted'
  BY <1>1 DEF CountedAtMostOnce, AckedOnlyIfCounted, Stages, TypeOK
<1>7. QED
  BY <1>3, <1>4, <1>5, <1>6

\* A committed transaction keeps the invariant: the batch's entries were counted
\* by nobody, and are counted once.
LEMMA CommitIInv ==
  ASSUME IInv, NEW w \in Workers, pc[w] = "apply", CanCommit(w), Commit(w),
         \/ pc' = [pc EXCEPT ![w] = "ack"] /\ batch' = batch
         \/ pc' = [pc EXCEPT ![w] = "read"] /\ batch' = [batch EXCEPT ![w] = {}],
         faults' \in 0..FaultBound,
         UNCHANGED <<request, stream, live, lag>>
  PROVE  IInv'
<1> USE DEF IInv
<1>1. /\ Entries' = Entries
      /\ \A i : PaddockOfEntry(i)' = PaddockOfEntry(i)
      /\ UNCHANGED <<log, trimmed, group, delivered, pel, given>>
  BY DEF Entries, PaddockOfEntry, stream
<1>2. /\ pc' \in [Workers -> {"down", "read", "apply", "ack"}]
      /\ batch' \in [Workers -> SUBSET Entries]
      /\ \A v \in Workers : v # w => pc'[v] = pc[v] /\ batch'[v] = batch[v]
      /\ batch'[w] \subseteq batch[w]
      /\ pc'[w] = "ack" \/ (pc'[w] = "read" /\ batch'[w] = {})
  <2>1. CASE pc' = [pc EXCEPT ![w] = "ack"] /\ batch' = batch
    <3>1. /\ batch' \in [Workers -> SUBSET Entries]
          /\ \A v \in Workers : batch'[v] = batch[v]
      BY <2>1 DEF TypeOK
    <3>2. /\ pc' \in [Workers -> {"down", "read", "apply", "ack"}]
          /\ \A v \in Workers : v # w => pc'[v] = pc[v]
          /\ pc'[w] = "ack"
      BY <2>1 DEF TypeOK
    <3>3. batch'[w] \subseteq batch[w]
      BY <3>1
    <3>4. QED
      BY <3>1, <3>2, <3>3
  <2>2. CASE pc' = [pc EXCEPT ![w] = "read"] /\ batch' = [batch EXCEPT ![w] = {}]
    BY <2>2 DEF TypeOK
  <2>3. QED
    BY <2>1, <2>2
<1>3. /\ counted' \in [Entries -> Nat]
      /\ \A i \in batch[w] : counted'[i] = 1
      /\ \A i \in Entries : i \notin batch[w] => counted'[i] = counted[i]
  BY DEF Commit, Stages, TypeOK
<1>4. TypeOK'
  BY <1>1, <1>2, <1>3 DEF TypeOK
<1>5. Holdings'
  <2>1. \A i \in Entries : i > delivered => counted'[i] = 0 /\ i \notin given
    <3>1. \A i \in batch[w] : i <= delivered /\ i \in Int /\ delivered \in Int
      BY DEF Holdings, TypeOK, Entries
    <3>2. QED
      BY <1>3, <3>1 DEF Holdings
  <2>2. /\ \A v \in Workers : \A i \in batch'[v] : i <= delivered
        /\ \A u, v \in Workers : u # v => batch'[u] \cap batch'[v] = {}
    BY <1>2 DEF Holdings
  <2>3. QED
    BY <1>1, <2>1, <2>2 DEF Holdings
<1>6. Stages'
  <2>1. \A v \in Workers : v # w => \A i \in batch[v] : counted'[i] = counted[i]
    BY <1>3 DEF Holdings, TypeOK
  <2>2. \A v \in Workers : pc'[v] \in {"down", "read"} => batch'[v] = {}
    BY <1>2 DEF Stages
  <2>3. \A v \in Workers : v # w => \A i \in batch'[v] :
          /\ pc'[v] = "apply" => counted'[i] = 0 /\ (i \in given => i \in pel)
          /\ pc'[v] = "ack" => counted'[i] = 1 \/ PaddockOfEntry(i) \notin live
    BY <1>2, <2>1 DEF Stages
  <2>4. \A i \in batch'[w] : pc'[w] = "ack" /\ counted'[i] = 1
    BY <1>2, <1>3
  <2>5. QED
    BY <1>1, <2>2, <2>3, <2>4 DEF Stages
<1>7. CountedAtMostOnce'
  BY <1>1, <1>3 DEF CountedAtMostOnce
<1>8. AckedOnlyIfCounted'
  BY <1>1, <1>3 DEF AckedOnlyIfCounted, TypeOK
<1>9. QED
  BY <1>4, <1>5, <1>6, <1>7, <1>8

\* Every step keeps the invariant.
LEMMA NextIInv == IInv /\ [Next]_vars => IInv'
<1> SUFFICES ASSUME IInv, [Next]_vars PROVE IInv'
  OBVIOUS
<1> USE MeteringAssumption
<1>0. /\ faults \in 0..FaultBound
      /\ faults' = faults => faults' \in 0..FaultBound
      /\ \/ Fault("crash") \/ Fault("emit") \/ Fault("resend") \/ Fault("reply")
         \/ Fault("db") \/ Fault("ack") \/ Fault("redis")
         => faults' \in 0..FaultBound
  BY DEF IInv, TypeOK, Fault
<1>1. CASE UNCHANGED vars
  BY <1>1 DEF vars, IInv, TypeOK, Holdings, Stages, CountedAtMostOnce, AckedOnlyIfCounted,
              Entries, PaddockOfEntry
<1>2. ASSUME NEW e \in Events, DataPlane(e) PROVE IInv'
  <2>1. CASE Admit(e) \/ Refuse(e) \/ EmitLost(e)
    <3>1. /\ UNCHANGED <<log, trimmed, group, delivered, pel, given, pc, batch, counted, live>>
          /\ request' \in [Events -> {"idle", "refused", "pending", "sent", "lost"}]
          /\ faults' \in 0..FaultBound
      BY <1>0, <2>1 DEF Admit, Refuse, EmitLost, stream, IInv, TypeOK
    <3>2. lag' \in [Paddocks -> SUBSET Events]
      <4>1. CASE Admit(e)
        BY <4>1 DEF Admit, Uncounted, IInv, TypeOK
      <4>2. CASE Refuse(e) \/ EmitLost(e)
        BY <4>2 DEF Refuse, EmitLost, IInv, TypeOK
      <4>3. QED
        BY <2>1, <4>1, <4>2
    <3>3. QED
      BY <3>1, <3>2 DEF IInv, TypeOK, Holdings, Stages, CountedAtMostOnce, AckedOnlyIfCounted,
                        Entries, PaddockOfEntry
  <2>2. CASE Emit(e)
    <3>1. request' \in [Events -> {"idle", "refused", "pending", "sent", "lost"}]
      BY <2>2 DEF Emit, IInv, TypeOK
    <3>2. QED
      BY <1>0, <2>2, <3>1, XAddIInv DEF Emit
  <2>3. CASE EmitUnanswered(e)
    <3>1. request' \in [Events -> {"idle", "refused", "pending", "sent", "lost"}]
      BY <2>3 DEF EmitUnanswered, IInv, TypeOK
    <3>2. QED
      BY <1>0, <2>3, <3>1, XAddIInv DEF EmitUnanswered
  <2>4. QED
    BY <1>2, <2>1, <2>2, <2>3 DEF DataPlane
<1>3. ASSUME NEW w \in Workers, Worker(w) PROVE IInv'
  <2>1. CASE Boot(w)
    <3>1. UNCHANGED <<request, log, trimmed, pel, given, batch, counted, live, lag, faults>>
      BY <2>1 DEF Boot
    <3>2. delivered' \in 0..Len(log) /\ delivered <= delivered' /\ group' \in BOOLEAN
      BY <2>1 DEF Boot, IInv, TypeOK
    <3>3. /\ pc' \in [Workers -> {"down", "read", "apply", "ack"}]
          /\ pc'[w] = "read" /\ batch[w] = {}
          /\ \A v \in Workers : v # w => pc'[v] = pc[v]
      BY <2>1 DEF Boot, IInv, TypeOK, Stages
    <3>4. Entries' = Entries /\ \A i : PaddockOfEntry(i)' = PaddockOfEntry(i)
      BY <3>1 DEF Entries, PaddockOfEntry
    <3>5. TypeOK'
      BY <3>1, <3>2, <3>3, <3>4 DEF IInv, TypeOK
    <3>6. Holdings'
      <4>1. Entries \subseteq Int /\ delivered \in Int /\ delivered' \in Int
        BY <3>2 DEF Entries, IInv, TypeOK
      <4>2. \A v \in Workers : batch[v] \subseteq Entries
        BY DEF IInv, TypeOK
      <4>3. \A i \in Entries : i > delivered' => i > delivered
        BY <3>2, <4>1
      <4>4. ASSUME NEW v \in Workers, NEW i \in batch[v] PROVE i <= delivered'
        <5>1. i \in Int /\ i <= delivered
          BY <4>1, <4>2 DEF IInv, Holdings
        <5>2. QED
          BY <3>2, <4>1, <5>1
      <4>5. QED
        BY <3>1, <3>4, <4>3, <4>4 DEF IInv, Holdings
    <3>7. Stages' /\ CountedAtMostOnce' /\ AckedOnlyIfCounted'
      BY <3>1, <3>3, <3>4 DEF IInv, Stages, CountedAtMostOnce, AckedOnlyIfCounted
    <3>8. QED
      BY <3>5, <3>6, <3>7 DEF IInv
  <2>2. CASE Read(w)
    BY <1>0, <2>2, DeliverIInv DEF Read
  <2>3. CASE ReadUnanswered(w)
    BY <1>0, <2>3, DeliverIInv DEF ReadUnanswered
  <2>4. CASE Apply(w)
    BY <1>0, <2>4, CommitIInv DEF Apply
  <2>5. CASE ApplyRefused(w)
    <3>1. UNCHANGED <<request, log, trimmed, group, delivered, pel, given, counted, live, lag, faults>>
      BY <2>5 DEF ApplyRefused, stream
    <3>2. NextCycle(w)
      BY <2>5 DEF ApplyRefused
    <3>3. faults' \in 0..FaultBound /\ pel' = pel
      BY <1>0, <3>1
    <3>4. QED
      BY <3>1, <3>2, <3>3, DropIInv DEF NextCycle
  <2>6. CASE ApplyFails(w)
    <3>1. CASE UNCHANGED counted
      <4>1. UNCHANGED <<request, log, trimmed, group, delivered, pel, given, counted, live, lag>>
        BY <2>6, <3>1 DEF ApplyFails, stream
      <4>2. NextCycle(w) /\ Fault("db")
        BY <2>6 DEF ApplyFails
      <4>3. faults' \in 0..FaultBound /\ pel' = pel
        BY <1>0, <4>1, <4>2
      <4>4. QED
        BY <4>1, <4>2, <4>3, DropIInv DEF NextCycle
    <3>2. CASE CanCommit(w) /\ Commit(w)
      <4>1. /\ pc[w] = "apply" /\ faults' \in 0..FaultBound
            /\ UNCHANGED <<request, stream, live, lag>>
        BY <1>0, <2>6 DEF ApplyFails
      <4>2. NextCycle(w)
        BY <2>6 DEF ApplyFails
      <4>3. QED
        BY <3>2, <4>1, <4>2, CommitIInv DEF NextCycle
    <3>3. QED
      BY <2>6, <3>1, <3>2 DEF ApplyFails
  <2>7. CASE Ack(w)
    BY <1>0, <2>7, DropIInv DEF Ack, NextCycle
  <2>8. CASE AckFails(w)
    <3>1. /\ UNCHANGED <<request, log, trimmed, group, delivered, given, counted, live, lag>>
          /\ pel' = pel \/ (pc[w] = "ack" /\ pel' = pel \ batch[w])
      BY <2>8 DEF AckFails
    <3>2. NextCycle(w) /\ Fault("ack")
      BY <2>8 DEF AckFails
    <3>3. faults' \in 0..FaultBound
      BY <1>0, <3>2
    <3>4. QED
      BY <3>1, <3>2, <3>3, DropIInv DEF NextCycle
  <2>9. CASE Crash(w)
    <3>1. UNCHANGED <<request, log, trimmed, group, delivered, pel, given, counted, live, lag>>
      BY <2>9 DEF Crash, stream
    <3>2. /\ batch' = [batch EXCEPT ![w] = {}]
          /\ pc' = [pc EXCEPT ![w] = "down"]
          /\ Fault("crash")
      BY <2>9 DEF Crash
    <3>3. faults' \in 0..FaultBound /\ pel' = pel
      BY <1>0, <3>1, <3>2
    <3>4. QED
      BY <3>1, <3>2, <3>3, DropIInv
  <2>10. QED
    BY <1>3, <2>1, <2>2, <2>3, <2>4, <2>5, <2>6, <2>7, <2>8, <2>9 DEF Worker
<1>4. ASSUME NEW p \in Paddocks, DeletePaddock(p) PROVE IInv'
  <2>1. /\ UNCHANGED <<request, log, trimmed, group, delivered, pel, given, pc, batch, lag, faults>>
        /\ live' = live \ {p}
        /\ \A i \in Entries : counted'[i] = IF PaddockOfEntry(i) = p THEN 0 ELSE counted[i]
        /\ counted' \in [Entries -> Nat]
    BY <1>4 DEF DeletePaddock, stream, IInv, TypeOK
  <2>2. Entries' = Entries /\ \A i : PaddockOfEntry(i)' = PaddockOfEntry(i)
    BY <2>1 DEF Entries, PaddockOfEntry
  <2>3. TypeOK'
    BY <2>1, <2>2 DEF IInv, TypeOK
  <2>8. Holdings'
    BY <2>1, <2>2 DEF IInv, Holdings
  <2>9. CountedAtMostOnce'
    BY <2>1, <2>2 DEF IInv, CountedAtMostOnce
  <2>4. \A v \in Workers : batch[v] \subseteq Entries
    BY DEF IInv, TypeOK
  <2>5. Stages'
    BY <2>1, <2>2, <2>4 DEF IInv, Stages
  <2>6. AckedOnlyIfCounted'
    BY <2>1, <2>2 DEF IInv, TypeOK, AckedOnlyIfCounted
  <2>7. QED
    BY <2>3, <2>5, <2>6, <2>8, <2>9 DEF IInv
<1>5. CASE RedisRestart
  <2>1. /\ UNCHANGED <<request, log, pc, batch, counted, live, lag>>
        /\ trimmed' = Len(log) /\ delivered' = Len(log) /\ group' = FALSE
        /\ pel' = {} /\ given' = {} /\ faults' \in 0..FaultBound
    BY <1>0, <1>5 DEF RedisRestart
  <2>2. Entries' = Entries /\ \A i : PaddockOfEntry(i)' = PaddockOfEntry(i)
    BY <2>1 DEF Entries, PaddockOfEntry
  <2>3. Len(log) \in Nat /\ \A i \in Entries : i <= Len(log)
    BY DEF IInv, TypeOK, Entries
  <2>4. TypeOK'
    <3>1. Len(log') \in Nat /\ trimmed' = Len(log') /\ delivered' = Len(log')
      BY <2>1, <2>3
    <3>2. trimmed' \in 0..Len(log') /\ delivered' \in 0..Len(log')
      BY <3>1
    <3>3. pel' \subseteq Entries' /\ given' \subseteq Entries'
      BY <2>1
    <3>4. group' \in BOOLEAN
      BY <2>1
    <3>5. QED
      BY <2>1, <2>2, <3>2, <3>3, <3>4 DEF IInv, TypeOK
  <2>5. \A v \in Workers : batch[v] \subseteq Entries
    BY DEF IInv, TypeOK
  <2>6. Holdings'
    <3>1. \A i \in Entries : ~(i > Len(log))
      BY <2>3 DEF Entries
    <3>2. QED
      BY <2>1, <2>2, <2>3, <2>5, <3>1 DEF IInv, Holdings
  <2>7. Stages' /\ CountedAtMostOnce' /\ AckedOnlyIfCounted'
    BY <2>1, <2>2 DEF IInv, Stages, CountedAtMostOnce, AckedOnlyIfCounted
  <2>8. QED
    BY <2>4, <2>6, <2>7 DEF IInv
<1>6. QED
  BY <1>1, <1>2, <1>3, <1>4, <1>5 DEF Next

\* The invariant holds in every reachable state.
THEOREM Invariance == Spec => []IInv
<1>1. QED
  BY InitIInv, NextIInv, PTL DEF Spec

\* Every state is well typed.
THEOREM TypeCorrect == Spec => []TypeOK
<1>1. IInv => TypeOK
  BY DEF IInv
<1>2. QED
  BY <1>1, Invariance, PTL

\* Whatever crashes, failed or half-done calls, lost replies and Redis restarts
\* happen, applyEvents never sums one stream entry into usage_rollup twice.
THEOREM NeverCountedTwice == Spec => []CountedAtMostOnce
<1>1. IInv => CountedAtMostOnce
  BY DEF IInv
<1>2. QED
  BY <1>1, Invariance, PTL

\* processOnce never acknowledges an entry whose usage is not in its row.
THEOREM AcknowledgedIsCounted == Spec => []AckedOnlyIfCounted
<1>1. IInv => AckedOnlyIfCounted
  BY DEF IInv
<1>2. QED
  BY <1>1, Invariance, PTL

----------------------------------------------------------------------------
(***************************************************************************)
(* Metering implements the abstract ledger: while every XADD is answered,  *)
(* each step of the data plane, Redis, the workers and the database is one *)
(* of UsageLedger's steps or leaves the ledger as it is.                   *)
(***************************************************************************)

(***************************************************************************)
(* The row of an event.  The sum over its entries is a fold; an event that *)
(* is in the stream once makes it a sum over one entry, or over none.      *)
(***************************************************************************)
Sum(c, S) == MapThenSumSet(LAMBDA i : c[i], S)

\* A sum over nothing is zero.
LEMMA SumOfNone ==
  ASSUME NEW c, NEW S, S = {}
  PROVE  Sum(c, S) = 0
<1> DEFINE Sums(f) == f = [s \in SUBSET S |->
             IF s = {} THEN 0 ELSE c[CHOOSE x \in s : TRUE] + f[s \ {CHOOSE x \in s : TRUE}]]
<1>1. Sums([s \in SUBSET S |-> 0])
  <2>1. SUBSET S = {{}}
    OBVIOUS
  <2>2. QED
    BY <2>1
<1>2. (CHOOSE f : Sums(f))[S] = 0
  BY <1>1
<1>3. QED
  BY <1>2 DEF Sum, MapThenSumSet, MapThenFoldSet

\* A sum over one entry is the entry's count.
LEMMA SumOfOne ==
  ASSUME NEW c, NEW n, c[n] \in Nat
  PROVE  Sum(c, {n}) = c[n]
<1> DEFINE Sums(f) == f = [s \in SUBSET {n} |->
             IF s = {} THEN 0 ELSE c[CHOOSE x \in s : TRUE] + f[s \ {CHOOSE x \in s : TRUE}]]
           g == [s \in SUBSET {n} |-> IF s = {} THEN 0 ELSE c[n]]
<1>1. SUBSET {n} = {{}, {n}} /\ (CHOOSE x \in {n} : TRUE) = n
  OBVIOUS
<1>2. Sums(g)
  <2>1. ASSUME NEW s \in SUBSET {n}
        PROVE  g[s] = IF s = {} THEN 0 ELSE c[CHOOSE x \in s : TRUE] + g[s \ {CHOOSE x \in s : TRUE}]
    <3>1. CASE s = {}
      BY <3>1
    <3>2. CASE s = {n}
      <4>1. s \ {CHOOSE x \in s : TRUE} = {}
        BY <1>1, <3>2
      <4>2. QED
        BY <1>1, <3>2, <4>1
    <3>3. QED
      BY <1>1, <3>1, <3>2
  <2>2. QED
    BY <2>1
<1>3. (CHOOSE f : Sums(f))[{n}] = c[n]
  <2> DEFINE h == CHOOSE f : Sums(f)
  <2>1. Sums(h)
    BY <1>2
  <2> HIDE DEF h
  <2>2. h[{}] = 0
    BY <2>1
  <2>3. h[{n}] = c[n] + h[{n} \ {n}]
    BY <1>1, <2>1
  <2>4. h[{n}] = c[n]
    BY <2>2, <2>3
  <2>5. QED
    BY <2>4 DEF h
<1>4. QED
  BY <1>3 DEF Sum, MapThenSumSet, MapThenFoldSet

RowOf(l, c, e) == Sum(c, {i \in 1..Len(l) : l[i] = e})

\* An event that is not in the stream is in no row.
LEMMA RowOfAbsent ==
  ASSUME NEW l, NEW c, NEW e, \A i \in 1..Len(l) : l[i] # e
  PROVE  RowOf(l, c, e) = 0
<1>1. {i \in 1..Len(l) : l[i] = e} = {}
  OBVIOUS
<1>2. QED
  BY <1>1, SumOfNone DEF RowOf

\* An event that is in the stream once is in its row as often as the entry was added.
LEMMA RowOfOnly ==
  ASSUME NEW l, NEW c, NEW n \in 1..Len(l), c[n] \in Nat,
         \A i \in 1..Len(l) : l[i] = l[n] => i = n
  PROVE  RowOf(l, c, l[n]) = c[n]
<1>1. {i \in 1..Len(l) : l[i] = l[n]} = {n}
  OBVIOUS
<1>2. QED
  BY <1>1, SumOfOne DEF RowOf

(***************************************************************************)
(* One entry per event.                                                    *)
(***************************************************************************)
Answered == "resend" \notin Faults

Logged ==
    /\ \A i, j \in Entries : log[i] = log[j] => i = j
    /\ \A i \in Entries : request[log[i]] = "sent"

\* Nothing is in the stream at first.
LEMMA InitLogged == Init => Logged
BY DEF Init, Logged, Entries

\* Only an emit adds an entry, of an event that was pending and is sent from then on.
LEMMA EmitLogs ==
  ASSUME IInv, Logged, NEW e \in Events, Emit(e)
  PROVE  /\ Logged'
         /\ log' = Append(log, e) /\ Len(log') = Len(log) + 1 /\ Len(log) \in Nat
         /\ \A i \in Entries : log'[i] = log[i] /\ log[i] # e /\ counted'[i] = counted[i]
         /\ Entries' = Entries \cup {Len(log')} /\ Len(log') \notin Entries
         /\ log'[Len(log')] = e /\ counted'[Len(log')] = 0
<1>1. /\ log' = Append(log, e) /\ Len(log') = Len(log) + 1 /\ Len(log) \in Nat
      /\ \A i \in Entries : log'[i] = log[i] /\ log[i] \in Events
      /\ log'[Len(log')] = e
  BY DEF Emit, XAdd, IInv, TypeOK, Entries
<1>2. Entries' = Entries \cup {Len(log')} /\ Len(log') \notin Entries
  BY <1>1 DEF Entries
<1>3. \A i \in Entries : log[i] # e
  BY DEF Emit, Logged
<1>4. \A i \in Entries' : counted'[i] = IF i \in Entries THEN counted[i] ELSE 0
  BY <1>1 DEF Emit, XAdd, Entries
<1>5. /\ request'[e] = "sent"
      /\ \A d \in Events : d # e => request'[d] = request[d]
  BY DEF Emit, IInv, TypeOK
<1>6. Logged'
  <2>1. ASSUME NEW i \in Entries', NEW j \in Entries', log'[i] = log'[j] PROVE i = j
    BY <1>1, <1>2, <1>3, <2>1 DEF Logged
  <2>2. ASSUME NEW i \in Entries' PROVE request'[log'[i]] = "sent"
    BY <1>1, <1>2, <1>3, <1>5, <2>2 DEF Logged
  <2>3. QED
    BY <2>1, <2>2 DEF Logged
<1>7. QED
  BY <1>1, <1>2, <1>3, <1>4, <1>6

\* While every XADD is answered, no event gets a second entry.
LEMMA NextLogged == ASSUME Answered, IInv, Logged, [Next]_vars PROVE Logged'
<1>1. CASE \E e \in Events : Emit(e)
  BY <1>1, EmitLogs
<1>2. CASE \E e \in Events : Admit(e) \/ Refuse(e) \/ EmitLost(e)
  <2>1. PICK e \in Events : Admit(e) \/ Refuse(e) \/ EmitLost(e)
    BY <1>2
  <2>2. log' = log /\ \A d \in Events : request[d] = "sent" => request'[d] = "sent"
    BY <2>1 DEF Admit, Refuse, EmitLost, stream, IInv, TypeOK
  <2>3. \A i \in Entries : log[i] \in Events
    BY DEF IInv, TypeOK, Entries
  <2>4. QED
    BY <2>2, <2>3 DEF Logged, Entries
<1>3. CASE \/ \E w \in Workers : Worker(w)
           \/ \E p \in Paddocks : DeletePaddock(p)
           \/ RedisRestart \/ UNCHANGED vars
  <2>1. UNCHANGED <<log, request>>
    BY <1>3 DEF Worker, Boot, Read, ReadUnanswered, Apply, ApplyRefused, ApplyFails, Ack, AckFails,
                Crash, Deliver, NextCycle, DeletePaddock, RedisRestart, stream, vars
  <2>2. QED
    BY <2>1 DEF Logged, Entries
<1>4. QED
  BY <1>1, <1>2, <1>3 DEF Next, DataPlane, EmitUnanswered, Fault, Answered

(***************************************************************************)
(* The refinement mapping.                                                 *)
(***************************************************************************)
Spent == {e \in Events : request[e] \in {"pending", "sent", "lost"}}
Billed == [e \in Events |-> RowOf(log, counted, e)]

\* The rows, entry by entry.
LEMMA RowsByEntry ==
  ASSUME IInv, Logged
  PROVE  /\ \A e \in Events : (\A i \in Entries : log[i] # e) => Billed[e] = 0
         /\ \A i \in Entries : log[i] \in Events /\ Billed[log[i]] = counted[i]
<1>1. ASSUME NEW e \in Events, \A i \in Entries : log[i] # e
      PROVE  Billed[e] = 0
  BY <1>1, RowOfAbsent DEF Billed, Entries
<1>2. ASSUME NEW n \in Entries
      PROVE  log[n] \in Events /\ Billed[log[n]] = counted[n]
  <2>1. log[n] \in Events /\ counted[n] \in Nat
    BY DEF IInv, TypeOK, Entries
  <2>2. n \in 1..Len(log) /\ \A i \in 1..Len(log) : log[i] = log[n] => i = n
    BY DEF Logged, Entries
  <2>3. RowOf(log, counted, log[n]) = counted[n]
    BY <2>1, <2>2, RowOfOnly
  <2>4. QED
    BY <2>1, <2>3 DEF Billed
<1>3. QED
  BY <1>1, <1>2

\* The same of the next state.
LEMMA RowsByEntryNext ==
  ASSUME IInv', Logged'
  PROVE  /\ \A e \in Events : (\A i \in Entries' : log'[i] # e) => Billed'[e] = 0
         /\ \A i \in Entries' : log'[i] \in Events /\ Billed'[log'[i]] = counted'[i]
<1>1. ASSUME NEW e \in Events, \A i \in Entries' : log'[i] # e
      PROVE  Billed'[e] = 0
  BY <1>1, RowOfAbsent DEF Billed, Entries
<1>2. ASSUME NEW n \in Entries'
      PROVE  log'[n] \in Events /\ Billed'[log'[n]] = counted'[n]
  <2>1. log'[n] \in Events /\ counted'[n] \in Nat
    BY DEF IInv, TypeOK, Entries
  <2>2. n \in 1..Len(log') /\ \A i \in 1..Len(log') : log'[i] = log'[n] => i = n
    BY DEF Logged, Entries
  <2>3. RowOf(log', counted', log'[n]) = counted'[n]
    BY <2>1, <2>2, RowOfOnly
  <2>4. QED
    BY <2>1, <2>3 DEF Billed
<1>3. QED
  BY <1>1, <1>2

\* A row that does not change.
LEMMA SameRows ==
  ASSUME UNCHANGED <<log, counted>>
  PROVE  Billed' = Billed
BY DEF Billed

\* An emit puts an event nobody has counted in the stream: its row stays as it is.
LEMMA EmitBillsNothing ==
  ASSUME IInv, Logged, IInv', NEW e \in Events, Emit(e)
  PROVE  Billed' = Billed
<1>1. ASSUME NEW d \in Events PROVE Billed'[d] = Billed[d]
  <2>1. CASE \E i \in Entries : log[i] = d
    BY <2>1, EmitLogs, RowsByEntry, RowsByEntryNext
  <2>2. CASE d = e
    BY <2>2, EmitLogs, RowsByEntry, RowsByEntryNext
  <2>3. CASE d # e /\ \A i \in Entries : log[i] # d
    BY <2>3, EmitLogs, RowsByEntry, RowsByEntryNext
  <2>4. QED
    BY <2>1, <2>2, <2>3
<1>2. QED
  BY <1>1 DEF Billed

\* A commit bills the events of its batch, each spent, none billed, none of a paddock that is gone.
LEMMA CommitBills ==
  ASSUME IInv, Logged, IInv', Logged', NEW w \in Workers, pc[w] = "apply", CanCommit(w), Commit(w),
         UNCHANGED <<log, request, live>>
  PROVE  LET events == {log[i] : i \in batch[w]}
         IN  /\ events \in SUBSET Events
             /\ \A e \in events : e \in Spent /\ Billed[e] = 0 /\ PaddockOf[e] \in live
             /\ Billed' = [e \in Events |-> IF e \in events THEN 1 ELSE Billed[e]]
<1> DEFINE events == {log[i] : i \in batch[w]}
<1>1. Entries' = Entries /\ batch[w] \subseteq Entries
  BY DEF Entries, IInv, TypeOK
<1>2. \A i \in Entries : counted'[i] = IF i \in batch[w] THEN 1 ELSE counted[i]
  BY <1>1 DEF Commit, IInv, TypeOK, Stages
<1>3. \A i \in batch[w] : /\ log[i] \in Events /\ request[log[i]] = "sent"
                          /\ counted[i] = 0 /\ PaddockOf[log[i]] \in live
  BY <1>1, RowsByEntry DEF Logged, IInv, Stages, CanCommit, PaddockOfEntry
<1>4. \A e \in events : e \in Events /\ e \in Spent /\ Billed[e] = 0 /\ PaddockOf[e] \in live
  BY <1>1, <1>3, RowsByEntry DEF Spent
<1>5. ASSUME NEW e \in Events PROVE Billed'[e] = IF e \in events THEN 1 ELSE Billed[e]
  <2>1. CASE e \in events
    BY <1>1, <1>2, <2>1, RowsByEntryNext
  <2>2. CASE e \notin events /\ \E i \in Entries : log[i] = e
    BY <1>1, <1>2, <2>2, RowsByEntry, RowsByEntryNext
  <2>3. CASE \A i \in Entries : log[i] # e
    BY <1>1, <2>3, RowsByEntry, RowsByEntryNext
  <2>4. QED
    BY <2>1, <2>2, <2>3
<1>6. Billed' = [e \in Events |-> IF e \in events THEN 1 ELSE Billed[e]]
  BY <1>5 DEF Billed
<1>7. QED
  BY <1>4, <1>6

\* The cascade empties the rows of the paddock, and no other.
LEMMA DeletionCloses ==
  ASSUME IInv, Logged, IInv', Logged', NEW p \in Paddocks, DeletePaddock(p)
  PROVE  Billed' = [e \in Events |-> IF PaddockOf[e] = p THEN 0 ELSE Billed[e]]
<1>1. /\ Entries' = Entries /\ log' = log
      /\ \A i \in Entries : counted'[i] = IF PaddockOf[log[i]] = p THEN 0 ELSE counted[i]
  BY DEF DeletePaddock, stream, Entries, PaddockOfEntry
<1>2. ASSUME NEW e \in Events PROVE Billed'[e] = IF PaddockOf[e] = p THEN 0 ELSE Billed[e]
  <2>1. CASE \E i \in Entries : log[i] = e
    BY <1>1, <2>1, RowsByEntry, RowsByEntryNext
  <2>2. CASE \A i \in Entries : log[i] # e
    BY <1>1, <2>2, RowsByEntry, RowsByEntryNext
  <2>3. QED
    BY <2>1, <2>2
<1>3. QED
  BY <1>2 DEF Billed

(***************************************************************************)
(* The steps, and the theorem.                                             *)
(***************************************************************************)
\* The mapping is the one of Metering's Ledger.
LEMMA Mapping ==
  /\ Ledger!Init <=> Spent = {} /\ Billed = [e \in Events |-> 0] /\ live = Paddocks
  /\ \A e : Ledger!Spend(e) <=> e \notin Spent /\ Spent' = Spent \cup {e} /\ UNCHANGED <<Billed, live>>
  /\ \A b : Ledger!Bill(b) <=>
        /\ \A e \in b : e \in Spent /\ Billed[e] = 0 /\ PaddockOf[e] \in live
        /\ Billed' = [e \in Events |-> IF e \in b THEN 1 ELSE Billed[e]]
        /\ UNCHANGED <<Spent, live>>
  /\ \A p : Ledger!Close(p) <=>
        /\ p \in live /\ live' = live \ {p}
        /\ Billed' = [e \in Events |-> IF PaddockOf[e] = p THEN 0 ELSE Billed[e]]
        /\ UNCHANGED Spent
  /\ UNCHANGED <<Spent, Billed, live>> => UNCHANGED Ledger!vars
BY DEF Ledger!Init, Ledger!Spend, Ledger!Bill, Ledger!Close, Ledger!vars, Spent, Billed, RowOf, Sum, Entries

\* Every step is one of the ledger's, or leaves it as it is.
LEMMA StepIsLedgers ==
  ASSUME Answered, IInv, Logged, IInv', Logged', [Next]_vars
  PROVE  [Ledger!Next]_(Ledger!vars)
<1>1. ASSUME NEW e \in Events, Admit(e) PROVE Ledger!Spend(e)
  <2>1. e \notin Spent /\ Spent' = Spent \cup {e}
    BY <1>1 DEF Admit, Spent, IInv, TypeOK
  <2>2. UNCHANGED <<Billed, live>>
    BY <1>1, SameRows DEF Admit, stream
  <2>3. QED
    BY <2>1, <2>2, Mapping
<1>2. ASSUME NEW e \in Events, Refuse(e) \/ Emit(e) \/ EmitLost(e) PROVE UNCHANGED <<Spent, Billed, live>>
  <2>1. Spent' = Spent /\ live' = live
    BY <1>2 DEF Refuse, Emit, EmitLost, Spent, IInv, TypeOK
  <2>2. Billed' = Billed
    BY <1>2, SameRows, EmitBillsNothing DEF Refuse, EmitLost, stream
  <2>3. QED
    BY <2>1, <2>2
<1>3. ASSUME NEW w \in Workers, pc[w] = "apply", CanCommit(w), Commit(w), UNCHANGED <<log, request, live>>
      PROVE  \E b \in SUBSET Events : Ledger!Bill(b)
  <2> DEFINE events == {log[i] : i \in batch[w]}
  <2>1. /\ events \in SUBSET Events
        /\ \A e \in events : e \in Spent /\ Billed[e] = 0 /\ PaddockOf[e] \in live
        /\ Billed' = [e \in Events |-> IF e \in events THEN 1 ELSE Billed[e]]
    BY <1>3, CommitBills
  <2>2. UNCHANGED <<Spent, live>>
    BY <1>3 DEF Spent
  <2> HIDE DEF events
  <2>3. Ledger!Bill(events)
    BY <2>1, <2>2, Mapping
  <2>4. QED
    BY <2>1, <2>3
<1>4. ASSUME NEW w \in Workers, Worker(w)
      PROVE  (\E b \in SUBSET Events : Ledger!Bill(b)) \/ UNCHANGED <<Spent, Billed, live>>
  <2>1. UNCHANGED <<log, request, live>>
    BY <1>4 DEF Worker, Boot, Read, ReadUnanswered, Apply, ApplyRefused, ApplyFails, Ack, AckFails,
                Crash, Deliver, NextCycle, stream
  <2>2. counted' = counted \/ (pc[w] = "apply" /\ CanCommit(w) /\ Commit(w))
    BY <1>4 DEF Worker, Boot, Read, ReadUnanswered, Apply, ApplyRefused, ApplyFails, Ack, AckFails, Crash
  <2>3. CASE counted' = counted
    BY <2>1, <2>3, SameRows DEF Spent
  <2>4. CASE pc[w] = "apply" /\ CanCommit(w) /\ Commit(w)
    BY <1>3, <2>1, <2>4
  <2>5. QED
    BY <2>2, <2>3, <2>4
<1>5. ASSUME NEW p \in Paddocks, DeletePaddock(p) PROVE Ledger!Close(p)
  <2>1. p \in live /\ live' = live \ {p} /\ Spent' = Spent
    BY <1>5 DEF DeletePaddock, Spent
  <2>2. QED
    BY <1>5, <2>1, DeletionCloses, Mapping
<1>6. ASSUME RedisRestart \/ UNCHANGED vars PROVE UNCHANGED <<Spent, Billed, live>>
  BY <1>6, SameRows DEF RedisRestart, Spent, vars
<1>7. ASSUME NEW e \in Events PROVE ~EmitUnanswered(e)
  BY DEF EmitUnanswered, Fault, Answered
<1>8. ASSUME Ledger!Next \/ UNCHANGED <<Spent, Billed, live>> PROVE [Ledger!Next]_(Ledger!vars)
  BY <1>8, Mapping
<1>9. Ledger!Next \/ UNCHANGED <<Spent, Billed, live>>
  BY <1>1, <1>2, <1>4, <1>5, <1>6, <1>7 DEF Next, DataPlane, Ledger!Next
<1>10. QED
  BY <1>8, <1>9

\* No event is in the stream twice while every XADD is answered.
THEOREM LoggedOnce == ASSUME Answered PROVE Spec => []Logged
<1>1. IInv /\ Logged /\ [Next]_vars => Logged'
  BY NextLogged
<1>2. QED
  BY <1>1, InitLogged, Invariance, PTL DEF Spec

\* The whole pipeline is the ledger it promises to be: an admitted event is billed at
\* most once, in one step with its batch, after it was spent, never to a paddock that
\* is gone, through crashes, failed and half-done calls, and a Redis that restarts.
THEOREM PipelineIsLedger == ASSUME Answered PROVE Spec => ImplementsLedger
<1>1. Init => Ledger!Init
  <2>1. ASSUME Init PROVE Ledger!Init
    <3>1. \A e \in Events : Billed[e] = 0
      BY <2>1, InitIInv, InitLogged, RowsByEntry DEF Init, Entries
    <3>2. Spent = {} /\ Billed = [e \in Events |-> 0] /\ live = Paddocks
      BY <2>1, <3>1 DEF Init, Spent, Billed
    <3>3. QED
      BY <3>2, Mapping
  <2>2. QED
    BY <2>1
<1>2. IInv /\ Logged /\ IInv' /\ Logged' /\ [Next]_vars => [Ledger!Next]_(Ledger!vars)
  BY StepIsLedgers
<1>3. QED
  BY <1>1, <1>2, Invariance, LoggedOnce, PTL DEF Spec, ImplementsLedger, Ledger!Spec
=============================================================================
