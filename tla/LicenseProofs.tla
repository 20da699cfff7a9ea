--------------------------- MODULE LicenseProofs ---------------------------
(***************************************************************************)
(* Proofs about License, for any licences and seats, any calls in flight,  *)
(* and any number of instances, outages and ticks.                         *)
(***************************************************************************)
EXTENDS License, TLAPS

(***************************************************************************)
(* The inductive invariant.  An instance is of one licence for good, also  *)
(* after it was given back.  The row and the copies of it that calls hold  *)
(* may pair one licence's key with another's instance, but their seats are *)
(* always those of the instance's licence, because both are written        *)
(* together.                                                               *)
(***************************************************************************)
Taken(i) == instances[i] # NoLicence
SeatsOfInstance(r) == Taken(r.instance) /\ r.seats = SeatsOf[instances[r.instance]]

RowStands ==
    Stored =>
        /\ SeatsOfInstance(entitled)
        /\ ~mixed \/ ~outrun => instances[entitled.instance] = entitled.key
        /\ ~outrun => entitled.grace = confirmed + Grace
        /\ ~mixed /\ entitled.status = "expired" => licence[entitled.key] = "expired"
        /\ entitled.status = "unknown" => misread

\* What a call has read and been answered, by where it is.
CallStands(s) ==
    /\ s.pc \notin {"idle", "key", "clear"} => s.key \in Licences
    /\ s.pc \in {"confirm", "save"} => s.instance \in Instances /\ instances[s.instance] = s.key
    /\ s.pc = "save" =>
          s.answer \in Answers /\ s.answer.status = "active" /\ s.answer.seats = SeatsOf[s.key]
    /\ s.pc = "release" => s.instance \in Instances
    /\ s.pc \in {"validate", "update"} => s.view \in Rows /\ SeatsOfInstance(s.view)
    /\ s.pc = "update" =>
          /\ s.answer \in Answers
          /\ s.answer.valid => /\ instances[s.view.instance] = s.key
                               /\ s.answer.status = "active" /\ s.answer.seats = SeatsOf[s.key]
          /\ s.answer.status = "expired" => licence[s.key] = "expired"

CallsStand == \A c \in Calls : CallStands(call[c])

IInv == TypeOK /\ RowStands /\ CallsStand

\* The invariant says what the runs check.
LEMMA IInvSeatsStand == ASSUME LicenseAssumption, IInv PROVE SeatsStand
<1>1. RowStands
  BY DEF IInv
<1>2. Stored => entitled \in Rows
  BY DEF IInv, TypeOK, Stored
<1>3. SeatsAreTheLicences
  BY <1>1 DEF RowStands, SeatsOfInstance, SeatsAreTheLicences
<1>4. OutagesCostNothing
  <2> SUFFICES ASSUME Stored, ~mixed, ~misread, licence[entitled.key] = "active"
               PROVE  SeatLimit = SeatsOf[entitled.key]
    BY DEF OutagesCostNothing
  <2>1. entitled.status = "active"
    BY <1>1, <1>2 DEF RowStands, Rows
  <2>2. QED
    BY <1>1, <2>1 DEF RowStands, SeatsOfInstance, SeatLimit
<1>5. GraceIsGiven
  BY <1>1 DEF RowStands, SeatsOfInstance, SeatLimit, GraceIsGiven, IInv, TypeOK, LicenseAssumption
<1>6. QED
  BY <1>3, <1>4, <1>5 DEF SeatsStand

LEMMA IdleStands ==
  ASSUME LicenseAssumption
  PROVE  Idle \in CallStates /\ CallStands(Idle)
BY DEF Idle, CallStates, CallStands

LEMMA InitIInv == ASSUME LicenseAssumption, Init PROVE IInv
<1> USE DEF Init
<1>1. TypeOK
  <2>1. 0 \in 0..MaxTime
    BY DEF LicenseAssumption
  <2>2. call \in [Calls -> CallStates]
    BY IdleStands
  <2>3. QED
    BY <2>1, <2>2 DEF TypeOK
<1>2. RowStands /\ CallsStand
  BY IdleStands DEF RowStands, Stored, CallsStand
<1>3. QED
  BY <1>1, <1>2 DEF IInv

----------------------------------------------------------------------------
(* Steps that move one call. *)

LEMMA CallMoves ==
  ASSUME LicenseAssumption, IInv,
         NEW c \in Calls, NEW x \in CallStates, CallStands(x), Goes(c, x),
         released' \subseteq Instances,
         UNCHANGED <<today, entitled, licence, instances, mixed, outrun, confirmed, misread>>
  PROVE  IInv'
<1>1. call'[c] = x /\ \A d \in Calls \ {c} : call'[d] = call[d]
  BY DEF Goes, IInv, TypeOK
<1>2. TypeOK'
  BY DEF IInv, TypeOK, Goes
<1>3. \A d \in Calls : CallStands(call'[d])
  BY <1>1 DEF IInv, CallsStand
<1>4. CallsStand'
  BY <1>3 DEF CallsStand, CallStands, SeatsOfInstance, Taken
<1>5. RowStands'
  BY DEF IInv, RowStands, Stored, SeatsOfInstance, Taken
<1>6. QED
  BY <1>2, <1>4, <1>5 DEF IInv

LEMMA ActivateIInv ==
  ASSUME LicenseAssumption, IInv, NEW c \in Calls, NEW k \in Licences, Activate(c, k)
  PROVE  IInv'
<1> DEFINE x == [Idle EXCEPT !.pc = "activate", !.at = today, !.key = k]
<1>1. x \in CallStates
  <2>1. today \in Nat
    BY DEF IInv, TypeOK, LicenseAssumption
  <2>2. QED
    BY <2>1 DEF Idle, CallStates
<1>2. CallStands(x)
  BY DEF Idle, CallStands
<1>3. Goes(c, x) /\ UNCHANGED <<today, entitled, licence, instances, released, mixed, outrun, confirmed, misread>>
  BY DEF Activate, Local, remote, history
<1>4. QED
  BY <1>1, <1>2, <1>3, CallMoves DEF IInv, TypeOK

\* A call ends, whatever it was at.
LEMMA EndsIInv ==
  ASSUME LicenseAssumption, IInv, NEW c \in Calls, Ends(c),
         UNCHANGED <<today, entitled, licence, instances, released, mixed, outrun, confirmed, misread>>
  PROVE  IInv'
BY IdleStands, CallMoves DEF IInv, TypeOK, Ends

LEMMA LsConfirmsIInv ==
  ASSUME LicenseAssumption, IInv, NEW c \in Calls, LsConfirms(c)
  PROVE  IInv'
<1> DEFINE answer == Answer(call[c].key, call[c].instance)
           x == [call[c] EXCEPT !.pc = "save", !.answer = answer]
<1>1. /\ call[c] \in CallStates /\ call[c].pc = "confirm" /\ CallStands(call[c])
      /\ UNCHANGED <<today, entitled, licence, instances, released, mixed, outrun, confirmed, misread>>
  BY DEF LsConfirms, Local, remote, history, IInv, TypeOK, CallsStand
<1>2. CASE answer.valid
  <2>1. Goes(c, x)
    BY <1>2 DEF LsConfirms
  <2>2. call[c].key \in Licences /\ answer \in Answers
    BY <1>1 DEF CallStands, Answer, InUse, Answers, LicenseAssumption, IInv, TypeOK
  <2>3. answer.status = "active" /\ answer.seats = SeatsOf[call[c].key]
    BY <1>2 DEF Answer
  <2>4. x \in CallStates
    BY <1>1, <2>2 DEF CallStates
  <2>5. CallStands(x)
    <3>1. /\ x.pc = "save" /\ x.key = call[c].key /\ x.instance = call[c].instance /\ x.answer = answer
      BY <1>1 DEF CallStates
    <3>2. QED
      BY <1>1, <2>2, <2>3, <3>1 DEF CallStands
  <2>6. QED
    BY <1>1, <2>1, <2>4, <2>5, CallMoves DEF IInv, TypeOK
<1>3. CASE ~answer.valid
  BY <1>1, <1>3, EndsIInv DEF LsConfirms
<1>4. QED
  BY <1>2, <1>3

LEMMA DeactivateReadViewIInv ==
  ASSUME LicenseAssumption, IInv, NEW c \in Calls, DeactivateReadView(c)
  PROVE  IInv'
<1> DEFINE x == [Idle EXCEPT !.pc = "key", !.instance = IF Stored THEN entitled.instance ELSE NoLicence]
<1>1. /\ Goes(c, x)
      /\ UNCHANGED <<today, entitled, licence, instances, released, mixed, outrun, confirmed, misread>>
  BY DEF DeactivateReadView, Local, remote, history
<1>2. Stored => entitled.instance \in Instances
  BY DEF IInv, TypeOK, Stored, Rows
<1>3. x \in CallStates /\ CallStands(x)
  BY <1>2 DEF Idle, CallStates, CallStands
<1>4. QED
  BY <1>1, <1>3, CallMoves DEF IInv, TypeOK

\* A call has nothing left to do but to clear the row.
LEMMA ClearingStands ==
  ASSUME LicenseAssumption
  PROVE  LET x == [Idle EXCEPT !.pc = "clear"] IN x \in CallStates /\ CallStands(x)
BY DEF Idle, CallStates, CallStands

LEMMA DeactivateReadKeyIInv ==
  ASSUME LicenseAssumption, IInv, NEW c \in Calls, DeactivateReadKey(c)
  PROVE  IInv'
<1> DEFINE x == [call[c] EXCEPT !.pc = "release", !.key = entitled.key]
<1>1. /\ call[c] \in CallStates
      /\ UNCHANGED <<today, entitled, licence, instances, released, mixed, outrun, confirmed, misread>>
  BY DEF DeactivateReadKey, Local, remote, history, IInv, TypeOK
<1>2. CASE Stored /\ call[c].instance # NoLicence
  <2>1. Goes(c, x) /\ entitled.key \in Licences
    BY <1>2 DEF DeactivateReadKey, IInv, TypeOK, Stored, Rows
  <2>2. call[c].instance \in Instances
    BY <1>1, <1>2 DEF CallStates
  <2>3. x \in CallStates /\ x.pc = "release" /\ x.key = entitled.key /\ x.instance = call[c].instance
    BY <1>1, <2>1 DEF CallStates
  <2>4. CallStands(x)
    BY <2>1, <2>2, <2>3 DEF CallStands
  <2>5. QED
    BY <1>1, <2>1, <2>3, <2>4, CallMoves DEF IInv, TypeOK
<1>3. CASE ~(Stored /\ call[c].instance # NoLicence)
  BY <1>1, <1>3, ClearingStands, CallMoves DEF DeactivateReadKey, IInv, TypeOK
<1>4. QED
  BY <1>2, <1>3

\* What is given back stays of its licence.
LEMMA ReleaseIInv ==
  ASSUME LicenseAssumption, IInv, NEW c \in Calls, Release(c)
  PROVE  IInv'
<1>1. Goes(c, [Idle EXCEPT !.pc = "clear"])
  BY DEF Release
<1>2. UNCHANGED <<today, entitled, licence, instances, mixed, outrun, confirmed, misread>>
  BY DEF Release, history
<1>3. released' \subseteq Instances
  BY DEF Release, InUse, IInv, TypeOK
<1>4. QED
  BY <1>1, <1>2, <1>3, ClearingStands, CallMoves

LEMMA ReadKeyIInv ==
  ASSUME LicenseAssumption, IInv, NEW c \in Calls, ReadKey(c)
  PROVE  IInv'
<1> DEFINE x == [Idle EXCEPT !.pc = "view", !.at = today, !.key = entitled.key]
<1>1. /\ Goes(c, x) /\ entitled \in Rows
      /\ UNCHANGED <<today, entitled, licence, instances, released, mixed, outrun, confirmed, misread>>
  BY DEF ReadKey, Local, remote, history, IInv, TypeOK, Stored
<1>2. entitled.key \in Licences /\ today \in Nat
  BY <1>1 DEF Rows, IInv, TypeOK, LicenseAssumption
<1>3. x \in CallStates /\ CallStands(x)
  BY <1>2 DEF Idle, CallStates, CallStands
<1>4. QED
  BY <1>1, <1>3, CallMoves DEF IInv, TypeOK

LEMMA ReadViewIInv ==
  ASSUME LicenseAssumption, IInv, NEW c \in Calls, ReadView(c)
  PROVE  IInv'
<1> DEFINE x == [call[c] EXCEPT !.pc = "validate", !.view = entitled]
<1>1. /\ call[c] \in CallStates /\ call[c].pc = "view" /\ CallStands(call[c])
      /\ UNCHANGED <<today, entitled, licence, instances, released, mixed, outrun, confirmed, misread>>
  BY DEF ReadView, Local, remote, history, IInv, TypeOK, CallsStand
<1>2. CASE Stored
  <2>1. Goes(c, x) /\ entitled \in Rows
    BY <1>2 DEF ReadView, IInv, TypeOK, Stored
  <2>2. x \in CallStates /\ x.pc = "validate" /\ x.key = call[c].key /\ x.view = entitled
    BY <1>1, <2>1 DEF CallStates
  <2>3. SeatsOfInstance(entitled)
    BY <1>2 DEF IInv, RowStands
  <2>4. CallStands(x)
    BY <1>1, <2>1, <2>2, <2>3 DEF CallStands
  <2>5. QED
    BY <1>1, <2>1, <2>2, <2>4, CallMoves DEF IInv, TypeOK
<1>3. CASE ~Stored
  BY <1>1, <1>3, EndsIInv DEF ReadView
<1>4. QED
  BY <1>2, <1>3

\* A re-validation that is answered: by Lemon Squeezy, or by an error taken for it.
LEMMA AnsweredIInv ==
  ASSUME LicenseAssumption, IInv, NEW c \in Calls, call[c].pc = "validate", NEW answer \in Answers,
         answer = Answer(call[c].key, call[c].view.instance) \/ (~answer.valid /\ answer.status = "unknown"),
         Goes(c, [call[c] EXCEPT !.pc = "update", !.answer = answer]),
         UNCHANGED <<today, entitled, licence, instances, released, mixed, outrun, confirmed, misread>>
  PROVE  IInv'
<1> DEFINE x == [call[c] EXCEPT !.pc = "update", !.answer = answer]
<1>1. call[c] \in CallStates /\ CallStands(call[c])
  BY DEF IInv, TypeOK, CallsStand
<1>2. /\ x \in CallStates /\ x.pc = "update" /\ x.key = call[c].key /\ x.view = call[c].view
      /\ x.answer = answer
  BY <1>1 DEF CallStates
<1>3. answer.valid => /\ instances[call[c].view.instance] = call[c].key
                      /\ answer.status = "active" /\ answer.seats = SeatsOf[call[c].key]
  <2> SUFFICES ASSUME answer.valid, answer = Answer(call[c].key, call[c].view.instance)
               PROVE  /\ instances[call[c].view.instance] = call[c].key
                      /\ answer.status = "active" /\ answer.seats = SeatsOf[call[c].key]
    OBVIOUS
  <2>1. licence[call[c].key] = "active" /\ InUse(call[c].key, call[c].view.instance)
    BY DEF Answer
  <2>2. answer.status = "active" /\ answer.seats = SeatsOf[call[c].key]
    BY <2>1 DEF Answer
  <2>3. QED
    BY <2>1, <2>2 DEF InUse
<1>4. answer.status = "expired" => licence[call[c].key] = "expired"
  BY DEF Answer
<1>5. CallStands(x)
  BY <1>1, <1>2, <1>3, <1>4 DEF CallStands
<1>6. QED
  BY <1>1, <1>2, <1>5, CallMoves DEF IInv, TypeOK

LEMMA LsValidatesIInv ==
  ASSUME LicenseAssumption, IInv, NEW c \in Calls, LsValidates(c) \/ LsErrs(c)
  PROVE  IInv'
<1>1. /\ call[c].pc = "validate"
      /\ UNCHANGED <<today, entitled, licence, instances, released, mixed, outrun, confirmed, misread>>
  BY DEF LsValidates, LsErrs, Local, remote, history
<1>2. CASE LsValidates(c)
  <2>1. call[c].key \in Licences
    BY <1>1 DEF IInv, CallsStand, CallStands
  <2>2. Answer(call[c].key, call[c].view.instance) \in Answers
    BY <2>1 DEF Answer, InUse, Answers, LicenseAssumption, IInv, TypeOK
  <2>3. QED
    BY <1>1, <1>2, <2>2, AnsweredIInv DEF LsValidates
<1>3. CASE LsErrs(c)
  <2>1. [valid |-> FALSE, status |-> "unknown", seats |-> BaseSeats] \in Answers
    BY DEF Answers, LicenseAssumption
  <2>2. QED
    BY <1>1, <1>3, <2>1, AnsweredIInv DEF LsErrs
<1>4. QED
  BY <1>2, <1>3

LEMMA LsUnansweredIInv ==
  ASSUME LicenseAssumption, IInv, NEW c \in Calls, LsUnanswered(c)
  PROVE  IInv'
BY EndsIInv DEF LsUnanswered, Unanswered, remote, history

----------------------------------------------------------------------------
(* Steps that take an instance. *)

\* What somebody holds is not the instance that is taken now.
LEMMA TakesIInv ==
  ASSUME LicenseAssumption, IInv, NEW c \in Calls, NEW i \in Instances, NEW k \in Licences,
         instances[i] = NoLicence, instances' = [instances EXCEPT ![i] = k],
         NEW x, Goes(c, x),
         \/ x = Idle
         \/ x = [call[c] EXCEPT !.pc = "confirm", !.instance = i] /\ call[c].key = k,
         UNCHANGED <<today, entitled, licence, released, mixed, outrun, confirmed, misread>>
  PROVE  IInv'
<1>1. /\ instances'[i] = k /\ k # NoLicence
      /\ \A j \in Instances \ {i} : instances'[j] = instances[j]
  BY DEF IInv, TypeOK, LicenseAssumption
<1>2. \A j \in Instances : Taken(j) => Taken(j)' /\ instances'[j] = instances[j]
  BY <1>1 DEF Taken
<1>3. call[c] \in CallStates
  BY DEF IInv, TypeOK
<1>4. x \in CallStates
  BY <1>3, IdleStands DEF CallStates
<1>5. call'[c] = x /\ \A d \in Calls \ {c} : call'[d] = call[d]
  BY DEF Goes, IInv, TypeOK
<1>6. TypeOK'
  <2>1. call' \in [Calls -> CallStates]
    BY <1>4 DEF Goes, IInv, TypeOK
  <2>2. instances' \in [Instances -> Licences \cup {NoLicence}]
    BY DEF IInv, TypeOK
  <2>3. QED
    BY <2>1, <2>2 DEF IInv, TypeOK
<1>7. ASSUME NEW s, CallStands(s) PROVE CallStands(s)'
  <2>1. s.pc \in {"confirm", "save"} => instances'[s.instance] = s.key
    <3>1. s.pc \in {"confirm", "save"} => s.instance \in Instances /\ Taken(s.instance)
      BY <1>7 DEF CallStands, Taken, LicenseAssumption
    <3>2. QED
      BY <1>2, <1>7, <3>1 DEF CallStands
  <2>2. s.view \in Rows => s.view.instance \in Instances
    BY DEF Rows
  <2>3. s.pc \in {"validate", "update"} =>
           SeatsOfInstance(s.view)' /\ instances'[s.view.instance] = instances[s.view.instance]
    BY <1>2, <1>7, <2>2 DEF CallStands, SeatsOfInstance
  <2>4. QED
    BY <1>7, <2>1, <2>3 DEF CallStands
<1>8. CallStands(x)'
  <2>1. CASE x = Idle
    BY <2>1 DEF Idle, CallStands
  <2>2. CASE x = [call[c] EXCEPT !.pc = "confirm", !.instance = i] /\ call[c].key = k
    <3>1. x.pc = "confirm" /\ x.instance = i /\ x.key = k
      BY <1>3, <2>2 DEF CallStates
    <3>2. QED
      BY <1>1, <3>1 DEF CallStands
  <2>3. QED
    BY <2>1, <2>2
<1>9. CallsStand'
  BY <1>5, <1>7, <1>8 DEF IInv, CallsStand, CallStands
<1>10. RowStands'
  <2>1. Stored => entitled.instance \in Instances
    BY DEF IInv, TypeOK, Stored, Rows
  <2>2. QED
    BY <1>2, <2>1 DEF IInv, RowStands, Stored, SeatsOfInstance
<1>11. QED
  BY <1>6, <1>9, <1>10 DEF IInv

LEMMA NewInstanceIsFree ==
  ASSUME NEW k, MayActivate(k)
  PROVE  NewInstance \in Instances /\ instances[NewInstance] = NoLicence
BY DEF MayActivate, NewInstance

LEMMA LsActivatesIInv ==
  ASSUME LicenseAssumption, IInv, NEW c \in Calls, LsActivates(c) \/ LsActivateUnanswered(c)
  PROVE  IInv'
<1>1. /\ call[c].key \in Licences
      /\ UNCHANGED <<today, entitled, licence, released, mixed, outrun, confirmed, misread>>
  BY DEF LsActivates, LsActivateUnanswered, history, IInv, CallsStand, CallStands
<1>2. CASE LsActivates(c)
  <2>1. CASE MayActivate(call[c].key)
    BY <1>1, <1>2, <2>1, NewInstanceIsFree, TakesIInv DEF LsActivates
  <2>2. CASE ~MayActivate(call[c].key)
    BY <1>1, <1>2, <2>2, EndsIInv DEF LsActivates
  <2>3. QED
    BY <2>1, <2>2
<1>3. CASE LsActivateUnanswered(c)
  <2>1. CASE UNCHANGED instances
    BY <1>1, <1>3, <2>1, EndsIInv DEF LsActivateUnanswered
  <2>2. CASE MayActivate(call[c].key) /\ instances' = [instances EXCEPT ![NewInstance] = call[c].key]
    BY <1>1, <1>3, <2>2, NewInstanceIsFree, TakesIInv DEF LsActivateUnanswered, Ends
  <2>3. QED
    BY <1>3, <2>1, <2>2 DEF LsActivateUnanswered
<1>4. QED
  BY <1>2, <1>3

----------------------------------------------------------------------------
(* Steps that write the row. *)

\* A write of the row ends its call, and leaves what the others hold as it was.
LEMMA RowWritten ==
  ASSUME LicenseAssumption, IInv, NEW c \in Calls, Ends(c),
         UNCHANGED <<today, licence, instances, released>>, RowStands',
         entitled' \in Rows \cup {NoLicence}, mixed' \in BOOLEAN, outrun' \in BOOLEAN,
         misread' \in BOOLEAN, confirmed' \in Nat
  PROVE  IInv'
<1>1. call'[c] = Idle /\ \A d \in Calls \ {c} : call'[d] = call[d]
  BY DEF Ends, Goes, IInv, TypeOK
<1>2. TypeOK'
  <2>1. call' \in [Calls -> CallStates]
    BY IdleStands DEF Ends, Goes, IInv, TypeOK
  <2>2. QED
    BY <2>1 DEF IInv, TypeOK
<1>3. \A d \in Calls : CallStands(call'[d])
  BY <1>1, IdleStands DEF IInv, CallsStand
<1>4. CallsStand'
  BY <1>3 DEF CallsStand, CallStands, SeatsOfInstance, Taken
<1>5. QED
  BY <1>2, <1>4 DEF IInv

LEMMA SaveEntitlementIInv ==
  ASSUME LicenseAssumption, IInv, NEW c \in Calls, SaveEntitlement(c)
  PROVE  IInv'
<1>1. /\ call[c] \in CallStates /\ CallStands(call[c]) /\ call[c].pc = "save" /\ Ends(c)
      /\ UNCHANGED <<today, licence, instances, released>>
      /\ mixed' = FALSE /\ outrun' = FALSE /\ misread' = FALSE /\ confirmed' = call[c].at
  BY DEF SaveEntitlement, remote, IInv, TypeOK, CallsStand
<1>2. /\ call[c].key \in Licences /\ call[c].instance \in Instances /\ call[c].at \in Nat
      /\ call[c].answer \in Answers /\ call[c].answer.status = "active"
      /\ call[c].answer.seats = SeatsOf[call[c].key]
      /\ Taken(call[c].instance) /\ instances[call[c].instance] = call[c].key
  BY <1>1 DEF CallStands, CallStates, Taken, LicenseAssumption
<1>3. entitled' = [key |-> call[c].key, instance |-> call[c].instance, status |-> call[c].answer.status,
                   seats |-> call[c].answer.seats, grace |-> call[c].at + Grace]
  BY DEF SaveEntitlement
<1>4. /\ entitled'.key = call[c].key /\ entitled'.instance = call[c].instance
      /\ entitled'.status = "active" /\ entitled'.seats = SeatsOf[call[c].key]
      /\ entitled'.grace = call[c].at + Grace
  BY <1>2, <1>3
<1>5. entitled' \in Rows
  BY <1>2, <1>3 DEF Rows, Answers, LicenseAssumption
<1>6. RowStands'
  BY <1>1, <1>2, <1>4 DEF RowStands, SeatsOfInstance, Taken
<1>7. QED
  BY <1>1, <1>2, <1>5, <1>6, RowWritten

LEMMA ClearEntitlementIInv ==
  ASSUME LicenseAssumption, IInv, NEW c \in Calls, ClearEntitlement(c)
  PROVE  IInv'
<1>1. /\ Ends(c) /\ UNCHANGED <<today, licence, instances, released, confirmed>> /\ entitled' = NoLicence
      /\ mixed' = FALSE /\ outrun' = FALSE /\ misread' = FALSE
  BY DEF ClearEntitlement, remote
<1>2. RowStands'
  BY <1>1 DEF RowStands, Stored
<1>3. QED
  BY <1>1, <1>2, RowWritten DEF IInv, TypeOK

\* The row keeps its key; instance, seats, grace and status are the view's or the
\* answer's, and what does not fit is recorded.
LEMMA UpdateValidationIInv ==
  ASSUME LicenseAssumption, IInv, NEW c \in Calls, UpdateValidation(c)
  PROVE  IInv'
<1> DEFINE answer == call[c].answer
           view == call[c].view
<1>1. /\ call[c] \in CallStates /\ CallStands(call[c]) /\ call[c].pc = "update" /\ Ends(c)
      /\ UNCHANGED <<today, licence, instances, released>>
  BY DEF UpdateValidation, remote, IInv, TypeOK, CallsStand
<1>2. CASE ~Stored
  BY <1>1, <1>2, EndsIInv DEF UpdateValidation
<1>3. CASE Stored
  <2>1. /\ entitled' = [entitled EXCEPT !.status = answer.status, !.seats = SeatsAfter(c),
                                        !.instance = view.instance, !.grace = GraceAfter(c)]
        /\ mixed' = (mixed \/ entitled.key # call[c].key \/ entitled.instance # view.instance)
        /\ outrun' = (outrun \/ entitled # view)
        /\ misread' = (~answer.valid /\ (misread \/ answer.status = "unknown"))
        /\ confirmed' = IF answer.valid THEN call[c].at ELSE confirmed
    BY <1>3 DEF UpdateValidation
  <2>2. /\ entitled \in Rows /\ view \in Rows /\ answer \in Answers /\ call[c].at \in Nat
        /\ call[c].key \in Licences
    BY <1>1, <1>3 DEF CallStands, CallStates, IInv, TypeOK, Stored
  <2>3. SeatsAfter(c) = SeatsOf[instances[view.instance]] /\ SeatsAfter(c) \in Nat /\ Taken(view.instance)
    BY <1>1, <2>2 DEF SeatsAfter, CallStands, SeatsOfInstance, Rows, Answers
  <2>4. GraceAfter(c) \in Nat
    BY <2>2 DEF GraceAfter, Rows, LicenseAssumption
  <2>5. /\ entitled' \in Rows
        /\ entitled'.key = entitled.key /\ entitled'.instance = view.instance
        /\ entitled'.status = answer.status /\ entitled'.seats = SeatsAfter(c)
        /\ entitled'.grace = GraceAfter(c)
    BY <2>1, <2>2, <2>3, <2>4 DEF Rows, Answers
  <2>6. RowStands
    BY DEF IInv
  <2>7. RowStands'
    <3>1. SeatsOfInstance(entitled)'
      BY <1>1, <2>3, <2>5 DEF SeatsOfInstance, Taken
    <3>2. ~mixed' => instances[view.instance] = entitled.key
      BY <1>3, <2>1, <2>6 DEF RowStands
    <3>3. ~outrun' => instances[view.instance] = entitled.key
      BY <1>3, <2>1, <2>6 DEF RowStands
    <3>4. ~outrun' => GraceAfter(c) = confirmed' + Grace
      BY <1>3, <2>1, <2>6 DEF RowStands, GraceAfter
    <3>5. ~mixed' /\ answer.status = "expired" => licence[entitled.key] = "expired"
      BY <1>1, <2>1 DEF CallStands
    <3>6. answer.status = "unknown" => misread'
      BY <1>1, <2>1 DEF CallStands
    <3>7. QED
      BY <1>1, <2>5, <3>1, <3>2, <3>3, <3>4, <3>5, <3>6 DEF RowStands
  <2>8. /\ mixed' \in BOOLEAN /\ outrun' \in BOOLEAN /\ misread' \in BOOLEAN
    BY <2>1 DEF IInv, TypeOK
  <2>9. confirmed' \in Nat
    BY <2>1, <2>2 DEF IInv, TypeOK
  <2>10. QED
    BY <1>1, <2>5, <2>7, <2>8, <2>9, RowWritten
<1>4. QED
  BY <1>2, <1>3

----------------------------------------------------------------------------
(* The world outside. *)

LEMMA ExpireIInv ==
  ASSUME LicenseAssumption, IInv, NEW k \in Licences, Expire(k)
  PROVE  IInv'
<1>1. /\ licence' = [licence EXCEPT ![k] = "expired"]
      /\ UNCHANGED <<today, entitled, instances, released, call, mixed, outrun, confirmed, misread>>
  BY DEF Expire
<1>2. \A j \in Licences : licence[j] = "expired" => licence'[j] = "expired"
  BY <1>1 DEF IInv, TypeOK
<1>3. TypeOK'
  BY <1>1 DEF IInv, TypeOK
<1>4. ASSUME NEW s, CallStands(s) PROVE CallStands(s)'
  BY <1>1, <1>2, <1>4 DEF CallStands, SeatsOfInstance, Taken
<1>5. CallsStand'
  BY <1>1, <1>4 DEF IInv, CallsStand
<1>6. RowStands'
  <2>1. Stored => entitled.key \in Licences
    BY DEF IInv, TypeOK, Stored, Rows
  <2>2. QED
    BY <1>1, <1>2, <2>1 DEF IInv, RowStands, Stored, SeatsOfInstance, Taken
<1>7. QED
  BY <1>3, <1>5, <1>6 DEF IInv

\* Steps that move nothing the invariant is about: a tick, a stutter.
LEMMA RestIInv ==
  ASSUME LicenseAssumption, IInv, today' \in 0..MaxTime,
         UNCHANGED <<entitled, licence, instances, released, call, mixed, outrun, confirmed, misread>>
  PROVE  IInv'
BY DEF IInv, TypeOK, RowStands, Stored, SeatsOfInstance, Taken, CallsStand, CallStands

LEMMA NextIInv ==
  ASSUME LicenseAssumption, IInv, [Next]_licenseVars
  PROVE  IInv'
<1>1. ASSUME NEW c \in Calls, NEW k \in Licences, Activate(c, k) PROVE IInv'
  BY <1>1, ActivateIInv
<1>2. ASSUME NEW c \in Calls,
             LsActivates(c) \/ LsActivateUnanswered(c) \/ LsConfirms(c) \/ SaveEntitlement(c)
      PROVE  IInv'
  BY <1>2, LsActivatesIInv, LsConfirmsIInv, SaveEntitlementIInv
<1>3. ASSUME NEW c \in Calls, DeactivateReadView(c) \/ DeactivateReadKey(c) \/ Release(c) \/ ClearEntitlement(c)
      PROVE  IInv'
  BY <1>3, DeactivateReadViewIInv, DeactivateReadKeyIInv, ReleaseIInv, ClearEntitlementIInv
<1>4. ASSUME NEW c \in Calls, Revalidating(c) \/ LsUnanswered(c) \/ LsErrs(c)
      PROVE  IInv'
  BY <1>4, ReadKeyIInv, ReadViewIInv, LsValidatesIInv, UpdateValidationIInv, LsUnansweredIInv
     DEF Revalidating
<1>5. ASSUME NEW k \in Licences, Expire(k) PROVE IInv'
  BY <1>5, ExpireIInv
<1>6. CASE Tick
  BY <1>6, RestIInv DEF Tick, remote, history, IInv, TypeOK, LicenseAssumption
<1>7. CASE UNCHANGED licenseVars
  BY <1>7, RestIInv DEF licenseVars, IInv, TypeOK
<1>8. QED
  BY <1>1, <1>2, <1>3, <1>4, <1>5, <1>6, <1>7 DEF Next

\* The inductive invariant holds throughout: the row, and every copy of it in flight,
\* has the seats of the licence its instance was taken for (license-service.ts).
THEOREM Invariance == ASSUME LicenseAssumption PROVE Spec => []IInv
<1>1. Init => IInv
  BY InitIInv
<1>2. IInv /\ [Next]_licenseVars => IInv'
  BY NextIInv
<1>3. QED
  BY <1>1, <1>2, PTL DEF Spec

\* What a licence bought is there (license-service.ts): its own seats and no other's, on an
\* instance of its own,
\* while Lemon Squeezy does not answer and for the grace after it last said valid, whatever
\* activations, deactivations and re-validations race for the row; but for the writes over
\* a newer row, and the errors taken for answers, that the histories record.
THEOREM LicenceSeatsStand == ASSUME LicenseAssumption PROVE Spec => []SeatsStand
<1>1. IInv => SeatsStand
  BY IInvSeatsStand
<1>2. QED
  BY <1>1, Invariance, PTL
=============================================================================
