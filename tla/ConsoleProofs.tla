--------------------------- MODULE ConsoleProofs ---------------------------
(***************************************************************************)
(* Proofs about what the console and the OP do for their users, of the run *)
(* that has them all, for any values of its constants: a paddock's fence,  *)
(* a console sign-in, the sign-in form's throttle; and, from the proofs of *)
(* their components, the consents and the licence.                         *)
(***************************************************************************)
EXTENDS MCConsole, Sequences, FiniteSetTheorems, TLAPS

(***************************************************************************)
(* The inductive invariant.  A fence is written once and then only         *)
(* updated: while there is none, no request has read one, and nothing was  *)
(* saved for it to forget.  A constraint that is not comfyui's has no      *)
(* templates.                                                              *)
(***************************************************************************)
Unfenced ==
    paddock # Null /\ fence = Null =>
        /\ serial = {} /\ limited = Null
        /\ \A e \in Edits : edit[e] # Null /\ edit[e].op # "paddock" => edit[e].row = Null

Kinds == fence # Null /\ fence.kind # "comfyui" => fence.templates = {}

FenceInv == Fencing!TypeOK /\ Unfenced /\ Kinds /\ Fencing!EditsAreKept

\* An edit of the fence is no edit of the paddock's row.
LEMMA EditKinds ==
  /\ \A x \in Fencing!FenceEdits : /\ x.op \in {"template", "untemplate", "constrain", "limit"}
                                   /\ x.breed \in Fencing!Breeds /\ x.row \in Fencing!FenceRows \cup {Null}
                                   /\ x.op \in {"template", "untemplate"} => x.arg \in Templates
                                   /\ x.op \in {"constrain", "limit"} => x.arg \in Limits \cup {Null}
  /\ \A x \in Fencing!PaddockEdits : x.op = "paddock" /\ x.arg \in Fencing!Statuses \cup {Null} /\ x.flock \in Kennels
BY DEF Fencing!FenceEdits, Fencing!PaddockEdits

LEMMA FenceInit == ASSUME Fencing!FencesAssumption, Fencing!Init PROVE FenceInv
<1>1. paddock \in Fencing!PaddockRows /\ paddock.status = "active" /\ asked \in Fencing!Statuses
  BY DEF Fencing!Init, Fencing!PaddockRows, Fencing!Statuses
<1>2. Fencing!TypeOK
  BY <1>1 DEF Fencing!Init, Fencing!TypeOK
<1>3. Unfenced /\ Kinds /\ Fencing!EditsAreKept
  BY <1>1 DEF Fencing!Init, Unfenced, Kinds, Fencing!EditsAreKept, Fencing!TemplatesAreKept,
       Fencing!LimitsAreKept, Fencing!StatusIsAsAsked, Fencing!ConstraintFitsBreed
<1>4. QED
  BY <1>2, <1>3 DEF FenceInv

\* A request that arrives or reads changes nothing that was saved.
LEMMA RequestMoves ==
  ASSUME Fencing!FencesAssumption, FenceInv, NEW e \in Edits,
         NEW x \in Fencing!FenceEdits \cup Fencing!PaddockEdits \cup {Null},
         edit' = [edit EXCEPT ![e] = x], x # Null /\ x.op # "paddock" => x.row \in {Null, fence},
         UNCHANGED <<breed, paddock, fence, Fencing!history>>
  PROVE  FenceInv'
<1>1. Fencing!TypeOK'
  BY DEF FenceInv, Fencing!TypeOK, Fencing!history
<1>2. Unfenced'
  BY DEF FenceInv, Fencing!TypeOK, Unfenced, Fencing!history
<1>3. Kinds' /\ Fencing!EditsAreKept'
  BY DEF FenceInv, Kinds, Fencing!history, Fencing!EditsAreKept, Fencing!TemplatesAreKept,
       Fencing!TemplatesOf, Fencing!LimitsAreKept, Fencing!StatusIsAsAsked,
         Fencing!ConstraintFitsBreed, Fencing!BreedNow
<1>4. QED
  BY <1>1, <1>2, <1>3 DEF FenceInv

LEMMA ReadBreedKeeps ==
  ASSUME Fencing!FencesAssumption, FenceInv, NEW e \in Edits, NEW op, NEW arg, Fencing!ReadBreed(e, op, arg),
         \/ op \in {"template", "untemplate"} /\ arg \in Templates
         \/ op \in {"constrain", "limit"} /\ arg \in Limits \cup {Null}
  PROVE  FenceInv'
<1> DEFINE x == [op |-> op, arg |-> arg, breed |-> Fencing!BreedNow, read |-> FALSE, row |-> Null]
<1>1. Fencing!BreedNow \in Fencing!Breeds
  BY DEF Fencing!ReadBreed, Fencing!BreedNow, Fencing!PaddockRows, FenceInv, Fencing!TypeOK
<1>2. x \in Fencing!FenceEdits /\ x.row = Null
  BY <1>1 DEF Fencing!FenceEdits
<1>3. QED
  BY <1>2, RequestMoves DEF Fencing!ReadBreed, Fencing!Arrive

LEMMA ReadPaddockKeeps ==
  ASSUME Fencing!FencesAssumption, FenceInv, NEW e \in Edits, NEW k \in Kennels,
         NEW s \in Fencing!Statuses \cup {Null},
         Fencing!ReadPaddock(e, k, s)
  PROVE  FenceInv'
<1> DEFINE x == [op |-> "paddock", arg |-> s, flock |-> k, was |-> paddock.status]
<1>1. x \in Fencing!PaddockEdits
  BY DEF Fencing!ReadPaddock, Fencing!PaddockEdits, Fencing!PaddockRows, FenceInv, Fencing!TypeOK
<1>2. QED
  BY <1>1, RequestMoves DEF Fencing!ReadPaddock, Fencing!Arrive

LEMMA ReadFenceKeeps ==
  ASSUME Fencing!FencesAssumption, FenceInv, NEW e \in Edits, Fencing!ReadFence(e)
  PROVE  FenceInv'
<1> DEFINE x == [edit[e] EXCEPT !.read = TRUE, !.row = fence]
<1>1. edit[e] \in Fencing!FenceEdits
  BY EditKinds DEF Fencing!ReadFence, FenceInv, Fencing!TypeOK
<1>2. x \in Fencing!FenceEdits /\ x.row = fence
  BY <1>1 DEF Fencing!FenceEdits, FenceInv, Fencing!TypeOK
<1>3. edit' = [edit EXCEPT ![e] = x]
  BY DEF Fencing!ReadFence
<1>4. QED
  BY <1>2, <1>3, RequestMoves DEF Fencing!ReadFence

\* A request that ends without a write.
LEMMA EndsKeeps ==
  ASSUME Fencing!FencesAssumption, FenceInv, NEW e \in Edits, Fencing!Done(e), UNCHANGED <<breed, paddock,
         fence, Fencing!history>>
  PROVE  FenceInv'
BY RequestMoves DEF Fencing!Done

\* What is left to show of a write of the fence.
LEMMA FenceWritten ==
  ASSUME Fencing!FencesAssumption, FenceInv, NEW e \in Edits, Fencing!Done(e), paddock # Null,
         UNCHANGED <<breed, paddock, asked>>,
         fence' \in Fencing!FenceRows, Kinds', Fencing!TemplatesAreKept', fence'.limits = limited',
         ~moved' => fence'.kind = Fencing!BreedNow,
         limited' \in Limits \cup {Null}, serial' \subseteq Templates,
         fenceOverlapped' \in BOOLEAN, moved' \in BOOLEAN
  PROVE  FenceInv'
<1>1. fence' # Null
  BY DEF Fencing!FencesAssumption
<1>2. Fencing!TypeOK'
  BY <1>1 DEF FenceInv, Fencing!TypeOK, Fencing!Done
<1>3. Unfenced'
  BY <1>1 DEF Unfenced
<1>4. Fencing!EditsAreKept'
  BY <1>1 DEF Fencing!EditsAreKept, Fencing!LimitsAreKept, Fencing!StatusIsAsAsked,
       Fencing!ConstraintFitsBreed, Fencing!BreedNow, FenceInv
<1>5. QED
  BY <1>2, <1>3, <1>4 DEF FenceInv

\* A template edit adds to the list it read, or takes from it; when that is the list
\* still there, the list that results is the next one.
LEMMA WriteTemplatesKeeps ==
  ASSUME Fencing!FencesAssumption, FenceInv, NEW e \in Edits, Fencing!WriteTemplates(e)
  PROVE  FenceInv'
<1> DEFINE read == edit[e].row
<1>1. edit[e] \in Fencing!FenceEdits /\ read \in Fencing!FenceRows \cup {Null} /\ edit[e].arg \in Templates
  BY EditKinds DEF Fencing!WriteTemplates, FenceInv, Fencing!TypeOK
<1>2. CASE paddock = Null
  BY <1>2, EndsKeeps DEF Fencing!WriteTemplates
<1>3. CASE paddock # Null
  <2>1. /\ Fencing!Done(e) /\ UNCHANGED <<breed, paddock, asked, limited>>
        /\ Fencing!Upsert("comfyui", Fencing!NextTemplates(e), Null, {"constraint"})
        /\ serial' = IF edit[e].op = "template" THEN serial \cup {edit[e].arg} ELSE serial \ {edit[e].arg}
        /\ fenceOverlapped' = (fenceOverlapped \/ Fencing!TemplatesOf(fence) # Fencing!TemplatesOf(read))
        /\ moved' = ("comfyui" # Fencing!BreedNow)
    BY <1>3 DEF Fencing!WriteTemplates, Fencing!Validated
  <2>2. Fencing!NextTemplates(e) \subseteq Templates
    BY <1>1 DEF Fencing!NextTemplates, Fencing!TemplatesOf, Fencing!FenceRows
  <2>3. CASE fence = Null
    <3>1. fence' = [kind |-> "comfyui", templates |-> Fencing!NextTemplates(e), limits |-> Null]
      BY <2>1, <2>3 DEF Fencing!Upsert
    <3>2. serial = {} /\ limited = Null /\ Fencing!TemplatesOf(read) = {}
      BY <1>1, <1>3, <2>3 DEF Fencing!WriteTemplates, FenceInv, Unfenced, Fencing!TemplatesOf
    <3>3. Fencing!TemplatesOf(fence') = serial'
      BY <2>1, <3>1, <3>2, Fencing!FencesAssumption, <2>2 DEF Fencing!TemplatesOf, Fencing!NextTemplates,
           Fencing!FencesAssumption, Fencing!FenceRows, Fencing!Breeds
    <3>4. fence' \in Fencing!FenceRows
      BY <3>1, <2>2 DEF Fencing!FenceRows, Fencing!Breeds
    <3>5. QED
      BY <1>1, <1>3, <2>1, <3>1, <3>2, <3>3, <3>4, FenceWritten
         DEF Kinds, Fencing!TemplatesAreKept, Fencing!TemplatesOf, FenceInv, Fencing!TypeOK
  <2>4. CASE fence # Null
    <3>1. fence \in Fencing!FenceRows
      BY <2>4 DEF FenceInv, Fencing!TypeOK
    <3>2. fence' = [kind |-> "comfyui", templates |-> Fencing!NextTemplates(e), limits |-> fence.limits]
      BY <2>1, <2>4 DEF Fencing!Upsert
    <3>3. fence.limits = limited
      BY <1>3, <2>4 DEF FenceInv, Fencing!EditsAreKept, Fencing!LimitsAreKept
    <3>4. fence' \in Fencing!FenceRows /\ fence'.kind = "comfyui" /\ fence'.limits = limited'
          /\ fence'.templates = Fencing!NextTemplates(e)
      BY <2>1, <2>2, <3>1, <3>2, <3>3 DEF Fencing!FenceRows, Fencing!Breeds
    <3>5. ~fenceOverlapped' => Fencing!NextTemplates(e) = serial'
      BY <2>1, <2>4 DEF Fencing!NextTemplates, FenceInv, Fencing!EditsAreKept, Fencing!TemplatesAreKept
    <3>6. Fencing!TemplatesAreKept'
      BY <3>4, <3>5 DEF Fencing!TemplatesAreKept, Fencing!TemplatesOf
    <3>7. QED
      BY <1>1, <1>3, <2>1, <3>4, <3>6, FenceWritten DEF Kinds, FenceInv, Fencing!TypeOK
  <2>5. QED
    BY <2>3, <2>4
<1>4. QED
  BY <1>2, <1>3

\* A save of the fence sets the limits, and the constraint only when it was given or
\* there is none.
LEMMA WriteFenceKeeps ==
  ASSUME Fencing!FencesAssumption, FenceInv, NEW e \in Edits, Fencing!WriteFence(e)
  PROVE  FenceInv'
<1> DEFINE read == edit[e].row
           anew == Fencing!GivenConstraint(e) \/ read = Null
<1>1. /\ edit[e] \in Fencing!FenceEdits /\ read \in Fencing!FenceRows \cup {Null} /\ edit[e].arg \in Limits \cup {Null}
      /\ edit[e].breed \in Fencing!Breeds
  BY EditKinds DEF Fencing!WriteFence, FenceInv, Fencing!TypeOK
<1>2. CASE paddock = Null
  BY <1>2, EndsKeeps DEF Fencing!WriteFence
<1>3. CASE paddock # Null
  <2>1. /\ Fencing!Done(e) /\ UNCHANGED <<breed, paddock, asked, fenceOverlapped>>
        /\ Fencing!Upsert(IF anew THEN edit[e].breed ELSE read.kind, Fencing!FenceTemplates(e), edit[e].arg, Fencing!FenceSets(e))
        /\ limited' = edit[e].arg
        /\ serial' = IF Fencing!GivenConstraint(e) THEN {} ELSE serial
        /\ IF Fencing!GivenConstraint(e) \/ fence = Null THEN moved' = (edit[e].breed # Fencing!BreedNow) ELSE UNCHANGED moved
    BY <1>3 DEF Fencing!WriteFence, Fencing!Validated
  <2>2. serial' \subseteq Templates /\ fenceOverlapped' \in BOOLEAN /\ moved' \in BOOLEAN
    BY <2>1 DEF FenceInv, Fencing!TypeOK
  <2>3. CASE fence = Null \/ Fencing!GivenConstraint(e)
    <3>1. anew /\ Fencing!FenceTemplates(e) = {}
      BY <1>1, <1>3, <2>3 DEF Fencing!WriteFence, FenceInv, Unfenced, Fencing!FenceTemplates
    <3>2. fence' = [kind |-> edit[e].breed, templates |-> {}, limits |-> edit[e].arg]
      BY <2>1, <2>3, <3>1 DEF Fencing!Upsert, Fencing!FenceSets
    <3>3. /\ fence' \in Fencing!FenceRows /\ fence'.kind = edit[e].breed /\ fence'.templates = {}
          /\ fence'.limits = edit[e].arg
      BY <1>1, <3>2 DEF Fencing!FenceRows
    <3>4. serial' = {}
      BY <1>3, <2>1, <2>3 DEF FenceInv, Unfenced
    <3>5. Fencing!TemplatesAreKept' /\ Kinds'
      BY <3>3, <3>4 DEF Fencing!TemplatesAreKept, Fencing!TemplatesOf, Kinds
    <3>6. QED
      BY <1>1, <1>3, <2>1, <2>2, <2>3, <3>3, <3>5, FenceWritten
  <2>4. CASE fence # Null /\ ~Fencing!GivenConstraint(e)
    <3>1. fence \in Fencing!FenceRows
      BY <2>4 DEF FenceInv, Fencing!TypeOK
    <3>2. fence' = [kind |-> fence.kind, templates |-> fence.templates, limits |-> edit[e].arg]
      BY <2>1, <2>4 DEF Fencing!Upsert, Fencing!FenceSets
    <3>3. /\ fence' \in Fencing!FenceRows /\ fence'.kind = fence.kind /\ fence'.templates = fence.templates
          /\ fence'.limits = edit[e].arg
      BY <1>1, <3>1, <3>2 DEF Fencing!FenceRows
    <3>4. Fencing!TemplatesAreKept' /\ Kinds'
      BY <2>1, <2>4, <3>3, Fencing!FencesAssumption
         DEF FenceInv, Fencing!EditsAreKept, Fencing!TemplatesAreKept, Fencing!TemplatesOf, Kinds, Fencing!FencesAssumption
    <3>5. ~moved' => fence'.kind = Fencing!BreedNow
      BY <1>3, <2>1, <2>4, <3>3 DEF FenceInv, Fencing!EditsAreKept, Fencing!ConstraintFitsBreed
    <3>6. QED
      BY <1>1, <1>3, <2>1, <2>2, <3>3, <3>4, <3>5, FenceWritten
  <2>5. QED
    BY <2>3, <2>4
<1>4. QED
  BY <1>2, <1>3

LEMMA WritePaddockKeeps ==
  ASSUME Fencing!FencesAssumption, FenceInv, NEW e \in Edits, Fencing!WritePaddock(e)
  PROVE  FenceInv'
<1>1. edit[e] \in Fencing!PaddockEdits /\ edit[e].arg \in Fencing!Statuses \cup {Null} /\ edit[e].flock \in Kennels
  BY EditKinds DEF Fencing!WritePaddock, FenceInv, Fencing!TypeOK
<1>2. CASE paddock = Null
  BY <1>2, EndsKeeps DEF Fencing!WritePaddock
<1>3. CASE paddock # Null
  <2>1. /\ Fencing!Done(e) /\ UNCHANGED <<breed, fence, limited, serial, fenceOverlapped>>
        /\ paddock' = [flock |-> edit[e].flock, status |-> Fencing!StatusSet(e)]
        /\ asked' = IF edit[e].arg = Null THEN asked ELSE edit[e].arg
        /\ moved' = (moved \/ breed[edit[e].flock] # Fencing!BreedNow)
    BY <1>3 DEF Fencing!WritePaddock
  <2>2. Fencing!StatusSet(e) = asked' /\ asked' \in Fencing!Statuses
    BY <1>1, <1>3, <2>1 DEF Fencing!StatusSet, FenceInv, Fencing!TypeOK, Fencing!EditsAreKept,
         Fencing!StatusIsAsAsked
  <2>3. paddock' \in Fencing!PaddockRows /\ paddock' # Null
    BY <1>1, <2>1, <2>2 DEF Fencing!PaddockRows, Fencing!FencesAssumption
  <2>4. edit' \in [Edits -> Fencing!FenceEdits \cup Fencing!PaddockEdits \cup {Null}]
    BY <2>1 DEF Fencing!Done, FenceInv, Fencing!TypeOK
  <2>5. Fencing!TypeOK'
    BY <2>1, <2>2, <2>3, <2>4 DEF FenceInv, Fencing!TypeOK
  <2>6. Unfenced' /\ Kinds'
    BY <1>3, <2>1 DEF FenceInv, Fencing!TypeOK, Unfenced, Kinds, Fencing!Done
  <2>7. Fencing!TemplatesAreKept' /\ Fencing!LimitsAreKept' /\ Fencing!StatusIsAsAsked'
    BY <1>3, <2>1, <2>2 DEF FenceInv, Fencing!EditsAreKept, Fencing!TemplatesAreKept, Fencing!TemplatesOf,
         Fencing!LimitsAreKept, Fencing!StatusIsAsAsked
  <2>8. Fencing!ConstraintFitsBreed'
    BY <1>3, <2>1 DEF FenceInv, Fencing!EditsAreKept, Fencing!ConstraintFitsBreed, Fencing!BreedNow
  <2>9. QED
    BY <2>5, <2>6, <2>7, <2>8 DEF FenceInv, Fencing!EditsAreKept
<1>4. QED
  BY <1>2, <1>3

LEMMA SingleKeeps ==
  ASSUME Fencing!FencesAssumption, FenceInv,
         \/ \E s \in Fencing!Statuses : Fencing!SetStatus(s)
         \/ \E k \in Kennels, to \in Fencing!Breeds : Fencing!ChangeBreed(k, to)
         \/ Fencing!DeletePaddock
  PROVE  FenceInv'
<1>1. ASSUME NEW s \in Fencing!Statuses, Fencing!SetStatus(s) PROVE FenceInv'
  <2>1. /\ UNCHANGED <<breed, fence, edit, limited, serial, fenceOverlapped, moved>>
        /\ paddock # Null /\ paddock' = [paddock EXCEPT !.status = s] /\ asked' = s
    BY <1>1 DEF Fencing!SetStatus
  <2>2. paddock' \in Fencing!PaddockRows /\ paddock'.flock = paddock.flock /\ paddock'.status = s
    BY <2>1 DEF Fencing!PaddockRows, FenceInv, Fencing!TypeOK
  <2>3. Fencing!TypeOK' 
    BY <2>1, <2>2 DEF FenceInv, Fencing!TypeOK, Fencing!FencesAssumption
  <2>4. Unfenced' /\ Kinds' /\ Fencing!EditsAreKept'
    BY <2>1, <2>2 DEF FenceInv, Unfenced, Kinds, Fencing!EditsAreKept, Fencing!TemplatesAreKept,
         Fencing!TemplatesOf, Fencing!LimitsAreKept,
       Fencing!StatusIsAsAsked, Fencing!ConstraintFitsBreed, Fencing!BreedNow
  <2>5. QED
    BY <2>3, <2>4 DEF FenceInv
<1>2. ASSUME NEW k \in Kennels, NEW to \in Fencing!Breeds, Fencing!ChangeBreed(k, to) PROVE FenceInv'
  <2>1. /\ UNCHANGED <<paddock, fence, edit, asked, limited, serial, fenceOverlapped>>
        /\ breed' = [breed EXCEPT ![k] = to]
        /\ moved' = (moved \/ (paddock # Null /\ paddock.flock = k))
    BY <1>2 DEF Fencing!ChangeBreed
  <2>2. Fencing!TypeOK' 
    BY <2>1 DEF FenceInv, Fencing!TypeOK
  <2>3. Unfenced' /\ Kinds' /\ Fencing!TemplatesAreKept' /\ Fencing!LimitsAreKept' /\ Fencing!StatusIsAsAsked'
    BY <2>1 DEF FenceInv, Unfenced, Kinds, Fencing!EditsAreKept, Fencing!TemplatesAreKept,
         Fencing!TemplatesOf, Fencing!LimitsAreKept,
       Fencing!StatusIsAsAsked
  <2>4. Fencing!ConstraintFitsBreed'
    <3>1. CASE paddock # Null /\ paddock.flock = k
      BY <2>1, <3>1 DEF Fencing!ConstraintFitsBreed
    <3>2. CASE paddock # Null /\ paddock.flock # k
      <4>1. breed'[paddock.flock] = breed[paddock.flock]
        BY <2>1, <3>2 DEF FenceInv, Fencing!TypeOK, Fencing!PaddockRows
      <4>2. QED
        BY <2>1, <3>2, <4>1 DEF FenceInv, Fencing!EditsAreKept, Fencing!ConstraintFitsBreed, Fencing!BreedNow
    <3>3. QED
      BY <2>1, <3>1, <3>2 DEF Fencing!ConstraintFitsBreed
  <2>5. QED
    BY <2>2, <2>3, <2>4 DEF FenceInv, Fencing!EditsAreKept
<1>3. ASSUME Fencing!DeletePaddock PROVE FenceInv'
  BY <1>3 DEF Fencing!DeletePaddock, Fencing!history, FenceInv, Fencing!TypeOK, Unfenced, Kinds,
       Fencing!EditsAreKept, Fencing!TemplatesAreKept, Fencing!LimitsAreKept,
       Fencing!StatusIsAsAsked, Fencing!ConstraintFitsBreed
<1>4. QED
  BY <1>1, <1>2, <1>3

LEMMA FenceNext ==
  ASSUME Fencing!FencesAssumption, FenceInv, [Fencing!Next]_fenceVars
  PROVE  FenceInv'
<1>1. ASSUME NEW e \in Edits, NEW t \in Templates, NEW op \in {"template", "untemplate"}, Fencing!ReadBreed(e, op, t)
      PROVE  FenceInv'
  BY <1>1, ReadBreedKeeps
<1>2. ASSUME NEW e \in Edits, NEW l \in Limits \cup {Null}, NEW op \in {"constrain", "limit"}, Fencing!ReadBreed(e, op, l)
      PROVE  FenceInv'
  BY <1>2, ReadBreedKeeps
<1>3. ASSUME NEW e \in Edits, NEW k \in Kennels, NEW s \in Fencing!Statuses \cup {Null}, Fencing!ReadPaddock(e, k, s)
      PROVE  FenceInv'
  BY <1>3, ReadPaddockKeeps
<1>4. ASSUME NEW e \in Edits, Fencing!ReadFence(e) \/ Fencing!WriteTemplates(e) \/ Fencing!WriteFence(e) \/ Fencing!WritePaddock(e)
      PROVE  FenceInv'
  BY <1>4, ReadFenceKeeps, WriteTemplatesKeeps, WriteFenceKeeps, WritePaddockKeeps
<1>5. CASE UNCHANGED fenceVars
  BY <1>5 DEF fenceVars, FenceInv, Fencing!TypeOK, Unfenced, Kinds, Fencing!EditsAreKept,
       Fencing!TemplatesAreKept, Fencing!TemplatesOf, Fencing!LimitsAreKept,
     Fencing!StatusIsAsAsked, Fencing!ConstraintFitsBreed, Fencing!BreedNow
<1>6. QED
  BY <1>1, <1>2, <1>3, <1>4, <1>5, SingleKeeps DEF Fencing!Next

(***************************************************************************)
(* What one edit of a paddock saved, another does not undo, however many   *)
(* are in flight: the templates are those added and not taken out, unless  *)
(* two edits of them overlapped; the limits and the status are the last    *)
(* asked for; and the constraint fits the flock's breed, unless that       *)
(* changed under it (writeTemplates, setFence, updatePaddock).             *)
(***************************************************************************)
THEOREM EditsAlwaysKept == ASSUME Fencing!FencesAssumption PROVE Fencing!Spec => []Fencing!EditsAreKept
<1>1. Fencing!Init => FenceInv
  BY FenceInit
<1>2. FenceInv /\ [Fencing!Next]_(Fencing!fenceVars) => FenceInv'
  BY FenceNext DEF fenceVars, Fencing!fenceVars
<1>3. FenceInv => Fencing!EditsAreKept
  BY DEF FenceInv
<1>4. QED
  BY <1>1, <1>2, <1>3, PTL DEF Fencing!Spec

\* A step of the run is one of the fence's, or leaves it alone.
LEMMA FenceInvariance == ASSUME Fencing!FencesAssumption PROVE AllSpec => []FenceInv
<1>1. AllInit => FenceInv
  BY FenceInit DEF AllInit, FencesAtRest
<1>2. FenceInv /\ [AllNext]_allVars => FenceInv'
  <2>1. [AllNext]_allVars => [Fencing!Next]_fenceVars
    BY DEF AllNext, allVars
  <2>2. QED
    BY <2>1, FenceNext
<1>3. QED
  BY <1>1, <1>2, PTL DEF AllSpec

\* The same of the run: no edit undoes what another saved (setFence, updatePaddock).
THEOREM EditsStayKept == ASSUME Fencing!FencesAssumption PROVE AllSpec => []EditsAreKept
<1>1. FenceInv => EditsAreKept
  BY DEF FenceInv, EditsAreKept
<1>2. QED
  BY <1>1, FenceInvariance, PTL

----------------------------------------------------------------------------
(***************************************************************************)
(* The inductive invariant: what each thing on the way to a session says   *)
(* of the one before it, and that a transaction has one callback at a time *)
(* and none after it signed in, unless two of them overlapped.             *)
(***************************************************************************)
Proved(n) == begun[n] # Nobody /\ (begun[n].hinted => begun[n].typed # Nobody)
Flying(h) == callback[h] # Nobody
Tx(h) == callback[h].code.tx

LinksStand == \A c \in links : Proved(c.tx) /\ begun[c.tx].browser = c.browser
SessionsStand == \A b \in Browsers : session[b] # Nobody => via[b] \in Console!Transactions /\ Proved(via[b])
OpSessionsStand == \A b \in Browsers : opSession[b] # Nobody => opSession[b].user \in since[b]
CookiesStand ==
    \A b \in Browsers : txCookie[b] # Nobody =>
        begun[txCookie[b]] # Nobody /\ begun[txCookie[b]].browser = b
CallbacksStand ==
    \A h \in Callbacks : Flying(h) =>
        /\ callback[h].browser = callback[h].code.browser
        /\ callback[h].user # Nobody =>
              /\ callback[h].done
              /\ callback[h].user \in since[callback[h].browser] \/ callback[h].browser \in late
Alone == \A n \in Console!Transactions \ signInOverlapped, g, h \in Callbacks :
            Flying(g) /\ Flying(h) /\ Tx(g) = n /\ Tx(h) = n => g = h
Over ==
    \A n \in signedIn :
        /\ begun[n] # Nobody
        /\ n \notin signInOverlapped =>
              /\ \A b \in Browsers : txCookie[b] # n
              /\ \A h \in Callbacks : Flying(h) => Tx(h) # n

SignInInv ==
    /\ Console!TypeOK
    /\ LinksStand /\ SessionsStand /\ OpSessionsStand /\ CookiesStand /\ CallbacksStand
    /\ Alone /\ Over /\ Console!SignsInOnce

\* The invariant says what the runs check.
LEMMA SignInInvSignIns == SignInInv => Console!SignInsAreAsBegun
BY DEF SignInInv, SessionsStand, Proved, Console!HintedIsTyped, Console!SignInsAreAsBegun

LEMMA SignInInit == ASSUME Console!SignInAssumption, Console!Init PROVE SignInInv
<1> USE DEF Console!Init
<1>1. Console!TypeOK
  BY DEF Console!TypeOK, Console!SignInAssumption
<1>2. LinksStand /\ SessionsStand /\ OpSessionsStand /\ CookiesStand /\ CallbacksStand
  BY DEF LinksStand, SessionsStand, OpSessionsStand, CookiesStand, CallbacksStand, Flying
<1>3. Alone /\ Over /\ Console!SignsInOnce
  BY DEF Alone, Over, Flying, Console!SignsInOnce
<1>4. QED
  BY <1>1, <1>2, <1>3 DEF SignInInv

----------------------------------------------------------------------------
\* The fields of what the state holds.
LEMMA Shapes ==
  ASSUME Console!TypeOK
  PROVE  /\ \A c \in links : c.tx \in Console!Transactions /\ c.user \in Users /\ c.browser \in Browsers
         /\ \A h \in Callbacks : Flying(h) =>
               /\ callback[h] \in Console!Handled /\ callback[h].browser \in Browsers
               /\ callback[h].code \in links /\ callback[h].code \in Console!Codes /\ Tx(h) \in Console!Transactions
               /\ callback[h].user \in Users \cup {Nobody} /\ callback[h].done \in BOOLEAN
         /\ \A n \in Console!Transactions : begun[n] # Nobody => begun[n] \in Console!Begins /\ begun[n].browser \in Browsers
BY DEF Console!TypeOK, Console!Codes, Console!Handled, Console!Begins, Flying, Tx

\* A transaction once begun stays with its browser, and a password typed for it was typed.
Keeps ==
    \A n \in Console!Transactions : begun[n] # Nobody =>
        /\ begun'[n] # Nobody /\ begun'[n].browser = begun[n].browser
        /\ begun'[n].hinted = begun[n].hinted
        /\ begun[n].typed # Nobody => begun'[n].typed # Nobody

LEMMA LoginKeeps ==
  ASSUME Console!SignInAssumption, SignInInv, NEW b \in Browsers, NEW hinted \in BOOLEAN, Console!Login(b,
         hinted)
  PROVE  SignInInv'
<1>0. USE DEF SignInInv
<1>1. PICK n \in Console!Transactions :
        /\ begun[n] = Nobody
        /\ begun' = [begun EXCEPT ![n] = [browser |-> b, hinted |-> hinted, typed |-> Nobody]]
        /\ txCookie' = [txCookie EXCEPT ![b] = n]
        /\ UNCHANGED <<active, session, opSession, signInCodes, links, callback, logouts, logins, events, Console!history>>
  BY DEF Console!Login, Console!Begun
<1>2. begun'[n] \in Console!Begins /\ begun'[n] # Nobody /\ begun'[n].browser = b
  BY <1>1 DEF Console!TypeOK, Console!Begins, Console!SignInAssumption
<1>3. \A m \in Console!Transactions : begun[m] # Nobody => begun'[m] = begun[m]
  BY <1>1 DEF Console!TypeOK
<1>4. Console!TypeOK'
  BY <1>1, <1>2 DEF Console!TypeOK, Console!history
<1>5. LinksStand' /\ SessionsStand'
  BY <1>1, <1>3, Shapes DEF LinksStand, SessionsStand, Proved, Console!history
<1>6. OpSessionsStand' /\ CallbacksStand' /\ Alone' /\ Console!SignsInOnce'
  BY <1>1 DEF OpSessionsStand, CallbacksStand, Alone, Flying, Tx, Console!SignsInOnce, Console!history
<1>7. CookiesStand'
  BY <1>1, <1>2, <1>3 DEF CookiesStand, Console!TypeOK
<1>8. Over'
  BY <1>1, <1>3 DEF Over, Console!TypeOK, Flying, Tx, Console!history
<1>9. QED
  BY <1>4, <1>5, <1>6, <1>7, <1>8

\* A code is issued for a transaction that needs no password or has one.
LEMMA IssueStands ==
  ASSUME Console!SignInAssumption, SignInInv, NEW b \in Browsers, NEW n \in Console!Transactions,
         NEW at \in Console!OpSessions,
         Console!Issue(b, n, at), begun[n] # Nobody, begun[n].browser = b, Keeps, Proved(n)',
         begun' \in [Console!Transactions -> Console!Begins \cup {Nobody}],
         UNCHANGED <<txCookie, session, callback, via, signedIn, twice, signInOverlapped, late>>,
         \A c \in Browsers : since[c] \subseteq since'[c]
  PROVE  LinksStand' /\ SessionsStand' /\ CookiesStand' /\ CallbacksStand' /\ Alone' /\ Over' /\ Console!SignsInOnce'
<1> DEFINE code == [tx |-> n, user |-> at.user, browser |-> b, serial |-> at.serial]
<1>0. USE DEF SignInInv
<1>1. links' = links \cup {code}
  BY DEF Console!Issue
<1>2. \A m \in Console!Transactions : Proved(m) => Proved(m)'
  BY DEF Proved, Keeps
<1>3. LinksStand'
  BY <1>1, <1>2, Shapes DEF LinksStand, Proved, Keeps
<1>4. SessionsStand'
  BY <1>2 DEF SessionsStand
<1>5. CookiesStand'
  BY DEF CookiesStand, Keeps, Console!TypeOK
<1>6. CallbacksStand'
  BY Shapes DEF CallbacksStand, Flying
<1>7. Alone' /\ Console!SignsInOnce'
  BY DEF Alone, Flying, Tx, Console!SignsInOnce
<1>8. Over'
  BY DEF Over, Flying, Tx, Keeps, Console!TypeOK
<1>9. QED
  BY <1>3, <1>4, <1>5, <1>6, <1>7, <1>8

LEMMA TypePasswordKeeps ==
  ASSUME Console!SignInAssumption, SignInInv, NEW b \in Browsers, NEW n \in Console!Transactions,
         NEW u \in Users,
         Console!TypePassword(b, n, u)
  PROVE  SignInInv'
<1> DEFINE kept == opSession[b] # Nobody /\ opSession[b].user = u
           at == IF kept THEN opSession[b] ELSE [user |-> u, serial |-> logins']
<1>0. USE DEF SignInInv
<1>1. /\ begun[n] # Nobody /\ begun[n].browser = b
      /\ logins < MaxLogins /\ logins' = logins + 1
      /\ opSession' = [opSession EXCEPT ![b] = at] /\ Console!Issue(b, n, at)
      /\ begun' = [begun EXCEPT ![n].typed = u]
      /\ since' = [since EXCEPT ![b] = @ \cup {u}]
      /\ UNCHANGED <<active, txCookie, session, callback, logouts, events, late, via, signedIn, twice, signInOverlapped>>
  BY DEF Console!TypePassword, Console!Begun, Console!cookies
<1>2. logins' \in 1..MaxLogins
  BY <1>1 DEF Console!TypeOK, Console!SignInAssumption
<1>3. at \in Console!OpSessions /\ at.user = u
  BY <1>2 DEF Console!TypeOK, Console!OpSessions
<1>4. begun[n] \in Console!Begins
  BY <1>1 DEF Console!TypeOK
<1>5. begun' = [begun EXCEPT ![n] = [begun[n] EXCEPT !.typed = u]]
  BY <1>1
<1>6. /\ [begun[n] EXCEPT !.typed = u] \in Console!Begins
      /\ [begun[n] EXCEPT !.typed = u].typed = u
      /\ [begun[n] EXCEPT !.typed = u].browser = begun[n].browser
      /\ [begun[n] EXCEPT !.typed = u].hinted = begun[n].hinted
  BY <1>4 DEF Console!Begins
<1>7. begun' \in [Console!Transactions -> Console!Begins \cup {Nobody}] /\ begun'[n] = [begun[n] EXCEPT !.typed = u]
      /\ \A m \in Console!Transactions \ {n} : begun'[m] = begun[m]
  BY <1>5, <1>6 DEF Console!TypeOK
<1>8. u # Nobody /\ begun'[n] # Nobody
  BY <1>6, <1>7 DEF Console!SignInAssumption
<1>9. Keeps /\ Proved(n)'
  BY <1>1, <1>6, <1>7, <1>8 DEF Keeps, Proved
<1>10. \A c \in Browsers : since[c] \subseteq since'[c]
  BY <1>1 DEF Console!TypeOK
<1>11. Console!TypeOK'
  <2>1. [tx |-> n, user |-> at.user, browser |-> b, serial |-> at.serial] \in Console!Codes
    BY <1>3 DEF Console!Codes, Console!OpSessions
  <2>2. signInCodes' \subseteq links' /\ links' \subseteq Console!Codes /\ links \subseteq links'
    BY <1>1, <2>1 DEF Console!Issue, Console!TypeOK
  <2>3. opSession' \in [Browsers -> Console!OpSessions \cup {Nobody}] /\ since' \in [Browsers -> SUBSET Users]
    BY <1>1, <1>3 DEF Console!TypeOK
  <2>4. logins' \in 0..MaxLogins
    BY <1>2
  <2>5. QED
    BY <1>1, <1>7, <2>2, <2>3, <2>4 DEF Console!TypeOK
<1>12. OpSessionsStand'
  BY <1>1, <1>3 DEF OpSessionsStand, Console!TypeOK
<1>13. QED
  BY <1>1, <1>3, <1>7, <1>9, <1>10, <1>11, <1>12, IssueStands

LEMMA AuthorizeKeeps ==
  ASSUME Console!SignInAssumption, SignInInv, NEW b \in Browsers, NEW n \in Console!Transactions,
         Console!Authorize(b, n)
  PROVE  SignInInv'
<1>0. USE DEF SignInInv
<1>1. /\ begun[n] # Nobody /\ begun[n].browser = b /\ ~begun[n].hinted
      /\ opSession[b] # Nobody /\ Console!Issue(b, n, opSession[b])
      /\ UNCHANGED <<active, txCookie, session, opSession, begun, callback, logouts, logins, events,
                     since, late, via, signedIn, twice, signInOverlapped>>
  BY DEF Console!Authorize, Console!Begun, Console!Prompts, Console!cookies, Console!history
<1>2. opSession[b] \in Console!OpSessions
  BY <1>1 DEF Console!TypeOK
<1>3. Keeps /\ Proved(n)' /\ begun' \in [Console!Transactions -> Console!Begins \cup {Nobody}]
  BY <1>1 DEF Keeps, Proved, Console!TypeOK
<1>4. Console!TypeOK'
  <2>1. [tx |-> n, user |-> opSession[b].user, browser |-> b, serial |-> opSession[b].serial] \in Console!Codes
    BY <1>2 DEF Console!Codes, Console!OpSessions
  <2>2. signInCodes' \subseteq links' /\ links' \subseteq Console!Codes /\ links \subseteq links'
    BY <1>1, <2>1 DEF Console!Issue, Console!TypeOK
  <2>3. QED
    BY <1>1, <2>2 DEF Console!TypeOK
<1>5. OpSessionsStand'
  BY <1>1 DEF OpSessionsStand
<1>6. QED
  BY <1>1, <1>2, <1>3, <1>4, <1>5, IssueStands

----------------------------------------------------------------------------
(* The callback. *)

\* The cookie it comes with is its browser's, and its transaction's last chance.
LEMMA ArriveKeeps ==
  ASSUME Console!SignInAssumption, SignInInv, NEW h \in Callbacks, NEW b \in Browsers, NEW code \in links,
         Console!Arrive(h, b, code)
  PROVE  SignInInv'
<1> DEFINE x == [browser |-> b, code |-> code, user |-> Nobody, done |-> FALSE]
           n == code.tx
<1>0. USE DEF SignInInv
<1>1. /\ callback[h] = Nobody /\ txCookie[b] = n
      /\ callback' = [callback EXCEPT ![h] = x]
      /\ signInOverlapped' = IF \E g \in Console!InFlight(b) : Tx(g) = n THEN signInOverlapped \cup {n} ELSE signInOverlapped
      /\ UNCHANGED <<active, txCookie, session, opSession, begun, signInCodes, links, logouts, logins, events,
                     since, late, via, signedIn, twice>>
  BY DEF Console!Arrive, Console!Held, Console!cookies, Tx
<1>2. code \in Console!Codes /\ n \in Console!Transactions /\ n # Nobody
  BY Shapes DEF Console!TypeOK, Console!SignInAssumption
<1>3. x \in Console!Handled
  BY <1>2 DEF Console!Handled
<1>4. callback'[h] = x /\ \A g \in Callbacks \ {h} : callback'[g] = callback[g]
  BY <1>1 DEF Console!TypeOK
<1>5. Console!TypeOK'
  <2>1. callback' \in [Callbacks -> Console!Handled \cup {Nobody}]
    BY <1>1, <1>3 DEF Console!TypeOK
  <2>2. \A g \in Callbacks : callback'[g] # Nobody => callback'[g].code \in links
    BY <1>4 DEF Console!TypeOK
  <2>3. QED
    BY <1>1, <1>2, <2>1, <2>2 DEF Console!TypeOK
<1>6. begun[n].browser = b /\ begun[n].browser = code.browser
  BY <1>1, <1>2 DEF CookiesStand, LinksStand
<1>7. LinksStand' /\ SessionsStand' /\ OpSessionsStand' /\ CookiesStand'
  BY <1>1 DEF LinksStand, SessionsStand, OpSessionsStand, CookiesStand, Proved
<1>8. CallbacksStand'
  BY <1>1, <1>4, <1>6 DEF CallbacksStand, Flying
<1>9. n \notin signInOverlapped' => /\ n \notin signInOverlapped
                                    /\ \A g \in Callbacks : Flying(g) => Tx(g) # n
  <2>1. SUFFICES ASSUME n \notin signInOverlapped', NEW g \in Callbacks, Flying(g), Tx(g) = n PROVE FALSE
    BY <1>1
  <2>2. callback[g].browser = b
    BY <1>6, <2>1, Shapes DEF CallbacksStand, LinksStand, Tx
  <2>3. QED
    BY <1>1, <2>1, <2>2 DEF Console!InFlight, Flying
<1>10. Alone'
  BY <1>1, <1>4, <1>9 DEF Alone, Flying, Tx
<1>11. Over'
  BY <1>1, <1>4, <1>9 DEF Over, Flying, Tx
<1>12. Console!SignsInOnce'
  BY <1>1 DEF Console!SignsInOnce
<1>13. QED
  BY <1>5, <1>7, <1>8, <1>10, <1>11, <1>12

\* A callback that goes on or ends, and a cookie that goes.
LEMMA CallbackMoves ==
  ASSUME Console!SignInAssumption, SignInInv, NEW h \in Callbacks, Flying(h),
         NEW x \in Console!Handled \cup {Nobody},
         callback' = [callback EXCEPT ![h] = x],
         x # Nobody => /\ x.code = callback[h].code /\ x.browser = callback[h].browser
                       /\ x.user # Nobody => x.done /\ (x.user \in since[x.browser] \/ x.browser \in late),
         signInCodes' \subseteq signInCodes,
         UNCHANGED <<active, txCookie, session, opSession, begun, links, logouts, logins, Console!history>>
  PROVE  SignInInv'
<1>0. USE DEF SignInInv
<1>1. callback'[h] = x /\ \A g \in Callbacks \ {h} : callback'[g] = callback[g]
  BY DEF Console!TypeOK
<1>2. Console!TypeOK'
  <2>1. callback' \in [Callbacks -> Console!Handled \cup {Nobody}]
    BY DEF Console!TypeOK
  <2>2. \A g \in Callbacks : callback'[g] # Nobody => callback'[g].code \in links
    BY <1>1 DEF Console!TypeOK, Flying
  <2>3. QED
    BY <2>1, <2>2 DEF Console!TypeOK, Console!history
<1>3. LinksStand' /\ SessionsStand' /\ OpSessionsStand' /\ CookiesStand' /\ Console!SignsInOnce'
  BY DEF LinksStand, SessionsStand, OpSessionsStand, CookiesStand, Proved, Console!SignsInOnce, Console!history
<1>4. CallbacksStand'
  BY <1>1 DEF CallbacksStand, Flying, Console!history
<1>5. Alone' /\ Over'
  BY <1>1 DEF Alone, Over, Flying, Tx, Console!history
<1>6. QED
  BY <1>2, <1>3, <1>4, <1>5

LEMMA ExchangeKeeps ==
  ASSUME Console!SignInAssumption, SignInInv, NEW h \in Callbacks, Console!Exchange(h)
  PROVE  SignInInv'
<1> DEFINE code == callback[h].code
           ok == /\ opSession[code.browser] = [user |-> code.user, serial |-> code.serial]
                 /\ code \in signInCodes /\ code.user \in active
           x == [callback[h] EXCEPT !.done = TRUE, !.user = IF ok THEN code.user ELSE Nobody]
<1>0. USE DEF SignInInv
<1>1. /\ Flying(h) /\ signInCodes' = signInCodes \ {code} /\ callback' = [callback EXCEPT ![h] = x]
      /\ UNCHANGED <<active, txCookie, session, opSession, begun, links, logouts, logins, events, Console!history>>
  BY DEF Console!Exchange, Flying, Console!cookies
<1>2. callback[h] \in Console!Handled /\ code \in Console!Codes /\ code \in links /\ callback[h].browser \in Browsers
  BY <1>1, Shapes
<1>3. /\ x \in Console!Handled /\ x.code = code /\ x.browser = callback[h].browser /\ x.done
      /\ x.user = IF ok THEN code.user ELSE Nobody
  BY <1>2 DEF Console!Handled, Console!Codes
<1>4. ok => code.user \in since[callback[h].browser]
  <2>1. SUFFICES ASSUME ok PROVE code.user \in since[callback[h].browser]
    OBVIOUS
  <2>2. [user |-> code.user, serial |-> code.serial] \in Console!OpSessions
    BY <1>2 DEF Console!Codes, Console!OpSessions
  <2>3. opSession[code.browser] # Nobody /\ opSession[code.browser].user = code.user
    BY <2>1, <2>2 DEF Console!SignInAssumption
  <2>4. callback[h].browser = code.browser
    BY <1>1 DEF CallbacksStand
  <2>5. QED
    BY <1>2, <2>3, <2>4 DEF OpSessionsStand
<1>5. QED
  BY <1>1, <1>3, <1>4, CallbackMoves

LEMMA ExchangeFailsKeeps ==
  ASSUME Console!SignInAssumption, SignInInv, NEW h \in Callbacks, Console!ExchangeFails(h)
  PROVE  SignInInv'
<1> DEFINE x == [callback[h] EXCEPT !.done = TRUE]
<1>0. USE DEF SignInInv
<1>1. /\ Flying(h) /\ signInCodes' \subseteq signInCodes /\ callback' = [callback EXCEPT ![h] = x]
      /\ UNCHANGED <<active, txCookie, session, opSession, begun, links, logouts, logins, Console!history>>
  BY DEF Console!ExchangeFails, Flying, Console!cookies
<1>2. callback[h] \in Console!Handled
  BY <1>1, Shapes
<1>3. /\ x \in Console!Handled /\ x.code = callback[h].code /\ x.browser = callback[h].browser /\ x.done
      /\ x.user = callback[h].user
  BY <1>2 DEF Console!Handled
<1>4. QED
  BY <1>1, <1>3, CallbackMoves DEF CallbacksStand

LEMMA AnswerLostKeeps ==
  ASSUME Console!SignInAssumption, SignInInv, NEW h \in Callbacks, Console!AnswerLost(h)
  PROVE  SignInInv'
BY CallbackMoves DEF Console!AnswerLost, Flying, Console!cookies

\* The answer takes the cookie, and a session it gives is its transaction's first, but for
\* those that overlapped.
LEMMA AnswerKeeps ==
  ASSUME Console!SignInAssumption, SignInInv, NEW h \in Callbacks, Console!Answer(h)
  PROVE  SignInInv'
<1> DEFINE b == callback[h].browser
           u == callback[h].user
           n == Tx(h)
<1>0. USE DEF SignInInv
<1>1. /\ Flying(h) /\ callback[h].done /\ txCookie' = [txCookie EXCEPT ![b] = Nobody]
      /\ callback' = [callback EXCEPT ![h] = Nobody]
      /\ UNCHANGED <<active, opSession, begun, signInCodes, links, logouts, logins, events, since, late, signInOverlapped>>
  BY DEF Console!Answer, Flying, Console!CookieTaken
<1>2. \/ UNCHANGED <<session, via, signedIn, twice>>
      \/ /\ u # Nobody /\ session' = [session EXCEPT ![b] = u] /\ via' = [via EXCEPT ![b] = n]
         /\ signedIn' = signedIn \cup {n}
         /\ twice' = IF n \in signedIn THEN twice \cup {n} ELSE twice
  BY DEF Console!Answer, Tx
<1>3. b \in Browsers /\ n \in Console!Transactions /\ u \in Users \cup {Nobody} /\ n # Nobody
  BY <1>1, Shapes DEF Console!SignInAssumption
<1>4. begun[n].browser = b /\ Proved(n)
  BY <1>1, Shapes DEF CallbacksStand, LinksStand, Tx
<1>5. callback'[h] = Nobody /\ \A g \in Callbacks \ {h} : callback'[g] = callback[g]
  BY <1>1 DEF Console!TypeOK
<1>6. txCookie'[b] = Nobody /\ \A c \in Browsers \ {b} : txCookie'[c] = txCookie[c]
  BY <1>1, <1>3 DEF Console!TypeOK
<1>7. Console!TypeOK'
  <2>1. callback' \in [Callbacks -> Console!Handled \cup {Nobody}] /\ txCookie' \in [Browsers -> Console!Transactions \cup {Nobody}]
    BY <1>1 DEF Console!TypeOK
  <2>2. \A g \in Callbacks : callback'[g] # Nobody => callback'[g].code \in links
    BY <1>5 DEF Console!TypeOK
  <2>3. /\ session' \in [Browsers -> Users \cup {Nobody}] /\ via' \in [Browsers -> Console!Transactions \cup {Nobody}]
        /\ signedIn' \subseteq Console!Transactions /\ twice' \subseteq Console!Transactions
    BY <1>2, <1>3 DEF Console!TypeOK
  <2>4. QED
    BY <1>1, <2>1, <2>2, <2>3 DEF Console!TypeOK
<1>8. LinksStand' /\ OpSessionsStand'
  BY <1>1 DEF LinksStand, OpSessionsStand, Proved
<1>9. SessionsStand'
  BY <1>1, <1>2, <1>3, <1>4 DEF SessionsStand, Proved, Console!TypeOK
<1>10. CookiesStand'
  BY <1>1, <1>6 DEF CookiesStand
<1>11. CallbacksStand' /\ Alone'
  BY <1>1, <1>5 DEF CallbacksStand, Alone, Flying, Tx
<1>12. n \notin signInOverlapped => /\ n \notin signedIn
                                    /\ \A c \in Browsers : txCookie'[c] # n
                                    /\ \A g \in Callbacks : Flying(g)' => Tx(g)' # n
  BY <1>1, <1>3, <1>4, <1>5, <1>6 DEF Over, Alone, CookiesStand, Flying, Tx
<1>13. Over'
  <2> SUFFICES ASSUME NEW m \in signedIn'
               PROVE  /\ begun[m] # Nobody
                      /\ m \notin signInOverlapped => /\ \A c \in Browsers : txCookie'[c] # m
                                                      /\ \A g \in Callbacks : Flying(g)' => Tx(g)' # m
    BY <1>1 DEF Over
  <2>1. CASE m = n
    BY <1>4, <1>12, <2>1 DEF Proved
  <2>2. CASE m # n
    <3>1. m \in signedIn /\ m # Nobody
      BY <1>2, <2>2 DEF Console!TypeOK, Console!SignInAssumption
    <3>2. QED
      BY <1>5, <1>6, <3>1 DEF Over, Flying, Tx
  <2>3. QED
    BY <2>1, <2>2
<1>14. Console!SignsInOnce'
  BY <1>1, <1>2, <1>12 DEF Console!SignsInOnce
<1>15. QED
  BY <1>7, <1>8, <1>9, <1>10, <1>11, <1>13, <1>14

----------------------------------------------------------------------------
(* Cookies and sessions that go. *)

\* What goes leaves no claim behind: a cookie, a console session, an OP session with who
\* typed a password for it.
LEMMA GoneKeeps ==
  ASSUME Console!SignInAssumption, SignInInv, NEW b \in Browsers,
         \/ txCookie' = [txCookie EXCEPT ![b] = Nobody] /\ UNCHANGED <<session, opSession, since, late>>
         \/ session' = [session EXCEPT ![b] = Nobody] /\ UNCHANGED <<txCookie, opSession, since, late>>
         \/ Console!OpSessionEnds(b) /\ UNCHANGED <<txCookie, session>>
         \/ UNCHANGED <<txCookie, session, opSession, since, late>>,
         active' \subseteq Users, logouts' \subseteq Browsers,
         UNCHANGED <<begun, signInCodes, links, callback, logins, via, signedIn, twice, signInOverlapped>>
  PROVE  SignInInv'
<1>0. USE DEF SignInInv
<1>1. \A c \in Browsers : txCookie'[c] \in {txCookie[c], Nobody} /\ session'[c] \in {session[c], Nobody}
  BY DEF Console!TypeOK
<1>2. Console!TypeOK'
  BY DEF Console!TypeOK, Console!OpSessionEnds
<1>3. LinksStand' /\ SessionsStand' /\ CookiesStand' /\ Alone' /\ Console!SignsInOnce'
  BY <1>1 DEF LinksStand, SessionsStand, CookiesStand, Alone, Console!SignsInOnce, Proved, Flying, Tx
<1>4. Over'
  BY <1>1 DEF Over, Flying, Tx, Console!TypeOK, Console!SignInAssumption
<1>5. CASE UNCHANGED <<opSession, since, late>>
  <2>1. OpSessionsStand' /\ CallbacksStand'
    BY <1>5 DEF OpSessionsStand, CallbacksStand, Flying
  <2>2. QED
    BY <1>2, <1>3, <1>4, <2>1
<1>6. CASE Console!OpSessionEnds(b)
  <2>1. OpSessionsStand'
    BY <1>6 DEF Console!OpSessionEnds, OpSessionsStand, Console!TypeOK
  <2>2. \A c \in Browsers \ {b} : since'[c] = since[c]
    BY <1>6 DEF Console!OpSessionEnds, Console!TypeOK
  <2>3. late \subseteq late' /\ \A h \in Callbacks : Flying(h) /\ callback[h].browser = b /\ callback[h].done => b \in late'
    BY <1>6 DEF Console!OpSessionEnds, Console!InFlight, Flying
  <2>4. CallbacksStand'
    BY <2>2, <2>3, Shapes DEF CallbacksStand, Flying
  <2>5. QED
    BY <1>2, <1>3, <1>4, <2>1, <2>4
<1>7. QED
  BY <1>5, <1>6

LEMMA BrowserKeeps ==
  ASSUME Console!SignInAssumption, SignInInv, NEW b \in Browsers
  PROVE  /\ Console!Mismatch(b) => SignInInv'
         /\ \A reachable \in BOOLEAN : Console!Logout(b, reachable) => SignInInv'
         /\ Console!EndSession(b) => SignInInv'
         /\ Console!Lapse(b) => SignInInv'
         /\ \A u \in Users : Console!SetStatus(u) => SignInInv'
<1>1. active \subseteq Users /\ logouts \subseteq Browsers
  BY DEF SignInInv, Console!TypeOK
<1>2. Console!Mismatch(b) => SignInInv'
  BY <1>1, GoneKeeps DEF Console!Mismatch, Console!CookieTaken, Console!history
<1>3. ASSUME NEW reachable \in BOOLEAN, Console!Logout(b, reachable) PROVE SignInInv'
  <2>1. logouts' \subseteq Browsers
    BY <1>1, <1>3 DEF Console!Logout
  <2>2. QED
    BY <1>1, <1>3, <2>1, GoneKeeps DEF Console!Logout, Console!history
<1>4. Console!EndSession(b) => SignInInv'
  BY <1>1, GoneKeeps DEF Console!EndSession, Console!cookies
<1>5. Console!Lapse(b) => SignInInv'
  BY <1>1, GoneKeeps DEF Console!Lapse, Console!cookies
<1>6. ASSUME NEW u \in Users, Console!SetStatus(u) PROVE SignInInv'
  <2>1. active' \subseteq Users
    BY <1>1, <1>6 DEF Console!SetStatus
  <2>2. QED
    BY <1>1, <1>6, <2>1, GoneKeeps DEF Console!SetStatus, Console!cookies, Console!history
<1>7. QED
  BY <1>2, <1>3, <1>4, <1>5, <1>6

LEMMA SignInNext ==
  ASSUME Console!SignInAssumption, SignInInv, [Console!Next]_signInVars
  PROVE  SignInInv'
<1>1. ASSUME NEW b \in Browsers, Console!AtOp(b) PROVE SignInInv'
  BY <1>1, AuthorizeKeeps, TypePasswordKeeps DEF Console!AtOp
<1>2. ASSUME NEW b \in Browsers, Console!AtConsole(b) PROVE SignInInv'
  BY <1>2, LoginKeeps, BrowserKeeps, ArriveKeeps DEF Console!AtConsole
<1>3. ASSUME NEW b \in Browsers, Console!EndSession(b) \/ Console!Lapse(b) PROVE SignInInv'
  BY <1>3, BrowserKeeps
<1>4. ASSUME NEW h \in Callbacks, Console!Handling(h) PROVE SignInInv'
  BY <1>4, ExchangeKeeps, ExchangeFailsKeeps, AnswerKeeps, AnswerLostKeeps DEF Console!Handling
<1>5. ASSUME NEW u \in Users, Console!SetStatus(u) PROVE SignInInv'
  BY <1>5, BrowserKeeps DEF Console!SignInAssumption
<1>6. CASE UNCHANGED signInVars
  <2>1. PICK b \in Browsers : TRUE
    BY DEF Console!SignInAssumption
  <2>2. active \subseteq Users /\ logouts \subseteq Browsers
    BY DEF SignInInv, Console!TypeOK
  <2>3. QED
    BY <1>6, <2>1, <2>2, GoneKeeps DEF signInVars
<1>7. QED
  BY <1>1, <1>2, <1>3, <1>4, <1>5, <1>6 DEF Console!Next

\* Only an answer gives a session, to the user its exchange vouched for.
LEMMA SignInProved ==
  ASSUME Console!SignInAssumption, SignInInv, [Console!Next]_signInVars, NEW b \in Browsers,
         session'[b] \notin {Nobody, session[b]}
  PROVE  session'[b] \in since[b] \/ b \in late
<1>1. ASSUME NEW h \in Callbacks, Console!Answer(h) PROVE session'[b] \in since[b] \/ b \in late
  <2>1. /\ Flying(h) /\ callback[h].user # Nobody
        /\ session' = [session EXCEPT ![callback[h].browser] = callback[h].user]
    BY <1>1 DEF Console!Answer, Flying
  <2>2. b = callback[h].browser /\ session'[b] = callback[h].user
    BY <2>1 DEF SignInInv, Console!TypeOK
  <2>3. QED
    BY <2>1, <2>2 DEF SignInInv, CallbacksStand
<1>2. ASSUME NEW c \in Browsers, Console!Lapse(c) \/ \E reachable \in BOOLEAN : Console!Logout(c, reachable)
      PROVE  FALSE
  BY <1>2 DEF Console!Lapse, Console!Logout, Console!cookies, SignInInv, Console!TypeOK
<1>3. ASSUME UNCHANGED session PROVE FALSE
  BY <1>3
<1>4. ASSUME NEW c \in Browsers, Console!AtOp(c) PROVE UNCHANGED session
  BY <1>4 DEF Console!AtOp, Console!Authorize, Console!TypePassword, Console!cookies
<1>5. ASSUME NEW c \in Browsers, Console!AtConsole(c) PROVE UNCHANGED session \/ \E reachable \in BOOLEAN : Console!Logout(c, reachable)
  BY <1>5 DEF Console!AtConsole, Console!Login, Console!Mismatch, Console!Arrive, Console!cookies
<1>6. ASSUME NEW c \in Browsers, Console!EndSession(c) PROVE UNCHANGED session
  BY <1>6 DEF Console!EndSession, Console!cookies
<1>7. ASSUME NEW h \in Callbacks, Console!Exchange(h) \/ Console!ExchangeFails(h) \/ Console!AnswerLost(h) PROVE UNCHANGED session
  BY <1>7 DEF Console!Exchange, Console!ExchangeFails, Console!AnswerLost, Console!cookies
<1>8. ASSUME NEW u \in Users, Console!SetStatus(u) PROVE UNCHANGED session
  BY <1>8 DEF Console!SetStatus, Console!cookies
<1>9. CASE UNCHANGED signInVars
  BY <1>3, <1>9 DEF signInVars
<1>10. QED
  BY <1>1, <1>2, <1>3, <1>4, <1>5, <1>6, <1>7, <1>8, <1>9 DEF Console!Next, Console!Handling

LEMMA SignInAlways == ASSUME Console!SignInAssumption PROVE Console!Spec => []SignInInv
<1>1. Console!Init => SignInInv
  BY SignInInit
<1>2. SignInInv /\ [Console!Next]_(Console!signInVars) => SignInInv'
  BY SignInNext DEF signInVars, Console!signInVars
<1>3. QED
  BY <1>1, <1>2, PTL DEF Console!Spec

(***************************************************************************)
(* A sign-in answers one login, as it was begun: an invite's is of the     *)
(* account whose password was typed for it, and a transaction signs in     *)
(* once, unless two callbacks had read its cookie before either was        *)
(* answered (takeTransactionCookie, handleCallback).                       *)
(***************************************************************************)
THEOREM OneSignInPerLogin ==
  ASSUME Console!SignInAssumption PROVE Console!Spec => []Console!SignInsAreAsBegun
<1>1. SignInInv => Console!SignInsAreAsBegun
  BY SignInInvSignIns
<1>2. QED
  BY <1>1, SignInAlways, PTL

(***************************************************************************)
(* A console session begins only for who typed a password in that browser  *)
(* since its OP session last ended, or whose callback was past its         *)
(* exchange by then (handleCallback).                                      *)
(***************************************************************************)
THEOREM PasswordsBeginSessions ==
  ASSUME Console!SignInAssumption PROVE Console!Spec => Console!SessionsAreProved
<1>1. SignInInv /\ [Console!Next]_(Console!signInVars) =>
        [\A b \in Browsers : session'[b] \notin {Nobody, session[b]} =>
            session'[b] \in since[b] \/ b \in late]_(Console!signInVars)
  BY SignInProved DEF signInVars, Console!signInVars
<1>2. QED
  BY <1>1, SignInAlways, PTL DEF Console!Spec, Console!SessionsAreProved

\* A step of the run is one of a sign-in's, or leaves it alone.
LEMMA SignInSteps == [AllNext]_allVars => [Console!Next]_signInVars
BY DEF AllNext, allVars

LEMMA SignInInvariance == ASSUME Console!SignInAssumption PROVE AllSpec => []SignInInv
<1>1. AllInit => SignInInv
  BY SignInInit DEF AllInit
<1>2. SignInInv /\ [AllNext]_allVars => SignInInv'
  BY SignInSteps, SignInNext
<1>3. QED
  BY <1>1, <1>2, PTL DEF AllSpec

\* The same of the run: a session's user typed a password there (handleCallback).
THEOREM SessionsFollowPasswords == ASSUME Console!SignInAssumption PROVE AllSpec => SessionsAreProved
<1>1. SignInInv /\ [AllNext]_allVars =>
        [\A b \in Browsers : session'[b] \notin {Nobody, session[b]} =>
            session'[b] \in since[b] \/ b \in late]_signInVars
  BY SignInSteps, SignInProved
<1>2. QED
  BY <1>1, SignInInvariance, PTL DEF AllSpec, SessionsAreProved, Console!SessionsAreProved, signInVars, Console!signInVars

----------------------------------------------------------------------------
(***************************************************************************)
(* The inductive invariant.  A guess that has begun is in the bucket's     *)
(* count or still being verified; one from after the bucket, which would   *)
(* have begun another had it been recorded, is being verified.  What the   *)
(* bucket counts was recorded within it.                                   *)
(***************************************************************************)
Trying(from, to) ==
    {f \in Forms : /\ form[f].pc = "verifying" /\ ~form[f].right
                   /\ from <= form[f].at /\ form[f].at < to}

CountedOrTrying ==
    bucket # NoBucket =>
        Cardinality(Throttle!Between(tried, bucket.resetAt - Window, bucket.resetAt))
            <= bucket.count + Cardinality(Trying(bucket.resetAt - Window, bucket.resetAt))
LaterAreTrying ==
    \A from, to \in Int : Throttle!Lapsed(from) =>
        Cardinality(Throttle!Between(tried, from, to)) <= Cardinality(Trying(from, to))
CountedAreNoted ==
    bucket # NoBucket =>
        bucket.count <= Cardinality(Throttle!Between(noted, bucket.resetAt - Window, clock + 1))

ThrottleInv == Throttle!TypeOK /\ CountedOrTrying /\ LaterAreTrying /\ CountedAreNoted /\ Throttle!GuessesAreFew

----------------------------------------------------------------------------
(* Counting. *)

LEMMA FewerWithin ==
  ASSUME NEW S, NEW T, IsFiniteSet(S), T \subseteq S
  PROVE  IsFiniteSet(T) /\ Cardinality(T) <= Cardinality(S) /\ Cardinality(T) \in Nat /\ Cardinality(S) \in Nat
BY FS_Subset, FS_CardinalityType

LEMMA OneAdded ==
  ASSUME NEW S, NEW x, x \notin S, IsFiniteSet(S)
  PROVE  IsFiniteSet(S \cup {x}) /\ Cardinality(S \cup {x}) = Cardinality(S) + 1 /\ Cardinality(S) \in Nat
BY FS_AddElement, FS_CardinalityType

\* The component's counting is this module's.
LEMMA SameCount ==
  \A S : Throttle!Cardinality(S) = Cardinality(S) /\ (Throttle!IsFiniteSet(S) <=> IsFiniteSet(S))
BY DEF Throttle!Cardinality, Cardinality, Throttle!IsFiniteSet, IsFiniteSet

LEMMA BetweenIsFinite ==
  ASSUME NEW s \in Seq(Nat), NEW from, NEW to
  PROVE  IsFiniteSet(Throttle!Between(s, from, to)) /\ Cardinality(Throttle!Between(s, from, to)) \in Nat
<1>1. DOMAIN s = 1..Len(s) /\ Len(s) \in Nat
  OBVIOUS
<1>2. IsFiniteSet(1..Len(s))
  BY <1>1, FS_Interval
<1>3. Throttle!Between(s, from, to) \subseteq 1..Len(s)
  BY <1>1 DEF Throttle!Between
<1>4. QED
  BY <1>2, <1>3, FewerWithin

\* A time noted is one more where it falls, and none elsewhere.
LEMMA BetweenAppended ==
  ASSUME NEW s \in Seq(Nat), NEW t \in Nat, NEW from \in Int, NEW to \in Int
  PROVE  Cardinality(Throttle!Between(Append(s, t), from, to)) =
             Cardinality(Throttle!Between(s, from, to)) + IF from <= t /\ t < to THEN 1 ELSE 0
<1> DEFINE n == Len(s) + 1
<1>1. /\ Len(s) \in Nat /\ DOMAIN s = 1..Len(s) /\ DOMAIN Append(s, t) = 1..n
      /\ Append(s, t)[n] = t /\ \A i \in 1..Len(s) : Append(s, t)[i] = s[i]
  OBVIOUS
<1>2. n \notin Throttle!Between(s, from, to)
  BY <1>1 DEF Throttle!Between
<1>3. IsFiniteSet(Throttle!Between(s, from, to)) /\ Cardinality(Throttle!Between(s, from, to)) \in Nat
  BY BetweenIsFinite
<1>4. CASE from <= t /\ t < to
  <2>1. Throttle!Between(Append(s, t), from, to) = Throttle!Between(s, from, to) \cup {n}
    BY <1>1, <1>4 DEF Throttle!Between
  <2>2. QED
    BY <1>2, <1>3, <1>4, <2>1, OneAdded
<1>5. CASE ~(from <= t /\ t < to)
  <2>1. Throttle!Between(Append(s, t), from, to) = Throttle!Between(s, from, to)
    BY <1>1, <1>5 DEF Throttle!Between
  <2>2. QED
    BY <1>3, <1>5, <2>1
<1>6. QED
  BY <1>4, <1>5

LEMMA TryingIsFinite ==
  ASSUME Throttle!LoginThrottleAssumption, NEW from, NEW to
  PROVE  /\ IsFiniteSet(Trying(from, to)) /\ Cardinality(Trying(from, to)) \in Nat
         /\ IsFiniteSet(Trying(from, to)') /\ Cardinality(Trying(from, to)') \in Nat
         /\ Cardinality(Trying(from, to)) <= Cardinality(Forms)
         /\ Cardinality(Trying(from, to)') <= Cardinality(Forms)
         /\ Cardinality(Forms) \in Nat
<1>1. Trying(from, to) \subseteq Forms /\ Trying(from, to)' \subseteq Forms
  BY DEF Trying
<1>2. QED
  BY <1>1, FewerWithin, SameCount DEF Throttle!LoginThrottleAssumption

LEMMA ThrottleInit == ASSUME Throttle!LoginThrottleAssumption, Throttle!Init PROVE ThrottleInv
<1> USE DEF Throttle!Init
<1>1. Throttle!TypeOK
  BY DEF Throttle!TypeOK, Throttle!LoginThrottleAssumption
<1>2. \A from, to : Throttle!Between(tried, from, to) = {}
  BY DEF Throttle!Between
<1>3. LaterAreTrying
  <2> SUFFICES ASSUME NEW from \in Int, NEW to \in Int
               PROVE  Cardinality(Throttle!Between(tried, from, to)) <= Cardinality(Trying(from, to))
    BY DEF LaterAreTrying
  <2>1. Cardinality(Throttle!Between(tried, from, to)) = 0
    BY <1>2, FS_EmptySet
  <2>2. Cardinality(Trying(from, to)) \in Nat
    BY TryingIsFinite
  <2>3. QED
    BY <2>1, <2>2
<1>4. CountedOrTrying /\ CountedAreNoted /\ Throttle!GuessesAreFew
  BY DEF CountedOrTrying, CountedAreNoted, Throttle!GuessesAreFew
<1>5. QED
  BY <1>1, <1>3, <1>4 DEF ThrottleInv

----------------------------------------------------------------------------
\* What is known of the bucket that is there.
LEMMA BucketShape ==
  ASSUME Throttle!LoginThrottleAssumption, Throttle!TypeOK, bucket # NoBucket
  PROVE  /\ bucket \in Throttle!Buckets /\ bucket.count \in Nat /\ bucket.resetAt \in Nat
         /\ bucket.resetAt - Window \in Nat /\ bucket.resetAt <= clock + Window
BY DEF Throttle!TypeOK, Throttle!Buckets, Throttle!LoginThrottleAssumption

\* A submission that passes adds a guess and a form that is trying it.
LEMMA SubmitKeeps ==
  ASSUME Throttle!LoginThrottleAssumption, ThrottleInv, NEW f \in Forms, NEW right \in BOOLEAN,
         Throttle!Submit(f, right)
  PROVE  ThrottleInv'
<1> DEFINE x == [pc |-> IF Throttle!Check(clock) THEN "verifying" ELSE "locked", at |-> clock, right |-> right]
           hit(from, to) == IF Throttle!Check(clock) /\ ~right /\ from <= clock /\ clock < to THEN 1 ELSE 0
<1>0. USE DEF ThrottleInv
<1>1. /\ form[f].pc # "verifying" /\ form' = [form EXCEPT ![f] = x]
      /\ tried' = IF Throttle!Check(clock) /\ ~right THEN Append(tried, clock) ELSE tried
      /\ UNCHANGED <<clock, bucket, noted>>
  BY DEF Throttle!Submit
<1>2. clock \in Nat /\ tried \in Seq(Nat) /\ noted \in Seq(Nat)
  BY DEF Throttle!TypeOK
<1>3. form'[f] = x /\ \A g \in Forms \ {f} : form'[g] = form[g]
  BY <1>1 DEF Throttle!TypeOK
<1>4. Throttle!TypeOK'
  <2>1. x \in [pc : {"shown", "verifying", "locked"}, at : Nat, right : BOOLEAN]
    BY <1>2
  <2>2. form' \in [Forms -> [pc : {"shown", "verifying", "locked"}, at : Nat, right : BOOLEAN]]
    BY <1>1, <2>1 DEF Throttle!TypeOK
  <2>3. tried' \in Seq(Nat)
    BY <1>1, <1>2
  <2>4. \A g \in Forms : form'[g].at <= clock
    BY <1>2, <1>3 DEF Throttle!TypeOK
  <2>5. QED
    BY <1>1, <2>2, <2>3, <2>4 DEF Throttle!TypeOK
<1>5. \A from, to \in Int :
         /\ Cardinality(Throttle!Between(tried, from, to)') = Cardinality(Throttle!Between(tried, from, to)) + hit(from, to)
         /\ Cardinality(Trying(from, to)') = Cardinality(Trying(from, to)) + hit(from, to)
  <2> TAKE from, to \in Int
  <2>1. Cardinality(Throttle!Between(tried, from, to)') = Cardinality(Throttle!Between(tried, from, to)) + hit(from, to)
    <3>1. CASE Throttle!Check(clock) /\ ~right
      <4>1. Throttle!Between(tried, from, to)' = Throttle!Between(Append(tried, clock), from, to)
        BY <1>1, <3>1 DEF Throttle!Between
      <4>2. QED
        BY <1>2, <3>1, <4>1, BetweenAppended
    <3>2. CASE ~(Throttle!Check(clock) /\ ~right)
      <4>1. Throttle!Between(tried, from, to)' = Throttle!Between(tried, from, to)
        BY <1>1, <3>2 DEF Throttle!Between
      <4>2. QED
        BY <1>2, <3>2, <4>1, BetweenIsFinite
    <3>3. QED
      BY <3>1, <3>2
  <2>2. Cardinality(Trying(from, to)') = Cardinality(Trying(from, to)) + hit(from, to)
    <3>1. f \notin Trying(from, to)
      BY <1>1 DEF Trying
    <3>2. CASE Throttle!Check(clock) /\ ~right /\ from <= clock /\ clock < to
      <4>1. Trying(from, to)' = Trying(from, to) \cup {f}
        BY <1>3, <3>2 DEF Trying
      <4>2. QED
        BY <3>1, <3>2, <4>1, OneAdded, TryingIsFinite
    <3>3. CASE ~(Throttle!Check(clock) /\ ~right /\ from <= clock /\ clock < to)
      <4>1. Trying(from, to)' = Trying(from, to)
        BY <1>3, <3>1, <3>3 DEF Trying
      <4>2. QED
        BY <3>3, <4>1, TryingIsFinite
    <3>4. QED
      BY <3>2, <3>3
  <2>3. QED
    BY <2>1, <2>2
<1>6. \A from, to \in Int : hit(from, to) \in Nat /\ Cardinality(Throttle!Between(tried, from, to)) \in Nat
                            /\ Cardinality(Trying(from, to)) \in Nat
  BY <1>2, BetweenIsFinite, TryingIsFinite
<1>7. LaterAreTrying'
  <2> SUFFICES ASSUME NEW from \in Int, NEW to \in Int, Throttle!Lapsed(from)
               PROVE  Cardinality(Throttle!Between(tried, from, to)') <= Cardinality(Trying(from, to)')
    BY <1>1 DEF LaterAreTrying, Throttle!Lapsed, Throttle!Between
  <2>1. Cardinality(Throttle!Between(tried, from, to)) <= Cardinality(Trying(from, to))
    BY DEF LaterAreTrying
  <2>2. /\ Cardinality(Throttle!Between(tried, from, to)') = Cardinality(Throttle!Between(tried, from, to)) + hit(from, to)
        /\ Cardinality(Trying(from, to)') = Cardinality(Trying(from, to)) + hit(from, to)
    BY <1>5
  <2>3. /\ Cardinality(Throttle!Between(tried, from, to)) \in Nat /\ Cardinality(Trying(from, to)) \in Nat
        /\ hit(from, to) \in Nat
    BY <1>6
  <2> HIDE DEF hit
  <2>4. QED
    BY <2>1, <2>2, <2>3
<1>8. CASE bucket = NoBucket
  <2>1. Throttle!Check(clock)
    BY <1>8 DEF Throttle!Check, Throttle!BelowMax, Throttle!Lapsed
  <2>2. \A g \in Forms : form'[g].pc = "locked" => form'[g] = form[g]
    BY <1>3, <2>1
  <2>3. CountedOrTrying' /\ CountedAreNoted' /\ Throttle!GuessesAreFew'
    BY <1>1, <1>8, <2>2 DEF CountedOrTrying, CountedAreNoted, Throttle!GuessesAreFew
  <2>4. QED
    BY <1>4, <1>7, <2>3
<1>9. CASE bucket # NoBucket
  <2>0. /\ bucket.resetAt - Window \in Int /\ bucket.resetAt \in Int /\ bucket.count \in Nat
        /\ bucket' = bucket
    BY <1>1, <1>9, BucketShape DEF ThrottleInv
  <2> PICK from \in Int, to \in Int : from = bucket.resetAt - Window /\ to = bucket.resetAt
    BY <2>0
  <2>1. /\ from \in Int /\ to \in Int /\ bucket.count \in Nat
        /\ from = bucket.resetAt - Window /\ to = bucket.resetAt
    BY <2>0
  <2>2. /\ Cardinality(Throttle!Between(tried, from, to)') = Cardinality(Throttle!Between(tried, from, to)) + hit(from, to)
        /\ Cardinality(Trying(from, to)') = Cardinality(Trying(from, to)) + hit(from, to)
        /\ Cardinality(Throttle!Between(tried, from, to)) \in Nat /\ Cardinality(Trying(from, to)) \in Nat
        /\ hit(from, to) \in Nat
    BY <1>5, <1>6, <2>1
  <2>3. Cardinality(Throttle!Between(tried, from, to)) <= bucket.count + Cardinality(Trying(from, to))
    BY <1>9, <2>1 DEF CountedOrTrying
  <2>4. Cardinality(Throttle!Between(tried, from, to)') <= bucket.count + Cardinality(Trying(from, to)')
    BY <2>1, <2>2, <2>3
  <2>5. CountedOrTrying'
    BY <1>1, <2>1, <2>4 DEF CountedOrTrying, Throttle!Between, Trying
  <2>6. CountedAreNoted'
    BY <1>1 DEF CountedAreNoted, Throttle!Between
  <2>7. Cardinality(Throttle!Between(tried, from, to)') < MaxFailures + Cardinality(Forms)
    <3>1. CASE hit(from, to) = 1
      <4>1. Throttle!Check(clock) /\ ~Throttle!Lapsed(clock)
        BY <1>9, <2>1, <1>2, <3>1 DEF Throttle!Lapsed
      <4>2. bucket.count < MaxFailures
        BY <4>1 DEF Throttle!Check, Throttle!BelowMax
      <4>3. Cardinality(Trying(from, to)') <= Cardinality(Forms) /\ Cardinality(Forms) \in Nat
        BY TryingIsFinite
      <4>4. QED
        BY <2>1, <2>2, <2>4, <4>2, <4>3 DEF Throttle!LoginThrottleAssumption
    <3>2. CASE hit(from, to) = 0
      BY <1>9, <2>1, <2>2, <3>2, SameCount DEF Throttle!GuessesAreFew
    <3>3. QED
      BY <3>1, <3>2
  <2>8. ASSUME NEW g \in Forms, form'[g].pc = "locked"
        PROVE  Cardinality(Throttle!Between(noted, form'[g].at - Window + 1, form'[g].at + 1)) >= MaxFailures
    <3>1. CASE g # f
      BY <1>3, <2>8, <3>1, SameCount DEF Throttle!GuessesAreFew
    <3>2. CASE g = f
      <4>1. ~Throttle!Check(clock) /\ form'[g].at = clock
        BY <1>3, <2>8, <3>2
      <4>2. clock < bucket.resetAt /\ bucket.count >= MaxFailures
        BY <1>2, <1>9, <2>1, <4>1 DEF Throttle!Check, Throttle!BelowMax, Throttle!Lapsed,
             Throttle!LoginThrottleAssumption
      <4>3. Throttle!Between(noted, from, clock + 1) \subseteq Throttle!Between(noted, clock - Window + 1, clock + 1)
        <5>1. Window \in Nat
          BY <1>2, <2>1, <4>2 DEF Throttle!LoginThrottleAssumption
        <5>2. \A t \in Nat : from <= t => clock - Window + 1 <= t
          BY <1>2, <2>1, <4>2, <5>1
        <5>3. \A i \in DOMAIN noted : noted[i] \in Nat
          BY <1>2
        <5>4. QED
          BY <5>2, <5>3 DEF Throttle!Between
      <4>4. /\ Cardinality(Throttle!Between(noted, from, clock + 1)) <= Cardinality(Throttle!Between(noted, clock - Window + 1, clock + 1))
            /\ Cardinality(Throttle!Between(noted, from, clock + 1)) \in Nat
            /\ Cardinality(Throttle!Between(noted, clock - Window + 1, clock + 1)) \in Nat
        BY <1>2, <4>3, FewerWithin, BetweenIsFinite
      <4>5. bucket.count <= Cardinality(Throttle!Between(noted, from, clock + 1))
        BY <1>9, <2>1 DEF CountedAreNoted
      <4>6. QED
        BY <2>1, <4>1, <4>2, <4>4, <4>5 DEF Throttle!LoginThrottleAssumption
    <3>3. QED
      BY <3>1, <3>2
  <2>9. Throttle!GuessesAreFew'
    BY <1>1, <2>1, <2>7, <2>8, SameCount DEF Throttle!GuessesAreFew, Throttle!Between
  <2>10. QED
    BY <1>4, <1>7, <2>5, <2>6, <2>9
<1>10. QED
  BY <1>8, <1>9

\* A failure recorded goes from the forms to the count, of this bucket or of a new one.
LEMMA VerifiedKeeps ==
  ASSUME Throttle!LoginThrottleAssumption, ThrottleInv, NEW f \in Forms, Throttle!Verified(f)
  PROVE  ThrottleInv'
<1> DEFINE at == form[f].at
<1>0. USE DEF ThrottleInv
<1>1. /\ form[f].pc = "verifying" /\ form' = [form EXCEPT ![f].pc = "shown"]
      /\ bucket' = IF form[f].right THEN bucket ELSE Throttle!Recorded(at)
      /\ noted' = IF form[f].right THEN noted ELSE Append(noted, clock)
      /\ UNCHANGED <<clock, tried>>
  BY DEF Throttle!Verified, Throttle!Record
<1>2. clock \in Nat /\ tried \in Seq(Nat) /\ noted \in Seq(Nat) /\ at \in Nat /\ at <= clock
  BY DEF Throttle!TypeOK
<1>3. /\ form'[f].pc = "shown" /\ form'[f].at = at /\ form'[f].right = form[f].right
      /\ \A g \in Forms \ {f} : form'[g] = form[g]
      /\ form' \in [Forms -> [pc : {"shown", "verifying", "locked"}, at : Nat, right : BOOLEAN]]
  BY <1>1 DEF Throttle!TypeOK
<1>4. \A from, to : Throttle!Between(tried, from, to)' = Throttle!Between(tried, from, to)
  BY <1>1 DEF Throttle!Between
<1>5. \A g \in Forms : form'[g].pc = "locked" => g # f /\ form'[g] = form[g]
  BY <1>3
<1>6. CASE form[f].right
  <2>1. \A from, to : Trying(from, to)' = Trying(from, to)
    BY <1>3, <1>6 DEF Trying
  <2>2. UNCHANGED <<clock, bucket, tried, noted>>
    BY <1>1, <1>6
  <2>3. Throttle!TypeOK'
    BY <1>2, <1>3, <2>2 DEF Throttle!TypeOK
  <2>4. CountedOrTrying' /\ LaterAreTrying' /\ CountedAreNoted' /\ Throttle!GuessesAreFew'
    BY <1>5, <2>1, <2>2 DEF CountedOrTrying, LaterAreTrying, CountedAreNoted, Throttle!GuessesAreFew,
         Throttle!Lapsed, Throttle!Between
  <2>5. QED
    BY <2>3, <2>4
<1>7. CASE ~form[f].right
  <2>1. bucket' = Throttle!Recorded(at) /\ noted' = Append(noted, clock) /\ noted' \in Seq(Nat)
    BY <1>1, <1>2, <1>7
  <2>2. /\ bucket' \in Throttle!Buckets /\ bucket' # NoBucket
        /\ Window <= bucket'.resetAt /\ bucket'.resetAt <= clock + Window
        /\ Throttle!Lapsed(at) => bucket'.resetAt = at + Window /\ bucket'.count = 1
        /\ ~Throttle!Lapsed(at) => /\ bucket # NoBucket /\ bucket'.resetAt = bucket.resetAt
                                   /\ bucket'.count = bucket.count + 1 /\ at < bucket.resetAt
        /\ bucket'.resetAt \in Nat /\ bucket'.resetAt - Window \in Int /\ bucket'.count \in Nat
    <3>1. CASE Throttle!Lapsed(at)
      BY <1>2, <2>1, <3>1 DEF Throttle!Recorded, Throttle!Buckets, Throttle!LoginThrottleAssumption
    <3>2. CASE ~Throttle!Lapsed(at)
      <4>1. bucket # NoBucket /\ at < bucket.resetAt /\ bucket \in Throttle!Buckets
        BY <1>2, <3>2, BucketShape DEF Throttle!Lapsed
      <4>2. bucket' = [bucket EXCEPT !.count = bucket.count + 1]
        BY <2>1, <3>2 DEF Throttle!Recorded
      <4>3. bucket' \in Throttle!Buckets /\ bucket'.resetAt = bucket.resetAt /\ bucket'.count = bucket.count + 1
        BY <4>1, <4>2 DEF Throttle!Buckets
      <4>4. QED
        BY <3>2, <4>1, <4>3 DEF Throttle!TypeOK, Throttle!Buckets, Throttle!LoginThrottleAssumption
    <3>3. QED
      BY <3>1, <3>2
  <2>3. Throttle!TypeOK'
    BY <1>1, <1>2, <1>3, <2>1, <2>2 DEF Throttle!TypeOK
  <2>4. \A from, to \in Int :
           /\ Trying(from, to)' = Trying(from, to) \ {f}
           /\ f \in Trying(from, to) <=> from <= at /\ at < to
    BY <1>1, <1>3, <1>7 DEF Trying
  <2>5. \A from, to \in Int :
           Cardinality(Trying(from, to)) = Cardinality(Trying(from, to)') + IF from <= at /\ at < to THEN 1 ELSE 0
    <3> TAKE from, to \in Int
    <3>1. f \in Trying(from, to) => Trying(from, to) = Trying(from, to)' \cup {f} /\ f \notin Trying(from, to)'
      BY <2>4
    <3>2. CASE from <= at /\ at < to
      BY <2>4, <3>1, <3>2, OneAdded, TryingIsFinite
    <3>3. CASE ~(from <= at /\ at < to)
      <4>1. Trying(from, to)' = Trying(from, to)
        BY <2>4, <3>3
      <4>2. QED
        BY <3>3, <4>1, TryingIsFinite
    <3>4. QED
      BY <3>2, <3>3
  <2>6. \A from, to \in Int : Cardinality(Trying(from, to)) \in Nat /\ Cardinality(Trying(from, to)') \in Nat
                              /\ Cardinality(Throttle!Between(tried, from, to)) \in Nat
    BY <1>2, TryingIsFinite, BetweenIsFinite
  <2>7. LaterAreTrying'
    <3> SUFFICES ASSUME NEW from \in Int, NEW to \in Int, bucket'.resetAt <= from
                 PROVE  Cardinality(Throttle!Between(tried, from, to)) <= Cardinality(Trying(from, to)')
      BY <1>4, <2>2 DEF LaterAreTrying, Throttle!Lapsed
    <3>1. at < from
      <4>1. Window \in Nat \ {0}
        BY DEF Throttle!LoginThrottleAssumption
      <4>2. at < bucket'.resetAt /\ bucket'.resetAt \in Nat
        BY <1>2, <2>2, <4>1
      <4>3. QED
        BY <1>2, <4>2
    <3>2. Throttle!Lapsed(from)
      <4>1. CASE Throttle!Lapsed(at)
        BY <1>2, <3>1, <4>1, BucketShape DEF Throttle!Lapsed
      <4>2. CASE ~Throttle!Lapsed(at)
        BY <2>2, <4>2 DEF Throttle!Lapsed
      <4>3. QED
        BY <4>1, <4>2
    <3>3. Cardinality(Throttle!Between(tried, from, to)) <= Cardinality(Trying(from, to))
      BY <3>2 DEF LaterAreTrying
    <3>4. Cardinality(Trying(from, to)) = Cardinality(Trying(from, to)')
      <4>1. ~(from <= at /\ at < to)
        BY <1>2, <3>1
      <4>2. QED
        BY <2>4, <4>1
    <3>5. QED
      BY <3>3, <3>4
  <2> PICK start \in Int, end \in Int : start = bucket'.resetAt - Window /\ end = bucket'.resetAt
    BY <2>2
  <2>8. /\ Cardinality(Throttle!Between(tried, start, end)) <= bucket'.count + Cardinality(Trying(start, end)')
        /\ Cardinality(Throttle!Between(tried, start, end)) < MaxFailures + Cardinality(Forms)
    <3>1. CASE Throttle!Lapsed(at)
      <4>1. start = at /\ start \in Int /\ end \in Int /\ at < end /\ bucket'.count = 1
        BY <1>2, <2>2, <3>1 DEF Throttle!LoginThrottleAssumption
      <4>2. Cardinality(Throttle!Between(tried, start, end)) <= Cardinality(Trying(start, end))
        BY <3>1, <4>1 DEF LaterAreTrying
      <4>3. Cardinality(Trying(start, end)) = Cardinality(Trying(start, end)') + 1
        BY <1>2, <2>5, <4>1
      <4>4. Cardinality(Trying(start, end)) <= Cardinality(Forms) /\ Cardinality(Forms) \in Nat
        BY TryingIsFinite
      <4>5. QED
        <5>1. /\ Cardinality(Trying(start, end)) \in Nat /\ Cardinality(Trying(start, end)') \in Nat
              /\ Cardinality(Throttle!Between(tried, start, end)) \in Nat
          BY <2>6
        <5>2. MaxFailures \in Nat \ {0}
          BY DEF Throttle!LoginThrottleAssumption
        <5>3. QED
          BY <5>1, <5>2, <4>1, <4>2, <4>3, <4>4
    <3>2. CASE ~Throttle!Lapsed(at)
      <4>1. /\ bucket # NoBucket /\ end = bucket.resetAt /\ start = bucket.resetAt - Window
            /\ bucket'.count = bucket.count + 1 /\ bucket.count \in Nat /\ start \in Int /\ end \in Int
        BY <2>2, <3>2, BucketShape
      <4>2. Cardinality(Throttle!Between(tried, start, end)) <= bucket.count + Cardinality(Trying(start, end))
        BY <4>1 DEF CountedOrTrying
      <4>3. Cardinality(Trying(start, end)) <= Cardinality(Trying(start, end)') + 1
        <5>1. /\ Cardinality(Trying(start, end)) = Cardinality(Trying(start, end)') + IF start <= at /\ at < end THEN 1 ELSE 0
              /\ Cardinality(Trying(start, end)') \in Nat
          BY <2>5, <2>6
        <5>2. QED
          BY <5>1
      <4>4. Cardinality(Throttle!Between(tried, start, end)) < MaxFailures + Cardinality(Forms)
        BY <4>1, SameCount DEF Throttle!GuessesAreFew
      <4>5. QED
        <5>1. /\ Cardinality(Trying(start, end)) \in Nat /\ Cardinality(Trying(start, end)') \in Nat
              /\ Cardinality(Throttle!Between(tried, start, end)) \in Nat
          BY <2>6
        <5>2. QED
          BY <5>1, <4>1, <4>2, <4>3, <4>4
    <3>3. QED
      BY <3>1, <3>2
  <2>9. CountedOrTrying'
    BY <1>4, <2>8 DEF CountedOrTrying, Trying
  <2>10. \A from, to \in Int : Cardinality(Throttle!Between(noted, from, to)') =
                                 Cardinality(Throttle!Between(noted, from, to)) + IF from <= clock /\ clock < to THEN 1 ELSE 0
    <3>1. \A from, to \in Int : Throttle!Between(noted, from, to)' = Throttle!Between(Append(noted, clock), from, to)
      BY <2>1 DEF Throttle!Between
    <3>2. QED
      <4> TAKE from, to \in Int
      <4>1. Cardinality(Throttle!Between(Append(noted, clock), from, to)) =
               Cardinality(Throttle!Between(noted, from, to)) + IF from <= clock /\ clock < to THEN 1 ELSE 0
        BY <1>2, BetweenAppended
      <4>2. QED
        BY <3>1, <4>1
  <2>11. \A from, to \in Int : Cardinality(Throttle!Between(noted, from, to)) \in Nat
    BY <1>2, BetweenIsFinite
  <2>12. bucket'.count <= Cardinality(Throttle!Between(noted, start, clock + 1)')
    <3>1. start \in Int /\ clock + 1 \in Int /\ start <= clock
      BY <1>2, <2>2 DEF Throttle!LoginThrottleAssumption
    <3>2. Cardinality(Throttle!Between(noted, start, clock + 1)') = Cardinality(Throttle!Between(noted, start, clock + 1)) + 1
      <4>1. Cardinality(Throttle!Between(noted, start, clock + 1)') =
               Cardinality(Throttle!Between(noted, start, clock + 1)) + IF start <= clock /\ clock < clock + 1 THEN 1 ELSE 0
        BY <1>1, <2>10, <3>1
      <4>2. QED
        BY <1>2, <3>1, <4>1
    <3>0. Cardinality(Throttle!Between(noted, start, clock + 1)) \in Nat
      BY <2>11, <3>1
    <3>3. CASE Throttle!Lapsed(at)
      BY <2>2, <3>0, <3>2, <3>3
    <3>4. CASE ~Throttle!Lapsed(at)
      <4>1. bucket # NoBucket /\ start = bucket.resetAt - Window /\ bucket'.count = bucket.count + 1 /\ bucket.count \in Nat
        BY <2>2, <3>4, BucketShape
      <4>2. bucket.count <= Cardinality(Throttle!Between(noted, start, clock + 1))
        BY <4>1 DEF CountedAreNoted
      <4>3. QED
        BY <3>0, <3>2, <4>1, <4>2
    <3>5. QED
      BY <3>3, <3>4
  <2>13. CountedAreNoted'
    BY <1>1, <2>12 DEF CountedAreNoted, Throttle!Between
  <2>14. ASSUME NEW g \in Forms, form'[g].pc = "locked",
                NEW from \in Int, NEW to \in Int, from = form'[g].at - Window + 1, to = form'[g].at + 1
         PROVE  Cardinality(Throttle!Between(noted, from, to)') >= MaxFailures
    <3>1. form'[g] = form[g] /\ form[g].pc = "locked"
      BY <1>5, <2>14
    <3>2. Cardinality(Throttle!Between(noted, from, to)) >= MaxFailures
      BY <2>14, <3>1, SameCount DEF Throttle!GuessesAreFew
    <3>3. /\ Cardinality(Throttle!Between(noted, from, to)') =
               Cardinality(Throttle!Between(noted, from, to)) + IF from <= clock /\ clock < to THEN 1 ELSE 0
          /\ Cardinality(Throttle!Between(noted, from, to)) \in Nat
      BY <2>10, <2>11
    <3>4. MaxFailures \in Nat
      BY DEF Throttle!LoginThrottleAssumption
    <3>5. QED
      BY <3>2, <3>3, <3>4
  <2>15. Throttle!GuessesAreFew'
    <3>1. \A g \in Forms : form'[g].at - Window + 1 \in Int /\ form'[g].at + 1 \in Int
      BY <1>3 DEF Throttle!LoginThrottleAssumption
    <3>2. \A g \in Forms : form'[g].pc = "locked" =>
             Cardinality({i \in DOMAIN noted' : /\ form'[g].at - Window + 1 <= noted'[i]
                                                /\ noted'[i] < form'[g].at + 1}) >= MaxFailures
      <4> TAKE g \in Forms
      <4> HAVE form'[g].pc = "locked"
      <4>1. PICK from \in Int, to \in Int : from = form'[g].at - Window + 1 /\ to = form'[g].at + 1
        BY <3>1
      <4>2. Cardinality(Throttle!Between(noted, from, to)') >= MaxFailures
        BY <2>14, <4>1
      <4>3. QED
        BY <4>1, <4>2 DEF Throttle!Between
    <3>3. bucket' # NoBucket /\ Cardinality({i \in DOMAIN tried' : /\ bucket'.resetAt - Window <= tried'[i]
                                                /\ tried'[i] < bucket'.resetAt}) < MaxFailures + Cardinality(Forms)
      BY <1>1, <2>2, <2>8 DEF Throttle!Between
    <3>4. QED
      BY <3>2, <3>3, SameCount DEF Throttle!GuessesAreFew, Throttle!Between
  <2>16. QED
    BY <2>3, <2>7, <2>9, <2>13, <2>15
<1>8. QED
  BY <1>6, <1>7

LEMMA TickKeeps ==
  ASSUME Throttle!LoginThrottleAssumption, ThrottleInv, Throttle!Tick
  PROVE  ThrottleInv'
<1>0. USE DEF ThrottleInv
<1>1. clock' = clock + 1 /\ clock \in Nat /\ clock < LastTime /\ UNCHANGED <<bucket, form, tried, noted>>
  BY DEF Throttle!Tick, Throttle!TypeOK
<1>2. Throttle!TypeOK'
  BY <1>1 DEF Throttle!TypeOK, Throttle!LoginThrottleAssumption, Throttle!Buckets
<1>3. CountedOrTrying' /\ LaterAreTrying' /\ Throttle!GuessesAreFew'
  BY <1>1 DEF CountedOrTrying, LaterAreTrying, Throttle!GuessesAreFew, Throttle!Between, Trying, Throttle!Lapsed
<1>4. CountedAreNoted'
  <2> SUFFICES ASSUME bucket # NoBucket
               PROVE  bucket.count <= Cardinality(Throttle!Between(noted, bucket.resetAt - Window, clock' + 1))
    BY <1>1 DEF CountedAreNoted, Throttle!Between
  <2>1. bucket.count \in Nat /\ bucket.resetAt - Window \in Int /\ noted \in Seq(Nat)
    BY BucketShape DEF Throttle!TypeOK
  <2>2. Throttle!Between(noted, bucket.resetAt - Window, clock + 1) \subseteq Throttle!Between(noted, bucket.resetAt - Window, clock' + 1)
    BY <1>1, <2>1 DEF Throttle!Between
  <2>3. QED
    BY <2>1, <2>2, FewerWithin, BetweenIsFinite DEF CountedAreNoted
<1>5. QED
  BY <1>2, <1>3, <1>4

LEMMA ThrottleNext ==
  ASSUME Throttle!LoginThrottleAssumption, ThrottleInv, [Throttle!Next]_throttleVars
  PROVE  ThrottleInv'
<1>1. CASE UNCHANGED throttleVars
  <2>1. Throttle!TypeOK' /\ Throttle!GuessesAreFew'
    BY <1>1 DEF throttleVars, ThrottleInv, Throttle!TypeOK, Throttle!GuessesAreFew, Throttle!Between
  <2>2. CountedOrTrying' /\ CountedAreNoted'
    BY <1>1 DEF throttleVars, ThrottleInv, CountedOrTrying, CountedAreNoted, Throttle!Between, Trying
  <2>3. LaterAreTrying'
    BY <1>1 DEF throttleVars, ThrottleInv, LaterAreTrying, Throttle!Between, Trying, Throttle!Lapsed
  <2>4. QED
    BY <2>1, <2>2, <2>3 DEF ThrottleInv
<1>2. QED
  BY <1>1, SubmitKeeps, VerifiedKeeps, TickKeeps DEF Throttle!Next

(***************************************************************************)
(* While a bucket of failures lasts, fewer wrong passwords are tried than  *)
(* the failures it allows and the forms in flight together, though each    *)
(* passed the check; and who is refused is so for failures of no more than *)
(* a window ago (LoginThrottle.check and record, submitLogin).             *)
(***************************************************************************)
THEOREM GuessesStayFew ==
  ASSUME Throttle!LoginThrottleAssumption PROVE Throttle!Spec => []Throttle!GuessesAreFew
<1>1. Throttle!Init => ThrottleInv
  BY ThrottleInit
<1>2. ThrottleInv /\ [Throttle!Next]_(Throttle!throttleVars) => ThrottleInv'
  BY ThrottleNext DEF throttleVars, Throttle!throttleVars
<1>3. ThrottleInv => Throttle!GuessesAreFew
  BY DEF ThrottleInv
<1>4. QED
  BY <1>1, <1>2, <1>3, PTL DEF Throttle!Spec

LEMMA ThrottleInvariance == ASSUME Throttle!LoginThrottleAssumption PROVE AllSpec => []ThrottleInv
<1>1. AllInit => ThrottleInv
  BY ThrottleInit DEF AllInit
<1>2. ThrottleInv /\ [AllNext]_allVars => ThrottleInv'
  <2>1. [AllNext]_allVars => [Throttle!Next]_throttleVars
    BY DEF AllNext, allVars
  <2>2. QED
    BY <2>1, ThrottleNext
<1>3. QED
  BY <1>1, <1>2, PTL DEF AllSpec

\* Both of the run: sign-ins are as begun, and guesses few (submitLogin, handleCallback).
THEOREM SignInsStayAsBegun ==
  ASSUME Console!SignInAssumption, Throttle!LoginThrottleAssumption
  PROVE  AllSpec => []SignInsAreAsBegun
<1>1. SignInInv /\ ThrottleInv => SignInsAreAsBegun
  BY SignInInvSignIns DEF SignInInv, ThrottleInv, SignInsAreAsBegun
<1>2. QED
  BY <1>1, SignInInvariance, ThrottleInvariance, PTL

----------------------------------------------------------------------------
(***************************************************************************)
(* The consents and the licence, proved in modules of their own.  The run  *)
(* has instances of the components and the theorems are of instances of    *)
(* their proofs: the same formulas, definition by definition.              *)
(***************************************************************************)
OfFaulty == INSTANCE ConsentProofs
OfShared == INSTANCE ConsentProofs WITH Browsers <- {CHOOSE b \in Browsers : TRUE},
                                        MaxApprovals <- MaxApprovals + 1, MaxChanges <- 0, MaxFaults <- 0
OfLicence == INSTANCE LicenseProofs WITH call <- licenceCall

LEMMA FaultyAssumptionAlike == Faulty!ConsentAssumption <=> OfFaulty!ConsentAssumption
BY DEF Faulty!Approvals, OfFaulty!Approvals, Faulty!Grants, OfFaulty!Grants, Faulty!Keys, OfFaulty!Keys,
   Faulty!Flows, OfFaulty!Flows, Faulty!MintCalls, OfFaulty!MintCalls, Faulty!ConsentAssumption,
   OfFaulty!ConsentAssumption

LEMMA FaultyInitAlike == Faulty!Init <=> OfFaulty!Init
BY DEF Faulty!Approvals, OfFaulty!Approvals, Faulty!Grants, OfFaulty!Grants, Faulty!Init, OfFaulty!Init

LEMMA FaultyNextAlike == Faulty!Next <=> OfFaulty!Next
BY DEF Faulty!Approvals, OfFaulty!Approvals, Faulty!Grants, OfFaulty!Grants, Faulty!tokens,
   OfFaulty!tokens, Faulty!standing, OfFaulty!standing, Faulty!atServer, OfFaulty!atServer,
   Faulty!Saved, OfFaulty!Saved, Faulty!Under, OfFaulty!Under, Faulty!KeyFor, OfFaulty!KeyFor,
   Faulty!Fault, OfFaulty!Fault, Faulty!Change, OfFaulty!Change, Faulty!Prompt, OfFaulty!Prompt,
   Faulty!Found, OfFaulty!Found, Faulty!HandedBack, OfFaulty!HandedBack, Faulty!Proceed, OfFaulty!Proceed,
   Faulty!Disturbed, OfFaulty!Disturbed, Faulty!ScopeMissing, OfFaulty!ScopeMissing,
   Faulty!NeedsConsent, OfFaulty!NeedsConsent, Faulty!ExistingGrant, OfFaulty!ExistingGrant,
   Faulty!Authorize, OfFaulty!Authorize, Faulty!Refuse, OfFaulty!Refuse, Faulty!Approve,
   OfFaulty!Approve, Faulty!Answered, OfFaulty!Answered, Faulty!TimesOut, OfFaulty!TimesOut,
   Faulty!Interrupted, OfFaulty!Interrupted, Faulty!OnceMinted, OfFaulty!OnceMinted,
   Faulty!WithMissing, OfFaulty!WithMissing, Faulty!SaveGrant, OfFaulty!SaveGrant, Faulty!Resume,
   OfFaulty!Resume, Faulty!FreshJti, OfFaulty!FreshJti, Faulty!Claim, OfFaulty!Claim,
   Faulty!ClaimLost, OfFaulty!ClaimLost, Faulty!Resent, OfFaulty!Resent, Faulty!Mint, OfFaulty!Mint,
   Faulty!Redeemable, OfFaulty!Redeemable, Faulty!Redeem, OfFaulty!Redeem, Faulty!Exchange,
   OfFaulty!Exchange, Faulty!Refresh, OfFaulty!Refresh, Faulty!RevokeGrant, OfFaulty!RevokeGrant,
   Faulty!Gone, OfFaulty!Gone, Faulty!RevokeKey, OfFaulty!RevokeKey, Faulty!ChangeRole,
   OfFaulty!ChangeRole, Faulty!SetPaddock, OfFaulty!SetPaddock, Faulty!Interacting,
   OfFaulty!Interacting, Faulty!Minting, OfFaulty!Minting, Faulty!Next, OfFaulty!Next

LEMMA FaultyTypeOKAlike == Faulty!TypeOK <=> OfFaulty!TypeOK
BY DEF Faulty!Approvals, OfFaulty!Approvals, Faulty!Grants, OfFaulty!Grants, Faulty!Keys, OfFaulty!Keys,
   Faulty!Flows, OfFaulty!Flows, Faulty!MintCalls, OfFaulty!MintCalls, Faulty!Pairs, OfFaulty!Pairs,
   Faulty!TypeOK, OfFaulty!TypeOK

LEMMA FaultyGrantsAlike == Faulty!GrantsStandOnMints <=> OfFaulty!GrantsStandOnMints
BY DEF Faulty!Approvals, OfFaulty!Approvals, Faulty!Grants, OfFaulty!Grants, Faulty!Saved, OfFaulty!Saved,
   Faulty!KeyFor, OfFaulty!KeyFor, Faulty!GrantsAreMinted, OfFaulty!GrantsAreMinted,
   Faulty!CodesHaveKeys, OfFaulty!CodesHaveKeys, Faulty!MintsOnce, OfFaulty!MintsOnce,
   Faulty!GrantsStandOnMints, OfFaulty!GrantsStandOnMints

LEMMA SharedAssumptionAlike == Shared!ConsentAssumption <=> OfShared!ConsentAssumption
BY DEF Shared!Approvals, OfShared!Approvals, Shared!Grants, OfShared!Grants, Shared!Keys, OfShared!Keys,
   Shared!Flows, OfShared!Flows, Shared!MintCalls, OfShared!MintCalls, Shared!ConsentAssumption,
   OfShared!ConsentAssumption

LEMMA SharedInitAlike == Shared!Init <=> OfShared!Init
BY DEF Shared!Approvals, OfShared!Approvals, Shared!Grants, OfShared!Grants, Shared!Init, OfShared!Init

LEMMA SharedNextAlike == Shared!Next <=> OfShared!Next
BY DEF Shared!Approvals, OfShared!Approvals, Shared!Grants, OfShared!Grants, Shared!tokens,
   OfShared!tokens, Shared!standing, OfShared!standing, Shared!atServer, OfShared!atServer,
   Shared!Saved, OfShared!Saved, Shared!Under, OfShared!Under, Shared!KeyFor, OfShared!KeyFor,
   Shared!Fault, OfShared!Fault, Shared!Change, OfShared!Change, Shared!Prompt, OfShared!Prompt,
   Shared!Found, OfShared!Found, Shared!HandedBack, OfShared!HandedBack, Shared!Proceed, OfShared!Proceed,
   Shared!Disturbed, OfShared!Disturbed, Shared!ScopeMissing, OfShared!ScopeMissing,
   Shared!NeedsConsent, OfShared!NeedsConsent, Shared!ExistingGrant, OfShared!ExistingGrant,
   Shared!Authorize, OfShared!Authorize, Shared!Refuse, OfShared!Refuse, Shared!Approve,
   OfShared!Approve, Shared!Answered, OfShared!Answered, Shared!TimesOut, OfShared!TimesOut,
   Shared!Interrupted, OfShared!Interrupted, Shared!OnceMinted, OfShared!OnceMinted,
   Shared!WithMissing, OfShared!WithMissing, Shared!SaveGrant, OfShared!SaveGrant, Shared!Resume,
   OfShared!Resume, Shared!FreshJti, OfShared!FreshJti, Shared!Claim, OfShared!Claim,
   Shared!ClaimLost, OfShared!ClaimLost, Shared!Resent, OfShared!Resent, Shared!Mint, OfShared!Mint,
   Shared!Redeemable, OfShared!Redeemable, Shared!Redeem, OfShared!Redeem, Shared!Exchange,
   OfShared!Exchange, Shared!Refresh, OfShared!Refresh, Shared!RevokeGrant, OfShared!RevokeGrant,
   Shared!Gone, OfShared!Gone, Shared!RevokeKey, OfShared!RevokeKey, Shared!ChangeRole,
   OfShared!ChangeRole, Shared!SetPaddock, OfShared!SetPaddock, Shared!Interacting,
   OfShared!Interacting, Shared!Minting, OfShared!Minting, Shared!Next, OfShared!Next

LEMMA SharedTypeOKAlike == Shared!TypeOK <=> OfShared!TypeOK
BY DEF Shared!Approvals, OfShared!Approvals, Shared!Grants, OfShared!Grants, Shared!Keys, OfShared!Keys,
   Shared!Flows, OfShared!Flows, Shared!MintCalls, OfShared!MintCalls, Shared!Pairs, OfShared!Pairs,
   Shared!TypeOK, OfShared!TypeOK

LEMMA SharedGrantsAlike == Shared!GrantsStandOnMints <=> OfShared!GrantsStandOnMints
BY DEF Shared!Approvals, OfShared!Approvals, Shared!Grants, OfShared!Grants, Shared!Saved, OfShared!Saved,
   Shared!KeyFor, OfShared!KeyFor, Shared!GrantsAreMinted, OfShared!GrantsAreMinted,
   Shared!CodesHaveKeys, OfShared!CodesHaveKeys, Shared!MintsOnce, OfShared!MintsOnce,
   Shared!GrantsStandOnMints, OfShared!GrantsStandOnMints

LEMMA LicenceAssumptionAlike == Licensing!LicenseAssumption <=> OfLicence!LicenseAssumption
BY DEF Licensing!Instances, OfLicence!Instances, Licensing!Answers, OfLicence!Answers, Licensing!Rows,
   OfLicence!Rows, Licensing!LicenseAssumption, OfLicence!LicenseAssumption

LEMMA LicenceInitAlike == Licensing!Init <=> OfLicence!Init
BY DEF Licensing!Instances, OfLicence!Instances, Licensing!Idle, OfLicence!Idle, Licensing!Init,
   OfLicence!Init

LEMMA LicenceNextAlike == Licensing!Next <=> OfLicence!Next
BY DEF Licensing!Instances, OfLicence!Instances, Licensing!history, OfLicence!history, Licensing!remote,
   OfLicence!remote, Licensing!Idle, OfLicence!Idle, Licensing!Stored, OfLicence!Stored,
   Licensing!InUse, OfLicence!InUse, Licensing!Answer, OfLicence!Answer, Licensing!Outage, OfLicence!Outage, Licensing!Expire,
   OfLicence!Expire, Licensing!Tick, OfLicence!Tick, Licensing!Goes, OfLicence!Goes, Licensing!Ends,
   OfLicence!Ends, Licensing!Local, OfLicence!Local, Licensing!Activate, OfLicence!Activate,
   Licensing!NewInstance, OfLicence!NewInstance, Licensing!MayActivate, OfLicence!MayActivate,
   Licensing!LsActivates, OfLicence!LsActivates, Licensing!LsActivateUnanswered,
   OfLicence!LsActivateUnanswered, Licensing!LsConfirms, OfLicence!LsConfirms,
   Licensing!SaveEntitlement, OfLicence!SaveEntitlement, Licensing!DeactivateReadView,
   OfLicence!DeactivateReadView, Licensing!DeactivateReadKey, OfLicence!DeactivateReadKey, Licensing!Release, OfLicence!Release, Licensing!ClearEntitlement,
   OfLicence!ClearEntitlement, Licensing!ReadKey, OfLicence!ReadKey, Licensing!ReadView,
   OfLicence!ReadView, Licensing!LsValidates, OfLicence!LsValidates, Licensing!Unanswered,
   OfLicence!Unanswered, Licensing!LsUnanswered, OfLicence!LsUnanswered, Licensing!LsErrs,
   OfLicence!LsErrs, Licensing!GraceAfter, OfLicence!GraceAfter, Licensing!SeatsAfter,
   OfLicence!SeatsAfter, Licensing!UpdateValidation, OfLicence!UpdateValidation,
   Licensing!Revalidating, OfLicence!Revalidating, Licensing!Next, OfLicence!Next

LEMMA LicenceTypeOKAlike == Licensing!TypeOK <=> OfLicence!TypeOK
BY DEF Licensing!Instances, OfLicence!Instances, Licensing!Answers, OfLicence!Answers, Licensing!Rows,
   OfLicence!Rows, Licensing!CallStates, OfLicence!CallStates, Licensing!TypeOK, OfLicence!TypeOK

LEMMA LicenceSeatsAlike == Licensing!SeatsStand <=> OfLicence!SeatsStand
BY DEF Licensing!Instances, OfLicence!Instances, Licensing!InUse, OfLicence!InUse,
   Licensing!Stored, OfLicence!Stored, Licensing!SeatLimit, OfLicence!SeatLimit,
   Licensing!SeatsAreTheLicences, OfLicence!SeatsAreTheLicences, Licensing!OutagesCostNothing,
   OfLicence!OutagesCostNothing, Licensing!GraceIsGiven, OfLicence!GraceIsGiven, Licensing!SeatsStand,
   OfLicence!SeatsStand

----------------------------------------------------------------------------
(* Consents. *)

ConsentInv == IF focus = "faulty" THEN OfFaulty!IInv ELSE OfShared!IInv

\* A step of the run is one of the instance in focus, or leaves consents alone.
LEMMA ConsentSteps ==
  ASSUME [AllNext]_allVars
  PROVE  /\ focus' = focus
         /\ focus = "faulty" => [OfFaulty!Next]_(OfFaulty!consentVars)
         /\ focus # "faulty" => [OfShared!Next]_(OfShared!consentVars)
<1>1. /\ focus' = focus
      /\ focus = "faulty" => [Faulty!Next]_consentVars
      /\ focus # "faulty" => [Shared!Next]_consentVars
  BY DEF AllNext, allVars
<1>2. consentVars = OfFaulty!consentVars /\ consentVars = OfShared!consentVars
  BY DEF consentVars, OfFaulty!consentVars, OfShared!consentVars
<1>3. consentVars' = OfFaulty!consentVars' /\ consentVars' = OfShared!consentVars'
  BY DEF consentVars, OfFaulty!consentVars, OfShared!consentVars
<1>4. QED
  BY <1>1, <1>2, <1>3, FaultyNextAlike, SharedNextAlike

LEMMA ConsentInvariance ==
  ASSUME Faulty!ConsentAssumption, Shared!ConsentAssumption
  PROVE  AllSpec => []ConsentInv
<1>0. OfFaulty!ConsentAssumption /\ OfShared!ConsentAssumption
  BY FaultyAssumptionAlike, SharedAssumptionAlike
<1>1. AllInit => ConsentInv
  <2> SUFFICES ASSUME AllInit PROVE ConsentInv
    OBVIOUS
  <2>1. IF focus = "faulty" THEN Faulty!Init ELSE Shared!Init
    BY DEF AllInit, FaultyInit
  <2>2. QED
    BY <1>0, <2>1, FaultyInitAlike, SharedInitAlike, OfFaulty!InitIInv, OfShared!InitIInv DEF ConsentInv
<1>2. ConsentInv /\ [AllNext]_allVars => ConsentInv'
  <2> SUFFICES ASSUME ConsentInv, [AllNext]_allVars PROVE ConsentInv'
    OBVIOUS
  <2>1. CASE focus = "faulty"
    BY <1>0, <2>1, ConsentSteps, OfFaulty!NextIInv DEF ConsentInv
  <2>2. CASE focus # "faulty"
    BY <1>0, <2>2, ConsentSteps, OfShared!NextIInv DEF ConsentInv
  <2>3. QED
    BY <2>1, <2>2
<1>3. QED
  BY <1>1, <1>2, PTL DEF AllSpec

(***************************************************************************)
(* What an approval leaves stands on its mint, with two browsers and       *)
(* faults as with one and more approvals: a grant covers a paddock only    *)
(* after a mint for both, a code on its way finds its key unless that was  *)
(* revoked or rebound meanwhile, and one assertion mints once.             *)
(* submitConsent, mintOauthKey.                                            *)
(***************************************************************************)
THEOREM ApprovalsStand ==
  ASSUME Faulty!ConsentAssumption, Shared!ConsentAssumption
  PROVE  AllSpec => []GrantsStandOnMints
<1>1. OfFaulty!IInv => Faulty!TypeOK /\ Faulty!GrantsStandOnMints
  BY FaultyTypeOKAlike, FaultyGrantsAlike, OfFaulty!IInvGrantsStandOnMints DEF OfFaulty!IInv
<1>2. OfShared!IInv => Shared!TypeOK /\ Shared!GrantsStandOnMints
  BY SharedTypeOKAlike, SharedGrantsAlike, OfShared!IInvGrantsStandOnMints DEF OfShared!IInv
<1>3. ConsentInv => GrantsStandOnMints
  BY <1>1, <1>2 DEF ConsentInv, GrantsStandOnMints, OfConsent
<1>4. QED
  BY <1>3, ConsentInvariance, PTL

(***************************************************************************)
(* Every access token a code or a refresh is answered with names a key     *)
(* that an approval of that very paddock, under that very grant, minted,   *)
(* and that nobody has revoked by then (makeExtraTokenClaims).             *)
(***************************************************************************)
THEOREM TokensNameKeys ==
  ASSUME Faulty!ConsentAssumption, Shared!ConsentAssumption
  PROVE  AllSpec => TokensFollowApproval
<1>1. ASSUME ConsentInv, [AllNext]_allVars, NEW k \in issued' \ issued
      PROVE  /\ k.by \notin revoked
             /\ call[k.by].slug = k.slug /\ call[k.by].grant = k.grant
  <2>1. CASE focus = "faulty"
    BY <1>1, <2>1, ConsentSteps, FaultyAssumptionAlike, OfFaulty!NextFollows DEF ConsentInv
  <2>2. CASE focus # "faulty"
    BY <1>1, <2>2, ConsentSteps, SharedAssumptionAlike, OfShared!NextFollows DEF ConsentInv
  <2>3. QED
    BY <2>1, <2>2
<1>2. ConsentInv /\ [AllNext]_allVars =>
        [\A k \in issued' \ issued :
            /\ k.by \notin revoked
            /\ call[k.by].slug = k.slug /\ call[k.by].grant = k.grant]_(Faulty!consentVars)
  BY <1>1
<1>3. QED
  BY <1>2, ConsentInvariance, PTL DEF AllSpec, TokensFollowApproval, Faulty!TokensFollowApproval

(***************************************************************************)
(* A grant keeps the paddocks it covers until it is revoked, unless two    *)
(* interactions of one browser had read it before either saved it.         *)
(***************************************************************************)
THEOREM ScopesStayKept ==
  ASSUME Faulty!ConsentAssumption, Shared!ConsentAssumption
  PROVE  AllSpec => ScopesAreKept
<1>1. ASSUME ConsentInv, [AllNext]_allVars, NEW g \in DOMAIN scope, Faulty!Saved(g), scope'[g] # Null
      PROVE  scope[g] \subseteq scope'[g] \/ g \in overlapped
  <2>1. CASE focus = "faulty"
    BY <1>1, <2>1, ConsentSteps, FaultyAssumptionAlike, OfFaulty!NextKeepsScopes DEF ConsentInv, Faulty!Saved, OfFaulty!Saved
  <2>2. CASE focus # "faulty"
    BY <1>1, <2>2, ConsentSteps, SharedAssumptionAlike, OfShared!NextKeepsScopes DEF ConsentInv, Faulty!Saved, OfShared!Saved
  <2>3. QED
    BY <2>1, <2>2
<1>2. ConsentInv /\ [AllNext]_allVars =>
        [\A g \in DOMAIN scope : Faulty!Saved(g) /\ scope'[g] # Null =>
            scope[g] \subseteq scope'[g] \/ g \in overlapped]_(Faulty!consentVars)
  BY <1>1
<1>3. QED
  BY <1>2, ConsentInvariance, PTL DEF AllSpec, ScopesAreKept, Faulty!ScopesAreKept

----------------------------------------------------------------------------
(* The licence. *)

LEMMA LicenceInvariance == ASSUME Licensing!LicenseAssumption PROVE AllSpec => []OfLicence!IInv
<1>0. OfLicence!LicenseAssumption
  BY LicenceAssumptionAlike
<1>1. AllInit => OfLicence!IInv
  BY <1>0, LicenceInitAlike, OfLicence!InitIInv DEF AllInit
<1>2. OfLicence!IInv /\ [AllNext]_allVars => OfLicence!IInv'
  <2>1. [AllNext]_allVars => [Licensing!Next]_licenseVars
    BY DEF AllNext, allVars
  <2>2. licenseVars = OfLicence!licenseVars /\ licenseVars' = OfLicence!licenseVars'
    BY DEF licenseVars, OfLicence!licenseVars
  <2>3. [Licensing!Next]_licenseVars => [OfLicence!Next]_(OfLicence!licenseVars)
    BY <2>2, LicenceNextAlike
  <2>4. QED
    BY <1>0, <2>1, <2>3, OfLicence!NextIInv
<1>3. QED
  BY <1>1, <1>2, PTL DEF AllSpec

(***************************************************************************)
(* What a licence bought is there: its own seats and no other's, while     *)
(* Lemon Squeezy does not answer and for the grace after it last said      *)
(* valid, whatever activations, deactivations and re-validations race for  *)
(* the row, but for the writes over a newer row and the errors taken for   *)
(* answers that the histories record (license-service.ts).                 *)
(***************************************************************************)
THEOREM LicencesStand == ASSUME Licensing!LicenseAssumption PROVE AllSpec => []SeatsStand
<1>1. OfLicence!IInv => SeatsStand
  BY LicenceAssumptionAlike, LicenceTypeOKAlike, LicenceSeatsAlike, OfLicence!IInvSeatsStand DEF OfLicence!IInv, SeatsStand
<1>2. QED
  BY <1>1, LicenceInvariance, PTL
=============================================================================
