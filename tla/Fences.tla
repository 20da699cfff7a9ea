------------------------------- MODULE Fences -------------------------------
(***************************************************************************)
(* A paddock, its fence and its workflow templates in the control plane's  *)
(* database.  A transaction's statements each see what was committed       *)
(* before them (READ COMMITTED) and none of them locks what it reads, so a *)
(* write may be of what another request has replaced meanwhile: the breed  *)
(* a constraint was validated for, or the list a template was added to.    *)
(***************************************************************************)
EXTENDS Naturals, FiniteSets

CONSTANTS
    Kennels,        \* flocks a paddock may be on
    Templates,      \* ids of workflow templates
    Limits,         \* rate limits and quotas a fence may set
    Edits,          \* requests in flight at a time
    Null,           \* no limits, no row, nothing in flight
    MaxEdits        \* bound on requests

Breeds == {"ollama", "comfyui"}
Statuses == {"active", "disabled"}
FenceRows == [kind : Breeds, templates : SUBSET Templates, limits : Limits \cup {Null}]

PaddockRows == [flock : Kennels, status : Statuses]

FencesAssumption == MaxEdits \in Nat /\ Kennels # {} /\ Null \notin FenceRows \cup PaddockRows

VARIABLES
    breed,       \* [Kennels -> the flock's breed]
    paddock,     \* [flock, status], or Null once deleted
    fence,       \* [kind, templates, limits]: kind is the breed its constraint is of; or Null
    edit,        \* [Edits -> the request in flight, or Null]
    edits,
    asked,       \* history: the status last asked for
    limited,     \* history: the limits last saved
    serial,      \* history: the templates the committed edits leave, one after the other
    overlapped,  \* history: a template edit was written over a list changed since it read it
    moved        \* history: the paddock's breed changed after its constraint was validated

fenceVars == <<breed, paddock, fence, edit, edits, asked, limited, serial, overlapped, moved>>
history == <<asked, limited, serial, overlapped, moved>>

BreedNow == breed[paddock.flock]

Init ==
    /\ breed \in [Kennels -> Breeds]
    /\ \E k \in Kennels : paddock = [flock |-> k, status |-> "active"]
    /\ fence = Null
    /\ edit = [e \in Edits |-> Null]
    /\ edits = 0
    /\ asked = "active"
    /\ limited = Null
    /\ serial = {}
    /\ overlapped = FALSE
    /\ moved = FALSE

----------------------------------------------------------------------------
\* A request arrives, and reads what it will decide by.
Arrive(e, request) ==
    /\ edit[e] = Null /\ edits < MaxEdits
    /\ edits' = edits + 1
    /\ edit' = [edit EXCEPT ![e] = request]
    /\ UNCHANGED <<breed, paddock, fence, history>>

Done(e) == edit' = [edit EXCEPT ![e] = Null]

\* paddockBreedInOrg; the validation of a given constraint, and of a template,
\* is by this breed.  Template edits are for comfyui paddocks (404).
ReadBreed(e, op, arg) ==
    /\ paddock # Null
    /\ op \in {"template", "untemplate"} => BreedNow = "comfyui"
    /\ Arrive(e, [op |-> op, arg |-> arg, breed |-> BreedNow, read |-> FALSE, row |-> Null])

\* The fence, as the next statement finds it.
ReadFence(e) ==
    /\ edit[e] # Null /\ edit[e].op # "paddock" /\ ~edit[e].read
    /\ edit' = [edit EXCEPT ![e].read = TRUE, ![e].row = fence]
    /\ UNCHANGED <<breed, paddock, fence, edits, history>>

\* comfyuiConstraint.parse: another breed's constraint has no templates.
TemplatesOf(row) == IF row = Null \/ row.kind # "comfyui" THEN {} ELSE row.templates

\* The upsert, by paddock: a new row is as given; of a row there already, only the
\* columns named are set.
\* Mutation: the template editor's upsert sets the limits as its insert does.
UpsertAll(kind, templates, limits, sets) ==
    fence' = [kind |-> kind, templates |-> templates, limits |-> limits]
Upsert(kind, templates, limits, sets) ==
    fence' = IF fence = Null THEN [kind |-> kind, templates |-> templates, limits |-> limits]
             ELSE [kind |-> IF "constraint" \in sets THEN kind ELSE fence.kind,
                   templates |-> IF "constraint" \in sets THEN templates ELSE fence.templates,
                   limits |-> IF "limits" \in sets THEN limits ELSE fence.limits]

\* Whatever constraint is in place now, it was validated for this breed.
Validated(as) == moved' = (as # BreedNow)

\* saveTemplate, deleteTemplate: the list read, with the template or without it.
\* Mutation: a template saved is the only one.
NextTemplatesOnly(e) == IF edit[e].op = "template" THEN {edit[e].arg} ELSE {}
NextTemplates(e) ==
    IF edit[e].op = "template" THEN TemplatesOf(edit[e].row) \cup {edit[e].arg}
                               ELSE TemplatesOf(edit[e].row) \ {edit[e].arg}
WriteTemplates(e) ==
    /\ edit[e] # Null /\ edit[e].op \in {"template", "untemplate"} /\ edit[e].read
    /\ IF paddock = Null THEN UNCHANGED <<fence, history>>
       ELSE /\ Upsert("comfyui", NextTemplates(e), Null, {"constraint"})
            /\ serial' = IF edit[e].op = "template" THEN serial \cup {edit[e].arg}
                                                    ELSE serial \ {edit[e].arg}
            /\ overlapped' = (overlapped \/ TemplatesOf(fence) # TemplatesOf(edit[e].row))
            /\ Validated("comfyui")
            /\ UNCHANGED <<asked, limited>>
    /\ Done(e)
    /\ UNCHANGED <<breed, paddock, edits>>

\* saveFence with a constraint, which for a comfyui paddock is its templates, or
\* without: the row's own, or the breed's default.
GivenConstraint(e) == edit[e].op = "constrain"
FenceTemplates(e) ==
    IF GivenConstraint(e) \/ edit[e].row = Null THEN {} ELSE edit[e].row.templates
\* Mutation: the constraint a save leaves out is written as it was read.
FenceSetsAll(e) == {"constraint", "limits"}
FenceSets(e) == IF GivenConstraint(e) THEN {"constraint", "limits"} ELSE {"limits"}

WriteFence(e) ==
    /\ edit[e] # Null /\ edit[e].op \in {"constrain", "limit"} /\ edit[e].read
    /\ IF paddock = Null THEN UNCHANGED <<fence, history>>
       ELSE /\ Upsert(IF GivenConstraint(e) \/ edit[e].row = Null THEN edit[e].breed ELSE edit[e].row.kind,
                      FenceTemplates(e), edit[e].arg, FenceSets(e))
            /\ limited' = edit[e].arg
            /\ serial' = IF GivenConstraint(e) THEN {} ELSE serial
            /\ IF GivenConstraint(e) \/ fence = Null THEN Validated(edit[e].breed) ELSE UNCHANGED moved
            /\ UNCHANGED <<asked, overlapped>>
    /\ Done(e)
    /\ UNCHANGED <<breed, paddock, edits>>

\* savePaddock: the flock and the slug are looked up, then the row is updated.  A
\* status left out is not a column of the UPDATE.
ReadPaddock(e, flock, status) ==
    /\ paddock # Null
    /\ Arrive(e, [op |-> "paddock", arg |-> status, flock |-> flock, was |-> paddock.status])

\* Mutation: the row's status is read and written back.
StatusReasserted(e) == IF edit[e].arg = Null THEN edit[e].was ELSE edit[e].arg
StatusSet(e) == IF edit[e].arg = Null THEN paddock.status ELSE edit[e].arg

WritePaddock(e) ==
    /\ edit[e] # Null /\ edit[e].op = "paddock"
    /\ IF paddock = Null THEN UNCHANGED <<paddock, history>>
       ELSE /\ paddock' = [flock |-> edit[e].flock, status |-> StatusSet(e)]
            /\ asked' = IF edit[e].arg = Null THEN asked ELSE edit[e].arg
            /\ moved' = (moved \/ breed[edit[e].flock] # BreedNow)
            /\ UNCHANGED <<limited, serial, overlapped>>
    /\ Done(e)
    /\ UNCHANGED <<breed, fence, edits>>

----------------------------------------------------------------------------
(* One statement each. *)

Single == edits < MaxEdits /\ edits' = edits + 1

SetStatus(status) ==
    /\ Single /\ paddock # Null
    /\ paddock' = [paddock EXCEPT !.status = status]
    /\ asked' = status
    /\ UNCHANGED <<breed, fence, edit, limited, serial, overlapped, moved>>

\* saveFlock may change a flock's breed under its paddocks.
ChangeBreed(k, to) ==
    /\ Single /\ breed[k] # to
    /\ breed' = [breed EXCEPT ![k] = to]
    /\ moved' = (moved \/ (paddock # Null /\ paddock.flock = k))
    /\ UNCHANGED <<paddock, fence, edit, asked, limited, serial, overlapped>>

\* The fence goes with its paddock, and the paddock with its flock.
\* Mutation: the fence stays.
DeletePaddockOnly ==
    /\ Single /\ paddock # Null
    /\ paddock' = Null
    /\ UNCHANGED <<breed, fence, edit, history>>
DeletePaddock ==
    /\ Single /\ paddock # Null
    /\ paddock' = Null /\ fence' = Null
    /\ UNCHANGED <<breed, edit, history>>

Next ==
    \/ \E e \in Edits :
          \/ \E t \in Templates, op \in {"template", "untemplate"} : ReadBreed(e, op, t)
          \/ \E l \in Limits \cup {Null}, op \in {"constrain", "limit"} : ReadBreed(e, op, l)
          \/ \E k \in Kennels, s \in Statuses \cup {Null} : ReadPaddock(e, k, s)
          \/ ReadFence(e) \/ WriteTemplates(e) \/ WriteFence(e) \/ WritePaddock(e)
    \/ \E s \in Statuses : SetStatus(s)
    \/ \E k \in Kennels, to \in Breeds : ChangeBreed(k, to)
    \/ DeletePaddock

Spec == Init /\ [][Next]_fenceVars

----------------------------------------------------------------------------
(* Properties *)

\* Requests in flight: of the fence, and of the paddock's row.
FenceEdits ==
    LET Of(ops, args) == [op : ops, arg : args, breed : Breeds, read : BOOLEAN, row : FenceRows \cup {Null}]
    IN  Of({"template", "untemplate"}, Templates) \cup Of({"constrain", "limit"}, Limits \cup {Null})
PaddockEdits == [op : {"paddock"}, arg : Statuses \cup {Null}, flock : Kennels, was : Statuses]

TypeOK ==
    /\ breed \in [Kennels -> Breeds]
    /\ paddock \in PaddockRows \cup {Null}
    /\ fence \in FenceRows \cup {Null}
    /\ paddock = Null => fence = Null
    /\ edit \in [Edits -> FenceEdits \cup PaddockEdits \cup {Null}]
    /\ asked \in Statuses /\ limited \in Limits \cup {Null} /\ serial \subseteq Templates
    /\ overlapped \in BOOLEAN /\ moved \in BOOLEAN

\* A template once saved stays, and one deleted stays away, until asked otherwise:
\* saves of the limits, even one that found no fence and inserts its own, leave
\* them alone.  Only a template edit that overlaps another can undo it.
TemplatesAreKept ==
    fence # Null /\ ~overlapped => TemplatesOf(fence) = serial

\* The limits in force are the ones last saved, whatever template edits are
\* committed around them (writeTemplates names constraint_json only).
LimitsAreKept == paddock # Null => IF fence = Null THEN limited = Null ELSE fence.limits = limited

\* A paddock's status is the one last asked for: a save that does not mention it
\* cannot undo a setPaddockStatus committed while it was in flight.
StatusIsAsAsked == paddock # Null => paddock.status = asked

\* A constraint is of its paddock's breed, unless the paddock's breed changed
\* under it or while it was being saved (validateConstraintForBreed).
ConstraintFitsBreed == paddock # Null /\ fence # Null /\ ~moved => fence.kind = BreedNow

\* What one edit saved, another does not undo: not its template, not its limits,
\* not the paddock's status, nor the constraint's fit to the flock's breed.
EditsAreKept == TemplatesAreKept /\ LimitsAreKept /\ StatusIsAsAsked /\ ConstraintFitsBreed
=============================================================================
