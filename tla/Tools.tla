------------------------------- MODULE Tools -------------------------------
(* A paddock's MCP tools: what tools/list shows of a fence, and what a     *)
(* tools/call that comes later is turned into.  Nothing is remembered in   *)
(* between: the call is planned from the fence as it is by then, which the *)
(* console may have edited.                                                *)
(*                                                                         *)
(* The names and the graphs are computed by the connectors' own pure       *)
(* functions.  A tool name is the sequence of its parts, so that the       *)
(* suffix that keeps two names apart can collide with an id that ends so.  *)
EXTENDS Integers, SequencesExt, TLC

CONSTANTS
    Ids,            \* template ids
    SafeName,       \* an id with what a tool name may not hold replaced, as its parts
    MaxName,        \* MAX_NAME, in parts
    Shapes,         \* what a template holds: a graph and its params
    Values,         \* what a caller may supply for a param
    ParamNames,     \* the names a caller may supply one for
    Models,         \* models of an Ollama flock
    Every,          \* an allowedModels of null: every model
    MaxTemplates,   \* bound: templates of a fence
    MaxEdits        \* bound: edits of either fence

ToolsAssumption ==
    /\ DOMAIN SafeName = Ids /\ \A id \in Ids : SafeName[id] \in Seq(STRING)
    /\ MaxName \in Nat \ {0, 1} /\ {MaxTemplates, MaxEdits} \subseteq Nat

\* A value: a string, a number, the name an upload was given, or a random seed.
Valued(kind, n) == [is |-> kind, n |-> n]
Uploaded == Valued("upload", 0)
Random == Valued("seed", 0)

VARIABLES
    breed,          \* the paddock's: its fence is of the one kind or the other
    templates,      \* a ComfyUI fence: its templates, in order
    rules,          \* an Ollama fence: its route groups and its models
    listed,         \* the client's list: the template each tool was listed for
    offered,        \* and the tools an Ollama paddock listed
    left,           \* history: listed templates that left, or lost their place in the order
    edits

vars == <<breed, templates, rules, listed, offered, left, edits>>

Groups == {"chat", "generate", "embed", "read"}
Rules == [routes : SUBSET Groups \ {{}}, models : {Every} \cup SUBSET Models]

Init ==
    /\ breed \in {"ollama", "comfyui"}
    /\ templates = <<>> /\ rules = [routes |-> Groups, models |-> Every]
    /\ listed = [name \in {} |-> {}] /\ offered = {}
    /\ left = {} /\ edits = 0

----------------------------------------------------------------------------
(* comfyToolNames. *)

Cut(name, n) == IF Len(name) <= n THEN name ELSE SubSeq(name, 1, n)
Base(id) == Cut(SafeName[id], MaxName)
Suffixed(base, n) == Append(Cut(base, MaxName - 1), ToString(n))

Held(names) == {names[name] : name \in DOMAIN names}

\* Mutation: always the first suffix.
SuffixTwo(names, base) == Suffixed(base, 2)

\* A repeated id is skipped; a name that is taken gets the first suffix that is free.
FreeName(names, base) ==
    LET n == CHOOSE m \in 2..(Cardinality(DOMAIN names) + 2) :
                /\ Suffixed(base, m) \notin DOMAIN names
                /\ \A k \in 2..(m - 1) : Suffixed(base, k) \in DOMAIN names
    IN  Suffixed(base, n)
Named(names, t) ==
    IF t.id \in Held(names) THEN names
    ELSE LET name == IF Base(t.id) \in DOMAIN names THEN FreeName(names, Base(t.id)) ELSE Base(t.id)
         IN  [other \in DOMAIN names \cup {name} |-> IF other = name THEN t.id ELSE names[other]]

\* Tool name -> template id, in template order.
ToolNames(ts) == FoldLeft(Named, [name \in {} |-> {}], ts)

\* comfyMcpCall and handle: the name is inverted through the same map, and the submit
\* takes the first template of that id.
TemplateOf(ts, id) == ts[CHOOSE i \in DOMAIN ts : ts[i].id = id /\ \A j \in 1..(i - 1) : ts[j].id # id]
RunsAs(ts, name) == IF name \in DOMAIN ToolNames(ts) THEN {TemplateOf(ts, ToolNames(ts)[name])} ELSE {}

----------------------------------------------------------------------------
(* reconstructGraph.  A graph maps a node and an input to a value; a spec   *)
(* names a param, its type, the cells it sets, and a number's bounds.      *)

Failed == [ok |-> FALSE]
Rebuilding(graph) == [ok |-> TRUE, graph |-> graph]

HasNodes(shape, spec) == \A cell \in spec.cells : cell.node \in shape.nodes
Writes(shape, state, spec, value) ==
    IF ~HasNodes(shape, spec) THEN Failed
    ELSE Rebuilding([cell \in DOMAIN state.graph \cup spec.cells |->
                        IF cell \in spec.cells THEN value ELSE state.graph[cell]])

\* Mutation: the bounds of a number are not looked at.
FitsUnbounded(spec, value) == spec.type = "number" => value.is = "number"
Fits(spec, value) ==
    CASE spec.type = "number" -> value.is = "number" /\ value.n >= spec.min /\ value.n <= spec.max
      [] OTHER -> value.is = "string"

\* One spec after another: a seed is drawn anew in every run, what was not supplied stays
\* as it is, and an image is the name its upload was answered with.
Applied(shape, params, state, spec) ==
    IF ~state.ok THEN Failed
    ELSE IF spec.type = "seed" THEN Writes(shape, state, spec, Random)
    ELSE IF spec.name \notin DOMAIN params THEN state
    ELSE IF ~Fits(spec, params[spec.name]) THEN Failed
    ELSE Writes(shape, state, spec, IF spec.type = "image" THEN Uploaded ELSE params[spec.name])

Declared(shape) == {shape.params[i].name : i \in DOMAIN shape.params}
Reconstruct(shape, params) ==
    IF ~(DOMAIN params \subseteq Declared(shape)) THEN Failed
    ELSE FoldLeft(LAMBDA state, spec : Applied(shape, params, state, spec), Rebuilding(shape.graph), shape.params)

\* dryRunTemplate: a sample for every param but the seeds.
Sample(spec) == IF spec.type = "number" THEN Valued("number", spec.min) ELSE Valued("string", 0)
SampleOf(shape, name) == Sample(CHOOSE spec \in ToSet(shape.params) : spec.name = name)
Samples(shape) ==
    [name \in {spec.name : spec \in {s \in ToSet(shape.params) : s.type # "seed"}} |-> SampleOf(shape, name)]

\* validateDraft: no name twice, and the dry run goes through.
DraftOk(shape) ==
    /\ \A i, j \in DOMAIN shape.params : shape.params[i].name = shape.params[j].name => i = j
    /\ Reconstruct(shape, Samples(shape)).ok

----------------------------------------------------------------------------
(* Ollama: ollamaToMcp, ollamaMcpCall and guard. *)

RouteOf == [chat |-> "/api/chat", generate |-> "/api/generate", embed |-> "/api/embed", list_models |-> "/api/tags"]
GroupOf(path) ==
    CASE path = "/api/chat" -> "chat" [] path = "/api/generate" -> "generate"
      [] path = "/api/embed" -> "embed" [] path = "/api/tags" -> "read" [] OTHER -> "mutate"

Allowed(fence, model) == fence.models = Every \/ model \in fence.models

\* Mutation: the inference tools are offered even when no model is allowed.
OffersAnyway(fence) ==
    (fence.routes \cap {"chat", "generate", "embed"}) \cup (IF "read" \in fence.routes THEN {"list_models"} ELSE {})
Offers(fence) ==
    (IF fence.models # {} THEN fence.routes \cap {"chat", "generate", "embed"} ELSE {})
        \cup (IF "read" \in fence.routes THEN {"list_models"} ELSE {})

\* The plan names the route; the model is left to guard, which also checks the group.
Plan(fence, tool) == IF tool \in Offers(fence) THEN {RouteOf[tool]} ELSE {}
Guards(fence, path, model) ==
    LET group == GroupOf(path)
    IN  group # "mutate" /\ group \in fence.routes /\ (group # "read" => Allowed(fence, model))

\* ollamaMcpResult for list_models: what is installed and allowed.
ListsModels(fence, installed) == {m \in installed : Allowed(fence, m)}

----------------------------------------------------------------------------

Edited(kind) == breed = kind /\ edits < MaxEdits /\ edits' = edits + 1 /\ UNCHANGED breed
Leave(ids) == left' = left \cup (ids \cap Held(listed))

\* saveTemplate: in place of the template of that id, or at the end.
SaveTemplate ==
    /\ Edited("comfyui")
    /\ \E id \in Ids, shape \in {s \in Shapes : DraftOk(s)} :
          LET tpl == [id |-> id, shape |-> shape]
          IN  IF \E i \in DOMAIN templates : templates[i].id = id
                THEN templates' = [i \in DOMAIN templates |-> IF templates[i].id = id THEN tpl ELSE templates[i]]
                ELSE Len(templates) < MaxTemplates /\ templates' = Append(templates, tpl)
    /\ UNCHANGED <<rules, listed, offered, left>>

\* saveFence takes any templates the schema takes, in any order, unproved or of an id there
\* is already.  Bound: one save puts in one.
SaveFence ==
    /\ Edited("comfyui")
    /\ Len(templates) < MaxTemplates
    /\ \E i \in 1..(Len(templates) + 1), id \in Ids, shape \in Shapes :
          /\ templates' = InsertAt(templates, i, [id |-> id, shape |-> shape])
          /\ Leave({templates[j].id : j \in i..Len(templates)})
    /\ UNCHANGED <<rules, listed, offered>>

\* deleteTemplate: every template of that id.
DeleteTemplate ==
    /\ Edited("comfyui")
    /\ \E id \in {templates[i].id : i \in DOMAIN templates} :
          /\ templates' = SelectSeq(templates, LAMBDA t : t.id # id)
          /\ Leave({id})
    /\ UNCHANGED <<rules, listed, offered>>

SaveRules ==
    /\ Edited("ollama")
    /\ rules' \in Rules
    /\ UNCHANGED <<templates, listed, offered, left>>

\* tools/list.
ListTools ==
    /\ IF breed = "comfyui"
         THEN listed' = ToolNames(templates) /\ left' = {} /\ UNCHANGED offered
         ELSE offered' = Offers(rules) /\ UNCHANGED <<listed, left>>
    /\ UNCHANGED <<breed, templates, rules, edits>>

Next == SaveTemplate \/ SaveFence \/ DeleteTemplate \/ SaveRules \/ ListTools

Spec == Init /\ [][Next]_vars

----------------------------------------------------------------------------
(* Properties. *)

TypeOK ==
    /\ breed \in {"ollama", "comfyui"}
    /\ templates \in Seq([id : Ids, shape : Shapes]) /\ Len(templates) <= MaxTemplates
    /\ rules \in Rules
    /\ Held(listed) \subseteq Ids /\ left \subseteq Ids
    /\ offered \subseteq DOMAIN RouteOf
    /\ edits \in 0..MaxEdits

\* Every template that can be reached has one tool, and no tool is another's.
EachHasItsTool ==
    LET names == ToolNames(templates)
    IN  /\ Held(names) = {templates[i].id : i \in DOMAIN templates}
        /\ \A a, b \in DOMAIN names : names[a] = names[b] => a = b
        /\ \A name \in DOMAIN names : Len(name) <= MaxName

Clash(a, b) == Base(a)[1] = Base(b)[1]

\* A tool listed for one template runs no other, whatever is saved in between, unless one
\* whose name clashes with it has left, or another was put before it.
RunsWhatWasListed ==
    \A name \in DOMAIN listed :
        \A tpl \in RunsAs(templates, name) :
            tpl.id = listed[name] \/ \E gone \in left : Clash(gone, tpl.id)

\* What a graph should be: the template's own, but for the cells of the params that apply,
\* each set by the last of them.
AppliesTo(spec, params) == spec.type = "seed" \/ spec.name \in DOMAIN params
ValueOf(spec, params) ==
    CASE spec.type = "seed" -> Random [] spec.type = "image" -> Uploaded [] OTHER -> params[spec.name]
InBounds(spec, v) ==
    IF spec.type = "number" THEN v.is = "number" /\ v.n \in spec.min..spec.max ELSE v.is = "string"
Rebuilt(shape, params) ==
    LET specs == {i \in DOMAIN shape.params : AppliesTo(shape.params[i], params)}
        result == Reconstruct(shape, params)
    IN  /\ result.ok <=> /\ DOMAIN params \subseteq Declared(shape)
                         /\ \A i \in specs : /\ HasNodes(shape, shape.params[i])
                                             /\ \/ shape.params[i].type = "seed"
                                                \/ InBounds(shape.params[i], params[shape.params[i].name])
        /\ result.ok =>
              \A cell \in DOMAIN result.graph :
                  LET writers == {i \in specs : cell \in shape.params[i].cells}
                  IN  result.graph[cell] =
                        IF writers = {} THEN shape.graph[cell]
                        ELSE ValueOf(shape.params[CHOOSE i \in writers : \A j \in writers : j <= i], params)

Supplied == UNION {[names -> Values] : names \in SUBSET ParamNames}
\* Whatever a caller supplies, its graph is the saved template with those cells set, or it
\* is refused for a param that is unknown, out of bounds or without a node.
GraphsAreTheTemplates ==
    \A i \in DOMAIN templates : \A params \in Supplied : Rebuilt(templates[i].shape, params)

\* A template the dry run proves runs for every caller whose params fit, also one that
\* SaveFence stored unproved.  Of a template that fails the dry run nothing is said here.
ProvedTemplatesRun ==
    \A i \in DOMAIN templates : \A params \in Supplied :
        LET shape == templates[i].shape
        IN  /\ DraftOk(shape)
            /\ DOMAIN params \subseteq Declared(shape)
            /\ \A spec \in ToSet(shape.params) :
                  spec.type # "seed" /\ spec.name \in DOMAIN params => InBounds(spec, params[spec.name])
            => Reconstruct(shape, params).ok

\* An Ollama call that can be planned is refused for nothing but its model, a tool that
\* infers is offered only where some model passes, and list_models names those.
OffersWhatPasses ==
    /\ \A tool \in offered \cup Offers(rules), model \in Models :
          \A path \in Plan(rules, tool) :
              Guards(rules, path, model) <=> (tool # "list_models" => Allowed(rules, model))
    /\ \A tool \in Offers(rules) \ {"list_models"} :
          rules.models = Every \/ \E m \in rules.models : Guards(rules, RouteOf[tool], m)
    /\ \A tool \in Offers(rules) \ {"list_models"} :
          ListsModels(rules, Models) = {m \in Models : Guards(rules, RouteOf[tool], m)}

\* A call does what the list said its tool does, on the graph its template is, or is
\* refused; a template that the dry run proves runs for every caller whose params fit;
\* and an Ollama fence offers a tool that infers only where some model passes it.
\* Templates that SaveFence stored unproved may lack a node: such calls are refused
\* (comfyToolNames, planComfyCall, reconstructGraph, planOllamaCall).
ToolsKeepTheirWord ==
    /\ EachHasItsTool /\ RunsWhatWasListed
    /\ GraphsAreTheTemplates /\ ProvedTemplatesRun
    /\ OffersWhatPasses
=============================================================================
