------------------------------ MODULE Gateway ------------------------------
(* What a request to /p/* passes on its way to a flock, and what becomes   *)
(* of the answer: the gates of the proxy, of the result route and of the   *)
(* MCP endpoint, each in its own order, over one shared pipeline; and the  *)
(* proxied stream, one half of which is the client's and one the meter's.  *)
(*                                                                         *)
(* Every gate that looks something up is a step of its own, and the        *)
(* paddock's configuration may change between two of them.  The key, its   *)
(* limiter and the cache are modelled in modules of their own: here they   *)
(* answer with what they hold at that moment.                              *)
EXTENDS Integers, Sequences, FiniteSets

CONSTANTS
    Requests,       \* one request each
    Nothing,        \* no snapshot, no answer yet
    Max,            \* the fence's rate limit
    Cap,            \* MCP_MAX_IMAGE_BYTES
    MaxImages,      \* bound: images of a job
    MaxChanges,     \* bound: configuration changes
    MaxFaults       \* bound: crashes of the process and failures of the sink

\* What asks, and over which route.
Proxied == {"infer", "submit", "direct"}        \* ALL /p/:slug/*
Tools == {"infer tool", "run tool", "job tool"} \* POST /p/:slug/mcp, tools/call
Mcp == Tools \cup {"list", "note"}
KindsOf(b) == IF b = "ollama" THEN {"infer", "infer tool", "list", "note"}
                              ELSE {"submit", "direct", "poll", "run tool", "job tool", "list"}

\* What is told: by a gate, by the flock or of it, and to a client that was cut off.
Answers ==
    {"refused", "401", "unverified", "404", "403", "503", "429", "over quota", "400", "413", "202", "200",
     "invalid fence", "unplannable", "500", "forbidden", "unreachable", "handled", "running", "attached",
     "unfetchable", "too big", "broken", "whole", "left", "cut off"}

GatewayAssumption ==
    /\ Max \in Nat /\ Cap \in Nat \ {0}
    /\ {MaxImages, MaxChanges, MaxFaults} \subseteq Nat
    /\ Nothing \notin BOOLEAN
    /\ Nothing \notin Answers \cup Proxied \cup Mcp \cup {"poll"}

VARIABLES
    breed,          \* the paddock's
    conf,           \* the key and the paddock, as the configuration store answers
    slots,          \* the requests the limiter has let through in its window
    req,            \* how far each request is, what it holds and what it has caused
    stream,         \* the answer of the flock to each request
    meter,          \* what its meter branch does
    emits,          \* how often its usage was emitted
    forgone,        \* history: requests whose usage was lost to a fault
    cut,            \* history: requests whose answer the flock, or a crash, broke off
    changes, faults

asked == <<breed, slots>>
metering == <<stream, meter, emits, forgone, cut>>
vars == <<breed, conf, slots, req, metering, changes, faults>>

Configured == [key : BOOLEAN, scoped : BOOLEAN, on : BOOLEAN, credential : BOOLEAN, fence : BOOLEAN]

New == [kind |-> Nothing, pc |-> "new", key |-> Nothing, paddock |-> Nothing,
        paid |-> FALSE, read |-> FALSE, reached |-> FALSE,
        images |-> 0, bytes |-> 0, answer |-> Nothing, open |-> FALSE, moved |-> 0]

\* The key may use the paddock, and the paddock can be used, at this moment.
InOrder(c) == c.key /\ c.scoped /\ c.on /\ c.credential

Init ==
    /\ breed \in {"ollama", "comfyui"}
    /\ conf = [f \in {"key", "scoped", "on", "credential", "fence"} |-> TRUE]
    /\ slots = {}
    /\ req = [r \in Requests |-> New]
    /\ stream = [r \in Requests |-> "none"]
    /\ meter = [r \in Requests |-> "none"]
    /\ emits = [r \in Requests |-> 0]
    /\ forgone = {} /\ cut = {}
    /\ changes = 0 /\ faults = 0

----------------------------------------------------------------------------
(* The order of the gates.  Those that only look at the request's head --  *)
(* its declared length, its path, its Origin -- are part of its arrival.   *)

\* Mutations: the body before the limits; a call limited before it is planned.
ProxyReadsFirst == <<"auth", "scope", "body", "limits", "run">>
ToolLimitsFirst == <<"limits", "plan">>

ProxyGates == <<"auth", "scope", "limits", "body", "run">>
ToolGates == <<"plan", "limits">>
PollGates == <<"auth", "scope", "result">>
McpGates == <<"auth", "body", "scope">>
Gates(kind) ==
    CASE kind \in Proxied -> ProxyGates
      [] kind = "poll" -> PollGates
      [] kind = "note" -> <<"auth", "body">>
      [] kind = "list" -> Append(McpGates, "list")
      [] kind = "job tool" -> McpGates \o ToolGates \o <<"result", "images">>
      [] OTHER -> McpGates \o ToolGates \o <<"run">>

At(r, gate) == req[r].pc = gate

\* What a gate does to the request before it: lets it on, or answers it.
On(q) == LET gates == Gates(q.kind)
             here == CHOOSE i \in DOMAIN gates : gates[i] = q.pc
         IN  [q EXCEPT !.pc = gates[here + 1]]
Answer(q, status) == [q EXCEPT !.pc = "done", !.answer = status]
Becomes(r, q) == req' = [req EXCEPT ![r] = q]
Alone == UNCHANGED <<asked, conf, metering, changes, faults>>

\* limitRequestBody, and for MCP the slug and the Origin: a declared length over the
\* limit, a malformed slug or a foreign Origin is refused, and nothing is read.
Arrive(r) ==
    /\ req[r].pc = "new"
    /\ \E kind \in KindsOf(breed), fine \in BOOLEAN :
          LET q == [req[r] EXCEPT !.kind = kind, !.pc = "auth", !.open = InOrder(conf)]
          IN  Becomes(r, IF fine THEN q ELSE Answer(q, "refused"))
    /\ Alone

\* A proxied request needs a live key; that it reaches the paddock is the next gate's.
LiveKey == conf.key

\* An MCP token is for one paddock: its key must reach it here.
McpKey == conf.key /\ conf.scoped

\* Who presents nothing the store knows is 401, whatever the reason.
Unauthorized(q) == Answer(q, "401")

\* Credentials are good only if the store says so; MCP's cannot be judged at times (KeySet).
Authenticate(r) ==
    /\ At(r, "auth")
    /\ \/ Becomes(r, Unauthorized(req[r]))
       \/ req[r].kind \in Mcp /\ Becomes(r, Answer(req[r], "unverified"))
       \/ /\ IF req[r].kind \in Mcp THEN McpKey ELSE LiveKey
          /\ Becomes(r, On([req[r] EXCEPT !.key = conf.scoped]))
    /\ Alone

\* paddockScope: unknown, then out of scope, then unopenable; what passes is kept, so
\* that every later gate and the flock itself see this one state of the paddock.
PaddockScope(r) ==
    /\ At(r, "scope")
    /\ Becomes(r, IF ~conf.on THEN Answer(req[r], "404")
                  ELSE IF ~req[r].key THEN Answer(req[r], "403")
                  ELSE IF ~conf.credential THEN Answer(req[r], "503")
                  ELSE On([req[r] EXCEPT !.paddock = conf.fence]))
    /\ Alone

\* limits: the limiter admits and spends a slot, and only then is the quota looked at:
\* a request over quota has spent its slot.
Limited(r) == Cardinality(slots) >= Max
CheckLimits(r) ==
    /\ At(r, "limits")
    /\ IF Limited(r)
         THEN Becomes(r, Answer(req[r], "429")) /\ UNCHANGED slots
         ELSE /\ slots' = slots \cup {r}
              /\ LET q == [req[r] EXCEPT !.paid = TRUE]
                 IN  Becomes(r, On(q)) \/ Becomes(r, Answer(q, "over quota"))
    /\ UNCHANGED <<breed, conf, metering, changes, faults>>

\* What may be wrong with an MCP body: it is no JSON-RPC, or a request's headers disagree
\* with it.  A notification has none, and nothing acts on it.
RpcVerdicts(kind) == IF kind \in Mcp THEN {"400"} ELSE {}
EraVerdicts(kind) == IF kind \in Mcp \ {"note"} THEN {"400"} ELSE {"202"}

\* The body is read, counted on the way.  The proxy takes what does not parse as no body
\* at all; MCP answers 400, and 202 to a notification.
ReadBody(r) ==
    /\ At(r, "body")
    /\ LET q == [req[r] EXCEPT !.read = TRUE]
           verdicts == {"413"} \cup RpcVerdicts(q.kind) \cup (IF q.kind \in Mcp THEN EraVerdicts(q.kind) ELSE {})
       IN  \/ \E verdict \in verdicts : Becomes(r, Answer(q, verdict))
           \/ q.kind # "note" /\ Becomes(r, On(q))
    /\ Alone

\* dispatch: an invalid fence, an unknown method, or the list of tools.
List(r) ==
    /\ At(r, "list")
    /\ Becomes(r, Answer(req[r], IF req[r].paddock THEN "200" ELSE "invalid fence"))
    /\ Alone

\* toolsCall and callTool up to its gates: a call that names no tool, or that the breed
\* cannot plan, is answered before it costs anything.
Plan(r) ==
    /\ At(r, "plan")
    /\ \/ Becomes(r, Answer(req[r], IF req[r].paddock THEN "unplannable" ELSE "invalid fence"))
       \/ req[r].paddock /\ Becomes(r, On(req[r]))
    /\ Alone

----------------------------------------------------------------------------
(* Past the gates. *)

\* run.  The proxy parses the fence here, and throws if it cannot.  A direct route of a
\* breed that handles its own flow is refused by its guard, as is what the fence forbids.
\* A flow of the breed's own is answered when it is over (module Jobs); for the rest the
\* flock's answer is split in two as soon as its head is there.
Run(r) ==
    /\ At(r, "run")
    /\ \/ /\ Becomes(r, Answer(req[r], IF ~req[r].paddock THEN "500" ELSE "forbidden"))
          /\ UNCHANGED <<stream, meter>>
       \/ /\ req[r].paddock /\ req[r].kind # "direct"
          /\ LET q == [req[r] EXCEPT !.reached = TRUE]
             IN  \/ Becomes(r, Answer(q, "unreachable")) /\ UNCHANGED <<stream, meter>>
                 \/ /\ q.kind \in {"submit", "run tool"}
                    /\ Becomes(r, Answer(q, "handled")) /\ UNCHANGED <<stream, meter>>
                 \/ /\ q.kind \in {"infer", "infer tool"}
                    /\ Becomes(r, [q EXCEPT !.pc = "waiting"])
                    /\ stream' = [stream EXCEPT ![r] = "open"]
                    /\ meter' = [meter EXCEPT ![r] = "reading"]
    /\ UNCHANGED <<asked, conf, emits, forgone, cut, changes, faults>>

\* jobResult (module Jobs): over HTTP that is the answer, over MCP its images are attached
\* if the job is done.
JobResult(r) ==
    /\ At(r, "result")
    /\ \/ Becomes(r, Answer(req[r], "404"))
       \/ /\ ~(req[r].kind = "job tool")
          /\ Becomes(r, Answer([req[r] EXCEPT !.reached = TRUE], "200"))
       \/ /\ req[r].kind = "job tool"
          /\ \/ Becomes(r, Answer([req[r] EXCEPT !.reached = TRUE], "running"))
             \/ \E n \in 0..MaxImages : Becomes(r, On([req[r] EXCEPT !.reached = TRUE, !.images = n]))
    /\ Alone

\* attachImageBytes, one image at a time: `images' are left to fetch and `bytes' are held.
TooBig(q, size) == size > Cap - q.bytes
Attach(r) ==
    /\ At(r, "images")
    /\ LET q == req[r]
       IN  \/ q.images = 0 /\ Becomes(r, Answer(q, "attached"))
           \/ /\ q.images > 0
              /\ \/ Becomes(r, Answer(q, "unfetchable"))
                 \/ \E size \in 0..(Cap + 1) :
                       Becomes(r, IF TooBig(q, size) THEN Answer(q, "too big")
                                  ELSE [q EXCEPT !.images = @ - 1, !.bytes = @ + size])
    /\ Alone

----------------------------------------------------------------------------
(* A proxied answer: body.tee(), the client's branch and readOutcome's.    *)

\* Mutation: a client that leaves takes the flock's answer with it.
LeavingCuts(s) == IF s = "open" THEN "broken" ELSE s

\* A branch that is cancelled leaves the other one reading.
Leaving(s) == s

\* The flock's answer ends: with counts in its last frame, without any, or broken off.
StreamEnds(r) ==
    /\ stream[r] = "open"
    /\ \E end \in {"counted", "uncounted", "broken"} :
          /\ stream' = [stream EXCEPT ![r] = end]
          /\ cut' = IF end = "broken" THEN cut \cup {r} ELSE cut
    /\ UNCHANGED <<asked, conf, req, meter, emits, forgone, changes, faults>>

\* Its client reads it to the end, or as far as it goes.
ClientServed(r) ==
    /\ req[r].pc = "waiting" /\ req[r].kind = "infer"
    /\ stream[r] # "open"
    /\ Becomes(r, Answer(req[r], IF stream[r] = "broken" THEN "broken" ELSE "whole"))
    /\ Alone

\* It may leave at any time.
ClientLeaves(r) ==
    /\ req[r].pc = "waiting" /\ req[r].kind = "infer"
    /\ Becomes(r, Answer(req[r], "left"))
    /\ stream' = [stream EXCEPT ![r] = Leaving(@)]
    /\ UNCHANGED <<asked, conf, meter, emits, forgone, cut, changes, faults>>

\* The last frame that parses is what is metered, and it makes an event only if it counts.
FinalFrame(r) == stream[r]
Meters(frame) == frame = "counted"

\* readOutcome: a broken answer makes no events.
MeterReads(r) ==
    /\ meter[r] = "reading" /\ stream[r] # "open"
    /\ meter' = [meter EXCEPT ![r] = IF Meters(FinalFrame(r)) THEN "emitting" ELSE "none"]
    /\ Becomes(r, IF req[r].kind = "infer tool" /\ req[r].pc = "waiting"
                  THEN Answer(req[r], IF stream[r] = "broken" THEN "unreachable" ELSE "whole")
                  ELSE req[r])
    /\ UNCHANGED <<asked, conf, stream, emits, forgone, cut, changes, faults>>

Emit(r) ==
    /\ meter[r] = "emitting"
    /\ meter' = [meter EXCEPT ![r] = "none"]
    /\ emits' = [emits EXCEPT ![r] = @ + 1]
    /\ UNCHANGED <<asked, conf, req, stream, forgone, cut, changes, faults>>

\* emitScoped swallows a failure of the sink: metering never fails a request.
EmitFails(r) ==
    /\ meter[r] = "emitting" /\ faults < MaxFaults
    /\ meter' = [meter EXCEPT ![r] = "none"]
    /\ forgone' = forgone \cup {r}
    /\ faults' = faults + 1
    /\ UNCHANGED <<asked, conf, req, stream, emits, cut, changes>>

\* The process dies: nobody waits for what it was about to emit (server.ts never drains).
Crash ==
    /\ faults < MaxFaults
    /\ req' = [r \in Requests |-> IF req[r].pc \in {"new", "done"} THEN req[r] ELSE Answer(req[r], "cut off")]
    /\ stream' = [r \in Requests |-> IF stream[r] = "open" THEN "broken" ELSE stream[r]]
    /\ cut' = cut \cup {r \in Requests : stream[r] = "open"}
    /\ meter' = [r \in Requests |-> "none"]
    /\ forgone' = forgone \cup {r \in Requests : meter[r] # "none"}
    /\ faults' = faults + 1
    /\ UNCHANGED <<asked, conf, emits, changes>>

----------------------------------------------------------------------------

\* What the store answers about the key or the paddock changes, in one thing at a time: by
\* a write of the console, and back by another or, for a key, by a lookup that was under way
\* across its invalidation (ConfigCache).
Changes(f) ==
    /\ changes < MaxChanges
    /\ conf' = [conf EXCEPT ![f] = ~@]
    /\ changes' = changes + 1
    /\ req' = [r \in Requests |->
                 IF req[r].pc \in {"new", "done"} THEN req[r]
                 ELSE [req[r] EXCEPT !.open = @ \/ InOrder(conf'), !.moved = @ + 1]]
    /\ UNCHANGED <<asked, metering, faults>>

RevokeKey == Changes("key")
SavePaddock == Changes("scoped")        \* its slug is another
SetPaddockStatus == Changes("on")
SaveFlock == Changes("credential")      \* it opens under the ring of keys, or does not
SaveFence == Changes("fence")           \* it parses, or does not

Writing == RevokeKey \/ SavePaddock \/ SetPaddockStatus \/ SaveFlock \/ SaveFence

\* The limiter's window passes.
Window ==
    /\ slots # {}
    /\ slots' = {}
    /\ UNCHANGED <<breed, conf, req, metering, changes, faults>>

Serving(r) ==
    \/ Arrive(r) \/ Authenticate(r) \/ PaddockScope(r) \/ CheckLimits(r) \/ ReadBody(r) \/ List(r) \/ Plan(r)
    \/ Run(r) \/ JobResult(r) \/ Attach(r)
    \/ ClientServed(r) \/ ClientLeaves(r)
Metered(r) == StreamEnds(r) \/ MeterReads(r) \/ Emit(r) \/ EmitFails(r)

Next == (\E r \in Requests : Serving(r) \/ Metered(r)) \/ Crash \/ Writing \/ Window

Spec == Init /\ [][Next]_vars

----------------------------------------------------------------------------
(* Properties. *)

TypeOK ==
    /\ breed \in {"ollama", "comfyui"}
    /\ conf \in Configured
    /\ slots \subseteq {r \in Requests : req[r].paid}
    /\ \A r \in Requests :
          /\ req[r].kind \in KindsOf(breed) \cup {Nothing}
          /\ \/ req[r].pc \in {"new", "waiting", "done"}
             \/ \E i \in DOMAIN Gates(req[r].kind) : Gates(req[r].kind)[i] = req[r].pc
          /\ {req[r].key, req[r].paddock} \subseteq BOOLEAN \cup {Nothing}
          /\ req[r].bytes \in 0..Cap /\ req[r].images \in 0..MaxImages
          /\ req[r].answer \in IF req[r].pc = "done" THEN Answers ELSE {Nothing}
    /\ stream \in [Requests -> {"none", "open", "counted", "uncounted", "broken"}]
    /\ meter \in [Requests -> {"none", "reading", "emitting"}]
    /\ emits \in [Requests -> 0..1]
    /\ forgone \subseteq Requests /\ cut \subseteq Requests
    /\ changes \in 0..MaxChanges /\ faults \in 0..MaxFaults

\* Whatever the order its route asks in, and whatever changes in between: no body is read
\* for a caller the key store does not know, and the proxy reads none the limiter refused;
\* a call refused for its form costs nothing; only a caller the paddock is open to learns
\* that its credential cannot be opened.
AsksInOrder(q) ==
    /\ q.read => q.key # Nothing
    /\ q.read /\ q.kind \in Proxied => q.paid
    /\ q.answer \in {"400", "unplannable", "invalid fence"} => ~q.paid
    /\ q.answer = "503" => q.key = TRUE

\* The flock is reached only past every gate, for a slot and under a fence that parses unless
\* it is a poll; and there was a moment in the request at which all the gates stood open, but for two changes that let
\* it pass one before it closed and the other after it opened.
ReachesInOrder(q) ==
    q.reached =>
        /\ q.key = TRUE
        /\ q.kind = "poll" \/ (q.paddock = TRUE /\ q.paid)
        /\ q.kind # "direct"
        /\ q.open \/ q.moved > 1

\* Images are answered all or not at all, and within the cap.
AttachesAll(q) == q.answer = "attached" => q.images = 0 /\ q.bytes <= Cap

\* Every gate is asked in its place, by every route, and the flock is reached past all of
\* them; the limiter lets no more through than the fence allows (app.ts, pipeline.ts,
\* endpoint.ts, job-images.ts).
GatesHold ==
    /\ \A r \in Requests : AsksInOrder(req[r]) /\ ReachesInOrder(req[r]) /\ AttachesAll(req[r])
    /\ Cardinality(slots) <= Max

\* A counted answer is emitted once, whether its client read it, left or was never told,
\* unless the sink or the process failed; a broken one never is, and a client is told of
\* no whole answer where there was none.
ServedIsMetered ==
    \A r \in Requests :
        /\ emits[r] <= 1
        /\ emits[r] = 1 => stream[r] = "counted"
        /\ stream[r] = "counted" => emits[r] = 1 \/ meter[r] # "none" \/ r \in forgone
        /\ req[r].answer = "whole" => stream[r] \in {"counted", "uncounted"}
        /\ req[r].answer = "left" /\ stream[r] = "broken" => r \in cut
=============================================================================
