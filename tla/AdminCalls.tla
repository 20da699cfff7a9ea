----------------------------- MODULE AdminCalls -----------------------------
(***************************************************************************)
(* Calls of the `mm' CLI to the admin API, and the collection they list,   *)
(* add to and retire from: the API keys, which are revoked and stay        *)
(* listed, or the flocks, which are deleted.                               *)
(*                                                                         *)
(* A call sends the stored access token, renewed beforehand when it is     *)
(* about to run out, and once more after a 401.  A listing longer than a   *)
(* page is read by repeating the command with the cursor it printed, while *)
(* others write.  One refresh is one step here, CliSession has its lock    *)
(* and the OP's side; the cache invalidation a write publishes is in       *)
(* ConfigCache.                                                            *)
(***************************************************************************)
EXTENDS Naturals, Sequences, FiniteSets, FiniteSetsExt

CONSTANTS
    Procs,          \* operators' `mm' processes, one call at a time each
    MaxId,          \* ids, in the order the database sorts them
    Limit,          \* rows of a page
    Ops,            \* the commands run
    Home,           \* the resource of the console the calls go to
    Elsewhere,      \* another console's
    Nil,            \* no credential
    MaxCalls,       \* bound on calls
    MaxTokens,      \* bound on access tokens issued
    MaxWrites,      \* bound on writes made in the console meanwhile
    MaxFaults       \* bound on answers lost, refused or failing without cause

AllOps == {"list", "create", "retire"}

AdminCallsAssumption ==
    /\ {MaxId, Limit} \subseteq Nat \ {0}
    /\ {MaxCalls, MaxTokens, MaxWrites, MaxFaults} \subseteq Nat
    /\ Ops \subseteq AllOps /\ Home # Elsewhere

Ids == 1..MaxId
Kinds == {"keys", "flocks"}
Row == {"none", "live", "retired"}

VARIABLES
    kind,        \* which collection
    rows,        \* [Ids -> Row]: ids are random, so any unused one comes next
    audit,       \* [Ids -> [create, retire : Nat]]: the audit log's rows
    store,       \* the credential in the file: [n, resource, writes, renewable], or Nil
    age,         \* [1..MaxTokens -> "fresh", "closing" on its expiry, or "expired"]
    issued,      \* access tokens issued
    call,        \* [Procs -> the call]
    listing,     \* [Procs -> the pages read so far, each the set of its rows]
    calls, writes, faults,
    replaced     \* history: the processes during whose call someone signed in or out

callVars == <<kind, rows, audit, store, age, issued, call, listing, calls, writes, faults, replaced>>
table == <<rows, audit>>
cred == <<store, age, issued>>

NoCall == [pc |-> "idle", op |-> "list", id |-> 0, cred |-> Nil, refreshed |-> FALSE, early |-> FALSE,
           sends |-> 0, renewals |-> 0, applied |-> 0, result |-> "none"]
\* No page read yet; the cursor before the first id asks for the first.
NoPages == [cursor |-> 0, shown |-> <<>>, owed |-> {}, whole |-> FALSE]

Token(n, resource, may, renewable) == [n |-> n, resource |-> resource, writes |-> may, renewable |-> renewable]

\* Some rows, and a sign-in with or without resource.write and a refresh token.
Init ==
    /\ kind \in Kinds
    /\ rows \in [Ids -> {"none", "live"}]
    /\ audit = [i \in Ids |-> [create |-> IF rows[i] = "live" THEN 1 ELSE 0, retire |-> 0]]
    /\ \E may, renewable \in BOOLEAN : store = Token(1, Home, may, renewable)
    /\ age = [n \in 1..MaxTokens |-> "fresh"] /\ issued = 1
    /\ call = [p \in Procs |-> NoCall]
    /\ listing = [p \in Procs |-> NoPages]
    /\ calls = 0 /\ writes = 0 /\ faults = 0 /\ replaced = {}

Fault == faults < MaxFaults /\ faults' = faults + 1
\* The process ends: of the call its report is left, and what it did.
Ends(c, result) == [c EXCEPT !.pc = "done", !.result = result, !.cred = Nil, !.refreshed = FALSE, !.early = FALSE]
Ended(p, c, result) == call' = [call EXCEPT ![p] = Ends(c, result)]

\* A deleted flock's row is gone; a revoked key's is not.
Listed == {i \in Ids : rows[i] = "live" \/ (kind = "keys" /\ rows[i] = "retired")}

----------------------------------------------------------------------------
(* The command: it loads the stored credential, and refuses one that is    *)
(* bound to another console before anything is sent with it.               *)

LoadedBy(p) == store # Nil /\ store.resource = Home
\* Mutation: whatever is stored for the issuer is sent.
LoadsAny(p) == store # Nil
Loads(p) == LoadedBy(p)

\* The first page of a listing; another one repeats it with --cursor.
NewListing(p, op) == op = "list" /\ (listing[p].cursor = 0 \/ listing[p].whole)

Begin(p, op, id) ==
    /\ call[p].pc \in {"idle", "done"} /\ calls < MaxCalls /\ calls' = calls + 1
    /\ op = "retire" \/ id = 1
    /\ LET c == [NoCall EXCEPT !.op = op, !.id = id, !.cred = store, !.pc = "margin"]
       IN  call' = [call EXCEPT ![p] = IF Loads(p) THEN c ELSE Ends(c, "failed")]
    /\ listing' = IF NewListing(p, op) THEN [listing EXCEPT ![p] = [NoPages EXCEPT !.owed = Listed]]
                  ELSE listing
    /\ replaced' = replaced \ {p}
    /\ UNCHANGED <<kind, table, cred, writes, faults>>

(* Before anything is sent: with a refresh token, a credential that has    *)
(* expired or expires within the margin is refreshed.                      *)
Due(p) == call[p].cred.renewable /\ age[call[p].cred.n] # "fresh"

InTime(p) ==
    /\ call[p].pc = "margin" /\ ~Due(p)
    /\ call' = [call EXCEPT ![p].pc = "send"]
    /\ UNCHANGED <<kind, table, cred, listing, calls, writes, faults, replaced>>

(* refreshStored, on `stale': what another process stored meanwhile is     *)
(* used; else one refresh.  Renewing is before sending or after a 401.     *)
Renewing(p) == call[p].pc = "renew" \/ (call[p].pc = "margin" /\ Due(p))
Renewed(p, c, token) ==
    call' = [call EXCEPT ![p] = [c EXCEPT !.pc = "send", !.cred = token, !.refreshed = TRUE]]

UsesStored(p) ==
    /\ Renewing(p) /\ store # Nil /\ store.n # call[p].cred.n
    /\ Renewed(p, call[p], store)
    /\ UNCHANGED <<kind, table, cred, listing, calls, writes, faults, replaced>>

OwnStored(p) == Renewing(p) /\ store # Nil /\ store.n = call[p].cred.n
Presents(p) == OwnStored(p) /\ store.renewable
Presented(p) == [call[p] EXCEPT !.renewals = @ + 1]

Refreshed(p) ==
    /\ Presents(p) /\ issued < MaxTokens /\ issued' = issued + 1
    /\ store' = [store EXCEPT !.n = issued + 1]
    /\ Renewed(p, Presented(p), store')
    /\ UNCHANGED <<kind, table, age, listing, calls, writes, faults, replaced>>

\* SignInAgainError fails the call at whichever stage; a refusal drops the credential.
SignInAgain(p) ==
    /\ \/ /\ Renewing(p) /\ (store = Nil \/ (OwnStored(p) /\ ~store.renewable))
          /\ Ended(p, call[p], "failed")
          /\ UNCHANGED <<store, faults>>
       \/ /\ Presents(p) /\ Fault /\ store' = Nil
          /\ Ended(p, Presented(p), "failed")
    /\ UNCHANGED <<kind, table, age, issued, listing, calls, writes, replaced>>

\* Any other failure (the OP unreachable, a 5xx, the lock) is final after a
\* 401, and before sending once the token has expired on this machine's clock.
Final(p) == call[p].pc = "renew" \/ age[call[p].cred.n] = "expired"
RefreshFails(p) ==
    /\ Renewing(p) /\ Fault
    /\ IF Final(p) THEN Ended(p, Presented(p), "failed")
       ELSE call' = [call EXCEPT ![p] = [Presented(p) EXCEPT !.pc = "send", !.early = TRUE]]
    /\ UNCHANGED <<kind, table, cred, listing, calls, writes, replaced>>

----------------------------------------------------------------------------
(* The exchange.  The handler's half is a transaction, the client's half   *)
(* touches only its own: one step, of which the answer may be lost.        *)

\* Only a token of this console's resource reaches a handler.
Admitted(p) == call[p].pc = "send" /\ call[p].cred.resource = Home

\* The answer, or a network failure in its place.
Sent(p) == [call[p] EXCEPT !.sends = @ + 1]
Answer(p, result, n) ==
    LET c == [Sent(p) EXCEPT !.applied = @ + n]
    IN  (Ended(p, c, result) /\ UNCHANGED faults) \/ (Fault /\ Ended(p, c, "unsent"))
Heard(p) == call'[p].result # "unsent"

\* requireCapability: the token's scope, and the role with it.
Allowed(p) == Admitted(p) /\ (call[p].op # "list" => call[p].cred.writes)
Forbidden(p) ==
    /\ Admitted(p) /\ ~Allowed(p)
    /\ Answer(p, "problem", 0)
    /\ UNCHANGED <<kind, table, cred, listing, calls, writes, replaced>>

\* The row and its audit row, in one transaction.
Adds(i) ==
    /\ rows[i] = "none"
    /\ rows' = [rows EXCEPT ![i] = "live"]
    /\ audit' = [audit EXCEPT ![i].create = @ + 1]

\* UPDATE ... WHERE status = 'active', or DELETE: the one that matches is audited.
Retires(i) ==
    /\ rows[i] = "live"
    /\ rows' = [rows EXCEPT ![i] = "retired"]
    /\ audit' = [audit EXCEPT ![i].retire = @ + 1]
\* Mutation: revoked whatever its status was.
RetiresAgain(i) ==
    /\ rows[i] # "none"
    /\ rows' = [rows EXCEPT ![i] = "retired"]
    /\ audit' = [audit EXCEPT ![i].retire = @ + 1]
Matched(i) == Retires(i)

Create(p) ==
    /\ Allowed(p) /\ call[p].op = "create"
    /\ \E i \in Ids : Adds(i)
    /\ Answer(p, "ok", 1)
    /\ UNCHANGED <<kind, cred, listing, calls, writes, replaced>>

Retire(p) ==
    /\ Allowed(p) /\ call[p].op = "retire"
    /\ Matched(call[p].id)
    /\ Answer(p, "ok", 1)
    /\ UNCHANGED <<kind, cred, listing, calls, writes, replaced>>

\* No row matched: a key revoked already is what was asked for, anything else is not found.
RetireNothing(p) ==
    /\ Allowed(p) /\ call[p].op = "retire" /\ rows[call[p].id] # "live"
    /\ Answer(p, IF call[p].id \in Listed THEN "ok" ELSE "problem", 0)
    /\ UNCHANGED <<kind, table, cred, listing, calls, writes, replaced>>

\* ORDER BY id LIMIT limit: the rows behind which at most a page stands.
FirstOf(ids) == {i \in ids : Cardinality({j \in ids : j <= i}) <= Limit}
\* WHERE id > cursor.
PageAfter(cursor) == FirstOf({i \in Listed : i > cursor})
\* Mutation: from the cursor on.
PageFrom(cursor) == FirstOf({i \in Listed : i >= cursor})
Page(cursor) == PageAfter(cursor)

\* A full page may not be the last.
MayBeMore(page) == Cardinality(page) = Limit
\* Mutation: as if the service had read a row more than the page.
MoreThanLimit(page) == Cardinality(page) > Limit
More(page) == MayBeMore(page)

\* A page is shown as it was read, with the cursor to repeat the command with.
List(p) ==
    /\ Admitted(p) /\ call[p].op = "list"
    /\ Answer(p, "ok", 0)
    /\ listing' = IF Heard(p)
                  THEN LET page == Page(listing[p].cursor)
                       IN  [listing EXCEPT ![p].shown = Append(@, page),
                                           ![p].cursor = IF More(page) THEN Max(page) ELSE @,
                                           ![p].whole = ~More(page)]
                  ELSE listing
    /\ UNCHANGED <<kind, table, cred, calls, writes, replaced>>

\* 401: with an early refresh's error in hand, that is reported; a token not
\* refreshed in this call is, and sent again; else it is the API's problem.
RefreshesOnce(p) == ~call[p].refreshed /\ ~call[p].early
\* Mutation: a refresh that failed before sending is tried again.
RefreshesAgain(p) == ~call[p].refreshed
MayRenew(p) == RefreshesOnce(p)

\* The server holds it expired, on its own clock, or has a reason of its own.
Refuses(p) == \/ (call[p].cred.resource # Home \/ age[call[p].cred.n] # "fresh") /\ UNCHANGED faults
              \/ Fault
Refused(p) ==
    /\ call[p].pc = "send" /\ Refuses(p)
    /\ IF MayRenew(p) THEN call' = [call EXCEPT ![p] = [Sent(p) EXCEPT !.pc = "renew"]]
       ELSE Ended(p, Sent(p), IF call[p].early THEN "failed" ELSE "problem")
    /\ UNCHANGED <<kind, table, cred, listing, calls, writes, replaced>>

\* A 503 or 500 before any handler, a redirect, or a request that never left.
Unserved(p) ==
    /\ call[p].pc = "send" /\ Fault
    /\ \E result \in {"problem", "unsent"} : Ended(p, Sent(p), result)
    /\ UNCHANGED <<kind, table, cred, listing, calls, writes, replaced>>

----------------------------------------------------------------------------
(* Others: the console's users, another `mm login' or `mm logout', time.   *)

Write == writes < MaxWrites /\ writes' = writes + 1

\* A row that goes while a listing is read is owed to nobody.
ConsoleWrites ==
    /\ Write
    /\ \E i \in Ids : Adds(i) \/ Retires(i)
    /\ UNCHANGED <<kind, cred, call, listing, calls, faults, replaced>>

SignsIn ==
    /\ issued < MaxTokens /\ issued' = issued + 1
    /\ \E resource \in {Home, Elsewhere} : store' = Token(issued + 1, resource, TRUE, TRUE)
    /\ replaced' = Procs
    /\ UNCHANGED <<kind, table, age, call, listing, calls, writes, faults>>

SignsOut ==
    /\ store # Nil /\ Fault /\ store' = Nil
    /\ replaced' = Procs
    /\ UNCHANGED <<kind, table, age, issued, call, listing, calls, writes>>

\* Time counts only for a token some call is about to send.
Ages ==
    /\ \E n \in {call[p].cred.n : p \in {q \in Procs : call[q].pc \in {"margin", "send"}}} :
           age' = [age EXCEPT ![n] = CASE @ = "fresh" -> "closing" [] OTHER -> "expired"]
    /\ age' # age
    /\ UNCHANGED <<kind, table, store, issued, call, listing, calls, writes, faults, replaced>>

Asking(p) == \E op \in Ops, id \in Ids : Begin(p, op, id)
Authorizing(p) ==
    InTime(p) \/ UsesStored(p) \/ Refreshed(p) \/ SignInAgain(p) \/ RefreshFails(p)
Answered(p) ==
    \/ Forbidden(p) \/ Create(p) \/ Retire(p) \/ RetireNothing(p) \/ List(p)
    \/ Refused(p) \/ Unserved(p)
Others == ConsoleWrites \/ SignsIn \/ SignsOut \/ Ages

Next == (\E p \in Procs : Asking(p) \/ Authorizing(p) \/ Answered(p)) \/ Others

Spec == Init /\ [][Next]_callVars

----------------------------------------------------------------------------
Tokens == [n : Nat, resource : {Home, Elsewhere}, writes : BOOLEAN, renewable : BOOLEAN]
CallStates == [pc : {"idle", "margin", "send", "renew", "done"}, op : AllOps, id : 0..MaxId,
               cred : Tokens \cup {Nil}, refreshed : BOOLEAN, early : BOOLEAN,
               sends : Nat, renewals : Nat, applied : Nat,
               result : {"none", "ok", "problem", "unsent", "failed"}]
ListingStates == [cursor : 0..MaxId, shown : Seq(SUBSET Ids), owed : SUBSET Ids, whole : BOOLEAN]
Calling(p) == call[p].pc \in {"margin", "send", "renew"}

TypeOK ==
    /\ kind \in Kinds /\ rows \in [Ids -> Row]
    /\ audit \in [Ids -> [create : Nat, retire : Nat]]
    /\ store \in Tokens \cup {Nil} /\ issued \in Nat
    /\ call \in [Procs -> CallStates]
    /\ \A p \in Procs : Calling(p) => call[p].cred \in Tokens
    /\ listing \in [Procs -> ListingStates]
    /\ replaced \subseteq Procs

(* What a command reports is what it did: after a success the row is there *)
(* or retired, after a problem or a failure nothing was written, and only  *)
(* a lost answer leaves that open; a call writes, renews and retries once, *)
(* whichever of a 401, an early refresh and another process's refresh came *)
(* together.  The audit log has one row for each write and none for a      *)
(* retirement that changed nothing.  A token is sent to the console it is  *)
(* for: only a sign-in that replaced the credential during the call gets   *)
(* another past loadCredential, by the refresh that returns what is stored *)
(* now.  callApi, refreshStored, revokeKey.                                *)
CallsAreHonest ==
    /\ \A p \in Procs :
           LET c == call[p] IN
           /\ c.applied <= 1 /\ c.renewals <= 1 /\ c.sends <= 2
           /\ c.result = "ok" /\ c.op = "create" => c.applied = 1
           /\ c.result = "ok" /\ c.op = "retire" => rows[c.id] = "retired"
           /\ c.result \in {"problem", "failed"} => c.applied = 0
           /\ c.pc = "send" /\ c.cred.resource # Home => p \in replaced
    /\ \A i \in Ids :
           audit[i] = [create |-> IF rows[i] = "none" THEN 0 ELSE 1,
                       retire |-> IF rows[i] = "retired" THEN 1 ELSE 0]

(* A listing read page by page shows each row once, in order, and when no  *)
(* more results are announced it has shown every row that was there when   *)
(* it began and still is, however rows came and went between the pages.    *)
(* PageOpts, listKeys, listFlocks, linkHeader, runApi.                     *)
ListingsAreWhole ==
    \A p \in Procs :
        LET l == listing[p] IN
        /\ \A j, k \in DOMAIN l.shown :
              j < k => \A i \in l.shown[j], later \in l.shown[k] : i < later
        /\ l.whole => l.owed \cap Listed \subseteq UNION {l.shown[j] : j \in DOMAIN l.shown}
=============================================================================
