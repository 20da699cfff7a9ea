------------------------------ MODULE Consent ------------------------------
(***************************************************************************)
(* One user approving one MCP client, paddock by paddock: the interactions *)
(* at the OP, its grants and tokens, the mint at the control plane, and    *)
(* the keys the data plane will meter by.                                  *)
(*                                                                         *)
(* Approve mints a key bound to the grant over HTTP, and only then saves   *)
(* the grant; the OP stops waiting after 5 s and the mint goes on without  *)
(* it.  A key is found by (grant, paddock) each time a token is issued.    *)
(***************************************************************************)
EXTENDS Naturals, FiniteSets

CONSTANTS
    Tabs, Browsers, \* interactions under way at a time, and whose session they have
    Slugs,          \* paddocks
    Null,           \* no grant, no key, nothing under way
    MaxApprovals,   \* bound on approvals, each with its assertion
    MaxChanges,     \* bound on revocations and changes of role or paddock
    MaxFaults       \* bound on lost claims, resent assertions and lost answers

Approvals == 1..MaxApprovals
Grants == Approvals               \* a new grant is numbered by the approval that chose its id

Keys == [grant : Grants, by : Approvals]
Flows == [slug : Slugs, grant : Grants \cup {Null}, by : Approvals \cup {Null}, had : SUBSET Slugs,
          missing : SUBSET Slugs, step : {"asked", "minting", "minted", "saved"}]
MintCalls == [slug : Slugs, grant : Grants, step : {"sent", "claimed", "minted", "denied", "refused"}]
Pairs == [grant : Grants, slug : Slugs]

ConsentAssumption ==
    /\ Tabs # {} /\ Browsers # {} /\ Slugs # {}
    /\ {MaxApprovals, MaxChanges, MaxFaults} \subseteq Nat
    /\ Null \notin Approvals /\ \A slugs \in SUBSET Slugs : slugs # Null
    /\ Null \notin Keys /\ Null \notin Flows /\ Null \notin MintCalls

VARIABLES
    home,        \* [Tabs -> its browser]
    may,         \* the user's role may approve
    open,        \* paddocks that are active
    key,         \* [Slugs -> the user's active oauth key: [grant, by], or Null]
    scope,       \* [Grants -> the paddocks it covers, or Null: not saved, or revoked]
    bound,       \* [Browsers -> the session's grant for the client, or Null]
    flow,        \* [Tabs -> [slug, grant, step, by, had, missing], or Null]
    call,        \* [Approvals -> [slug, grant, step], or Null]
    claimed,     \* jtis in the replay guard, as approvals
    codes, refreshes,  \* live codes and refresh tokens: [grant, slug]
    changes, faults,
    issued,      \* history: access tokens [grant, slug, by]
    revoked,     \* history: approvals whose key was revoked
    failed,      \* history: approvals answered "nothing was granted"
    mints,       \* history: [Approvals -> mints committed]
    disturbed,   \* history: codes whose key went after they were issued
    overlapped   \* history: grants two interactions held at once, or revoked while one did

consentVars == <<home, may, open, key, scope, bound, flow, call, claimed, codes, refreshes,
                 changes, faults, issued, revoked, failed, mints, disturbed, overlapped>>
tokens == <<codes, refreshes, issued>>
standing == <<home, may, open, changes>>
atServer == <<key, claimed, revoked, mints, disturbed>>

Saved(g) == g # Null /\ scope[g] # Null
Under(g, s) == [grant |-> g, slug |-> s]

\* activeOauthKeyForGrant.  Mutation: the key is looked for by its grant alone.
KeyOfGrant(g, s) == {key[t] : t \in {t \in Slugs : key[t] # Null /\ key[t].grant = g}}
KeyFor(g, s) == {key[t] : t \in {t \in {s} : key[t] # Null /\ key[t].grant = g}}

Init ==
    /\ home \in [Tabs -> Browsers]
    /\ may = TRUE
    /\ open = Slugs
    /\ key = [s \in Slugs |-> Null]
    /\ scope = [g \in Grants |-> Null]
    /\ bound = [b \in Browsers |-> Null]
    /\ flow = [t \in Tabs |-> Null]
    /\ call = [n \in Approvals |-> Null]
    /\ claimed = {} /\ codes = {} /\ refreshes = {}
    /\ changes = 0 /\ faults = 0
    /\ issued = {} /\ revoked = {} /\ failed = {} /\ disturbed = {} /\ overlapped = {}
    /\ mints = [n \in Approvals |-> 0]

Fault == faults < MaxFaults /\ faults' = faults + 1
Change == changes < MaxChanges /\ changes' = changes + 1

\* Codes that find no key once this paddock's is gone or rebound.
Disturbed(s) == {c \in codes : key[s] # Null /\ c = Under(key[s].grant, s)}

----------------------------------------------------------------------------
(* The OP: /auth and the interaction. *)

\* The consent prompt, with the check the policy adds to oidc-provider's own.
\* Mutation: the policy is oidc-provider's alone.
ScopeMissing(g, s) == ~(Saved(g) /\ s \in scope[g])
NeedsConsent(g, s) == ScopeMissing(g, s) \/ KeyFor(g, s) = {}

\* Grant.find, and loadExistingGrant: the grant the consent handed back, if it made
\* one, or else the session's.
Found(g) == IF Saved(g) THEN g ELSE Null
HandedBack(t) == flow[t] # Null /\ flow[t].grant = flow[t].by
ExistingGrant(t) == Found(IF HandedBack(t) THEN flow[t].grant ELSE bound[home[t]])

Prompt(g, s) == [slug |-> s, grant |-> g, step |-> "asked", by |-> Null, had |-> {},
                 missing |-> {u \in {s} : ScopeMissing(g, u)}]

\* An authorization request that starts from grant g, new or resumed: a code, or the
\* consent screen, which preflight and the paddock's status may keep from showing.
Proceed(t, g, s) ==
    \/ /\ NeedsConsent(g, s)
       /\ flow' = [flow EXCEPT ![t] = IF may /\ s \in open THEN Prompt(g, s) ELSE Null]
       /\ UNCHANGED codes
    \/ /\ ~NeedsConsent(g, s)
       /\ flow' = [flow EXCEPT ![t] = Null]
       /\ codes' = IF s \in open THEN codes \cup {Under(g, s)} ELSE codes

Authorize(t, s) ==
    /\ flow[t] = Null
    /\ Proceed(t, ExistingGrant(t), s)
    /\ UNCHANGED <<standing, atServer, scope, bound, call, refreshes, faults, issued, failed, overlapped>>

Refuse(t) ==
    /\ flow[t] # Null /\ flow[t].step = "asked"
    /\ flow' = [flow EXCEPT ![t] = Null]
    /\ UNCHANGED <<standing, atServer, scope, bound, call, tokens, faults, failed, overlapped>>

\* submitConsent: the grant is chosen, read if it exists, and the mint is sent.
Approve(t) ==
    /\ flow[t] # Null /\ flow[t].step = "asked" /\ flow[t].slug \in open
    /\ \E n \in Approvals :
         LET g == IF Saved(flow[t].grant) THEN flow[t].grant ELSE n
             s == flow[t].slug
         IN
         /\ call[n] = Null /\ \A m \in 1..(n - 1) : call[m] # Null
         /\ call' = [call EXCEPT ![n] = [slug |-> s, grant |-> g, step |-> "sent"]]
         /\ flow' = [flow EXCEPT ![t] = [slug |-> s, grant |-> g, step |-> "minting", by |-> n,
                                         had |-> IF Saved(g) THEN scope[g] ELSE {},
                                         missing |-> flow[t].missing]]
         /\ overlapped' = IF \E o \in Tabs \ {t} : /\ flow[o] # Null
                                                   /\ flow[o].grant = g /\ flow[o].step \in {"minting", "minted"}
                            THEN overlapped \cup {g} ELSE overlapped
    /\ UNCHANGED <<standing, atServer, scope, bound, tokens, faults, failed>>

\* The mint's answer; or none within 5 s.
Answered(t) ==
    /\ flow[t] # Null /\ flow[t].step = "minting"
    /\ LET n == flow[t].by IN
       \/ call[n].step = "minted" /\ flow' = [flow EXCEPT ![t].step = "minted"] /\ UNCHANGED failed
       \/ call[n].step = "denied" /\ flow' = [flow EXCEPT ![t] = Null] /\ UNCHANGED failed
       \/ call[n].step = "refused" /\ flow' = [flow EXCEPT ![t] = Null] /\ failed' = failed \cup {n}
    /\ UNCHANGED <<standing, atServer, scope, bound, call, tokens, faults, overlapped>>

TimesOut(t) ==
    /\ flow[t] # Null /\ flow[t].step = "minting"
    /\ Fault
    /\ flow' = [flow EXCEPT ![t] = Null]
    /\ failed' = failed \cup {flow[t].by}
    /\ UNCHANGED <<standing, atServer, scope, bound, call, tokens, overlapped>>

\* The OP restarts, or cannot save: the page is still there to be sent again.
Interrupted(t) ==
    /\ flow[t] # Null /\ flow[t].step \in {"minting", "minted"}
    /\ Fault
    /\ flow' = [flow EXCEPT ![t].step = "asked", ![t].by = Null]
    /\ UNCHANGED <<standing, atServer, scope, bound, call, tokens, failed, overlapped>>

\* When the grant may be saved.  Mutations: without waiting for the mint; without
\* the approval.
OnceAsked(t) == flow[t].step \in {"asked", "minted"}
OnceApproved(t) == flow[t].step \in {"minting", "minted"}
OnceMinted(t) == flow[t].step = "minted"

\* addMissing and save: what was read at Approve, and what the prompt listed as missing.
\* Mutation: the latter alone.
OnlyMissing(t) == flow[t].missing
WithMissing(t) == flow[t].had \cup flow[t].missing

SaveGrant(t) ==
    /\ flow[t] # Null /\ OnceMinted(t)
    /\ scope' = [scope EXCEPT ![flow[t].grant] = WithMissing(t)]
    /\ flow' = [flow EXCEPT ![t].step = "saved"]
    /\ UNCHANGED <<standing, atServer, bound, call, tokens, faults, failed, overlapped>>

\* The browser resumes: the grant the request starts from is the session's from here
\* on, and the prompts are gone through again.
Resume(t) ==
    /\ flow[t] # Null /\ flow[t].step = "saved"
    /\ LET g == ExistingGrant(t) IN
       /\ bound' = [bound EXCEPT ![home[t]] = IF g # Null THEN g ELSE @]
       /\ Proceed(t, g, flow[t].slug)
    /\ UNCHANGED <<standing, atServer, scope, call, refreshes, faults, issued, failed, overlapped>>

----------------------------------------------------------------------------
(* The control plane: POST /api/internal/v1/oauth-keys *)

\* claimOnce, then the approving user.  Mutation: a jti seen before is honoured.
AnyJti(n) == n \in Approvals
FreshJti(n) == n \notin claimed

Claim(n) ==
    /\ call[n] # Null /\ call[n].step = "sent"
    /\ claimed' = claimed \cup {n}
    /\ call' = [call EXCEPT ![n].step = IF FreshJti(n) /\ may THEN "claimed" ELSE "refused"]
    /\ UNCHANGED <<standing, key, scope, bound, flow, tokens, faults, revoked, failed, mints, disturbed, overlapped>>

\* The reply to SET NX is lost, and the SET is sent again; or Redis is away.
ClaimLost(n) ==
    /\ call[n] # Null /\ call[n].step = "sent"
    /\ Fault
    /\ claimed' \in {claimed, claimed \cup {n}}
    /\ call' = [call EXCEPT ![n].step = "refused"]
    /\ UNCHANGED <<standing, key, scope, bound, flow, tokens, revoked, failed, mints, disturbed, overlapped>>

\* The same assertion arrives again.
Resent(n) ==
    /\ call[n] # Null /\ call[n].step \in {"minted", "denied", "refused"}
    /\ Fault
    /\ call' = [call EXCEPT ![n].step = "sent"]
    /\ UNCHANGED <<standing, atServer, scope, bound, flow, tokens, failed, overlapped>>

\* mintOauthKey: under the org lock, the active key is rebound or a new one made.
Mint(n) ==
    /\ call[n] # Null /\ call[n].step = "claimed"
    /\ LET s == call[n].slug IN
       IF s \in open
         THEN /\ key' = [key EXCEPT ![s] = [grant |-> call[n].grant, by |-> n]]
              /\ mints' = [mints EXCEPT ![n] = @ + 1]
              /\ disturbed' = (disturbed \cup Disturbed(s)) \ {Under(call[n].grant, s)}
              /\ call' = [call EXCEPT ![n].step = "minted"]
         ELSE call' = [call EXCEPT ![n].step = "denied"] /\ UNCHANGED <<key, mints, disturbed>>
    /\ UNCHANGED <<standing, scope, bound, flow, claimed, tokens, faults, revoked, failed, overlapped>>

----------------------------------------------------------------------------
(* Tokens: a code exchanged, a refresh; both through makeExtraTokenClaims. *)

Redeemable(c) ==
    /\ Saved(c.grant) /\ c.slug \in scope[c.grant] /\ c.slug \in open
    /\ KeyFor(c.grant, c.slug) # {}

Redeem(c) ==
    /\ Redeemable(c)
    /\ \E k \in KeyFor(c.grant, c.slug) :
          issued' = issued \cup {[grant |-> c.grant, slug |-> c.slug, by |-> k.by]}

Exchange(c) ==
    /\ c \in codes
    /\ codes' = codes \ {c}
    /\ disturbed' = disturbed \ {c}
    /\ \/ Redeem(c) /\ refreshes' = refreshes \cup {c}
       \/ ~Redeemable(c) /\ UNCHANGED <<refreshes, issued>>
    /\ UNCHANGED <<standing, key, claimed, revoked, mints, scope, bound, flow, call, faults, failed, overlapped>>

Refresh(c) ==
    /\ c \in refreshes
    /\ Redeem(c)
    /\ UNCHANGED <<standing, atServer, scope, bound, flow, call, codes, refreshes, faults, failed, overlapped>>

\* The client revokes its token, or presents a spent one: the grant goes.
RevokeGrant(g) ==
    /\ Saved(g) /\ Change
    /\ scope' = [scope EXCEPT ![g] = Null]
    /\ codes' = {c \in codes : c.grant # g}
    /\ refreshes' = {c \in refreshes : c.grant # g}
    /\ overlapped' = IF \E t \in Tabs : flow[t] # Null /\ flow[t].grant = g
                       THEN overlapped \cup {g} ELSE overlapped
    /\ UNCHANGED <<home, may, open, atServer, bound, flow, call, faults, issued, failed>>

----------------------------------------------------------------------------
(* The console: keys revoked, roles changed, paddocks disabled. *)

Gone(slugs) ==
    /\ key' = [s \in Slugs |-> IF s \in slugs THEN Null ELSE key[s]]
    /\ revoked' = revoked \cup {key[s].by : s \in {s \in slugs : key[s] # Null}}
    /\ disturbed' = disturbed \cup UNION {Disturbed(s) : s \in slugs}

RevokeKey(s) ==
    /\ key[s] # Null /\ Change
    /\ Gone({s})
    /\ UNCHANGED <<home, may, open, claimed, mints, scope, bound, flow, call, tokens, faults, failed, overlapped>>

ChangeRole ==
    /\ Change
    /\ may' = ~may
    /\ IF may THEN Gone(Slugs) ELSE UNCHANGED <<key, revoked, disturbed>>
    /\ UNCHANGED <<home, open, claimed, mints, scope, bound, flow, call, tokens, faults, failed, overlapped>>

SetPaddock(s) ==
    /\ Change
    /\ open' = IF s \in open THEN open \ {s} ELSE open \cup {s}
    /\ UNCHANGED <<home, may, atServer, scope, bound, flow, call, tokens, faults, failed, overlapped>>

Interacting(t) ==
    \/ \E s \in Slugs : Authorize(t, s)
    \/ Refuse(t) \/ Approve(t) \/ Answered(t) \/ TimesOut(t) \/ Interrupted(t)
    \/ SaveGrant(t) \/ Resume(t)
Minting(n) == Claim(n) \/ ClaimLost(n) \/ Resent(n) \/ Mint(n)

Next ==
    \/ \E t \in Tabs : Interacting(t)
    \/ \E n \in Approvals : Minting(n)
    \/ \E c \in codes : Exchange(c)
    \/ \E c \in refreshes : Refresh(c)
    \/ \E g \in Grants : RevokeGrant(g)
    \/ ChangeRole
    \/ \E s \in Slugs : RevokeKey(s) \/ SetPaddock(s)

Spec == Init /\ [][Next]_consentVars

----------------------------------------------------------------------------
(* Properties *)

TypeOK ==
    /\ open \subseteq Slugs /\ may \in BOOLEAN
    /\ home \in [Tabs -> Browsers]
    /\ key \in [Slugs -> Keys \cup {Null}]
    /\ scope \in [Grants -> (SUBSET Slugs) \cup {Null}]
    /\ bound \in [Browsers -> Grants \cup {Null}]
    /\ flow \in [Tabs -> Flows \cup {Null}]
    /\ \A t \in Tabs : flow[t] # Null => (flow[t].step = "asked") = (flow[t].by = Null)
    /\ call \in [Approvals -> MintCalls \cup {Null}]
    /\ mints \in [Approvals -> Nat]
    /\ claimed \cup revoked \subseteq Approvals
    /\ codes \subseteq Pairs /\ refreshes \subseteq Pairs /\ overlapped \subseteq Grants

\* An access token names a key that an approval of that very paddock, under that
\* very grant, made or rebound, and that nobody has revoked when it is issued: a
\* session's grant keeps its scopes, and refresh tokens stay, after the key goes.
TokensFollowApproval ==
    [][\A k \in issued' \ issued :
          /\ k.by \notin revoked
          /\ call[k.by].slug = k.slug /\ call[k.by].grant = k.grant]_consentVars

\* "Mint first, then save the grant": a grant covers a paddock only after a mint
\* for the two committed.
GrantsAreMinted ==
    \A g \in Grants : Saved(g) =>
        \A s \in scope[g] : \E n \in Approvals : /\ mints[n] > 0
                                                 /\ call[n].grant = g /\ call[n].slug = s

\* A code finds its key, unless that was revoked or rebound by another approval since
\* the code was issued: an authorization is answered with a code only if the grant it
\* ends on, the session's perhaps after another tab's approval, has its key by then.
CodesHaveKeys ==
    \A c \in codes : KeyFor(c.grant, c.slug) # {} \/ c \in disturbed

\* A grant keeps the paddocks it covers until it is revoked, unless two
\* interactions of one browser had read it before either saved it.
ScopesAreKept ==
    [][\A g \in DOMAIN scope : Saved(g) /\ scope'[g] # Null =>
          scope[g] \subseteq scope'[g] \/ g \in overlapped]_consentVars

\* One assertion mints once, however often it arrives.
MintsOnce == \A n \in Approvals : mints[n] <= 1

\* What an approval leaves stands on its mint: the grant's paddocks, the codes that
\* follow and the one key, whatever is sent again, lost or answered late.
GrantsStandOnMints == GrantsAreMinted /\ CodesHaveKeys /\ MintsOnce

\* interactions.ts:339 answers a failed mint with "MetaModels could not record
\* this approval, so nothing was granted": no token follows such an approval.
NothingWasGranted == \A k \in issued : k.by \notin failed
=============================================================================
