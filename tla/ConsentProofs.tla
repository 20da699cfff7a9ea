--------------------------- MODULE ConsentProofs ---------------------------
(***************************************************************************)
(* Proofs about Consent, for any tabs, browsers and paddocks, and any      *)
(* number of approvals, changes and faults.                                *)
(***************************************************************************)
EXTENDS Consent, TLAPS

(***************************************************************************)
(* The inductive invariant.  An approval's assertion is claimed before it  *)
(* mints, and claimed once.  What it minted is for its own grant and       *)
(* paddock: so is the key, what the interaction saves, and what other      *)
(* paddocks that interaction had read.                                     *)
(***************************************************************************)
Asked(n) == call[n] # Null
Minted(g, s) == \E n \in Approvals : mints[n] > 0 /\ call[n].grant = g /\ call[n].slug = s

\* One assertion by what it has been through.
CallStands(n) ==
    /\ n \in claimed \/ mints[n] > 0 \/ n \in revoked => Asked(n)
    /\ Asked(n) /\ call[n].step = "claimed" => n \in claimed /\ mints[n] = 0
    /\ Asked(n) /\ call[n].step = "minted" => mints[n] > 0
    /\ n \notin claimed => mints[n] = 0
    /\ n \in revoked => mints[n] > 0
    /\ mints[n] <= 1
CallsStand == \A n \in Approvals : CallStands(n)

\* An active key names the approval that made it, which nobody has revoked.
KeysStand ==
    \A s \in Slugs : key[s] # Null =>
        /\ key[s].by \notin revoked /\ mints[key[s].by] > 0
        /\ call[key[s].by].slug = s /\ call[key[s].by].grant = key[s].grant

\* An interaction's approval is of its own grant and paddock.
FlowStands(t) ==
    flow[t] # Null =>
        /\ flow[t].grant # Null => Asked(flow[t].grant)
        /\ flow[t].by # Null => /\ Asked(flow[t].by) /\ flow[t].grant # Null
                                /\ call[flow[t].by].grant = flow[t].grant
                                /\ call[flow[t].by].slug = flow[t].slug
        /\ flow[t].step \in {"minted", "saved"} => mints[flow[t].by] > 0
        /\ flow[t].by # Null => \A s \in flow[t].had : Minted(flow[t].grant, s)
        /\ flow[t].missing \subseteq {flow[t].slug}
FlowsStand == \A t \in Tabs : FlowStands(t)

ScopesStand == \A g \in Grants : Saved(g) => Asked(g) /\ \A s \in scope[g] : Minted(g, s)

\* Who is about to save a grant is alone at it, and has read all of it.
Saving(t, g) == flow[t] # Null /\ flow[t].grant = g /\ flow[t].step \in {"minting", "minted"}
ReadsStand ==
    \A t \in Tabs, g \in Grants \ overlapped : Saving(t, g) =>
        /\ \A o \in Tabs \ {t} : ~Saving(o, g)
        /\ Saved(g) => scope[g] \subseteq flow[t].had

\* A code's key is there, or went after it.
Here(g, s) == (key[s] # Null /\ key[s].grant = g) \/ Under(g, s) \in disturbed
CodesStand == \A c \in codes : Here(c.grant, c.slug)

IInv ==
    /\ TypeOK /\ CallsStand /\ KeysStand /\ FlowsStand /\ ScopesStand /\ ReadsStand /\ CodesStand

----------------------------------------------------------------------------
LEMMA IInvGrantsStandOnMints == IInv => GrantsStandOnMints
<1> SUFFICES ASSUME IInv PROVE GrantsStandOnMints
  OBVIOUS
<1>1. GrantsAreMinted
  BY DEF IInv, ScopesStand, Minted, GrantsAreMinted
<1>2. CodesHaveKeys
  <2> SUFFICES ASSUME NEW c \in codes, c \notin disturbed PROVE KeyFor(c.grant, c.slug) # {}
    BY DEF CodesHaveKeys
  <2>1. c = Under(c.grant, c.slug)
    BY DEF IInv, TypeOK, Pairs, Under
  <2>2. key[c.slug] # Null /\ key[c.slug].grant = c.grant
    BY <2>1 DEF IInv, CodesStand, Here
  <2>3. QED
    BY <2>2 DEF KeyFor
<1>3. MintsOnce
  BY DEF IInv, CallsStand, CallStands, MintsOnce
<1>4. QED
  BY <1>1, <1>2, <1>3 DEF GrantsStandOnMints

LEMMA InitIInv == ASSUME ConsentAssumption, Init PROVE IInv
<1> USE DEF Init
<1>1. TypeOK
  BY DEF TypeOK, Grants
<1>2. CallsStand /\ KeysStand /\ FlowsStand /\ CodesStand
  BY DEF CallsStand, CallStands, Asked, KeysStand, FlowsStand, FlowStands, CodesStand
<1>3. ScopesStand /\ ReadsStand
  BY DEF ScopesStand, ReadsStand, Saved, Saving
<1>4. QED
  BY <1>1, <1>2, <1>3 DEF IInv

\* Assertions keep what they are for, and their mints stand.
CallsKept ==
    \A n \in Approvals :
        /\ Asked(n) => Asked(n)' /\ call'[n].grant = call[n].grant /\ call'[n].slug = call[n].slug
        /\ mints[n] <= mints'[n]

LEMMA MintedKept ==
  ASSUME TypeOK, TypeOK', CallsStand, CallsKept, NEW g, NEW s, Minted(g, s)
  PROVE  Minted(g, s)'
<1>1. PICK n \in Approvals : mints[n] > 0 /\ call[n].grant = g /\ call[n].slug = s
  BY DEF Minted
<1>2. mints'[n] > 0 /\ call'[n].grant = g /\ call'[n].slug = s
  BY <1>1 DEF CallsKept, CallsStand, CallStands, TypeOK
<1>3. QED
  BY <1>2 DEF Minted

\* A step of one interaction: no assertion, key or mint moves, and the other tabs'
\* stand as they did.
LEMMA OtherFlowsStand ==
  ASSUME TypeOK, TypeOK', CallsStand, FlowsStand, CallsKept, NEW o \in Tabs, flow'[o] = flow[o]
  PROVE  FlowStands(o)'
<1>1. ASSUME flow[o] # Null PROVE FlowStands(o)'
  <2>1. FlowStands(o) /\ flow[o] \in Flows
    BY <1>1 DEF FlowsStand, TypeOK
  <2>2. flow[o].by # Null => \A s \in flow[o].had : Minted(flow[o].grant, s)'
    BY <1>1, <2>1, MintedKept DEF FlowStands
  <2>3. \A n \in Approvals : mints[n] > 0 => mints'[n] > 0
    BY DEF CallsKept, TypeOK
  <2>4. flow[o].step \in {"minted", "saved"} => flow[o].by \in Approvals
    BY <1>1, <2>1 DEF Flows, TypeOK
  <2>5. QED
    BY <1>1, <2>1, <2>2, <2>3, <2>4 DEF FlowStands, CallsKept, Flows, Grants, Asked
<1>2. QED
  BY <1>1 DEF FlowStands

LEMMA ScopesStay ==
  ASSUME TypeOK, TypeOK', CallsStand, ScopesStand, CallsKept, UNCHANGED scope
  PROVE  ScopesStand'
<1> SUFFICES ASSUME NEW g \in Grants, Saved(g)' PROVE Asked(g)' /\ \A s \in scope[g] : Minted(g, s)'
  BY DEF ScopesStand
<1>1. Saved(g) /\ Asked(g) /\ \A s \in scope[g] : Minted(g, s)
  BY DEF ScopesStand, Saved
<1>2. QED
  BY <1>1, MintedKept DEF CallsKept, Grants

----------------------------------------------------------------------------
(* The OP: /auth and the interaction. *)

\* What a request starts from: a grant that is saved, or none.
LEMMA Exists ==
  ASSUME IInv, NEW t \in Tabs
  PROVE  /\ ExistingGrant(t) \in Grants \cup {Null}
         /\ ExistingGrant(t) # Null => Saved(ExistingGrant(t))
<1>1. CASE HandedBack(t)
  <2>1. flow[t].grant \in Grants \cup {Null}
    BY <1>1 DEF HandedBack, IInv, TypeOK, Flows
  <2>2. QED
    BY <1>1, <2>1 DEF ExistingGrant, Found, Saved
<1>2. CASE ~HandedBack(t)
  <2>1. bound[home[t]] \in Grants \cup {Null}
    BY DEF IInv, TypeOK
  <2>2. QED
    BY <1>2, <2>1 DEF ExistingGrant, Found, Saved
<1>3. QED
  BY <1>1, <1>2

LEMMA ProceedIInv ==
  ASSUME ConsentAssumption, IInv, NEW t \in Tabs, NEW s \in Slugs, NEW g \in Grants \cup {Null},
         g # Null => Saved(g), Proceed(t, g, s), bound' \in [Browsers -> Grants \cup {Null}],
         UNCHANGED <<home, may, open, key, claimed, revoked, mints, disturbed, scope, call,
                     refreshes, overlapped>>
  PROVE  IInv'
<1>1. PICK x \in {Prompt(g, s), Null} : flow' = [flow EXCEPT ![t] = x]
  BY DEF Proceed
<1>2. flow'[t] = x /\ \A o \in Tabs \ {t} : flow'[o] = flow[o]
  BY <1>1 DEF IInv, TypeOK
<1>3. x # Null => /\ x \in Flows /\ x.step = "asked" /\ x.by = Null /\ x.grant = g
                  /\ x.missing \subseteq {x.slug}
  BY <1>1 DEF Prompt, Flows
<1>4. codes' \subseteq codes \cup {Under(g, s)}
  BY DEF Proceed
<1>5. Under(g, s) \in codes' \ codes => g \in Grants /\ key[s] # Null /\ key[s].grant = g
  BY DEF Proceed, NeedsConsent, ScopeMissing, Saved, KeyFor
<1>6. TypeOK'
  <2>1. codes' \subseteq Pairs
    BY <1>4, <1>5 DEF IInv, TypeOK, Pairs, Under
  <2>2. flow' \in [Tabs -> Flows \cup {Null}]
    BY <1>1, <1>3 DEF IInv, TypeOK
  <2>3. \A o \in Tabs : flow'[o] # Null => (flow'[o].step = "asked") = (flow'[o].by = Null)
    BY <1>2, <1>3 DEF IInv, TypeOK
  <2>4. QED
    BY <2>1, <2>2, <2>3 DEF IInv, TypeOK
<1>7. CallsStand' /\ KeysStand' /\ CallsKept
  BY DEF IInv, CallsStand, CallStands, Asked, KeysStand, CallsKept, TypeOK
<1>8. FlowsStand'
  <2>1. g # Null => Asked(g)
    BY DEF IInv, ScopesStand
  <2>2. FlowStands(t)'
    BY <1>2, <1>3, <2>1 DEF FlowStands, Asked
  <2>3. QED
    BY <1>2, <1>6, <1>7, <2>2, OtherFlowsStand DEF IInv, FlowsStand
<1>9. ScopesStand'
  BY <1>6, <1>7, ScopesStay DEF IInv
<1>10. ReadsStand'
  BY <1>2, <1>3 DEF IInv, ReadsStand, Saving, Saved
<1>11. CodesStand'
  <2> SUFFICES ASSUME NEW c \in codes' PROVE Here(c.grant, c.slug)
    BY DEF CodesStand, Here, Under
  <2>1. CASE c \in codes
    BY <2>1 DEF IInv, CodesStand
  <2>2. CASE c = Under(g, s) /\ c \notin codes
    BY <1>5, <2>2 DEF Here, Under
  <2>3. QED
    BY <1>4, <2>1, <2>2
<1>12. QED
  BY <1>6, <1>7, <1>8, <1>9, <1>10, <1>11 DEF IInv

LEMMA AuthorizeIInv ==
  ASSUME ConsentAssumption, IInv, NEW t \in Tabs, NEW s \in Slugs, Authorize(t, s)
  PROVE  IInv'
<1>1. /\ Proceed(t, ExistingGrant(t), s) /\ bound' \in [Browsers -> Grants \cup {Null}]
      /\ UNCHANGED <<home, may, open, key, claimed, revoked, mints, disturbed, scope, call,
                     refreshes, overlapped>>
  BY DEF Authorize, standing, atServer, IInv, TypeOK
<1>2. QED
  BY <1>1, Exists, ProceedIInv

\* An interaction that ends, or is answered, or goes back to its page.
LEMMA FlowMovesIInv ==
  ASSUME ConsentAssumption, IInv, NEW t \in Tabs, flow[t] # Null, NEW x,
         flow' = [flow EXCEPT ![t] = x],
         \/ x = Null
         \/ x = [flow[t] EXCEPT !.step = "minted"] /\ flow[t].step = "minting" /\ mints[flow[t].by] > 0
         \/ x = [flow[t] EXCEPT !.step = "asked", !.by = Null],
         UNCHANGED <<home, may, open, key, claimed, revoked, mints, disturbed, scope, bound, call,
                     codes, refreshes, overlapped>>
  PROVE  IInv'
<1>1. flow[t] \in Flows /\ FlowStands(t)
  BY DEF IInv, TypeOK, FlowsStand
<1>2. /\ x # Null => /\ x \in Flows /\ x.grant = flow[t].grant /\ x.slug = flow[t].slug /\ x.had = flow[t].had
                     /\ x.missing = flow[t].missing
                     /\ \/ x.step = "minted" /\ x.by = flow[t].by /\ flow[t].step = "minting" /\ mints[x.by] > 0
                        \/ x.step = "asked" /\ x.by = Null
      /\ flow'[t] = x
      /\ \A o \in Tabs \ {t} : flow'[o] = flow[o]
  BY <1>1 DEF Flows, IInv, TypeOK
<1>3. TypeOK'
  <2>1. flow' \in [Tabs -> Flows \cup {Null}]
    BY <1>2 DEF IInv, TypeOK
  <2>2. \A o \in Tabs : flow'[o] # Null => (flow'[o].step = "asked") = (flow'[o].by = Null)
    <3> SUFFICES ASSUME NEW o \in Tabs, flow'[o] # Null
                 PROVE  (flow'[o].step = "asked") = (flow'[o].by = Null)
      OBVIOUS
    <3>1. CASE o = t
      BY <1>1, <1>2, <3>1 DEF IInv, TypeOK
    <3>2. CASE o # t
      BY <1>2, <3>2 DEF IInv, TypeOK
    <3>3. QED
      BY <3>1, <3>2
  <2>3. QED
    BY <2>1, <2>2 DEF IInv, TypeOK
<1>4. CallsStand' /\ KeysStand' /\ CallsKept
  BY DEF IInv, CallsStand, CallStands, Asked, KeysStand, CallsKept, TypeOK
<1>5. FlowsStand'
  <2>1. FlowStands(t)'
    BY <1>1, <1>2 DEF FlowStands, Asked, Minted
  <2>2. QED
    BY <1>2, <1>3, <1>4, <2>1, OtherFlowsStand DEF IInv, FlowsStand
<1>6. ScopesStand'
  BY <1>3, <1>4, ScopesStay DEF IInv
<1>7. ReadsStand'
  <2>1. \A o \in Tabs, g \in Grants : Saving(o, g)' => Saving(o, g)
    BY <1>2 DEF Saving
  <2>2. \A o \in Tabs, g \in Grants : Saving(o, g)' => flow'[o].had = flow[o].had
    BY <1>2 DEF Saving
  <2>3. QED
    BY <2>1, <2>2 DEF IInv, ReadsStand, Saved
<1>8. CodesStand'
  BY DEF IInv, CodesStand, Here, Under
<1>9. QED
  BY <1>3, <1>4, <1>5, <1>6, <1>7, <1>8 DEF IInv

LEMMA RefuseIInv ==
  ASSUME ConsentAssumption, IInv, NEW t \in Tabs, Refuse(t)
  PROVE  IInv'
<1>1. QED
  BY FlowMovesIInv DEF Refuse, standing, atServer, tokens

LEMMA AnsweredIInv ==
  ASSUME ConsentAssumption, IInv, NEW t \in Tabs, Answered(t)
  PROVE  IInv'
<1>1. /\ flow[t] # Null /\ flow[t].step = "minting"
      /\ UNCHANGED <<home, may, open, key, claimed, revoked, mints, disturbed, scope, bound, call,
                     codes, refreshes, overlapped>>
  BY DEF Answered, standing, atServer, tokens
<1>2. flow[t].by \in Approvals /\ Asked(flow[t].by)
  BY <1>1 DEF IInv, TypeOK, Flows, FlowsStand, FlowStands
<1>3. call[flow[t].by].step = "minted" => mints[flow[t].by] > 0
  BY <1>2 DEF IInv, CallsStand, CallStands
<1>4. CASE flow' = [flow EXCEPT ![t].step = "minted"] /\ call[flow[t].by].step = "minted"
  <2>1. flow' = [flow EXCEPT ![t] = [flow[t] EXCEPT !.step = "minted"]]
    BY <1>4
  <2>2. QED
    BY <1>1, <1>3, <1>4, <2>1, FlowMovesIInv
<1>5. CASE flow' = [flow EXCEPT ![t] = Null]
  BY <1>1, <1>5, FlowMovesIInv
<1>6. QED
  BY <1>4, <1>5 DEF Answered

LEMMA TimesOutIInv ==
  ASSUME ConsentAssumption, IInv, NEW t \in Tabs, TimesOut(t)
  PROVE  IInv'
<1>1. QED
  BY FlowMovesIInv DEF TimesOut, standing, atServer, tokens

LEMMA InterruptedIInv ==
  ASSUME ConsentAssumption, IInv, NEW t \in Tabs, Interrupted(t)
  PROVE  IInv'
<1>1. flow' = [flow EXCEPT ![t] = [flow[t] EXCEPT !.step = "asked", !.by = Null]]
  BY DEF Interrupted, IInv, TypeOK
<1>2. QED
  BY <1>1, FlowMovesIInv DEF Interrupted, standing, atServer, tokens

\* The mint is sent: a fresh assertion, for the session's grant or one of its own.
LEMMA ApproveIInv ==
  ASSUME ConsentAssumption, IInv, NEW t \in Tabs, Approve(t)
  PROVE  IInv'
<1> DEFINE s == flow[t].slug
<1>1. PICK n \in Approvals, g \in Grants :
        /\ g = IF Saved(flow[t].grant) THEN flow[t].grant ELSE n
        /\ call[n] = Null
        /\ call' = [call EXCEPT ![n] = [slug |-> s, grant |-> g, step |-> "sent"]]
        /\ flow' = [flow EXCEPT ![t] = [slug |-> s, grant |-> g, step |-> "minting", by |-> n,
                                        had |-> IF Saved(g) THEN scope[g] ELSE {},
                                        missing |-> flow[t].missing]]
        /\ overlapped' = IF \E o \in Tabs \ {t} : /\ flow[o] # Null
                                                  /\ flow[o].grant = g /\ flow[o].step \in {"minting", "minted"}
                           THEN overlapped \cup {g} ELSE overlapped
  <2>1. flow[t] \in Flows
    BY DEF Approve, IInv, TypeOK
  <2> DEFINE G(n) == IF Saved(flow[t].grant) THEN flow[t].grant ELSE n
  <2>2. \A n \in Approvals : G(n) \in Grants
    BY <2>1 DEF Saved, Flows, Grants
  <2>3. PICK n \in Approvals :
          /\ call[n] = Null
          /\ call' = [call EXCEPT ![n] = [slug |-> s, grant |-> G(n), step |-> "sent"]]
          /\ flow' = [flow EXCEPT ![t] = [slug |-> s, grant |-> G(n), step |-> "minting", by |-> n,
                                          had |-> IF Saved(G(n)) THEN scope[G(n)] ELSE {},
                                          missing |-> flow[t].missing]]
          /\ overlapped' = IF \E o \in Tabs \ {t} : /\ flow[o] # Null /\ flow[o].grant = G(n)
                                                    /\ flow[o].step \in {"minting", "minted"}
                             THEN overlapped \cup {G(n)} ELSE overlapped
    BY DEF Approve
  <2> HIDE DEF G
  <2>4. QED
    BY <2>2, <2>3 DEF G
<1>2. /\ UNCHANGED <<home, may, open, key, claimed, revoked, mints, disturbed, scope, bound,
                     codes, refreshes>>
      /\ flow[t] # Null /\ flow[t] \in Flows /\ s \in Slugs
  BY DEF Approve, standing, atServer, tokens, IInv, TypeOK, Flows
<1>3. n \notin claimed /\ mints[n] = 0 /\ n \notin revoked
  BY <1>1 DEF IInv, TypeOK, CallsStand, CallStands, Asked
<1>4. /\ call'[n] = [slug |-> s, grant |-> g, step |-> "sent"] /\ call'[n] \in MintCalls
      /\ \A m \in Approvals \ {n} : call'[m] = call[m]
  BY <1>1, <1>2 DEF IInv, TypeOK, MintCalls
<1>5. /\ flow'[t] = [slug |-> s, grant |-> g, step |-> "minting", by |-> n,
                     had |-> IF Saved(g) THEN scope[g] ELSE {}, missing |-> flow[t].missing]
      /\ \A o \in Tabs \ {t} : flow'[o] = flow[o]
  BY <1>1 DEF IInv, TypeOK
<1>6. TypeOK'
  <2>1. scope[g] # Null => scope[g] \subseteq Slugs
    BY DEF IInv, TypeOK
  <2>2. flow'[t] \in Flows
    BY <1>2, <1>5, <2>1 DEF Flows, Saved
  <2>3. n # Null
    BY DEF ConsentAssumption
  <2>4. /\ call' \in [Approvals -> MintCalls \cup {Null}] /\ overlapped' \subseteq Grants
        /\ flow' \in [Tabs -> Flows \cup {Null}]
    BY <1>1, <1>4, <2>2 DEF IInv, TypeOK
  <2>5. \A o \in Tabs : flow'[o] # Null => (flow'[o].step = "asked") = (flow'[o].by = Null)
    BY <1>5, <2>3 DEF IInv, TypeOK
  <2>6. QED
    BY <1>2, <2>4, <2>5 DEF IInv, TypeOK
<1>7. CallsKept
  BY <1>1, <1>2, <1>4 DEF CallsKept, Asked, IInv, TypeOK
<1>8. CallsStand'
  <2>1. Asked(n)'
    BY <1>4 DEF Asked, ConsentAssumption
  <2>2. CallStands(n)'
    BY <1>2, <1>3, <1>4, <2>1 DEF CallStands
  <2>3. \A m \in Approvals \ {n} : CallStands(m)'
    BY <1>2, <1>4 DEF IInv, CallsStand, CallStands, Asked
  <2>4. QED
    BY <2>2, <2>3 DEF CallsStand
<1>9. KeysStand'
  <2>1. \A u \in Slugs : key[u] # Null => key[u].by \in Approvals \ {n}
    BY <1>3 DEF IInv, KeysStand, TypeOK, Keys
  <2>2. QED
    BY <1>2, <1>4, <2>1 DEF IInv, KeysStand
<1>10. FlowsStand'
  <2>1. Asked(g)' /\ Asked(n)'
    <3>1. Asked(n)'
      BY <1>4 DEF Asked, ConsentAssumption
    <3>2. CASE Saved(flow[t].grant)
      BY <1>1, <1>7, <3>1, <3>2 DEF IInv, ScopesStand, CallsKept, Grants
    <3>3. CASE ~Saved(flow[t].grant)
      BY <1>1, <3>1, <3>3
    <3>4. QED
      BY <3>2, <3>3
  <2>2. \A u \in flow'[t].had : Minted(g, u)'
    <3> SUFFICES ASSUME NEW u \in flow'[t].had PROVE Minted(g, u)'
      OBVIOUS
    <3>1. Saved(g) /\ u \in scope[g]
      BY <1>5
    <3>2. Minted(g, u)
      BY <3>1 DEF IInv, ScopesStand
    <3>3. QED
      BY <1>6, <1>7, <3>2, MintedKept DEF IInv
  <2>3. FlowStands(t)'
    <3>1. /\ flow'[t].grant = g /\ flow'[t].by = n /\ flow'[t].slug = s /\ flow'[t].step = "minting"
          /\ call'[n].grant = g /\ call'[n].slug = s
      BY <1>4, <1>5
    <3>2. flow'[t].by # Null => \A u \in flow'[t].had : Minted(flow[t].grant, u)'
      BY <2>2, <3>1 DEF Minted
    <3>3. /\ Asked(flow[t].grant)' /\ Asked(flow[t].by)' /\ g # Null
          /\ flow'[t].step \notin {"minted", "saved"}
      BY <2>1, <3>1 DEF Asked, ConsentAssumption, Grants
    <3>4. flow'[t].missing \subseteq {s}
      BY <1>2, <1>5 DEF IInv, FlowsStand, FlowStands
    <3>5. QED
      BY <3>1, <3>2, <3>3, <3>4 DEF FlowStands
  <2>4. QED
    BY <1>5, <1>6, <1>7, <2>3, OtherFlowsStand DEF IInv, FlowsStand
<1>11. ScopesStand'
  BY <1>2, <1>6, <1>7, ScopesStay DEF IInv
<1>12. ReadsStand'
  <2> SUFFICES ASSUME NEW o \in Tabs, NEW h \in Grants \ overlapped', Saving(o, h)'
               PROVE  /\ \A p \in Tabs \ {o} : ~Saving(p, h)'
                      /\ Saved(h) => scope[h] \subseteq flow'[o].had
    BY <1>2 DEF ReadsStand, Saved
  <2>1. h \notin overlapped
    BY <1>1
  <2>2. \A p \in Tabs \ {t} : Saving(p, h)' = Saving(p, h)
    BY <1>5 DEF Saving
  <2>3. CASE h = g
    <3>1. \A p \in Tabs \ {t} : ~Saving(p, g)
      BY <1>1, <2>3 DEF Saving
    <3>2. o = t
      BY <2>2, <2>3, <3>1
    <3>3. QED
      BY <1>5, <2>2, <2>3, <3>1, <3>2
  <2>4. CASE h # g
    <3>1. ~Saving(t, h)'
      BY <1>5, <2>4 DEF Saving
    <3>2. o # t /\ Saving(o, h)
      BY <2>2, <3>1
    <3>3. QED
      BY <1>5, <2>1, <2>2, <3>1, <3>2 DEF IInv, ReadsStand
  <2>5. QED
    BY <2>3, <2>4
<1>13. CodesStand'
  BY <1>2 DEF IInv, CodesStand, Here, Under
<1>14. QED
  BY <1>6, <1>8, <1>9, <1>10, <1>11, <1>12, <1>13 DEF IInv

\* Who saves a grant that nobody else had read loses nothing of it.
LEMMA Saver ==
  ASSUME ConsentAssumption, IInv, NEW t \in Tabs, SaveGrant(t)
  PROVE  /\ flow[t].grant \in Grants /\ flow[t].by \in Approvals /\ flow[t] \in Flows
         /\ Saving(t, flow[t].grant)
<1>1. flow[t] # Null /\ flow[t].step = "minted" /\ flow[t] \in Flows
  BY DEF SaveGrant, OnceMinted, IInv, TypeOK
<1>2. flow[t].by # Null /\ flow[t].grant # Null
  BY <1>1 DEF IInv, TypeOK, FlowsStand, FlowStands
<1>3. QED
  BY <1>1, <1>2 DEF Flows, Saving

LEMMA SaveGrantIInv ==
  ASSUME ConsentAssumption, IInv, NEW t \in Tabs, SaveGrant(t)
  PROVE  IInv'
<1> DEFINE g == flow[t].grant
<1>1. /\ UNCHANGED <<home, may, open, key, claimed, revoked, mints, disturbed, bound, call,
                     codes, refreshes, overlapped>>
      /\ flow[t] # Null /\ flow[t].step = "minted"
  BY DEF SaveGrant, OnceMinted, standing, atServer, tokens
<1>2. g \in Grants /\ flow[t].by \in Approvals /\ flow[t] \in Flows /\ Saving(t, g)
  BY Saver
<1>3. FlowStands(t)
  BY DEF IInv, FlowsStand
<1>4. flow[t].by # Null
  BY <1>2 DEF ConsentAssumption
<1>5. /\ scope'[g] = flow[t].had \cup flow[t].missing
      /\ \A h \in Grants \ {g} : scope'[h] = scope[h]
  BY <1>2 DEF SaveGrant, WithMissing, IInv, TypeOK
<1>6. /\ flow'[t] = [flow[t] EXCEPT !.step = "saved"]
      /\ \A o \in Tabs \ {t} : flow'[o] = flow[o]
  BY DEF SaveGrant, IInv, TypeOK
<1>7. TypeOK'
  <2>1. flow'[t] \in Flows /\ flow'[t].step = "saved" /\ flow'[t].by = flow[t].by
    BY <1>2, <1>6 DEF Flows
  <2>2. scope'[g] \in SUBSET Slugs
    BY <1>2, <1>5 DEF Flows
  <2>3. /\ scope' \in [Grants -> (SUBSET Slugs) \cup {Null}]
        /\ flow' \in [Tabs -> Flows \cup {Null}]
    BY <1>2, <2>1, <2>2 DEF SaveGrant, IInv, TypeOK
  <2>4. \A o \in Tabs : flow'[o] # Null => (flow'[o].step = "asked") = (flow'[o].by = Null)
    BY <1>4, <1>6, <2>1 DEF IInv, TypeOK
  <2>5. QED
    BY <1>1, <2>3, <2>4 DEF IInv, TypeOK
<1>8. CallsStand' /\ KeysStand' /\ CallsKept
  BY <1>1 DEF IInv, CallsStand, CallStands, Asked, KeysStand, CallsKept, TypeOK
<1>9. FlowsStand'
  <2>1. FlowStands(t)'
    BY <1>1, <1>2, <1>3, <1>6 DEF FlowStands, Asked, Minted, Flows
  <2>2. QED
    BY <1>6, <1>7, <1>8, <2>1, OtherFlowsStand DEF IInv, FlowsStand
<1>10. ScopesStand'
  <2> SUFFICES ASSUME NEW h \in Grants, Saved(h)'
               PROVE  Asked(h)' /\ \A s \in scope'[h] : Minted(h, s)'
    BY DEF ScopesStand
  <2>1. CASE h = g
    <3>1. Asked(g) /\ \A s \in flow[t].had : Minted(g, s)
      BY <1>1, <1>2, <1>3, <1>4 DEF FlowStands, Saving
    <3>2. flow[t].missing \subseteq {flow[t].slug} /\ Minted(g, flow[t].slug)
      BY <1>1, <1>2, <1>3, <1>4 DEF FlowStands, Minted
    <3>3. QED
      BY <1>1, <1>5, <2>1, <3>1, <3>2 DEF Asked, Minted
  <2>2. CASE h # g
    BY <1>1, <1>5, <2>2 DEF IInv, ScopesStand, Saved, Asked, Minted
  <2>3. QED
    BY <2>1, <2>2
<1>11. ReadsStand'
  <2> SUFFICES ASSUME NEW o \in Tabs, NEW h \in Grants \ overlapped, Saving(o, h)'
               PROVE  /\ \A p \in Tabs \ {o} : ~Saving(p, h)'
                      /\ Saved(h)' => scope'[h] \subseteq flow'[o].had
    BY <1>1 DEF ReadsStand
  <2>1. \A p \in Tabs : Saving(p, h)' => p # t /\ Saving(p, h)
    BY <1>2, <1>6 DEF Saving, Flows
  <2>2. h # g
    BY <1>2, <2>1 DEF IInv, ReadsStand
  <2>3. QED
    BY <1>5, <1>6, <2>1, <2>2 DEF IInv, ReadsStand, Saved
<1>12. CodesStand'
  BY <1>1 DEF IInv, CodesStand, Here, Under
<1>13. QED
  BY <1>7, <1>8, <1>9, <1>10, <1>11, <1>12 DEF IInv

LEMMA ResumeIInv ==
  ASSUME ConsentAssumption, IInv, NEW t \in Tabs, Resume(t)
  PROVE  IInv'
<1> DEFINE g == ExistingGrant(t)
<1>1. g \in Grants \cup {Null} /\ (g # Null => Saved(g))
  BY Exists
<1>2. flow[t].slug \in Slugs
  BY DEF Resume, IInv, TypeOK, Flows
<1>3. bound' = [bound EXCEPT ![home[t]] = IF g # Null THEN g ELSE @]
  BY DEF Resume
<1>4. bound' \in [Browsers -> Grants \cup {Null}]
  BY <1>1, <1>3 DEF IInv, TypeOK
<1>5. /\ Proceed(t, g, flow[t].slug)
      /\ UNCHANGED <<home, may, open, key, claimed, revoked, mints, disturbed, scope, call,
                     refreshes, overlapped>>
  BY DEF Resume, standing, atServer
<1>6. QED
  BY <1>1, <1>2, <1>4, <1>5, ProceedIInv

----------------------------------------------------------------------------
(* The control plane: POST /api/internal/v1/oauth-keys *)

\* An assertion claimed, refused, denied or sent again: no key moves.
LEMMA CallMovesIInv ==
  ASSUME ConsentAssumption, IInv, NEW n \in Approvals, Asked(n),
         NEW x \in {"sent", "claimed", "denied", "refused"},
         call' = [call EXCEPT ![n].step = x],
         claimed \subseteq claimed', claimed' \subseteq claimed \cup {n},
         x = "claimed" => n \in claimed' /\ mints[n] = 0,
         UNCHANGED <<home, may, open, key, revoked, mints, disturbed, scope, bound, flow,
                     codes, refreshes, overlapped>>
  PROVE  IInv'
<1>1. /\ call'[n] = [call[n] EXCEPT !.step = x] /\ call'[n] \in MintCalls
      /\ call[n] \in MintCalls /\ \A m \in Approvals \ {n} : call'[m] = call[m]
  BY DEF IInv, TypeOK, Asked, MintCalls
<1>2. /\ call'[n].grant = call[n].grant /\ call'[n].slug = call[n].slug /\ call'[n].step = x
      /\ Asked(n)'
  BY <1>1 DEF MintCalls, Asked, ConsentAssumption
<1>3. TypeOK'
  <2>1. call' \in [Approvals -> MintCalls \cup {Null}]
    BY <1>1 DEF IInv, TypeOK
  <2>2. QED
    BY <2>1 DEF IInv, TypeOK
<1>4. CallsKept
  BY <1>1, <1>2 DEF CallsKept, Asked, IInv, TypeOK
<1>5. CallsStand'
  <2>1. CallStands(n)'
    BY <1>2 DEF IInv, CallsStand, CallStands
  <2>2. \A m \in Approvals \ {n} : CallStands(m)'
    BY <1>1 DEF IInv, CallsStand, CallStands, Asked
  <2>3. QED
    BY <2>1, <2>2 DEF CallsStand
<1>6. KeysStand'
  <2>1. \A s \in Slugs : key[s] # Null => key[s].by \in Approvals
    BY DEF IInv, TypeOK, Keys
  <2>2. QED
    BY <1>1, <1>2, <2>1 DEF IInv, KeysStand
<1>7. FlowsStand'
  BY <1>3, <1>4, OtherFlowsStand DEF IInv, FlowsStand
<1>8. ScopesStand'
  BY <1>3, <1>4, ScopesStay DEF IInv
<1>9. ReadsStand' /\ CodesStand'
  BY DEF IInv, ReadsStand, Saving, Saved, CodesStand, Here, Under
<1>10. QED
  BY <1>3, <1>5, <1>6, <1>7, <1>8, <1>9 DEF IInv

LEMMA ClaimIInv ==
  ASSUME ConsentAssumption, IInv, NEW n \in Approvals, Claim(n)
  PROVE  IInv'
<1>1. PICK x \in {"claimed", "refused"} :
        /\ call' = [call EXCEPT ![n].step = x]
        /\ x = "claimed" => FreshJti(n)
  BY DEF Claim
<1>2. FreshJti(n) => mints[n] = 0
  BY DEF FreshJti, IInv, CallsStand, CallStands
<1>3. claimed' = claimed \cup {n} /\ Asked(n)
      /\ UNCHANGED <<home, may, open, key, revoked, mints, disturbed, scope, bound, flow,
                     codes, refreshes, overlapped>>
  BY DEF Claim, Asked, standing, tokens
<1>4. QED
  BY <1>1, <1>2, <1>3, CallMovesIInv

LEMMA ClaimLostIInv ==
  ASSUME ConsentAssumption, IInv, NEW n \in Approvals, ClaimLost(n)
  PROVE  IInv'
<1>1. /\ claimed \subseteq claimed' /\ claimed' \subseteq claimed \cup {n} /\ Asked(n)
      /\ call' = [call EXCEPT ![n].step = "refused"]
      /\ UNCHANGED <<home, may, open, key, revoked, mints, disturbed, scope, bound, flow,
                     codes, refreshes, overlapped>>
  BY DEF ClaimLost, Asked, standing, tokens
<1>2. QED
  BY <1>1, CallMovesIInv

LEMMA ResentIInv ==
  ASSUME ConsentAssumption, IInv, NEW n \in Approvals, Resent(n)
  PROVE  IInv'
<1>1. /\ Asked(n) /\ call' = [call EXCEPT ![n].step = "sent"]
      /\ UNCHANGED <<home, may, open, key, claimed, revoked, mints, disturbed, scope, bound, flow,
                     codes, refreshes, overlapped>>
  BY DEF Resent, Asked, standing, atServer, tokens
<1>2. QED
  BY <1>1, CallMovesIInv

LEMMA MintIInv ==
  ASSUME ConsentAssumption, IInv, NEW n \in Approvals, Mint(n)
  PROVE  IInv'
<1> DEFINE s == call[n].slug
           g == call[n].grant
<1>1. /\ UNCHANGED <<home, may, open, scope, bound, flow, claimed, codes, refreshes, revoked, overlapped>>
      /\ Asked(n) /\ call[n].step = "claimed" /\ call[n] \in MintCalls
  BY DEF Mint, Asked, standing, tokens, IInv, TypeOK
<1>2. n \in claimed /\ mints[n] = 0 /\ n \notin revoked
  BY <1>1 DEF IInv, TypeOK, CallsStand, CallStands
<1>3. CASE s \notin open
  <2>1. call' = [call EXCEPT ![n].step = "denied"] /\ UNCHANGED <<key, mints, disturbed>>
    BY <1>3 DEF Mint
  <2>2. QED
    BY <1>1, <2>1, CallMovesIInv
<1>4. CASE s \in open
  <2>1. /\ key' = [key EXCEPT ![s] = [grant |-> g, by |-> n]]
        /\ mints' = [mints EXCEPT ![n] = @ + 1]
        /\ disturbed' = (disturbed \cup Disturbed(s)) \ {Under(g, s)}
        /\ call' = [call EXCEPT ![n].step = "minted"]
    BY <1>4 DEF Mint
  <2>2. g \in Grants /\ s \in Slugs
    BY <1>1 DEF MintCalls
  <2>3. /\ key'[s] = [grant |-> g, by |-> n] /\ key'[s] \in Keys /\ key'[s] # Null
        /\ \A u \in Slugs \ {s} : key'[u] = key[u]
    BY <2>1, <2>2 DEF IInv, TypeOK, Keys, ConsentAssumption
  <2>4. mints'[n] = 1 /\ \A m \in Approvals \ {n} : mints'[m] = mints[m]
    BY <1>2, <2>1 DEF IInv, TypeOK
  <2>5. /\ call'[n].grant = g /\ call'[n].slug = s /\ call'[n].step = "minted"
        /\ call'[n] \in MintCalls /\ Asked(n)'
        /\ \A m \in Approvals \ {n} : call'[m] = call[m]
    BY <1>1, <2>1 DEF IInv, TypeOK, MintCalls, Asked, ConsentAssumption
  <2>6. TypeOK'
    <3>1. key' \in [Slugs -> Keys \cup {Null}]
      BY <2>1, <2>3 DEF IInv, TypeOK
    <3>2. call' \in [Approvals -> MintCalls \cup {Null}]
      BY <2>1, <2>5 DEF IInv, TypeOK
    <3>3. mints' \in [Approvals -> Nat]
      BY <2>1 DEF IInv, TypeOK
    <3>4. QED
      BY <1>1, <3>1, <3>2, <3>3 DEF IInv, TypeOK
  <2>7. CallsKept
    BY <1>2, <2>4, <2>5 DEF CallsKept, Asked, IInv, TypeOK
  <2>8. CallsStand'
    <3>1. CallStands(n)'
      BY <1>1, <1>2, <2>4, <2>5 DEF CallStands
    <3>2. \A m \in Approvals \ {n} : CallStands(m)'
      BY <1>1, <2>4, <2>5 DEF IInv, CallsStand, CallStands, Asked
    <3>3. QED
      BY <3>1, <3>2 DEF CallsStand
  <2>9. KeysStand'
    <3> SUFFICES ASSUME NEW u \in Slugs, key'[u] # Null
                 PROVE  /\ key'[u].by \notin revoked /\ mints'[key'[u].by] > 0
                        /\ call'[key'[u].by].slug = u /\ call'[key'[u].by].grant = key'[u].grant
      BY <1>1 DEF KeysStand
    <3>1. CASE u = s
      BY <1>2, <2>3, <2>4, <2>5, <3>1
    <3>2. CASE u # s
      <4>1. key'[u] = key[u] /\ key[u].by \in Approvals \ {n}
        BY <1>2, <2>3, <3>2 DEF IInv, KeysStand, TypeOK, Keys
      <4>2. QED
        BY <2>4, <2>5, <4>1 DEF IInv, KeysStand
    <3>3. QED
      BY <3>1, <3>2
  <2>10. FlowsStand'
    BY <1>1, <2>6, <2>7, OtherFlowsStand DEF IInv, FlowsStand
  <2>11. ScopesStand'
    BY <1>1, <2>6, <2>7, ScopesStay DEF IInv
  <2>12. ReadsStand'
    BY <1>1 DEF IInv, ReadsStand, Saving, Saved
  <2>13. CodesStand'
    <3> SUFFICES ASSUME NEW c \in codes PROVE Here(c.grant, c.slug)'
      BY <1>1 DEF CodesStand, Here, Under
    <3>1. c.slug \in Slugs /\ c = Under(c.grant, c.slug) /\ Here(c.grant, c.slug)
      BY DEF IInv, TypeOK, Pairs, Under, CodesStand
    <3>2. CASE c = Under(g, s)
      BY <2>2, <2>3, <3>2 DEF Here, Under
    <3>3. CASE c # Under(g, s)
      <4>1. c \in disturbed \cup Disturbed(s) => c \in disturbed'
        BY <2>1, <3>3
      <4>2. CASE c.slug # s
        BY <2>3, <3>1, <4>1, <4>2 DEF Here
      <4>3. CASE c.slug = s
        <5>1. key[s] # Null /\ key[s].grant = c.grant => c \in Disturbed(s)
          BY <3>1, <4>3 DEF Disturbed
        <5>2. QED
          BY <3>1, <4>1, <4>3, <5>1 DEF Here
      <4>4. QED
        BY <4>2, <4>3
    <3>4. QED
      BY <3>2, <3>3
  <2>14. QED
    BY <2>6, <2>8, <2>9, <2>10, <2>11, <2>12, <2>13 DEF IInv
<1>5. QED
  BY <1>3, <1>4

----------------------------------------------------------------------------
(* Tokens, and the console. *)

LEMMA ExchangeIInv ==
  ASSUME ConsentAssumption, IInv, NEW c \in codes, Exchange(c)
  PROVE  IInv'
<1>1. /\ UNCHANGED <<home, may, open, key, claimed, revoked, mints, scope, bound, flow, call, overlapped>>
      /\ codes' = codes \ {c} /\ refreshes' \subseteq refreshes \cup {c}
      /\ disturbed' = disturbed \ {c}
  BY DEF Exchange, standing
<1>2. TypeOK'
  BY <1>1 DEF IInv, TypeOK
<1>3. CallsStand' /\ KeysStand' /\ CallsKept
  BY <1>1 DEF IInv, CallsStand, CallStands, Asked, KeysStand, CallsKept, TypeOK
<1>4. FlowsStand'
  BY <1>1, <1>2, <1>3, OtherFlowsStand DEF IInv, FlowsStand
<1>5. ScopesStand'
  BY <1>1, <1>2, <1>3, ScopesStay DEF IInv
<1>6. ReadsStand'
  BY <1>1 DEF IInv, ReadsStand, Saving, Saved
<1>7. CodesStand'
  <2> SUFFICES ASSUME NEW d \in codes' PROVE Here(d.grant, d.slug)'
    BY DEF CodesStand
  <2>1. d \in codes /\ Under(d.grant, d.slug) = d /\ d # c
    BY <1>1 DEF IInv, TypeOK, Pairs, Under
  <2>2. QED
    BY <1>1, <2>1 DEF IInv, CodesStand, Here, Under
<1>8. QED
  BY <1>2, <1>3, <1>4, <1>5, <1>6, <1>7 DEF IInv

\* Steps that move nothing the invariant is about: a refresh, a paddock, a stutter.
LEMMA RestIInv ==
  ASSUME ConsentAssumption, IInv, open' \subseteq Slugs, may' \in BOOLEAN,
         UNCHANGED <<home, key, claimed, revoked, mints, disturbed, scope, bound, flow, call,
                     codes, refreshes, overlapped>>
  PROVE  IInv'
<1>1. TypeOK'
  BY DEF IInv, TypeOK
<1>2. CallsStand' /\ KeysStand' /\ CallsKept
  BY DEF IInv, CallsStand, CallStands, Asked, KeysStand, CallsKept, TypeOK
<1>3. FlowsStand'
  BY <1>1, <1>2, OtherFlowsStand DEF IInv, FlowsStand
<1>4. ScopesStand'
  BY <1>1, <1>2, ScopesStay DEF IInv
<1>5. ReadsStand' /\ CodesStand'
  BY DEF IInv, ReadsStand, Saving, Saved, CodesStand, Here, Under
<1>6. QED
  BY <1>1, <1>2, <1>3, <1>4, <1>5 DEF IInv

LEMMA RevokeGrantIInv ==
  ASSUME ConsentAssumption, IInv, NEW g \in Grants, RevokeGrant(g)
  PROVE  IInv'
<1>1. /\ UNCHANGED <<home, may, open, key, claimed, revoked, mints, disturbed, bound, flow, call>>
      /\ codes' \subseteq codes /\ refreshes' \subseteq refreshes
      /\ overlapped \subseteq overlapped' /\ overlapped' \subseteq overlapped \cup {g}
  BY DEF RevokeGrant, atServer
<1>2. scope'[g] = Null /\ \A h \in Grants \ {g} : scope'[h] = scope[h]
  BY DEF RevokeGrant, IInv, TypeOK
<1>3. TypeOK'
  <2>1. scope' \in [Grants -> (SUBSET Slugs) \cup {Null}]
    BY DEF RevokeGrant, IInv, TypeOK
  <2>2. QED
    BY <1>1, <2>1 DEF IInv, TypeOK
<1>4. CallsStand' /\ KeysStand' /\ CallsKept
  BY <1>1 DEF IInv, CallsStand, CallStands, Asked, KeysStand, CallsKept, TypeOK
<1>5. FlowsStand'
  BY <1>1, <1>3, <1>4, OtherFlowsStand DEF IInv, FlowsStand
<1>6. ScopesStand'
  <2> SUFFICES ASSUME NEW h \in Grants, Saved(h)'
               PROVE  Asked(h)' /\ \A s \in scope'[h] : Minted(h, s)'
    BY DEF ScopesStand
  <2>1. h # g /\ scope'[h] = scope[h] /\ Saved(h)
    BY <1>2 DEF Saved
  <2>2. QED
    BY <1>1, <2>1 DEF IInv, ScopesStand, Asked, Minted
<1>7. ReadsStand'
  BY <1>1, <1>2 DEF IInv, ReadsStand, Saving, Saved
<1>8. CodesStand'
  BY <1>1 DEF IInv, CodesStand, Here, Under
<1>9. QED
  BY <1>3, <1>4, <1>5, <1>6, <1>7, <1>8 DEF IInv

\* The keys of some paddocks go: by one revocation, or with the role that approved them.
LEMMA GoneIInv ==
  ASSUME ConsentAssumption, IInv, NEW slugs \in SUBSET Slugs, Gone(slugs), may' \in BOOLEAN,
         UNCHANGED <<home, open, claimed, mints, scope, bound, flow, call, codes, refreshes, overlapped>>
  PROVE  IInv'
<1>1. \A s \in Slugs : key'[s] = IF s \in slugs THEN Null ELSE key[s]
  BY DEF Gone
<1>2. \A s \in Slugs : key[s] # Null => key[s].by \in Approvals /\ mints[key[s].by] > 0
  BY DEF IInv, TypeOK, Keys, KeysStand
<1>3. revoked' = revoked \cup {key[s].by : s \in {s \in slugs : key[s] # Null}}
  BY DEF Gone
<1>4. TypeOK'
  <2>1. key' \in [Slugs -> Keys \cup {Null}]
    BY DEF Gone, IInv, TypeOK
  <2>2. revoked' \subseteq Approvals
    BY <1>2, <1>3 DEF IInv, TypeOK
  <2>3. QED
    BY <2>1, <2>2 DEF IInv, TypeOK
<1>5. CallsKept
  BY DEF CallsKept, Asked, IInv, TypeOK
<1>6. CallsStand'
  <2> SUFFICES ASSUME NEW n \in Approvals PROVE CallStands(n)'
    BY DEF CallsStand
  <2>1. n \in revoked' => mints[n] > 0
    BY <1>2, <1>3 DEF IInv, CallsStand, CallStands
  <2>2. QED
    BY <2>1 DEF IInv, CallsStand, CallStands, Asked
<1>7. KeysStand'
  <2> SUFFICES ASSUME NEW s \in Slugs, key'[s] # Null
               PROVE  /\ key'[s].by \notin revoked' /\ mints[key'[s].by] > 0
                      /\ call[key'[s].by].slug = s /\ call[key'[s].by].grant = key'[s].grant
    BY DEF KeysStand
  <2>1. s \notin slugs /\ key'[s] = key[s] /\ key[s] # Null
    BY <1>1
  <2>2. \A u \in slugs : key[u] # Null => key[u].by # key[s].by
    BY <2>1 DEF IInv, KeysStand
  <2>3. QED
    BY <1>3, <2>1, <2>2 DEF IInv, KeysStand
<1>8. FlowsStand'
  BY <1>4, <1>5, OtherFlowsStand DEF IInv, FlowsStand
<1>9. ScopesStand'
  BY <1>4, <1>5, ScopesStay DEF IInv
<1>10. ReadsStand'
  BY DEF IInv, ReadsStand, Saving, Saved
<1>11. CodesStand'
  <2> SUFFICES ASSUME NEW c \in codes PROVE Here(c.grant, c.slug)'
    BY DEF CodesStand, Here, Under
  <2>1. c.slug \in Slugs /\ c = Under(c.grant, c.slug) /\ Here(c.grant, c.slug)
    BY DEF IInv, TypeOK, Pairs, Under, CodesStand
  <2>2. disturbed \subseteq disturbed' /\ (c.slug \in slugs => Disturbed(c.slug) \subseteq disturbed')
    BY DEF Gone
  <2>3. key[c.slug] # Null /\ key[c.slug].grant = c.grant => c \in Disturbed(c.slug)
    BY <2>1 DEF Disturbed
  <2>4. QED
    BY <1>1, <2>1, <2>2, <2>3 DEF Here
<1>12. QED
  BY <1>4, <1>6, <1>7, <1>8, <1>9, <1>10, <1>11 DEF IInv

----------------------------------------------------------------------------
LEMMA InteractingIInv ==
  ASSUME ConsentAssumption, IInv, NEW t \in Tabs, Interacting(t)
  PROVE  IInv'
BY AuthorizeIInv, RefuseIInv, ApproveIInv, AnsweredIInv, TimesOutIInv, InterruptedIInv,
   SaveGrantIInv, ResumeIInv DEF Interacting

LEMMA NextIInv ==
  ASSUME ConsentAssumption, IInv, [Next]_consentVars
  PROVE  IInv'
<1>1. ASSUME NEW t \in Tabs, Interacting(t) PROVE IInv'
  BY <1>1, InteractingIInv
<1>2. ASSUME NEW n \in Approvals, Minting(n) PROVE IInv'
  BY <1>2, ClaimIInv, ClaimLostIInv, ResentIInv, MintIInv DEF Minting
<1>3. ASSUME NEW c \in codes, Exchange(c) PROVE IInv'
  BY <1>3, ExchangeIInv
<1>4. ASSUME NEW c \in refreshes, Refresh(c) PROVE IInv'
  BY <1>4, RestIInv DEF Refresh, standing, atServer, IInv, TypeOK
<1>5. ASSUME NEW g \in Grants, RevokeGrant(g) PROVE IInv'
  BY <1>5, RevokeGrantIInv
<1>6. CASE ChangeRole
  <2>1. /\ UNCHANGED <<home, open, claimed, mints, scope, bound, flow, call, codes, refreshes, overlapped>>
        /\ may' \in BOOLEAN
    BY <1>6 DEF ChangeRole, tokens, IInv, TypeOK
  <2>2. CASE may
    BY <1>6, <2>1, <2>2, GoneIInv DEF ChangeRole
  <2>3. CASE ~may
    BY <1>6, <2>1, <2>3, RestIInv DEF ChangeRole, IInv, TypeOK
  <2>4. QED
    BY <2>2, <2>3
<1>7. ASSUME NEW s \in Slugs, RevokeKey(s) PROVE IInv'
  BY <1>7, GoneIInv DEF RevokeKey, tokens, IInv, TypeOK
<1>8. ASSUME NEW s \in Slugs, SetPaddock(s) PROVE IInv'
  BY <1>8, RestIInv DEF SetPaddock, atServer, tokens, IInv, TypeOK
<1>9. CASE UNCHANGED consentVars
  BY <1>9, RestIInv DEF consentVars, IInv, TypeOK
<1>10. QED
  BY <1>1, <1>2, <1>3, <1>4, <1>5, <1>6, <1>7, <1>8, <1>9 DEF Next

\* The inductive invariant holds throughout: an assertion mints only once claimed,
\* and what it mints is for the grant and the paddock that were approved.
THEOREM Invariance == ASSUME ConsentAssumption PROVE Spec => []IInv
BY InitIInv, NextIInv, PTL DEF Spec

\* What an approval leaves stands on its mint (submitConsent, mintOauthKey): a grant
\* covers a paddock only after a mint for both, a code on its way finds its key unless
\* that was revoked or rebound meanwhile, and one assertion mints once.
THEOREM GrantsStand == ASSUME ConsentAssumption PROVE Spec => []GrantsStandOnMints
BY Invariance, IInvGrantsStandOnMints, PTL

----------------------------------------------------------------------------
(* What a step may never do. *)

LEMMA RedeemFollows ==
  ASSUME ConsentAssumption, IInv, NEW c \in Pairs, Redeem(c), NEW k \in issued' \ issued
  PROVE  /\ k.by \notin revoked
         /\ call[k.by].slug = k.slug /\ call[k.by].grant = k.grant
<1>1. PICK j \in KeyFor(c.grant, c.slug) : k = [grant |-> c.grant, slug |-> c.slug, by |-> j.by]
  BY DEF Redeem
<1>2. key[c.slug] # Null /\ key[c.slug].grant = c.grant /\ j = key[c.slug] /\ c.slug \in Slugs
  BY <1>1 DEF KeyFor, Pairs
<1>3. QED
  BY <1>1, <1>2 DEF IInv, KeysStand

LEMMA NextFollows ==
  ASSUME ConsentAssumption, IInv, [Next]_consentVars, NEW k \in issued' \ issued
  PROVE  /\ k.by \notin revoked
         /\ call[k.by].slug = k.slug /\ call[k.by].grant = k.grant
<1>1. ASSUME NEW t \in Tabs, Interacting(t) PROVE FALSE
  BY <1>1 DEF Interacting, Authorize, Refuse, Approve, Answered, TimesOut, Interrupted, SaveGrant,
              Resume, tokens
<1>2. ASSUME NEW n \in Approvals, Minting(n) PROVE FALSE
  BY <1>2 DEF Minting, Claim, ClaimLost, Resent, Mint, tokens
<1>3. ASSUME NEW c \in codes, Exchange(c)
      PROVE  /\ k.by \notin revoked
             /\ call[k.by].slug = k.slug /\ call[k.by].grant = k.grant
  <2>1. Redeem(c) /\ c \in Pairs
    BY <1>3 DEF Exchange, IInv, TypeOK
  <2>2. QED
    BY <2>1, RedeemFollows
<1>4. ASSUME NEW c \in refreshes, Refresh(c)
      PROVE  /\ k.by \notin revoked
             /\ call[k.by].slug = k.slug /\ call[k.by].grant = k.grant
  <2>1. Redeem(c) /\ c \in Pairs
    BY <1>4 DEF Refresh, IInv, TypeOK
  <2>2. QED
    BY <2>1, RedeemFollows
<1>5. ASSUME NEW g \in Grants, RevokeGrant(g) PROVE FALSE
  BY <1>5 DEF RevokeGrant
<1>6. ASSUME NEW s \in Slugs, RevokeKey(s) \/ SetPaddock(s) \/ ChangeRole PROVE FALSE
  BY <1>6 DEF RevokeKey, SetPaddock, ChangeRole, tokens
<1>7. CASE UNCHANGED consentVars
  BY <1>7 DEF consentVars
<1>8. QED
  BY <1>1, <1>2, <1>3, <1>4, <1>5, <1>6, <1>7 DEF Next, ConsentAssumption

\* Every access token a code or a refresh is answered with (makeExtraTokenClaims) names
\* a key that an approval of that very paddock, under that very grant, minted, and that
\* nobody has revoked by then.
THEOREM TokensFollow == ASSUME ConsentAssumption PROVE Spec => TokensFollowApproval
<1>1. IInv /\ [Next]_consentVars =>
        [\A k \in issued' \ issued :
            /\ k.by \notin revoked
            /\ call[k.by].slug = k.slug /\ call[k.by].grant = k.grant]_consentVars
  BY NextFollows
<1>2. QED
  BY <1>1, Invariance, PTL DEF Spec, TokensFollowApproval

LEMMA NextKeepsScopes ==
  ASSUME ConsentAssumption, IInv, [Next]_consentVars,
         NEW g \in DOMAIN scope, Saved(g), scope'[g] # Null
  PROVE  scope[g] \subseteq scope'[g] \/ g \in overlapped
<1>0. g \in Grants
  BY DEF IInv, TypeOK
<1>1. ASSUME NEW t \in Tabs, SaveGrant(t) PROVE scope[g] \subseteq scope'[g] \/ g \in overlapped
  <2>1. CASE g = flow[t].grant
    <3>1. flow[t].had \subseteq scope'[g]
      BY <1>0, <1>1, <2>1 DEF SaveGrant, WithMissing, IInv, TypeOK
    <3>2. Saving(t, g)
      BY <1>1, <2>1, Saver
    <3>3. QED
      BY <1>0, <3>1, <3>2 DEF IInv, ReadsStand
  <2>2. CASE g # flow[t].grant
    BY <1>0, <1>1, <2>2 DEF SaveGrant, IInv, TypeOK
  <2>3. QED
    BY <2>1, <2>2
<1>2. ASSUME NEW t \in Tabs, Interacting(t), ~SaveGrant(t) PROVE UNCHANGED scope
  BY <1>2 DEF Interacting, Authorize, Refuse, Approve, Answered, TimesOut, Interrupted, Resume
<1>3. ASSUME NEW n \in Approvals, Minting(n) PROVE UNCHANGED scope
  BY <1>3 DEF Minting, Claim, ClaimLost, Resent, Mint
<1>4. ASSUME NEW c, Exchange(c) \/ Refresh(c) PROVE UNCHANGED scope
  BY <1>4 DEF Exchange, Refresh
<1>5. ASSUME NEW h \in Grants, RevokeGrant(h) PROVE scope'[g] = scope[g]
  BY <1>0, <1>5 DEF RevokeGrant, IInv, TypeOK
<1>6. ASSUME NEW s \in Slugs, RevokeKey(s) \/ SetPaddock(s) \/ ChangeRole PROVE UNCHANGED scope
  BY <1>6 DEF RevokeKey, SetPaddock, ChangeRole
<1>7. CASE UNCHANGED consentVars
  BY <1>7 DEF consentVars
<1>8. QED
  BY <1>1, <1>2, <1>3, <1>4, <1>5, <1>6, <1>7 DEF Next, ConsentAssumption

\* A grant keeps the paddocks it covers until it is revoked, unless two interactions of
\* one browser had read it before either saved it (addMissing and save, over what was
\* loaded at the approval).
THEOREM ScopesKept == ASSUME ConsentAssumption PROVE Spec => ScopesAreKept
<1>1. IInv /\ [Next]_consentVars =>
        [\A g \in DOMAIN scope : Saved(g) /\ scope'[g] # Null =>
            scope[g] \subseteq scope'[g] \/ g \in overlapped]_consentVars
  BY NextKeepsScopes
<1>2. QED
  BY <1>1, Invariance, PTL DEF Spec, ScopesAreKept
=============================================================================
