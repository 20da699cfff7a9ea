------------------------------- MODULE SignIn -------------------------------
(***************************************************************************)
(* Signing in to the console: the browser's cookies (the sealed OIDC       *)
(* transaction, the console session), the OP's session with that browser,  *)
(* and the callbacks in flight.                                            *)
(*                                                                         *)
(* A cookie is read when a request arrives and set or deleted when its     *)
(* answer does; a second tab of the same browser moves in between.  The OP *)
(* is modelled as the console uses it: codes are single use, carry the     *)
(* transaction they answer, and end with the OP session they came from.    *)
(***************************************************************************)
EXTENDS Naturals

CONSTANTS
    Browsers, Users,
    Callbacks,      \* requests to /auth/callback in flight at a time
    Nobody,         \* no cookie, no session, no user
    MaxTransactions,\* bound on sign-ins begun
    MaxLogins,      \* bound on passwords typed
    MaxEvents       \* bound on lapses, status changes, logouts and lost answers

Transactions == 1..MaxTransactions
OpSessions == [user : Users, serial : 1..MaxLogins]
Begins == [browser : Browsers, hinted : BOOLEAN, typed : Users \cup {Nobody}]
Codes == [tx : Transactions, user : Users, browser : Browsers, serial : 1..MaxLogins]
Handled == [browser : Browsers, code : Codes, user : Users \cup {Nobody}, done : BOOLEAN]

SignInAssumption ==
    /\ Browsers # {} /\ Users # {}
    /\ Nobody \notin Browsers /\ Nobody \notin Users /\ Nobody \notin Transactions
    /\ Nobody \notin OpSessions /\ Nobody \notin Begins /\ Nobody \notin Handled
    /\ {MaxTransactions, MaxLogins, MaxEvents} \subseteq Nat

VARIABLES
    active,      \* the users whose status is active
    txCookie,    \* [Browsers -> the transaction sealed in its cookie, or Nobody]
    session,     \* [Browsers -> the user of its console session, or Nobody]
    opSession,   \* [Browsers -> [user, serial] of its OP session, or Nobody]
    begun,       \* the transactions begun: [browser, hinted, typed], typed is who gave a password
    codes,       \* codes the OP holds unspent: [tx, user, browser, serial]
    links,       \* callback URLs the OP has redirected to: codes, spent or not
    callback,    \* [Callbacks -> [browser, code, user, done], or Nobody]
    logouts,     \* browsers on their way to the OP's end_session
    logins, events,
    since,       \* history: [Browsers -> who typed a password since its OP session last ended]
    late,        \* history: browsers with a callback past its exchange when that happened
    via,         \* history: [Browsers -> the transaction its session came by]
    signedIn,    \* history: transactions that gave a session
    twice, overlapped  \* history: transactions that gave two; that two callbacks held at once

signInVars == <<active, txCookie, session, opSession, begun, codes, links, callback, logouts,
                logins, events, since, late, via, signedIn, twice, overlapped>>
history == <<since, late, via, signedIn, twice, overlapped>>
cookies == <<txCookie, session>>

Begun == {n \in Transactions : begun[n] # Nobody}
InFlight(b) == {h \in Callbacks : callback[h] # Nobody /\ callback[h].browser = b}

Init ==
    /\ active = Users
    /\ txCookie = [b \in Browsers |-> Nobody]
    /\ session = [b \in Browsers |-> Nobody]
    /\ opSession = [b \in Browsers |-> Nobody]
    /\ begun = [n \in Transactions |-> Nobody]
    /\ codes = {} /\ links = {}
    /\ callback = [h \in Callbacks |-> Nobody]
    /\ logouts = {}
    /\ logins = 0 /\ events = 0
    /\ since = [b \in Browsers |-> {}]
    /\ late = {} /\ signedIn = {} /\ twice = {} /\ overlapped = {}
    /\ via = [b \in Browsers |-> Nobody]

----------------------------------------------------------------------------
(* GET /login: one transaction per browser, in a cookie that a second one  *)
(* replaces.                                                               *)

Login(b, hinted) ==
    \E n \in Transactions \ Begun :
        /\ \A m \in 1..(n - 1) : m \in Begun
        /\ begun' = [begun EXCEPT ![n] = [browser |-> b, hinted |-> hinted, typed |-> Nobody]]
        /\ txCookie' = [txCookie EXCEPT ![b] = n]
        /\ UNCHANGED <<active, session, opSession, codes, links, callback, logouts, logins, events, history>>

----------------------------------------------------------------------------
(* The OP: the browser follows its redirect, and may do so again; the URL  *)
(* is not opened in another browser (a callback's may be, below).          *)

\* A hinted sign-in asks for the password whatever session the browser has.
\* Mutation: the hint alone does not prompt.
PromptsIfSignedOut(b, n) == opSession[b] = Nobody
Prompts(b, n) == opSession[b] = Nobody \/ begun[n].hinted

Issue(b, n, at) ==
    LET code == [tx |-> n, user |-> at.user, browser |-> b, serial |-> at.serial] IN
    codes' = codes \cup {code} /\ links' = links \cup {code}

\* submitLogin, and the account switch when the OP session is another user's.
TypePassword(b, n, u) ==
    /\ n \in Begun /\ begun[n].browser = b /\ Prompts(b, n)
    /\ u \in active
    /\ logins < MaxLogins /\ logins' = logins + 1
    /\ LET kept == opSession[b] # Nobody /\ opSession[b].user = u
           at == IF kept THEN opSession[b] ELSE [user |-> u, serial |-> logins']
       IN opSession' = [opSession EXCEPT ![b] = at] /\ Issue(b, n, at)
    /\ begun' = [begun EXCEPT ![n].typed = u]
    /\ since' = [since EXCEPT ![b] = @ \cup {u}]
    /\ UNCHANGED <<active, cookies, callback, logouts, events, late, via, signedIn, twice, overlapped>>

\* A live OP session of an active account answers without a password.
Authorize(b, n) ==
    /\ n \in Begun /\ begun[n].browser = b /\ ~Prompts(b, n)
    /\ opSession[b] # Nobody /\ opSession[b].user \in active
    /\ Issue(b, n, opSession[b])
    /\ UNCHANGED <<active, cookies, opSession, begun, callback, logouts, logins, events, history>>

----------------------------------------------------------------------------
(* GET /auth/callback *)

\* The transaction cookie a callback needs is the one the browser holds.
\* Mutation: any transaction begun will do.
HeldSomewhere(b, n) == n \in Begun
Held(b, n) == txCookie[b] = n

\* The request arrives with the cookies of the moment: another transaction, or
\* none, is a state mismatch, and the answer deletes the cookie all the same.
Arrive(h, b, code) ==
    /\ callback[h] = Nobody /\ code \in links
    /\ Held(b, code.tx)
    /\ callback' = [callback EXCEPT ![h] = [browser |-> b, code |-> code, user |-> Nobody, done |-> FALSE]]
    /\ overlapped' = IF \E g \in InFlight(b) : callback[g].code.tx = code.tx
                       THEN overlapped \cup {code.tx} ELSE overlapped
    /\ UNCHANGED <<active, cookies, opSession, begun, codes, links, logouts, logins, events,
                   since, late, via, signedIn, twice>>

\* What the answer does to the transaction's cookie.
\* Mutation: it is left in the browser.
CookieKept(b) == txCookie
CookieTaken(b) == [txCookie EXCEPT ![b] = Nobody]

Mismatch(b) ==
    /\ txCookie[b] # Nobody /\ \E code \in links : ~Held(b, code.tx)
    /\ txCookie' = CookieTaken(b)
    /\ UNCHANGED <<active, session, opSession, begun, codes, links, callback, logouts, logins, events, history>>

\* The code is spent at the OP, under its OP session, and its subject loaded.
Exchange(h) ==
    /\ callback[h] # Nobody /\ ~callback[h].done
    /\ LET code == callback[h].code
           live == /\ code \in codes
                   /\ opSession[code.browser] = [user |-> code.user, serial |-> code.serial]
           ok == live /\ code.user \in active
       IN
       /\ codes' = codes \ {code}
       /\ callback' = [callback EXCEPT ![h].done = TRUE, ![h].user = IF ok THEN code.user ELSE Nobody]
    /\ UNCHANGED <<active, cookies, opSession, begun, links, logouts, logins, events, history>>

\* The OP does not answer, or its answer is lost: the code may be spent.
ExchangeFails(h) ==
    /\ callback[h] # Nobody /\ ~callback[h].done
    /\ events < MaxEvents /\ events' = events + 1
    /\ codes' \in {codes, codes \ {callback[h].code}}
    /\ callback' = [callback EXCEPT ![h].done = TRUE]
    /\ UNCHANGED <<active, cookies, opSession, begun, links, logouts, logins, history>>

\* The answer reaches the browser: the transaction is gone, a session is set.
Answer(h) ==
    /\ callback[h] # Nobody /\ callback[h].done
    /\ LET b == callback[h].browser
           u == callback[h].user
           n == callback[h].code.tx
       IN
       /\ txCookie' = CookieTaken(b)
       /\ IF u # Nobody
            THEN /\ session' = [session EXCEPT ![b] = u]
                 /\ via' = [via EXCEPT ![b] = n]
                 /\ signedIn' = signedIn \cup {n}
                 /\ twice' = IF n \in signedIn THEN twice \cup {n} ELSE twice
            ELSE UNCHANGED <<session, via, signedIn, twice>>
    /\ callback' = [callback EXCEPT ![h] = Nobody]
    /\ UNCHANGED <<active, opSession, begun, codes, links, logouts, logins, events, since, late, overlapped>>

AnswerLost(h) ==
    /\ callback[h] # Nobody
    /\ events < MaxEvents /\ events' = events + 1
    /\ callback' = [callback EXCEPT ![h] = Nobody]
    /\ UNCHANGED <<active, cookies, opSession, begun, codes, links, logouts, logins, history>>

----------------------------------------------------------------------------
(* Signing out, expiry, and the account itself. *)

\* logout: the session cookie first; then the browser goes on to the OP, unless
\* the OP could not be reached for its URL.
Logout(b, reachable) ==
    /\ session[b] # Nobody
    /\ events < MaxEvents /\ events' = events + 1
    /\ session' = [session EXCEPT ![b] = Nobody]
    /\ logouts' = IF reachable THEN logouts \cup {b} ELSE logouts
    /\ UNCHANGED <<active, txCookie, opSession, begun, codes, links, callback, logins, history>>

OpSessionEnds(b) ==
    /\ opSession' = [opSession EXCEPT ![b] = Nobody]
    /\ since' = [since EXCEPT ![b] = {}]
    /\ late' = IF \E h \in InFlight(b) : callback[h].done THEN late \cup {b} ELSE late

EndSession(b) ==
    /\ b \in logouts
    /\ logouts' = logouts \ {b}
    /\ OpSessionEnds(b)
    /\ UNCHANGED <<active, cookies, begun, codes, links, callback, logins, events, via, signedIn, twice, overlapped>>

Lapse(b) ==
    /\ events < MaxEvents /\ events' = events + 1
    /\ \/ /\ txCookie[b] # Nobody /\ txCookie' = [txCookie EXCEPT ![b] = Nobody]
          /\ UNCHANGED <<session, opSession, since, late>>
       \/ /\ session[b] # Nobody /\ session' = [session EXCEPT ![b] = Nobody]
          /\ UNCHANGED <<txCookie, opSession, since, late>>
       \/ opSession[b] # Nobody /\ OpSessionEnds(b) /\ UNCHANGED cookies
    /\ UNCHANGED <<active, begun, codes, links, callback, logouts, logins, via, signedIn, twice, overlapped>>

SetStatus(u) ==
    /\ events < MaxEvents /\ events' = events + 1
    /\ active' = IF u \in active THEN active \ {u} ELSE active \cup {u}
    /\ UNCHANGED <<cookies, opSession, begun, codes, links, callback, logouts, logins, history>>

AtOp(b) == \E n \in Transactions : Authorize(b, n) \/ \E u \in Users : TypePassword(b, n, u)
AtConsole(b) ==
    \/ \E hinted \in BOOLEAN : Login(b, hinted)
    \/ Mismatch(b)
    \/ \E reachable \in BOOLEAN : Logout(b, reachable)
    \/ \E h \in Callbacks, code \in links : Arrive(h, b, code)
Handling(h) == Exchange(h) \/ ExchangeFails(h) \/ Answer(h) \/ AnswerLost(h)

Next ==
    \/ \E b \in Browsers : AtOp(b) \/ AtConsole(b) \/ EndSession(b) \/ Lapse(b)
    \/ \E h \in Callbacks : Handling(h)
    \/ \E u \in Users : SetStatus(u)

Spec == Init /\ [][Next]_signInVars

----------------------------------------------------------------------------
(* Properties *)

TypeOK ==
    /\ active \subseteq Users
    /\ txCookie \in [Browsers -> Transactions \cup {Nobody}]
    /\ session \in [Browsers -> Users \cup {Nobody}]
    /\ opSession \in [Browsers -> OpSessions \cup {Nobody}]
    /\ begun \in [Transactions -> Begins \cup {Nobody}]
    /\ codes \subseteq links /\ links \subseteq Codes
    /\ callback \in [Callbacks -> Handled \cup {Nobody}]
    /\ \A h \in Callbacks : callback[h] # Nobody => callback[h].code \in links
    /\ logouts \subseteq Browsers /\ logins \in 0..MaxLogins
    /\ since \in [Browsers -> SUBSET Users] /\ late \subseteq Browsers
    /\ via \in [Browsers -> Transactions \cup {Nobody}]
    /\ signedIn \subseteq Transactions /\ twice \subseteq Transactions /\ overlapped \subseteq Transactions

\* A console session begins only for a user who typed a password in that browser
\* since its OP session last ended: no callback URL opened elsewhere, and no code
\* from before a sign-out, signs a browser in (a callback already past its
\* exchange when the OP session ended excepted).
SessionsAreProved ==
    [][\A b \in Browsers : session'[b] \notin {Nobody, session[b]} =>
          session'[b] \in since[b] \/ b \in late]_signInVars

\* An invite's sign-in (login_hint) is of the account whose password was typed
\* for it, whoever the browser was signed in as.
HintedIsTyped ==
    \A b \in Browsers :
        session[b] # Nobody /\ begun[via[b]].hinted => begun[via[b]].typed # Nobody

\* "One attempt per sign-in, never replayable": a transaction signs in once,
\* unless two callbacks read its cookie before either was answered.
SignsInOnce == twice \subseteq overlapped

\* A sign-in answers one login, the way that login was begun.
SignInsAreAsBegun == HintedIsTyped /\ SignsInOnce
=============================================================================
