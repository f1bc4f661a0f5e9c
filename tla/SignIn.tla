------------------------------- MODULE SignIn --------------------------------
(***************************************************************************)
(* Signing in to the service with Google or GitHub                         *)
(* (apps/api/src/routes/oauth.ts over the account, identity and session    *)
(* stores), with logout, lapse and erasure.                                *)
(*                                                                         *)
(* The callback resolves an account in four reads and writes: the identity, *)
(* else the browser's own session, else the email, else a new account.     *)
(* Sign-ins of one browser in several tabs share its two cookies.  An      *)
(* account is its email and a generation, so an account created again      *)
(* after an erasure is another one.                                        *)
(***************************************************************************)
EXTENDS Naturals

CONSTANTS
    Tabs,             \* sign-ins of one browser
    Identities,       \* provider identities
    Emails,
    EmailOf,          \* the verified email of an identity
    Nobody,
    Existing,         \* emails that have an account at the start
    SignupsDisabled,  \* the kill switch
    MaxGen            \* bound: accounts ever created for one email

SignInAssumption ==
    /\ EmailOf \in [Identities -> Emails] /\ Existing \subseteq Emails
    /\ SignupsDisabled \in BOOLEAN /\ MaxGen \in Nat \ {0}
    /\ Nobody \notin Emails \X (1 .. MaxGen)

VARIABLES
    accounts,   \* the live accounts
    gen,        \* how many accounts an email has had
    ident,      \* the account of an identity
    jar,        \* the browser's state cookie
    cookie,     \* the browser's session cookie
    session,    \* the session a sign-in made
    tab         \* the sign-ins

signInVars == <<accounts, gen, ident, jar, cookie, session, tab>>

Ids == Emails \X (1 .. MaxGen)

SignInTypeOK ==
    /\ accounts \subseteq Ids
    /\ \A a, b \in accounts : a[1] = b[1] => a = b
    /\ gen \in [Emails -> 0 .. MaxGen]
    /\ ident \in [Identities -> accounts \cup {Nobody}]
    /\ jar \in Tabs \cup {Nobody} /\ cookie \in Tabs \cup {Nobody}
    /\ session \in [Tabs -> [st: {"none", "active", "revoked", "lapsed", "gone"},
                          acct: Ids \cup {Nobody}]]
    /\ tab \in [Tabs -> [at: {"idle", "away", "lookup", "session", "email",
                              "create", "bind", "issue", "in", "denied",
                              "mismatch", "refused", "failed"},
                         i: Identities \cup {Nobody}, auth: Ids \cup {Nobody},
                         acct: Ids \cup {Nobody}]]

SignInInit ==
    /\ accounts = {<<e, 1>> : e \in Existing}
    /\ gen = [e \in Emails |-> IF e \in Existing THEN 1 ELSE 0]
    /\ ident = [i \in Identities |-> IF EmailOf[i] \in Existing
                                     THEN <<EmailOf[i], 1>> ELSE Nobody]
    /\ jar = Nobody /\ cookie = Nobody
    /\ session = [t \in Tabs |-> [st |-> "none", acct |-> Nobody]]
    /\ tab = [t \in Tabs |-> [at |-> "idle", i |-> Nobody, auth |-> Nobody, acct |-> Nobody]]

Goto(t, at) == tab' = [tab EXCEPT ![t].at = at]

GoWith(t, at, a) == tab' = [tab EXCEPT ![t].at = at, ![t].acct = a]

OfEmail(e) == {a \in accounts : a[1] = e}

\* The account the session cookie stands for, if its session is healthy.
Caller == IF cookie # Nobody /\ session[cookie].st = "active" THEN session[cookie].acct ELSE Nobody

(* Mutated forms, named Operator_Fault, precede the operator they distort;   *)
(* nothing refers to them but the mutation runs of PROJECT.json.             *)

\* GET /start: the state cookie of an earlier tab is overwritten.
Start(t, i) ==
    /\ tab[t].at = "idle"
    /\ jar' = t
    /\ tab' = [tab EXCEPT ![t].at = "away", ![t].i = i]
    /\ UNCHANGED <<accounts, gen, ident, cookie, session>>

\* A declined consent returns before the cookie is looked at.
Declined(t) ==
    /\ tab[t].at = "away"
    /\ Goto(t, "denied")
    /\ UNCHANGED <<accounts, gen, ident, jar, cookie, session>>

\* The state is compared and the cookie dropped; then the code is exchanged,
\* which may fail.  The caller's session was resolved when the request came.
Return(t, ok) ==
    /\ tab[t].at = "away"
    /\ jar' = Nobody
    /\ tab' = [tab EXCEPT ![t].at = IF jar # t THEN "mismatch"
                                    ELSE IF ok THEN "lookup" ELSE "failed",
                          ![t].auth = Caller]
    /\ UNCHANGED <<accounts, gen, ident, cookie, session>>

Lookup(t) ==
    LET a == ident[tab[t].i] IN
    /\ tab[t].at = "lookup"
    /\ IF a # Nobody THEN GoWith(t, "issue", a) ELSE Goto(t, "session")
    /\ UNCHANGED <<accounts, gen, ident, jar, cookie, session>>

BySession(t) ==
    LET a == tab[t].auth IN
    /\ tab[t].at = "session"
    /\ IF a \in accounts THEN GoWith(t, "bind", a) ELSE Goto(t, "email")
    /\ UNCHANGED <<accounts, gen, ident, jar, cookie, session>>

ByEmail(t) ==
    LET mine == OfEmail(EmailOf[tab[t].i]) IN
    /\ tab[t].at = "email"
    /\ IF mine # {} THEN \E a \in mine : GoWith(t, "bind", a)
       ELSE Goto(t, IF SignupsDisabled THEN "refused" ELSE "create")
    /\ UNCHANGED <<accounts, gen, ident, jar, cookie, session>>

\* createAccount looks again and inserts; an insert between the two makes the
\* unique email refuse it.
Create(t) ==
    LET e == EmailOf[tab[t].i]
        a == <<e, gen[e] + 1>> IN
    /\ tab[t].at = "create"
    /\ \/ /\ OfEmail(e) = {} /\ gen[e] < MaxGen
          /\ accounts' = accounts \cup {a}
          /\ gen' = [gen EXCEPT ![e] = @ + 1]
          /\ GoWith(t, "bind", a)
       \/ /\ OfEmail(e) # {}
          /\ \/ \E b \in OfEmail(e) : GoWith(t, "bind", b)
             \/ Goto(t, "failed")
          /\ UNCHANGED <<accounts, gen>>
    /\ UNCHANGED <<ident, jar, cookie, session>>

\* The unique provider identity refuses a second row, the foreign key one of
\* an account that is gone.
Bindable_Moves(i, a) == a \in accounts

Bindable(i, a) == ident[i] = Nobody /\ a \in accounts

BindIdentity(t) ==
    LET i == tab[t].i IN
    /\ tab[t].at = "bind"
    /\ IF Bindable(i, tab[t].acct)
       THEN ident' = [ident EXCEPT ![i] = tab[t].acct] /\ Goto(t, "issue")
       ELSE UNCHANGED ident /\ Goto(t, "failed")
    /\ UNCHANGED <<accounts, gen, jar, cookie, session>>

Insertable(a) == a \in accounts

Issue(t) ==
    LET a == tab[t].acct IN
    /\ tab[t].at = "issue"
    /\ IF Insertable(a)
       THEN /\ session' = [session EXCEPT ![t] = [st |-> "active", acct |-> a]]
            /\ cookie' = t
            /\ Goto(t, "in")
       ELSE Goto(t, "failed") /\ UNCHANGED <<session, cookie>>
    /\ UNCHANGED <<accounts, gen, ident, jar>>

Logout ==
    /\ Caller # Nobody
    /\ session' = [session EXCEPT ![cookie].st = "revoked"]
    /\ cookie' = Nobody
    /\ UNCHANGED <<accounts, gen, ident, jar, tab>>

\* Fifteen idle minutes or eight hours pass.
Lapse(t) ==
    /\ session[t].st = "active"
    /\ session' = [session EXCEPT ![t].st = "lapsed"]
    /\ UNCHANGED <<accounts, gen, ident, jar, cookie, tab>>

\* The last step of an erasure: the account and, by cascade, its identities
\* and sessions.
Erase ==
    LET a == Caller IN
    /\ a # Nobody
    /\ accounts' = accounts \ {a}
    /\ ident' = [i \in Identities |-> IF ident[i] = a THEN Nobody ELSE ident[i]]
    /\ session' = [t \in Tabs |-> IF session[t].acct = a THEN [session[t] EXCEPT !.st = "gone"]
                               ELSE session[t]]
    /\ cookie' = Nobody
    /\ UNCHANGED <<gen, jar, tab>>

SignInNext ==
    \/ \E t \in Tabs : \/ \E i \in Identities : Start(t, i)
                       \/ Declined(t) \/ \E ok \in BOOLEAN : Return(t, ok)
                       \/ Lookup(t) \/ BySession(t) \/ ByEmail(t) \/ Create(t)
                       \/ BindIdentity(t) \/ Issue(t) \/ Lapse(t)
    \/ Logout \/ Erase

SignInSpec == SignInInit /\ [][SignInNext]_signInVars

(* ---- what must hold ------------------------------------------------------ *)

\* A sign-in opens a session of the account its identity belongs to at that
\* moment, whatever other tabs bound, erased or created since it looked.
SignedInAsIdentity ==
    [][\A t \in Tabs : (tab[t].at = "issue" /\ tab'[t].at = "in")
           => ident[tab[t].i] = session'[t].acct]_signInVars

\* An identity leaves an account only when the account is erased.
IdentityStable ==
    [][\A i \in Identities : (ident[i] # Nobody /\ ident'[i] # ident[i])
           => ident[i] \notin accounts']_signInVars

\* A session that is accepted belongs to a live account.
SessionsOfLiveAccounts ==
    \A t \in Tabs : session[t].st = "active" => session[t].acct \in accounts

\* Sessions are of accounts that exist and of the identity that signed in, and
\* an identity does not move between accounts.
AccountsSafe ==
    [](SignInTypeOK /\ SessionsOfLiveAccounts) /\ SignedInAsIdentity /\ IdentityStable

\* oauth.ts: with signups disabled, returning users are never blocked.
ReturningNotBlocked ==
    [][\A t \in Tabs : (tab[t].at = "email" /\ tab'[t].at = "refused")
           => ident[tab[t].i] = Nobody]_signInVars
=============================================================================
