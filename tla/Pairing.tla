------------------------------- MODULE Pairing -------------------------------
(***************************************************************************)
(* The install handshake that binds a machine to an account               *)
(* (apps/api/src/routes/mcp-install.ts over the Postgres stores, the       *)
(* install page of the web application, and the connect command).          *)
(*                                                                         *)
(* A connect run obtains a setup code and polls it; a page that is signed  *)
(* in claims the code, which mints an agent session; the next poll takes   *)
(* the raw token away.  Every request is cut at its awaits: the routes     *)
(* read a row, decide, and write it in separate statements.                *)
(*                                                                         *)
(* Each page makes one claim, so a token is named by the page that minted  *)
(* it.  Time is one bit per code: its ten minutes have passed.             *)
(***************************************************************************)
EXTENDS Naturals, FiniteSets

CONSTANTS
    Codes,      \* connect runs, each with its setup code and machine token
    Pages,      \* install pages, each claiming at most once
    Accounts,
    Polls,      \* status requests that can be under way at once
    None,
    Apps,       \* codes polled by an SDK caller, who asks again when an answer
                \* is lost; a connect run ends instead
    Overlap     \* such a caller does not wait for one answer before it asks again

PairingAssumption ==
    /\ None \notin Codes \cup Pages \cup Accounts /\ "deleted" \notin Accounts
    /\ IsFiniteSet(Polls)
    /\ Apps \subseteq Codes /\ Overlap \in BOOLEAN

VARIABLES
    row,        \* the pairing token row of a code
    dead,       \* the code's ten minutes have passed
    machine,    \* what the machine token of a run is paired to
    sess,       \* the agent session a page's claim minted
    alive,      \* how far the erasure of an account is
    req,        \* the status requests
    cli,        \* the connect runs
    page,       \* the install pages
    given       \* ghost: answers of a code that carried its token

vars == <<row, dead, machine, sess, alive, req, cli, page, given>>

Ended == {"saved", "expired", "failed", "unclaimed"}

TypeOK ==
    /\ row \in [Codes -> [st: {"none", "pending", "claimed", "delivered"},
                          acct: Accounts \cup {None}, raw: Pages \cup {None}]]
    /\ dead \in [Codes -> BOOLEAN]
    /\ machine \in [Codes -> Accounts \cup {None, "deleted"}]
    /\ sess \in [Pages -> {"none", "active", "revoked", "erased"}]
    /\ alive \in [Accounts -> {"alive", "erasing", "erased"}]
    /\ req \in [Polls -> [at: {"idle", "sent", "deliver", "mark", "answer"},
                          code: Codes \cup {None}, acct: Accounts \cup {None},
                          raw: Pages \cup {None},
                          answer: {"none", "pending", "expired", "claimed"}]]
    /\ cli \in [Codes -> [at: {"new", "wait", "held", "done"} \cup Ended,
                          skip: BOOLEAN, token: Pages \cup {None},
                          acct: Accounts \cup {None}]]
    /\ page \in [Pages -> [at: {"idle", "found", "minted", "won", "told",
                                "refused", "installed", "expired", "failed"},
                           code: Codes \cup {None}, acct: Accounts \cup {None}]]
    /\ given \in [Codes -> 0 .. Cardinality(Polls)]

NoRequest == [at |-> "idle", code |-> None, acct |-> None, raw |-> None,
              answer |-> "none"]

Init ==
    /\ row = [c \in Codes |-> [st |-> "none", acct |-> None, raw |-> None]]
    /\ dead = [c \in Codes |-> FALSE]
    /\ machine = [c \in Codes |-> None]
    /\ sess = [g \in Pages |-> "none"]
    /\ alive = [a \in Accounts |-> "alive"]
    /\ req = [p \in Polls |-> NoRequest]
    /\ cli = [c \in Codes |-> [at |-> "new", skip |-> FALSE, token |-> None,
                               acct |-> None]]
    /\ page = [g \in Pages |-> [at |-> "idle", code |-> None, acct |-> None]]
    /\ given = [c \in Codes |-> 0]

(* Mutated forms, named Operator_Fault, precede the operator they distort;   *)
(* nothing refers to them but the mutation runs of PROJECT.json.             *)

(* ---- the connect run ---------------------------------------------------- *)

\* A machine token, then the setup code that carries it; skip is
\* --skip-browser, where the run polls without a ceremony of its own.
Initiate(c, skip) ==
    /\ cli[c].at = "new"
    /\ row' = [row EXCEPT ![c].st = "pending"]
    /\ cli' = [cli EXCEPT ![c].at = "wait", ![c].skip = skip]
    /\ UNCHANGED <<dead, machine, sess, alive, req, page, given>>

InFlight(c) == {p \in Polls : req[p].at # "idle" /\ req[p].code = c}

Send(p, c) ==
    /\ req[p].at = "idle"
    /\ cli[c].at = "wait"
    /\ (Overlap /\ c \in Apps) \/ InFlight(c) = {}
    /\ req' = [req EXCEPT ![p] = [NoRequest EXCEPT !.at = "sent", !.code = c]]
    /\ UNCHANGED <<row, dead, machine, sess, alive, cli, page, given>>

\* What an answer does to the run that waits for it; without a browser the
\* token is saved at once, with one the run waits for Finish.
Heard(c, r) ==
    IF cli[c].at # "wait" \/ r.answer = "pending" THEN cli[c]
    ELSE IF r.answer = "expired" THEN [cli[c] EXCEPT !.at = "expired"]
    ELSE [cli[c] EXCEPT !.at = IF cli[c].skip THEN "done" ELSE "held",
                        !.token = r.raw, !.acct = r.acct]

Answer(p) ==
    LET c == req[p].code IN
    /\ req[p].at = "answer"
    /\ cli' = [cli EXCEPT ![c] = Heard(c, req[p])]
    /\ req' = [req EXCEPT ![p] = NoRequest]
    /\ UNCHANGED <<row, dead, machine, sess, alive, page, given>>

\* The connection breaks: installPoll throws, which ends the connect run.
Lose(p) ==
    LET c == req[p].code IN
    /\ req[p].at = "answer"
    /\ req' = [req EXCEPT ![p] = NoRequest]
    /\ cli' = IF c \in Apps \/ cli[c].at # "wait" THEN cli
              ELSE [cli EXCEPT ![c].at = "failed"]
    /\ UNCHANGED <<row, dead, machine, sess, alive, page, given>>

\* Finish reached the run, by the callback or by the page it led to.
Finish(c) ==
    /\ cli[c].at = "held"
    /\ cli' = [cli EXCEPT ![c].at = "done"]
    /\ UNCHANGED <<row, dead, machine, sess, alive, req, page, given>>

\* The ceremony's deadline keeps a token that was received; the run without
\* a browser waits half as long as the code lives.
Deadline(c) ==
    /\ cli[c].at \in {"wait", "held"}
    /\ cli' = [cli EXCEPT ![c].at = IF @ = "held" THEN "done"
                                    ELSE IF cli[c].skip THEN "unclaimed" ELSE "expired"]
    /\ UNCHANGED <<row, dead, machine, sess, alive, req, page, given>>

\* The broker's browser closes under the ceremony, or a status check stalls.
BrowserCloses(c) ==
    /\ cli[c].at \in {"wait", "held"}
    /\ ~cli[c].skip
    /\ cli' = [cli EXCEPT ![c].at = "failed"]
    /\ UNCHANGED <<row, dead, machine, sess, alive, req, page, given>>

Save(c) ==
    /\ cli[c].at = "done"
    /\ cli' = [cli EXCEPT ![c].at = "saved"]
    /\ UNCHANGED <<row, dead, machine, sess, alive, req, page, given>>

(* ---- GET /status -------------------------------------------------------- *)

Status(p) ==
    LET c == req[p].code IN
    /\ req[p].at = "sent"
    /\ req' = [req EXCEPT ![p] =
                 IF row[c].st = "delivered" \/ dead[c]
                 THEN [@ EXCEPT !.at = "answer", !.answer = "expired"]
                 ELSE IF row[c].st = "pending"
                 THEN [@ EXCEPT !.at = "answer", !.answer = "pending"]
                 ELSE [@ EXCEPT !.at = "deliver", !.acct = row[c].acct]]
    /\ UNCHANGED <<row, dead, machine, sess, alive, cli, page, given>>

\* deliverAndMarkUsed reads the row ...
DeliverRead(p) ==
    LET r == row[req[p].code] IN
    /\ req[p].at = "deliver"
    /\ req' = [req EXCEPT ![p] =
                 IF r.st = "claimed" THEN [@ EXCEPT !.at = "mark", !.raw = r.raw]
                 ELSE [@ EXCEPT !.at = "answer", !.answer = "expired"]]
    /\ UNCHANGED <<row, dead, machine, sess, alive, cli, page, given>>

\* ... and marks it, whatever it has become since.
Marked(r) == [r EXCEPT !.st = "delivered"]

DeliverMark(p) ==
    LET c == req[p].code IN
    /\ req[p].at = "mark"
    /\ row' = [row EXCEPT ![c] = Marked(@)]
    /\ req' = [req EXCEPT ![p].at = "answer", ![p].answer = "claimed"]
    /\ given' = [given EXCEPT ![c] = @ + 1]
    /\ UNCHANGED <<dead, machine, sess, alive, cli, page>>

(* ---- POST /claim -------------------------------------------------------- *)

\* requireWeb has accepted the page's session; the clock read here is the
\* one every later statement of the request compares with.
Find(g, c, a) ==
    /\ page[g].at = "idle"
    /\ alive[a] # "erased"
    /\ row[c].st # "none"
    /\ page' = [page EXCEPT ![g] =
                  [at |-> IF row[c].st = "pending" /\ ~dead[c] THEN "found"
                          ELSE "refused", code |-> c, acct |-> a]]
    /\ UNCHANGED <<row, dead, machine, sess, alive, req, cli, given>>

\* The foreign key refuses a session of an account that is gone.
Mint(g) ==
    /\ page[g].at = "found"
    /\ IF alive[page[g].acct] = "erased"
       THEN page' = [page EXCEPT ![g].at = "failed"] /\ UNCHANGED sess
       ELSE /\ page' = [page EXCEPT ![g].at = "minted"]
            /\ sess' = [sess EXCEPT ![g] = "active"]
    /\ UNCHANGED <<row, dead, machine, alive, req, cli, given>>

Claimable_Any(r) == r.st # "none"

Claimable(r) == r.st = "pending"

Claim(g) ==
    LET c == page[g].code IN
    /\ page[g].at = "minted"
    /\ IF Claimable(row[c])
       THEN /\ row' = [row EXCEPT ![c] = [st |-> "claimed", acct |-> page[g].acct,
                                          raw |-> g]]
            /\ page' = [page EXCEPT ![g].at = "won"]
       ELSE /\ page' = [page EXCEPT ![g].at = "refused"]
            /\ UNCHANGED row
    /\ UNCHANGED <<dead, machine, sess, alive, req, cli, given>>

\* Binding the machine token is best effort.
BoundBy == {"won"}

Bind(g, fails) ==
    LET c == page[g].code IN
    /\ page[g].at \in BoundBy
    /\ machine' = IF fails \/ machine[c] = "deleted" THEN machine
                  ELSE [machine EXCEPT ![c] = page[g].acct]
    /\ page' = [page EXCEPT ![g].at = IF @ = "won" THEN "told" ELSE "refused"]
    /\ UNCHANGED <<row, dead, sess, alive, req, cli, given>>

\* A refused page asks GET /state what became of the code.
Look(g) ==
    LET r == row[page[g].code] IN
    /\ page[g].at = "refused"
    /\ page' = [page EXCEPT ![g].at =
                  IF r.st = "delivered" THEN "installed"
                  ELSE IF dead[page[g].code] THEN "expired"
                  ELSE IF r.st = "claimed" THEN "installed" ELSE "failed"]
    /\ UNCHANGED <<row, dead, machine, sess, alive, req, cli, given>>

(* ---- the account's side, and time --------------------------------------- *)

Revoke(g) ==
    /\ sess[g] = "active"
    /\ sess' = [sess EXCEPT ![g] = "revoked"]
    /\ UNCHANGED <<row, dead, machine, alive, req, cli, page, given>>

\* Erasure deletes the machine tokens paired so far, then the account; the
\* foreign key takes its agent sessions along.
EraseMachines(a) ==
    /\ alive[a] = "alive"
    /\ alive' = [alive EXCEPT ![a] = "erasing"]
    /\ machine' = [c \in Codes |-> IF machine[c] = a THEN "deleted" ELSE machine[c]]
    /\ UNCHANGED <<row, dead, sess, req, cli, page, given>>

EraseAccount(a) ==
    /\ alive[a] = "erasing"
    /\ alive' = [alive EXCEPT ![a] = "erased"]
    /\ sess' = [g \in Pages |-> IF sess[g] # "none" /\ page[g].acct = a THEN "erased"
                                ELSE sess[g]]
    /\ UNCHANGED <<row, dead, machine, req, cli, page, given>>

Expire(c) ==
    /\ row[c].st # "none" /\ ~dead[c]
    /\ dead' = [dead EXCEPT ![c] = TRUE]
    /\ UNCHANGED <<row, machine, sess, alive, req, cli, page, given>>

Serve(p) == Status(p) \/ DeliverRead(p) \/ DeliverMark(p) \/ Answer(p)

Next ==
    \/ \E c \in Codes : \/ \E skip \in BOOLEAN : Initiate(c, skip)
                        \/ \E p \in Polls : Send(p, c)
                        \/ Finish(c) \/ Deadline(c) \/ BrowserCloses(c) \/ Save(c)
                        \/ Expire(c)
    \/ \E p \in Polls : Serve(p) \/ Lose(p)
    \/ \E g \in Pages : \/ \E c \in Codes, a \in Accounts : Find(g, c, a)
                        \/ Mint(g) \/ Claim(g) \/ Look(g) \/ Revoke(g)
                        \/ \E fails \in BOOLEAN : Bind(g, fails)
    \/ \E a \in Accounts : EraseMachines(a) \/ EraseAccount(a)

Spec == Init /\ [][Next]_vars

\* Every wait of a connect run is bounded by a local deadline, and a session
\* that is held is written.
LiveSpec ==
    /\ Spec
    /\ \A c \in Codes : WF_vars(Deadline(c)) /\ WF_vars(Save(c))

(* ---- what must hold ------------------------------------------------------ *)

\* The page that was told its claim succeeded is the one whose token and
\* account the row carries, however many pages claim the code at once.
ToldIsBound ==
    \A g \in Pages : page[g].at \in {"won", "told"} =>
        /\ row[page[g].code].raw = g
        /\ row[page[g].code].acct = page[g].acct

\* What a connect run writes to disk is one page's claim of its own code: the
\* token and the account are of the same claim, although the status request
\* reads them in two statements.
SavedMatches ==
    \A c \in Codes : cli[c].at = "saved" =>
        /\ page[cli[c].token].code = c
        /\ page[cli[c].token].acct = cli[c].acct

\* A machine token is bound only to the account that won its code.
MachineFollowsClaim ==
    \A c \in Codes : machine[c] \in Accounts => row[c].acct = machine[c]

\* A token leaves the service in one answer only, when the caller waits for
\* each answer before it asks again.
DeliveredOnce == \A c \in Codes : given[c] <= 1

\* A run that took the token within its deadline ends with the token saved,
\* unless its browser closed.
TakenIsSaved ==
    \A c \in Codes : (cli[c].at \in {"expired", "unclaimed"}) => cli[c].token = None

\* What a code promises, whatever the order in which its pages, status
\* requests and erasure run their statements.
PairingSafe ==
    /\ TypeOK /\ ToldIsBound /\ SavedMatches /\ MachineFollowsClaim /\ TakenIsSaved
    /\ ~Overlap => DeliveredOnce

\* Every connect run ends.
RunsEnd == \A c \in Codes : (cli[c].at = "wait") ~> (cli[c].at \in Ended)

\* What the documents say and the code does not do.

\* vault.ts: the erasure "leaves nothing".
ErasureLeavesNothing ==
    \A a \in Accounts : alive[a] = "erased" => \A c \in Codes : machine[c] # a

\* mcp-sessions.ts: the sessions are the account's paired command lines.
ListedIsPaired ==
    \A g \in Pages : sess[g] = "active" =>
        page[g].at \notin {"refused", "installed", "expired", "failed"}

\* cli.ts: a claimed account remains claimed, its token preserved.
TakenIsKept == \A c \in Codes : cli[c].at = "failed" => cli[c].token = None

\* agent.ts: the raw token is shown once and never persisted.
RawForgotten == \A c \in Codes : row[c].st = "delivered" => row[c].raw = None
=============================================================================
