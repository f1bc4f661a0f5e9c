---------------------------- MODULE CardRelease ----------------------------
(***************************************************************************)
(* inject_card on one browser session: apps/mcp/src/tools/inject-card.ts   *)
(* over executeCardReleaseApproval of bot/card-release-approval.ts.  Calls  *)
(* on a session come one at a time; the approval server, the cardholder's   *)
(* phone and the clock move between any two awaits of a call.               *)
(*                                                                          *)
(* The server is external here and stands for what PaymentApproval models:  *)
(* a candidate is relayed while its approval is pending, and confirming it  *)
(* approves it.  Terms stand for merchant, amount, currency and card.  A    *)
(* candidate is sealed to the key of the approval it was signed for.        *)
(***************************************************************************)
EXTENDS Naturals, FiniteSets

CONSTANTS
    Terms,        \* purchase terms
    MaxApprovals, \* bound: approvals created
    Ttl,          \* an approval's life, in ticks
    Budget,       \* APPROVAL_WAIT_MS, in ticks
    MaxTime,      \* bound: the clock
    MaxCalls,     \* bound: inject_card calls
    MaxFaults,    \* bound: answers that are lost, requests that fail, cancellations
    ConfirmFaults,\* whether they may hit the confirmation
    StaleRefs,    \* whether a field ref may be stale when the card is written
    NewTerms      \* whether a repeated release may name other terms

ReleaseConstants ==
    /\ {MaxApprovals, Ttl, Budget, MaxTime, MaxCalls, MaxFaults} \subseteq Nat
    /\ {ConfirmFaults, StaleRefs, NewTerms} \subseteq BOOLEAN

VARIABLES
    now,      \* the clock
    server,   \* [approval -> terms, status, staged candidate, deadline]
    session,  \* activePayment, whether its key is intact, releasedPaymentCard
    call,     \* the call in progress: its arguments and locals
    ledger,   \* [approval -> how often its payment was recorded]
    used,     \* calls and faults so far
    ghost     \* what was written on the page, shown to the human and retired

vars == <<now, server, session, call, ledger, used, ghost>>

Approvals == 1..MaxApprovals
NoTerms == "no terms"
Unmade == [terms |-> NoTerms, status |-> "none", staged |-> FALSE, by |-> 0]
Idle == [pc |-> "idle", terms |-> NoTerms, id |-> 0, aid |-> 0, resumed |-> FALSE, until |-> 0,
         status |-> "none", staged |-> FALSE, aborted |-> FALSE]

PCs == {"idle", "config", "check", "create", "surface", "read", "judge", "verify", "confirm",
        "confirmed", "lastread", "fill", "refill"}

TypeOK ==
    /\ now \in 0..MaxTime
    /\ server \in [Approvals -> [terms : Terms \cup {NoTerms}, staged : BOOLEAN, by : Nat,
                     status : {"none", "pending", "approved", "denied", "gone"}]]
    /\ session \in [active : 0..MaxApprovals, key : BOOLEAN, released : 0..MaxApprovals,
                    audited : BOOLEAN]
    /\ call \in [pc : PCs, terms : Terms \cup {NoTerms}, id : 0..MaxApprovals,
                 aid : 0..MaxApprovals, resumed : BOOLEAN, until : Nat,
                 status : {"none", "pending", "approved", "denied"},
                 staged : BOOLEAN, aborted : BOOLEAN]
    /\ ledger \in [Approvals -> 0..2]
    /\ used \in [calls : 0..MaxCalls, faults : 0..MaxFaults]
    /\ ghost \in [wrote : SUBSET [id : Approvals, terms : Terms], again : BOOLEAN,
                  surfaced : SUBSET Approvals, retired : SUBSET Approvals,
                  recorded : SUBSET Approvals]
    /\ session.active # 0 => session.active \in ghost.surfaced
    /\ session.key => session.active # 0

Init ==
    /\ now = 0
    /\ server = [a \in Approvals |-> Unmade]
    /\ session = [active |-> 0, key |-> FALSE, released |-> 0, audited |-> FALSE]
    /\ call = Idle /\ ledger = [a \in Approvals |-> 0]
    /\ used = [calls |-> 0, faults |-> 0]
    /\ ghost = [wrote |-> {}, surfaced |-> {}, retired |-> {}, again |-> FALSE, recorded |-> {}]

-----------------------------------------------------------------------------
Goto(pc) == call' = [call EXCEPT !.pc = pc]
Ends == call' = Idle
Fault == used.faults < MaxFaults /\ used' = [used EXCEPT !.faults = @ + 1]

Expired(a) == now >= server[a].by
Pending(a) == server[a].status = "pending" /\ ~Expired(a)

(* The approvals for these terms that the human can still sign.              *)
OpenFor(terms) ==
    {a \in ghost.surfaced \ ghost.retired : Pending(a) /\ server[a].terms = terms}

-----------------------------------------------------------------------------
(* Mutated forms, named Operator_Fault, precede the operator they distort;   *)
(* nothing refers to them but the mutation runs of PROJECT.json.             *)

(* onApprovalPending: the session keeps the approval with its key; a call    *)
(* that fails on a resumed approval keeps it too.                            *)
Keeps(a) == session' = [session EXCEPT !.active = a, !.key = @ \/ session.active # a]

(* onApprovalTerminal, and the key goes with it.                             *)
Drops == session' = [session EXCEPT !.active = 0, !.key = FALSE]

(* The finally block erases a key that was not handed off.  The session's    *)
(* resumable state holds the very same key pair.                             *)
Erases == session' = [session EXCEPT !.key = FALSE]

(* executeCardReleaseApproval: the resumed approval is for other terms.      *)
Changed(terms) == session.active # 0 /\ server[session.active].terms # terms

(* injectCardOnSession.  A released card is written again under its own      *)
(* approval id while it lives; otherwise the call resumes the session's      *)
(* approval, or makes one.  Terms that changed retire the old approval,      *)
(* unless the call insists on its id.                                        *)
Begin(terms, id) ==
    LET released == session.released
        lapsed == released # 0 /\ id = 0 /\ Expired(released)
        resume == session.active
        next == [Idle EXCEPT !.terms = terms, !.id = id]
    IN /\ call.pc = "idle" /\ used.calls < MaxCalls
       /\ used' = [used EXCEPT !.calls = @ + 1]
       /\ CASE released # 0 /\ ~lapsed ->
                  /\ call' = IF id = released /\ ~Expired(released)
                                /\ (NewTerms \/ server[released].terms = terms)
                             THEN [next EXCEPT !.pc = "refill", !.aid = released] ELSE call
                  /\ UNCHANGED session
            [] released = 0 /\ id # 0 /\ (id # resume \/ Changed(terms)) -> UNCHANGED <<call, session>>
            [] OTHER ->
                  /\ session' = [session EXCEPT !.released = 0,
                                    !.active = IF Changed(terms) THEN 0 ELSE @,
                                    !.key = @ /\ ~Changed(terms)]
                  /\ call' = [next EXCEPT !.pc = "config", !.aid = session'.active,
                                          !.resumed = session'.active # 0]
       /\ ghost' = [ghost EXCEPT !.retired = @ \cup ({resume} \ {0, session'.active})]
       /\ UNCHANGED <<now, server, ledger>>

(* An exception: a resumable approval is kept, else the key is erased.       *)
Fails ==
    /\ Ends /\ IF call.aid = 0 THEN UNCHANGED session ELSE Keeps(call.aid)
    /\ UNCHANGED <<now, server, ledger, ghost>>

(* getPaymentConfig, for the audience of the assertion.                      *)
Config ==
    /\ call.pc = "config"
    /\ \/ /\ Goto(IF call.resumed THEN "check" ELSE "create")
          /\ UNCHANGED <<now, server, session, ledger, used, ghost>>
       \/ Fault /\ Fails

(* The read of the resumed approval.  One that is neither terminal nor live  *)
(* is abandoned for a fresh one, unless the call insists on its id.          *)
Check ==
    LET a == call.aid
        s == server[a].status
    IN /\ call.pc = "check"
       /\ \/ /\ s = "denied" \/ (s \in {"pending", "approved"} /\ Expired(a))
             /\ Drops /\ Ends /\ UNCHANGED <<now, server, ledger, used, ghost>>
          \/ /\ Pending(a) /\ Goto("surface")
             /\ UNCHANGED <<now, server, session, ledger, used, ghost>>
          \/ /\ s = "gone" \/ (s = "approved" /\ ~Expired(a))
             /\ IF call.id # 0 THEN Fails
                ELSE /\ Erases /\ call' = [call EXCEPT !.pc = "create", !.aid = 0, !.resumed = FALSE]
                     /\ UNCHANGED <<now, server, ledger, ghost>>
             /\ UNCHANGED used
          \/ Fault /\ Fails

(* createPaymentApproval; its answer may be lost after the row is there.     *)
Create ==
    LET a == 1 + Cardinality({b \in Approvals : server[b].status # "none"})
        row == [terms |-> call.terms, status |-> "pending", staged |-> FALSE, by |-> now + Ttl]
    IN /\ call.pc = "create"
       /\ \/ /\ a \in Approvals /\ server' = [server EXCEPT ![a] = row]
             /\ call' = [call EXCEPT !.pc = "surface", !.aid = a]
             /\ ghost' = [ghost EXCEPT !.again = @ \/ OpenFor(call.terms) # {}]
             /\ UNCHANGED <<session, used>>
          \/ /\ Fault /\ Fails
          \/ /\ a \in Approvals /\ Fault /\ server' = [server EXCEPT ![a] = row]
             /\ Ends /\ UNCHANGED <<session, ghost>>
          \/ a \notin Approvals /\ Ends /\ UNCHANGED <<server, session, used, ghost>>
       /\ UNCHANGED <<now, ledger>>

(* surfaceApprovalUrl, which may throw.  A fresh approval goes back to the   *)
(* caller at once; a resumed one is waited for.                              *)
Surface ==
    /\ call.pc = "surface"
    /\ ghost' = [ghost EXCEPT !.surfaced = @ \cup {call.aid}]
    /\ \/ /\ call.resumed
          /\ call' = [call EXCEPT !.pc = "read",
                         !.until = IF now + Budget < server[call.aid].by THEN now + Budget
                                   ELSE server[call.aid].by]
          /\ UNCHANGED <<session, used>>
       \/ ~call.resumed /\ Keeps(call.aid) /\ Ends /\ UNCHANGED used
       \/ Fault /\ Keeps(call.aid) /\ Ends
    /\ UNCHANGED <<now, server, ledger>>

(* shouldKeepPolling is false: the approval stays pending, or it expired.    *)
StopsPolling == call.aborted \/ now >= call.until \/ Expired(call.aid)
(* The candidate read, held by the server for part of the budget; a timeout  *)
(* of the transport ends the call like its budget.                           *)
Read ==
    LET a == call.aid
    IN /\ call.pc = "read"
       /\ \/ /\ server[a].status # "gone"
             /\ call' = [call EXCEPT !.pc = "judge", !.status = server[a].status,
                                     !.staged = server[a].staged /\ Pending(a)]
             /\ UNCHANGED <<session, used>>
          \/ server[a].status = "gone" /\ Keeps(a) /\ Ends /\ UNCHANGED used
          \/ Fault /\ Keeps(a) /\ Ends
       /\ UNCHANGED <<now, server, ledger, ghost>>

Judge ==
    LET a == call.aid
    IN /\ call.pc = "judge"
       /\ CASE call.status = "denied" -> Drops /\ Ends
            [] call.status # "denied" /\ Expired(a) -> Goto("lastread") /\ UNCHANGED session
            [] call.status = "approved" /\ ~Expired(a) -> Ends /\ UNCHANGED session
            [] call.status = "pending" /\ ~Expired(a) /\ call.staged ->
                  Goto("verify") /\ UNCHANGED session
            [] OTHER -> IF StopsPolling THEN Keeps(a) /\ Ends
                                        ELSE Goto("read") /\ UNCHANGED session
       /\ UNCHANGED <<now, server, ledger, used, ghost>>

(* expiredApprovalResult: one more read, so that the server sees the expiry. *)
LastRead ==
    /\ call.pc = "lastread" /\ Drops /\ Ends
    /\ UNCHANGED <<now, server, ledger, used, ghost>>

(* verifyMandate, which fetches the signing keys, then openSealed.  What     *)
(* fails here leaves the approval resumable as it was.                       *)
Verify ==
    /\ call.pc = "verify"
    /\ \/ /\ CASE Expired(call.aid) -> Goto("lastread")
               [] ~Expired(call.aid) /\ session.key -> Goto("confirm")
               [] OTHER -> Ends
          /\ UNCHANGED used
       \/ Fault /\ Ends
    /\ UNCHANGED <<now, server, session, ledger, ghost>>

Confirm_TrustsRead ==
    /\ call.pc = "confirm" /\ Goto("confirmed")
    /\ server' = [server EXCEPT ![call.aid].status = IF Pending(call.aid) THEN "approved" ELSE @]
    /\ UNCHANGED <<now, session, ledger, used, ghost>>
(* confirmPaymentApproval.  Any failure ends the approval for the session,   *)
(* whatever became of it on the server.                                      *)
Confirm ==
    LET a == call.aid
        confirms == server' = [server EXCEPT ![a].status = "approved"]
    IN /\ call.pc = "confirm"
       /\ \/ Pending(a) /\ confirms /\ Goto("confirmed") /\ UNCHANGED <<session, used>>
          \/ ~Pending(a) /\ Drops /\ Ends /\ UNCHANGED <<server, used>>
          \/ /\ ConfirmFaults /\ Fault /\ Drops /\ Ends
             /\ UNCHANGED server \/ (Pending(a) /\ confirms)
       /\ UNCHANGED <<now, ledger, ghost>>

Confirmed ==
    /\ call.pc = "confirmed"
    /\ Goto(IF Expired(call.aid) THEN "lastread" ELSE "fill")
    /\ UNCHANGED <<now, server, session, ledger, used, ghost>>

(* injectCardIntoSessionTargets: a ref that resolves to nothing is a field   *)
(* outcome, a stale or ambiguous one an exception.                           *)
Wrote(a) == ghost' = [ghost EXCEPT !.wrote = @ \cup {[id |-> a, terms |-> call.terms]}]
Fill ==
    /\ call.pc = "fill" /\ Ends
    /\ \/ /\ Wrote(call.aid)
          /\ session' = [session EXCEPT !.active = 0, !.key = FALSE, !.released = call.aid]
       \/ StaleRefs /\ Erases /\ (Wrote(call.aid) \/ UNCHANGED ghost)
    /\ UNCHANGED <<now, server, ledger, used>>

(* injectReleasedCard *)
Refill ==
    /\ call.pc = "refill" /\ Ends
    /\ Wrote(call.aid) \/ (StaleRefs /\ UNCHANGED ghost)
    /\ UNCHANGED <<now, server, session, ledger, used>>

(* The host cancels the call.                                                *)
Abort ==
    /\ call.pc \in {"read", "judge"} /\ call.resumed /\ ~call.aborted /\ Fault
    /\ call' = [call EXCEPT !.aborted = TRUE]
    /\ UNCHANGED <<now, server, session, ledger, ghost>>

-----------------------------------------------------------------------------
(* observedThreeDsChallenge, auditConfirmedPayment: an observation sees that *)
(* the merchant confirmed the order and records the payment, once for the    *)
(* session.  A record whose answer is lost is repeated by the next one.      *)
Observe ==
    LET a == session.released
        writes == ledger[a] < 2 /\ ledger' = [ledger EXCEPT ![a] = @ + 1]
    IN /\ call.pc = "idle" /\ a # 0
       /\ \/ /\ IF session.audited THEN UNCHANGED ledger ELSE writes
             /\ session' = [session EXCEPT !.audited = TRUE]
             /\ ghost' = [ghost EXCEPT !.recorded = @ \cup {a}] /\ UNCHANGED used
          \/ /\ ~session.audited /\ Fault /\ (UNCHANGED ledger \/ writes)
             /\ UNCHANGED <<session, ghost>>
       /\ UNCHANGED <<now, server, call>>

-----------------------------------------------------------------------------
(* The phone signs a candidate, or the human refuses; the row is swept once  *)
(* its approval expired; time passes.                                        *)
Phone(a) ==
    /\ Pending(a) /\ a \in ghost.surfaced
    /\ \/ ~server[a].staged /\ server' = [server EXCEPT ![a].staged = TRUE]
       \/ server' = [server EXCEPT ![a].status = "denied"]
    /\ UNCHANGED <<now, session, call, ledger, used, ghost>>
Sweep(a) ==
    /\ server[a].status \in {"pending", "approved", "denied"} /\ Expired(a)
    /\ server' = [server EXCEPT ![a].status = "gone"]
    /\ UNCHANGED <<now, session, call, ledger, used, ghost>>
Tick ==
    /\ now < MaxTime /\ now' = now + 1
    /\ UNCHANGED <<server, session, call, ledger, used, ghost>>

Step ==
    \/ Config \/ Check \/ Create \/ Surface \/ Read \/ Judge \/ LastRead \/ Verify
    \/ Confirm \/ Confirmed \/ Fill \/ Refill

Next ==
    \/ \E terms \in Terms, id \in 0..MaxApprovals : Begin(terms, id)
    \/ Step \/ Abort \/ Observe \/ Tick
    \/ \E a \in Approvals : Phone(a) \/ Sweep(a)

Spec == Init /\ [][Next]_vars

-----------------------------------------------------------------------------
(* The card is written only under an approval the server has confirmed, so   *)
(* that a refusal that arrives during the verification still counts.         *)
WrittenIsConfirmed ==
    \A w \in ghost.wrote : server[w.id].status \in {"approved", "gone"}

(* What a call asks for is what the human approved: "an old approval can     *)
(* never authorize the new terms".                                           *)
WrittenAsAsked == \A w \in ghost.wrote : server[w.id].terms = w.terms

(* Whatever failed on the way, an approval the human can still sign and that *)
(* the session will resume is one whose sealed card it can still open.       *)
SignableIsOpenable ==
    call.pc = "idle" /\ session.active # 0 /\ Pending(session.active) => session.key

(* The human is never asked again while a link shown earlier for the same    *)
(* purchase is open.                                                         *)
AskedOnce == ~ghost.again

(* What releasing a card promises, whatever is lost or expires on the way;   *)
(* a repeated release that may name other terms, and a confirmation that may *)
(* fail after the server took it, each void the promise they break.          *)
ReleaseSafe ==
    /\ TypeOK /\ WrittenIsConfirmed /\ SignableIsOpenable
    /\ ~NewTerms => WrittenAsAsked
    /\ ~ConfirmFaults => AskedOnce

(* Between calls a confirmed approval that has not expired is the session's  *)
(* released card: retries may supply other field refs under it.              *)
ConfirmedIsReleased ==
    call.pc = "idle" =>
        \A a \in Approvals : server[a].status = "approved" /\ ~Expired(a) => session.released = a

(* A payment that an observation reports as recorded is in the ledger.       *)
RecordedIsInLedger == \A a \in ghost.recorded : ledger[a] > 0

(* The ledger holds one event for a payment.                                 *)
LedgerOnce == \A a \in Approvals : ledger[a] <= 1
=============================================================================
