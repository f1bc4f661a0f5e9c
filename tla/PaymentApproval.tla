--------------------------- MODULE PaymentApproval ---------------------------
(***************************************************************************)
(* One payment approval of the API: its row, the sealed-claim row of an    *)
(* SDK app, the payment ledger, and the HTTP requests that work on them.   *)
(* A request is a sequence of steps separated at the handler's awaits, so  *)
(* what it read may be stale when it writes.  A clock reading and the      *)
(* statement it is passed to, with no await between, are one step.         *)
(***************************************************************************)
EXTENDS Integers, Sequences

CONSTANTS
    Sessions, NoSession,      \* agent sessions of the owning account
    Cards, NoCard,            \* E2ECredential ids of the account
    Candidates, NoCand,       \* (jws, sealed_card) pairs, by fingerprint
    CardOf,                   \* card_ref inside the payload a jws signs
    Signed,                   \* candidates whose mandate verifies
    Requests,                 \* handler invocations in flight at once
    TtlCard, TtlCardless,     \* 10 and 18 minutes, in ticks
    MaxTime,                  \* bound: last tick of the clock
    MaxLedger                 \* bound: ledger rows before requests stop

ASSUME ConstantsAssumption ==
    /\ NoSession \notin Sessions /\ NoCard \notin Cards /\ NoCand \notin Candidates
    /\ CardOf \in [Candidates -> Cards] /\ Signed \subseteq Candidates
    /\ TtlCard \in Nat \ {0} /\ TtlCardless \in Nat \ {0}
    /\ MaxTime \in Nat /\ MaxLedger \in Nat

VARIABLES
    now,            \* the clock deps.now() reads
    row,            \* the PendingPaymentApproval row
    expiresAt,      \* its expires_at, never updated
    sealed,         \* the SealedApprovalClaim row: [to, claimed]
    surfaced,       \* the id has left the create handler
    ledger,         \* PaymentAuditEvent rows of this approval, oldest first
    expiryAudited,  \* the idempotent payment_approval_expired event
    req,            \* in-flight requests
    held,           \* candidates each agent session has received
    told,           \* decisions answered with 200 to some caller
    reported,       \* 200 answers of POST /outcome
    lost            \* a claim died, or its answer did, after it was spent

vars == <<now, row, expiresAt, sealed, surfaced, ledger, expiryAudited, req,
          held, told, reported, lost>>
db == <<row, expiresAt, sealed, surfaced, ledger, expiryAudited>>
history == <<held, told, reported, lost>>

Outcomes == {"completed", "failed"}
Statuses == {"none", "pending", "approved", "denied", "swept"}
Phases == {"none", "submitted", "delivered", "confirmed"}
PCs == {"idle", "create_seal", "get_relay", "peek_relay", "get_mark", "get_answer",
        "get_final", "claim_peek", "claim_check", "claim_mark", "claim_relay",
        "claim_deliver", "claim_answer", "approve_submit", "confirm_write",
        "deny_write", "bind_write", "outcome_check", "outcome_record",
        "sweep_audit", "sweep_delete"}

Rows == [status : Statuses, card : Cards \union {NoCard}, phase : Phases,
         cand : Candidates \union {NoCand}, staged : BOOLEAN, relayUntil : Nat]
RequestStates ==
    [pc : PCs, who : Sessions \union {NoSession}, cand : Candidates \union {NoCand},
     card : Cards \union {NoCard}, out : Outcomes,
     seen : Statuses, t : Nat]

Idle == [pc |-> "idle", who |-> NoSession, cand |-> NoCand, card |-> NoCard,
         out |-> "failed", seen |-> "none", t |-> 0]

TypeOK ==
    /\ now \in 0..MaxTime
    /\ row \in Rows
    /\ expiresAt \in Nat
    /\ sealed \in [to : Sessions \union {NoSession}, claimed : BOOLEAN]
    /\ surfaced \in BOOLEAN
    /\ ledger \in Seq([by : {"outcome", "broker"}, status : Outcomes])
    /\ expiryAudited \in BOOLEAN
    /\ req \in [Requests -> RequestStates]
    /\ held \in [Sessions -> SUBSET Candidates]
    /\ told \in SUBSET {"approved", "denied"}
    /\ reported \in Nat
    /\ lost \in BOOLEAN

Init ==
    /\ now = 0
    /\ row = [status |-> "none", card |-> NoCard, phase |-> "none", cand |-> NoCand,
              staged |-> FALSE, relayUntil |-> 0]
    /\ expiresAt = 0
    /\ sealed = [to |-> NoSession, claimed |-> FALSE]
    /\ surfaced = FALSE
    /\ ledger = <<>>
    /\ expiryAudited = FALSE
    /\ req = [r \in Requests |-> Idle]
    /\ held = [s \in Sessions |-> {}]
    /\ told = {} /\ reported = 0 /\ lost = FALSE

-----------------------------------------------------------------------------
(* Conditions on the row, as the store's where clauses state them.          *)

Exists == row.status \in {"pending", "approved", "denied"}
Readable == surfaced /\ Exists
PendingAt(t) == row.status = "pending" /\ t < expiresAt

(* A staged candidate the relay may hand out at t. *)
RelayableAt(t) ==
    /\ PendingAt(t)
    /\ t < row.relayUntil
    /\ row.phase \in {"submitted", "delivered"}
    /\ row.staged

(* Mutated forms, named Operator_Fault, precede the operator they distort;
   nothing refers to them but the mutation runs of PROJECT.json. *)
SubmittableAt_AnyStatus(t) ==
    t < expiresAt /\ (row.phase = "none" \/ row.relayUntil <= t)
SubmittableAt_Replaces(t) == PendingAt(t)
SubmittableAt_NoExpiry(t) ==
    row.status = "pending" /\ (row.phase = "none" \/ row.relayUntil <= t)

SubmittableAt(t) ==
    PendingAt(t) /\ (row.phase = "none" \/ row.relayUntil <= t)

ConfirmableAt_AnyStatus(t, c) ==
    t < expiresAt /\ row.cand = c /\ t < row.relayUntil /\ row.phase = "delivered"

ConfirmableAt(t, c) ==
    PendingAt(t) /\ row.cand = c /\ t < row.relayUntil /\ row.phase = "delivered"

AlreadyConfirmedAt(t, c) ==
    row.status = "approved" /\ row.phase = "confirmed" /\ row.cand = c /\ t < row.relayUntil

BindableAt_Rebinds(t) == PendingAt(t)

BindableAt(t) == PendingAt(t) /\ row.card = NoCard

(* The payload hash a candidate must carry names the row's own card. *)
BoundToRow(c) == row.card # NoCard /\ CardOf[c] = row.card

(* verifyVouch: signature, context and audience. *)
Verifies(c) == c \in Signed

(* The expiry POST /approve gives a candidate. *)
RelayExpiry_Swapped == now - expiresAt

RelayExpiry == expiresAt

LastStatus == IF ledger = <<>> THEN "none" ELSE ledger[Len(ledger)].status

(* The status the approval card and the webhooks show. *)
PublicStatus ==
    CASE row.status = "denied" -> "denied"
      [] row.status = "approved" ->
            IF LastStatus = "none" THEN "processing" ELSE LastStatus
      [] row.status = "pending" /\ expiresAt <= now ->
            IF row.phase # "none" THEN "failed" ELSE "expired"
      [] row.status = "pending" /\ now < expiresAt ->
            (CASE row.phase = "none" -> "pending"
               [] row.phase = "submitted" -> "approved"
               [] OTHER -> "processing")
      [] OTHER -> "not_found"

At(r, pc) == req[r].pc = pc
Becomes(r, state) == req' = [req EXCEPT ![r] = state]
Start(r, state) == At(r, "idle") /\ Becomes(r, state)
Goto(r, pc) == Becomes(r, [req[r] EXCEPT !.pc = pc])
Finish(r) == Becomes(r, Idle)

(* recordExpiredApproval, on a record read earlier. *)
AuditExpiry(seen, t) ==
    expiryAudited' = (expiryAudited \/ (seen = "pending" /\ expiresAt <= t))

-----------------------------------------------------------------------------
(* POST /v1/pay/approvals: the row, then the claim row of an SDK request;   *)
(* only then does the id leave the handler (link, notification, response).  *)

CreateApproval(r, s, k, seal) ==
    /\ row.status = "none"
    /\ row' = [row EXCEPT !.status = "pending", !.card = k]
    /\ expiresAt' = now + (IF k = NoCard THEN TtlCardless ELSE TtlCard)
    /\ IF seal THEN Start(r, [Idle EXCEPT !.pc = "create_seal", !.who = s])
               ELSE At(r, "idle") /\ UNCHANGED req
    /\ surfaced' = ~seal
    /\ UNCHANGED <<now, sealed, ledger, expiryAudited, history>>

SealToApp(r) ==
    /\ At(r, "create_seal")
    /\ sealed' = [sealed EXCEPT !.to = req[r].who]
    /\ surfaced' = TRUE
    /\ Finish(r)
    /\ UNCHANGED <<now, row, expiresAt, ledger, expiryAudited, history>>

-----------------------------------------------------------------------------
(* GET /v1/pay/approvals/:id and the ceremony read. NoSession is the web    *)
(* page; only an agent reads the relay, and never of a sealed approval.     *)

RelaysTo_AnyAgent(s) == s # NoSession

RelaysTo(s) == s # NoSession /\ sealed.to = NoSession

GetRead(r, s, pc) ==
    /\ Readable
    /\ Start(r, [Idle EXCEPT !.who = s, !.seen = row.status,
                    !.pc = IF RelaysTo(s) /\ PendingAt(now) THEN pc ELSE "get_answer"])
    /\ UNCHANGED <<now, db, history>>

GetRelay(r) ==
    /\ At(r, "get_relay") \/ At(r, "peek_relay")
    /\ IF RelayableAt(now)
       THEN Becomes(r, [req[r] EXCEPT !.cand = row.cand, !.t = row.relayUntil,
                           !.pc = IF At(r, "get_relay") THEN "get_mark" ELSE "get_answer"])
       ELSE Goto(r, "get_answer")
    /\ UNCHANGED <<now, db, history>>

(* The second statement of the relay read, conditional on what it read. *)
MarkDelivered(c, until) ==
    row' = IF row.status = "pending" /\ row.phase = "submitted"
              /\ row.cand = c /\ row.relayUntil = until
           THEN [row EXCEPT !.phase = "delivered"]
           ELSE row

GetMark(r) ==
    /\ At(r, "get_mark")
    /\ MarkDelivered(req[r].cand, req[r].t)
    /\ Goto(r, "get_answer")
    /\ UNCHANGED <<now, expiresAt, sealed, surfaced, ledger, expiryAudited, history>>

(* The last round of a wait reads the row once more, after the relay. *)
GetRecheck(r) ==
    /\ At(r, "get_answer") /\ req[r].cand # NoCand
    /\ IF Exists
       THEN Becomes(r, [req[r] EXCEPT !.pc = "get_final", !.seen = row.status,
                           !.cand = IF PendingAt(now) THEN req[r].cand ELSE NoCand])
       ELSE Finish(r)
    /\ UNCHANGED <<now, db, history>>

Receives(s, c) ==
    held' = IF c = NoCand THEN held ELSE [held EXCEPT ![s] = @ \union {c}]

GetAnswer(r) ==
    /\ At(r, "get_answer") \/ At(r, "get_final")
    /\ AuditExpiry(req[r].seen, now)
    /\ Receives(req[r].who, req[r].cand)
    /\ Finish(r)
    /\ UNCHANGED <<now, row, expiresAt, sealed, surfaced, ledger, told, reported, lost>>

-----------------------------------------------------------------------------
(* POST /:id/claim: only the session the approval is sealed to, once.       *)

ClaimRead(r, s) ==
    /\ Readable /\ sealed.to = s /\ ~sealed.claimed
    /\ Start(r, [Idle EXCEPT !.pc = "claim_peek", !.who = s, !.seen = row.status])
    /\ UNCHANGED <<now, db, history>>

ClaimPeek(r) ==
    /\ At(r, "claim_peek")
    /\ Becomes(r, [req[r] EXCEPT !.pc = "claim_check",
                       !.seen = IF Exists THEN row.status ELSE req[r].seen,
                       !.cand = IF RelayableAt(now) THEN row.cand ELSE NoCand])
    /\ UNCHANGED <<now, db, history>>

ClaimCheck_SpendsEarly(r) ==
    /\ At(r, "claim_check")
    /\ AuditExpiry(req[r].seen, now)
    /\ IF req[r].seen = "pending" /\ now < expiresAt
       THEN Becomes(r, [req[r] EXCEPT !.pc = "claim_mark", !.t = now])
       ELSE Finish(r)
    /\ UNCHANGED <<now, row, expiresAt, sealed, surfaced, ledger, history>>

(* The clock read here also serves the two steps that follow. *)
ClaimCheck(r) ==
    /\ At(r, "claim_check")
    /\ AuditExpiry(req[r].seen, now)
    /\ IF req[r].seen = "pending" /\ now < expiresAt /\ req[r].cand # NoCand
       THEN Becomes(r, [req[r] EXCEPT !.pc = "claim_mark", !.t = now])
       ELSE Finish(r)
    /\ UNCHANGED <<now, row, expiresAt, sealed, surfaced, ledger, history>>

MayMarkClaimed_Again(s) == sealed.to = s

MayMarkClaimed(s) == sealed.to = s /\ ~sealed.claimed

ClaimMark(r) ==
    /\ At(r, "claim_mark")
    /\ IF MayMarkClaimed(req[r].who)
       THEN sealed' = [sealed EXCEPT !.claimed = TRUE] /\ Goto(r, "claim_relay")
       ELSE UNCHANGED sealed /\ Finish(r)
    /\ UNCHANGED <<now, row, expiresAt, surfaced, ledger, expiryAudited, history>>

ClaimRelay(r) ==
    /\ At(r, "claim_relay")
    /\ IF RelayableAt(req[r].t)
       THEN Becomes(r, [req[r] EXCEPT !.pc = "claim_deliver", !.cand = row.cand,
                                      !.t = row.relayUntil])
       ELSE Finish(r)
    /\ UNCHANGED <<now, db, history>>

ClaimDeliver(r) ==
    /\ At(r, "claim_deliver")
    /\ MarkDelivered(req[r].cand, req[r].t)
    /\ Goto(r, "claim_answer")
    /\ UNCHANGED <<now, expiresAt, sealed, surfaced, ledger, expiryAudited, history>>

ClaimAnswer(r) ==
    /\ At(r, "claim_answer")
    /\ Receives(req[r].who, req[r].cand)
    /\ Finish(r)
    /\ UNCHANGED <<now, db, told, reported, lost>>

-----------------------------------------------------------------------------
(* POST /:id/approve, from the owner's page: verify, then stage.            *)

ApproveRead(r, c) ==
    /\ Readable /\ PendingAt(now) /\ BoundToRow(c)
    /\ Start(r, [Idle EXCEPT !.pc = "approve_submit", !.cand = c])
    /\ UNCHANGED <<now, db, history>>

ApproveSubmit(r) ==
    /\ At(r, "approve_submit")
    /\ row' = IF Verifies(req[r].cand) /\ SubmittableAt(now)
              THEN [row EXCEPT !.phase = "submitted", !.cand = req[r].cand,
                               !.staged = TRUE, !.relayUntil = RelayExpiry]
              ELSE row
    /\ Finish(r)
    /\ UNCHANGED <<now, expiresAt, sealed, surfaced, ledger, expiryAudited, history>>

-----------------------------------------------------------------------------
(* POST /:id/confirm, by an agent that holds the candidate.                 *)

ConfirmRead(r, s, c) ==
    /\ Readable /\ c \in held[s]
    /\ row.status \in {"pending", "approved"} /\ now < expiresAt /\ BoundToRow(c)
    /\ Start(r, [Idle EXCEPT !.pc = "confirm_write", !.who = s, !.cand = c])
    /\ UNCHANGED <<now, db, history>>

(* A repeat for the confirmed fingerprint gets the same answer. *)
ConfirmWrite(r) ==
    /\ At(r, "confirm_write")
    /\ LET c == req[r].cand
           wins == Verifies(c) /\ ConfirmableAt(now, c)
           repeats == Verifies(c) /\ AlreadyConfirmedAt(now, c)
       IN /\ row' = IF wins
                    THEN [row EXCEPT !.status = "approved", !.phase = "confirmed",
                                     !.staged = FALSE]
                    ELSE row
          /\ told' = IF wins \/ repeats THEN told \union {"approved"} ELSE told
    /\ Finish(r)
    /\ UNCHANGED <<now, expiresAt, sealed, surfaced, ledger, expiryAudited,
                   held, reported, lost>>

-----------------------------------------------------------------------------
(* POST /:id/deny and POST /:id/bind-card, from the owner's web session.    *)

DenyRead(r) ==
    /\ Readable
    /\ Start(r, [Idle EXCEPT !.pc = "deny_write"])
    /\ UNCHANGED <<now, db, history>>

DenyWrite_AnyStatus(r) ==
    /\ At(r, "deny_write")
    /\ IF Exists /\ now < expiresAt
       THEN /\ row' = [row EXCEPT !.status = "denied", !.staged = FALSE]
            /\ told' = told \union {"denied"}
       ELSE UNCHANGED <<row, told>>
    /\ Finish(r)
    /\ UNCHANGED <<now, expiresAt, sealed, surfaced, ledger, expiryAudited,
                   held, reported, lost>>

DenyWrite(r) ==
    /\ At(r, "deny_write")
    /\ IF PendingAt(now)
       THEN /\ row' = [row EXCEPT !.status = "denied", !.staged = FALSE]
            /\ told' = told \union {"denied"}
       ELSE UNCHANGED <<row, told>>
    /\ Finish(r)
    /\ UNCHANGED <<now, expiresAt, sealed, surfaced, ledger, expiryAudited,
                   held, reported, lost>>

BindRead(r, k) ==
    /\ Readable /\ BindableAt(now)
    /\ Start(r, [Idle EXCEPT !.pc = "bind_write", !.card = k, !.t = now])
    /\ UNCHANGED <<now, db, history>>

(* The card may have been deleted from the vault in the meantime; the clock *)
(* compared is the one the handler read.                                    *)
BindWrite(r, stored) ==
    /\ At(r, "bind_write")
    /\ row' = IF stored /\ BindableAt(req[r].t) THEN [row EXCEPT !.card = req[r].card] ELSE row
    /\ Finish(r)
    /\ UNCHANGED <<now, expiresAt, sealed, surfaced, ledger, expiryAudited, history>>

-----------------------------------------------------------------------------
(* POST /:id/outcome, and the broker's POST /v1/vault/payments/audit.       *)

OutcomeRead(r, s, o) ==
    /\ Readable /\ sealed.to = s /\ sealed.claimed /\ row.status = "approved"
    /\ Len(ledger) < MaxLedger
    /\ Start(r, [Idle EXCEPT !.pc = "outcome_check", !.who = s, !.out = o])
    /\ UNCHANGED <<now, db, history>>

OutcomeCheck(r) ==
    /\ At(r, "outcome_check")
    /\ IF LastStatus \in Outcomes THEN Finish(r) ELSE Goto(r, "outcome_record")
    /\ UNCHANGED <<now, db, history>>

OutcomeRecord(r) ==
    /\ At(r, "outcome_record")
    /\ ledger' = Append(ledger, [by |-> "outcome", status |-> req[r].out])
    /\ reported' = reported + 1
    /\ Finish(r)
    /\ UNCHANGED <<now, row, expiresAt, sealed, surfaced, expiryAudited, held, told, lost>>

(* The broker audits the payments whose card it received, never an app's. *)
BrokerAudit(s) ==
    /\ held[s] # {} /\ sealed.to = NoSession /\ "approved" \in told
    /\ Len(ledger) < MaxLedger
    /\ ledger' = Append(ledger, [by |-> "broker", status |-> "completed"])
    /\ UNCHANGED <<now, row, expiresAt, sealed, surfaced, expiryAudited, req, history>>

-----------------------------------------------------------------------------
(* The hourly retention sweep: audit a lapsed pending row, then delete it.  *)

SweepScan(r) ==
    /\ Exists /\ expiresAt < now
    /\ Start(r, [Idle EXCEPT !.t = now, !.seen = row.status,
                    !.pc = IF row.status = "pending" THEN "sweep_audit" ELSE "sweep_delete"])
    /\ UNCHANGED <<now, db, history>>

SweepAudit_IgnoresFailure(r, ok) ==
    /\ At(r, "sweep_audit")
    /\ expiryAudited' = (expiryAudited \/ ok)
    /\ Goto(r, "sweep_delete")
    /\ UNCHANGED <<now, row, expiresAt, sealed, surfaced, ledger, history>>

SweepAudit_KeepsRow(r, ok) ==
    /\ At(r, "sweep_audit")
    /\ expiryAudited' = (expiryAudited \/ ok)
    /\ Finish(r)
    /\ UNCHANGED <<now, row, expiresAt, sealed, surfaced, ledger, history>>

(* A failed audit write keeps the row for the next sweep. *)
SweepAudit(r, ok) ==
    /\ At(r, "sweep_audit")
    /\ expiryAudited' = (expiryAudited \/ ok)
    /\ IF ok THEN Goto(r, "sweep_delete") ELSE Finish(r)
    /\ UNCHANGED <<now, row, expiresAt, sealed, surfaced, ledger, history>>

SweepDelete(r) ==
    /\ At(r, "sweep_delete")
    /\ row' = IF Exists /\ expiresAt < req[r].t
              THEN [row EXCEPT !.status = "swept", !.staged = FALSE] ELSE row
    /\ Finish(r)
    /\ UNCHANGED <<now, expiresAt, sealed, surfaced, ledger, expiryAudited, history>>

-----------------------------------------------------------------------------
(* The worker dies, or the connection does before the answer arrives.       *)
ClaimSpent(r) == req[r].pc \in {"claim_relay", "claim_deliver", "claim_answer"}

Crash(r) ==
    /\ ~At(r, "idle")
    /\ Finish(r)
    /\ lost' = (lost \/ ClaimSpent(r))
    /\ UNCHANGED <<now, db, held, told, reported>>

Tick == now < MaxTime /\ now' = now + 1 /\ UNCHANGED <<db, req, history>>

BeginRequest(r) ==
    \/ \E s \in Sessions, k \in Cards \union {NoCard}, seal \in BOOLEAN :
          CreateApproval(r, s, k, seal)
    \/ \E s \in Sessions \union {NoSession}, pc \in {"get_relay", "peek_relay"} :
          GetRead(r, s, pc)
    \/ \E s \in Sessions : ClaimRead(r, s)
    \/ \E c \in Candidates : ApproveRead(r, c)
    \/ \E s \in Sessions, c \in Candidates : ConfirmRead(r, s, c)
    \/ DenyRead(r)
    \/ \E k \in Cards : BindRead(r, k)
    \/ \E s \in Sessions, o \in Outcomes : OutcomeRead(r, s, o)
    \/ SweepScan(r)

ContinueRequest(r) ==
    \/ SealToApp(r)
    \/ GetRelay(r) \/ GetMark(r) \/ GetRecheck(r) \/ GetAnswer(r)
    \/ ClaimPeek(r) \/ ClaimCheck(r) \/ ClaimMark(r) \/ ClaimRelay(r)
    \/ ClaimDeliver(r) \/ ClaimAnswer(r)
    \/ ApproveSubmit(r) \/ ConfirmWrite(r) \/ DenyWrite(r)
    \/ \E stored \in BOOLEAN : BindWrite(r, stored)
    \/ OutcomeCheck(r) \/ OutcomeRecord(r)
    \/ \E ok \in BOOLEAN : SweepAudit(r, ok)
    \/ SweepDelete(r)

Next ==
    \/ \E r \in Requests : BeginRequest(r) \/ ContinueRequest(r) \/ Crash(r)
    \/ \E s \in Sessions : BrokerAudit(s)
    \/ Tick

Spec == Init /\ [][Next]_vars

(* Handlers run to completion, time passes, and the hourly sweep gets its   *)
(* turn and a working audit store again and again, whatever else runs.      *)
Fairness ==
    /\ WF_vars(Tick)
    /\ \A r \in Requests : WF_vars(ContinueRequest(r))
    /\ SF_vars(\E r \in Requests : SweepScan(r))
    /\ \A r \in Requests : SF_vars(SweepAudit(r, TRUE)) /\ SF_vars(SweepDelete(r))

FairSpec == Spec /\ Fairness

-----------------------------------------------------------------------------
(* Safety.                                                                  *)

(* A caller told "denied" and a caller told "approved" never coexist: deny  *)
(* and confirm race on the same row and one of them loses.                  *)
DecisionIsExclusive == told # {"approved", "denied"}

(* An approved payment was confirmed with a candidate whose mandate         *)
(* verified and was signed over the very card the row is bound to, however  *)
(* binding, approving and confirming requests interleave.                   *)
ApprovedIsSigned ==
    row.status = "approved" =>
        /\ row.phase = "confirmed"
        /\ row.cand \in Signed
        /\ row.card # NoCard /\ CardOf[row.cand] = row.card

(* No mandate and no sealed card stays in the row once it is decided, even  *)
(* when a submission was being verified while the decision committed.       *)
NothingStagedOnceDecided == row.status \in {"approved", "denied"} => ~row.staged

(* The card of an SDK approval reaches no session but the one that asked,   *)
(* whichever reads and claims the other sessions of the account make.       *)
SealedHeldByAppOnly ==
    sealed.to # NoSession => \A s \in Sessions \ {sealed.to} : held[s] = {}

(* Two claims of the same session racing: one is served, and nothing had    *)
(* been handed out before it.                                               *)
ClaimServedOnce ==
    \A r \in Requests : ClaimSpent(r) =>
        /\ sealed.claimed /\ held[req[r].who] = {}
        /\ \A q \in Requests \ {r} : ~ClaimSpent(q)

(* The single claim is not spent for nothing: unless the answer was lost on *)
(* the way, the app has the card or the approval was denied meanwhile.      *)
ClaimNotWasted ==
    sealed.claimed /\ ~lost /\ (\A r \in Requests : ~ClaimSpent(r)) =>
        held[sealed.to] # {} \/ row.status \in {"denied", "swept"}

(* The sweep deletes no undecided approval without its expiry in the audit. *)
SweptWasAudited == row.status = "swept" /\ told = {} => expiryAudited

(* Once staged, a candidate is never replaced by a second ceremony of the   *)
(* same approval, so what one agent read is what another may confirm.       *)
CandidateIsWriteOnce ==
    [][row.phase # "none" => row'.phase # "none" /\ row'.cand = row.cand]_vars

(* A denied or lapsed approval keeps the status its card shows: no late     *)
(* submission or confirmation reopens it or renames its failure.  Lapsed is  *)
(* by the clock that the update carries, read as it is sent.                *)
ClosedStaysClosed ==
    [][row.status = "denied" \/ (row.status = "pending" /\ expiresAt <= now) =>
          PublicStatus' \in {PublicStatus, "not_found"}]_vars

(* What an approval promises, step by step.                                 *)
Decision == INSTANCE ApprovalDecision WITH
    decision <- IF row.status \in {"none", "pending"} THEN "open"
                ELSE IF row.status = "swept" THEN "forgotten" ELSE row.status,
    card <- row.card,
    recipient <- sealed.to,
    offer <- IF row.phase = "none" THEN NoCand ELSE row.cand,
    holders <- {s \in Sessions : held[s] # {}}

ImplementsDecision == Decision!Spec

-----------------------------------------------------------------------------
(* Liveness: an approval nobody decided is eventually audited and removed.  *)
LapsedIsSettled ==
    (row.status = "pending" /\ expiresAt < now) ~> (row.status = "swept" /\ expiryAudited)

-----------------------------------------------------------------------------
(* What the documentation says, and the code does not do.                   *)

(* pay-approvals.ts:705-708: the outcome of a payment is reported once.     *)
OutcomeReportedOnce == reported <= 1

(* card-release-approval.ts:717-718: the expiry event is recorded when an   *)
(* expired pending approval is observed, hence never for an approved one.   *)
ExpiryAuditMeansUnpaid == ~(expiryAudited /\ "approved" \in told)
=============================================================================
