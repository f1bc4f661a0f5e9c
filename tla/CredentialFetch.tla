--------------------------- MODULE CredentialFetch ---------------------------
(***************************************************************************)
(* One approval-gated disclosure of a stored credential: the approval row, *)
(* its sealed-claim row, the audit rows of its outcomes, the requests that *)
(* create, sign, deny, claim and reveal it, and the hourly sweep.          *)
(* A request is a sequence of steps separated at the handler's awaits.     *)
(***************************************************************************)
EXTENDS Integers, Sequences

CONSTANTS
    Requests,   \* handler invocations and sweeps in flight at once
    Fields,     \* names of credential fields
    Ttl,        \* 10 minutes, in ticks
    MaxTime     \* bound: last tick of the clock

FetchAssumption == Ttl \in Nat \ {0} /\ MaxTime \in Nat

VARIABLES
    now,
    wantsSeal,   \* the requester named a recipient key (an SDK app)
    row,         \* the CredentialFetchApproval row
    bound,       \* the SealedApprovalClaim row exists
    surfaced,    \* the id has left a create handler
    fields,      \* field names the credential holds now; none: deleted
    signed,      \* forms of the payload the owner's passkey has signed
    audited,     \* how often each outcome is in the audit, 2 for more
    req,         \* in-flight requests
    told,        \* decisions answered with 200
    disclosed,   \* values handed out: [via, names], oldest first
    mishap       \* a claimer died, or an audit write failed, after the claim

vars == <<now, wantsSeal, row, bound, surfaced, fields, signed, audited, req, told,
          disclosed, mishap>>

Statuses == {"none", "pending", "approved", "consumed", "denied", "failed", "swept"}
Codes == {"none", "expired", "expired_unaudited"}
Forms == {"plain", "keyed"}  \* without and with recipient_pubkey_hash
Outcomes == {"approved", "denied", "expired", "success", "internal_error",
             "missing_credential", "field_set_changed", "rate_limited"}
PCs == {"idle", "create_insert", "create_seal", "approve_verify", "approve_write",
        "deny_write", "settle", "claim_write", "claim_read", "reveal", "audit",
        "deliver", "sweep_settle", "sweep_clear", "sweep_delete"}

Idle == [pc |-> "idle", t |-> 0, form |-> "plain", out |-> "expired",
         names |-> {}, won |-> FALSE, sweeps |-> FALSE]

TypeOK ==
    /\ now \in 0..MaxTime
    /\ wantsSeal \in BOOLEAN /\ bound \in BOOLEAN /\ surfaced \in BOOLEAN /\ mishap \in BOOLEAN
    /\ row \in [status : Statuses, code : Codes, until : Nat, names : SUBSET Fields]
    /\ fields \in SUBSET Fields
    /\ signed \in SUBSET Forms
    /\ audited \in [Outcomes -> 0..2]
    /\ req \in [Requests -> [pc : PCs, t : Nat, form : Forms, out : Outcomes,
                             names : SUBSET Fields, won : BOOLEAN, sweeps : BOOLEAN]]
    /\ told \in SUBSET {"approved", "denied"}
    /\ disclosed \in Seq([via : Forms, names : SUBSET Fields])

Init ==
    /\ now = 0
    /\ wantsSeal \in BOOLEAN
    /\ row = [status |-> "none", code |-> "none", until |-> 0, names |-> {}]
    /\ bound = FALSE /\ surfaced = FALSE /\ mishap = FALSE
    /\ fields = Fields
    /\ signed = {}
    /\ audited = [o \in Outcomes |-> 0]
    /\ req = [r \in Requests |-> Idle]
    /\ told = {}
    /\ disclosed = <<>>

Exists == row.status \notin {"none", "swept"}
Live == row.status \in {"pending", "approved"}
LapsedAt(t) == row.until <= t
KeyForm == IF bound THEN "keyed" ELSE "plain"

Goto(r, pc) == req' = [req EXCEPT ![r].pc = pc]
Done(r) == req' = [req EXCEPT ![r] = Idle]
Settle(r, t) == req' = [req EXCEPT ![r] = [Idle EXCEPT !.pc = "settle", !.t = t]]
Record(r, outcome) == req' = [req EXCEPT ![r].pc = "audit", ![r].out = outcome]

-----------------------------------------------------------------------------
(* POST /v1/vault/fetch-approvals. All creations modelled here state the    *)
(* same intent, so a live pending row is handed out again.                  *)

CreateReuses ==
    /\ row.status = "pending" /\ ~LapsedAt(now)
    /\ surfaced' = TRUE
    /\ UNCHANGED <<now, wantsSeal, row, bound, fields, signed, audited, req, told,
                   disclosed, mishap>>

CreateRead(r) ==
    /\ req[r] = Idle /\ row.status = "none"
    /\ \E names \in {fields} \union {{f} : f \in fields} :
           /\ names # {}
           /\ req' = [req EXCEPT ![r] = [Idle EXCEPT !.pc = "create_insert", !.t = now,
                                                     !.names = names]]
    /\ UNCHANGED <<now, wantsSeal, row, bound, surfaced, fields, signed, audited, told,
                   disclosed, mishap>>

(* Mutated forms, named Operator_Fault, precede the operator they distort;
   nothing refers to them but the mutation runs of PROJECT.json. *)
Expiry(t) == t + Ttl

(* A creation that finds none pending either inserts this row, or another   *)
(* row, which has a life of its own.                                        *)
CreateInsert(r) ==
    /\ req[r].pc = "create_insert"
    /\ IF row.status = "none"
       THEN /\ row' = [status |-> "pending", code |-> "none", until |-> Expiry(req[r].t),
                       names |-> req[r].names]
            /\ IF wantsSeal THEN Goto(r, "create_seal") /\ UNCHANGED surfaced
                            ELSE Done(r) /\ surfaced' = TRUE
       ELSE Done(r) /\ UNCHANGED <<row, surfaced>>
    /\ UNCHANGED <<now, wantsSeal, bound, fields, signed, audited, told, disclosed, mishap>>

CreateSeal(r) ==
    /\ req[r].pc = "create_seal"
    /\ bound' = TRUE /\ surfaced' = TRUE
    /\ Done(r)
    /\ UNCHANGED <<now, wantsSeal, row, fields, signed, audited, told, disclosed, mishap>>

-----------------------------------------------------------------------------
(* The ceremony page shows the payload, the passkey signs it, and           *)
(* POST /approve verifies it against the payload as it is then.             *)

Sign ==
    /\ surfaced /\ row.status = "pending"
    /\ signed' = signed \union {KeyForm}
    /\ UNCHANGED <<now, wantsSeal, row, bound, surfaced, fields, audited, req, told,
                   disclosed, mishap>>

ApproveRead(r) ==
    /\ req[r] = Idle /\ surfaced /\ Live
    /\ \E form \in signed :
           IF LapsedAt(now) THEN Settle(r, now)
           ELSE req' = [req EXCEPT ![r] = [Idle EXCEPT !.pc = "approve_verify", !.t = now,
                                                       !.form = form]]
    /\ UNCHANGED <<now, wantsSeal, row, bound, surfaced, fields, signed, audited, told,
                   disclosed, mishap>>

ApproveVerify(r) ==
    /\ req[r].pc = "approve_verify"
    /\ IF req[r].form = KeyForm THEN Goto(r, "approve_write") ELSE Done(r)
    /\ UNCHANGED <<now, wantsSeal, row, bound, surfaced, fields, signed, audited, told,
                   disclosed, mishap>>

(* The store reads the clock as it sends its update, before the row meets it. *)
ApproveWrite(r) ==
    /\ req[r].pc = "approve_write"
    /\ \E clock \in req[r].t .. now :
           IF row.status = "pending" /\ ~LapsedAt(clock)
           THEN /\ row' = [row EXCEPT !.status = "approved"]
                /\ Record(r, "approved") /\ UNCHANGED told
           ELSE /\ CASE row.status = "approved" -> Done(r) /\ told' = told \union {"approved"}
                     [] row.status = "pending" -> Settle(r, req[r].t) /\ UNCHANGED told
                     [] OTHER -> Done(r) /\ UNCHANGED told
                /\ UNCHANGED row
    /\ UNCHANGED <<now, wantsSeal, bound, surfaced, fields, signed, audited, disclosed, mishap>>

-----------------------------------------------------------------------------
(* POST /deny: the handler reads the clock before it writes.                *)

DenyRead(r) ==
    /\ req[r] = Idle /\ surfaced /\ Exists
    /\ req' = [req EXCEPT ![r] = [Idle EXCEPT !.pc = "deny_write", !.t = now]]
    /\ UNCHANGED <<now, wantsSeal, row, bound, surfaced, fields, signed, audited, told,
                   disclosed, mishap>>

DenyWrite(r) ==
    /\ req[r].pc = "deny_write"
    /\ IF row.status = "pending" /\ ~LapsedAt(req[r].t)
       THEN row' = [row EXCEPT !.status = "denied"] /\ Record(r, "denied") /\ UNCHANGED told
       ELSE /\ CASE row.status = "denied" -> Done(r) /\ told' = told \union {"denied"}
                 [] row.status = "pending" -> Settle(r, req[r].t) /\ UNCHANGED told
                 [] OTHER -> Done(r) /\ UNCHANGED told
            /\ UNCHANGED row
    /\ UNCHANGED <<now, wantsSeal, bound, surfaced, fields, signed, audited, disclosed, mishap>>

-----------------------------------------------------------------------------
(* settleExpired: the conditional update decides who audits the lapse.      *)

SettleExpired(r) ==
    /\ req[r].pc = "settle"
    /\ IF Live /\ LapsedAt(req[r].t)
       THEN /\ row' = [row EXCEPT !.status = "failed", !.code = "expired"]
            /\ Record(r, "expired")
       ELSE Done(r) /\ UNCHANGED row
    /\ UNCHANGED <<now, wantsSeal, bound, surfaced, fields, signed, audited, told, disclosed,
                   mishap>>

-----------------------------------------------------------------------------
(* GET /:id resumes in plaintext, unless the approval is sealed; POST       *)
(* /:id/claim is the requesting app's, and only for a sealed one.           *)

ResumeRead(r) ==
    /\ req[r] = Idle /\ surfaced /\ Exists
    /\ req' = [req EXCEPT ![r] = [Idle EXCEPT !.pc = "claim_write", !.t = now,
                                              !.form = KeyForm]]
    /\ UNCHANGED <<now, wantsSeal, row, bound, surfaced, fields, signed, audited, told,
                   disclosed, mishap>>

ClaimWrite_AnyDecision(r) ==
    /\ req[r].pc = "claim_write"
    /\ \E clock \in req[r].t .. now :
           LET won == row.status \in {"pending", "approved"} /\ ~LapsedAt(clock)
           IN /\ row' = IF won THEN [row EXCEPT !.status = "consumed"] ELSE row
              /\ req' = [req EXCEPT ![r].pc = "claim_read", ![r].won = won]
    /\ UNCHANGED <<now, wantsSeal, bound, surfaced, fields, signed, audited, told, disclosed,
                   mishap>>

ClaimWrite(r) ==
    /\ req[r].pc = "claim_write"
    /\ \E clock \in req[r].t .. now :
           LET won == row.status = "approved" /\ ~LapsedAt(clock)
           IN /\ row' = IF won THEN [row EXCEPT !.status = "consumed"] ELSE row
              /\ req' = [req EXCEPT ![r].pc = "claim_read", ![r].won = won]
    /\ UNCHANGED <<now, wantsSeal, bound, surfaced, fields, signed, audited, told, disclosed,
                   mishap>>

(* A row swept since the claim answers 404 although the claim is spent.     *)
ClaimRead(r) ==
    /\ req[r].pc = "claim_read"
    /\ LET expired == \/ row.status = "approved"
                      \/ row.status = "pending" /\ LapsedAt(req[r].t)
       IN CASE Exists /\ req[r].won ->
                   req' = [req EXCEPT ![r].pc = "reveal", ![r].names = row.names]
            [] ~req[r].won /\ expired -> Settle(r, req[r].t)
            [] OTHER -> Done(r)
    /\ UNCHANGED <<now, wantsSeal, row, bound, surfaced, fields, signed, audited, told,
                   disclosed, mishap>>

(* The vault discloses what was approved, not what the credential holds.    *)
Disclosable(r) == req[r].names \intersect fields

(* revealForApprovedFetch, up to the audit row it writes for its outcome.   *)
Reveal(r) ==
    /\ req[r].pc = "reveal"
    /\ \/ req' = [req EXCEPT ![r].pc = "audit", ![r].names = Disclosable(r),
                             ![r].out = CASE fields = {} -> "missing_credential"
                                          [] fields # {} /\ Disclosable(r) = {} ->
                                                 "field_set_changed"
                                          [] OTHER -> "success"]
       \/ fields # {} /\ Record(r, "rate_limited")
       \/ Record(r, "internal_error")
    /\ UNCHANGED <<now, wantsSeal, row, bound, surfaced, fields, signed, audited, told,
                   disclosed, mishap>>

-----------------------------------------------------------------------------
(* The audit write that every outcome ends in, and what follows it.         *)

Add(outcome) ==
    audited' = [audited EXCEPT ![outcome] = IF @ < 2 THEN @ + 1 ELSE 2]

AuditLands(r) ==
    /\ req[r].pc = "audit"
    /\ Add(req[r].out)
    /\ CASE req[r].out = "success" -> Goto(r, "deliver")
         [] req[r].sweeps -> Goto(r, "sweep_clear")
         [] OTHER -> Done(r)
    /\ told' = told \union ({req[r].out} \intersect {"approved", "denied"})
    /\ UNCHANGED <<now, wantsSeal, row, bound, surfaced, fields, signed, disclosed, mishap>>

(* The write fails, or its answer is lost: a sweep is over, a reveal is     *)
(* recorded as an internal error, every other request answers 500.          *)
AuditFails(r) ==
    /\ req[r].pc = "audit"
    /\ Add(req[r].out) \/ UNCHANGED audited
    /\ IF req[r].out \in {"success", "missing_credential", "field_set_changed", "rate_limited"}
       THEN Record(r, "internal_error") /\ UNCHANGED mishap
       ELSE Done(r) /\ mishap' = (mishap \/ req[r].won)
    /\ UNCHANGED <<now, wantsSeal, row, bound, surfaced, fields, signed, told, disclosed>>

(* The answer to the app of a sealed claim waits for markClaimed, which      *)
(* tells only the page that watches; if it fails, the answer is lost: Crash. *)
Deliver(r) ==
    /\ req[r].pc = "deliver"
    /\ disclosed' = Append(disclosed, [via |-> req[r].form, names |-> req[r].names])
    /\ Done(r)
    /\ UNCHANGED <<now, wantsSeal, row, bound, surfaced, fields, signed, audited, told, mishap>>

-----------------------------------------------------------------------------
(* RetentionCron.sweepCredentialFetchApprovals, as far as this row goes.    *)

SweepScan(r) ==
    /\ req[r] = Idle /\ Exists /\ row.until < now
    /\ LET begin(pc) == req' = [req EXCEPT ![r] = [Idle EXCEPT !.pc = pc, !.sweeps = TRUE]]
       IN CASE Live -> begin("sweep_settle")
            [] row.status = "failed" /\ row.code = "expired_unaudited" -> begin("audit")
            [] OTHER -> begin("sweep_delete")
    /\ UNCHANGED <<now, wantsSeal, row, bound, surfaced, fields, signed, audited, told,
                   disclosed, mishap>>

SweepSettle_IgnoresCount(r) ==
    /\ req[r].pc = "sweep_settle"
    /\ row' = IF Live THEN [row EXCEPT !.status = "failed", !.code = "expired_unaudited"]
              ELSE row
    /\ Record(r, "expired")
    /\ UNCHANGED <<now, wantsSeal, bound, surfaced, fields, signed, audited, told, disclosed,
                   mishap>>

SweepSettle(r) ==
    /\ req[r].pc = "sweep_settle"
    /\ IF Live
       THEN /\ row' = [row EXCEPT !.status = "failed", !.code = "expired_unaudited"]
            /\ Record(r, "expired")
       ELSE Done(r) /\ UNCHANGED row
    /\ UNCHANGED <<now, wantsSeal, bound, surfaced, fields, signed, audited, told, disclosed,
                   mishap>>

SweepClear(r) ==
    /\ req[r].pc = "sweep_clear"
    /\ row' = IF row.code = "expired_unaudited" THEN [row EXCEPT !.code = "expired"] ELSE row
    /\ Goto(r, "sweep_delete")
    /\ UNCHANGED <<now, wantsSeal, bound, surfaced, fields, signed, audited, told, disclosed,
                   mishap>>

SweepDelete(r) ==
    /\ req[r].pc = "sweep_delete"
    /\ row' = [row EXCEPT !.status = "swept"]
    /\ Done(r)
    /\ UNCHANGED <<now, wantsSeal, bound, surfaced, fields, signed, audited, told, disclosed,
                   mishap>>

-----------------------------------------------------------------------------
(* The owner renames, adds or removes fields, or deletes the credential.    *)
ChangeFields ==
    /\ \E names \in SUBSET Fields : fields' = names
    /\ UNCHANGED <<now, wantsSeal, row, bound, surfaced, signed, audited, req, told, disclosed,
                   mishap>>

(* The API process, or its connection, dies between two awaits.             *)
Crash(r) ==
    /\ req[r] # Idle
    /\ Done(r)
    /\ mishap' = (mishap \/ req[r].won)
    /\ UNCHANGED <<now, wantsSeal, row, bound, surfaced, fields, signed, audited, told,
                   disclosed>>

Tick ==
    /\ now < MaxTime
    /\ now' = now + 1
    /\ UNCHANGED <<wantsSeal, row, bound, surfaced, fields, signed, audited, req, told,
                   disclosed, mishap>>

Continue(r) ==
    \/ CreateInsert(r) \/ CreateSeal(r) \/ ApproveVerify(r) \/ ApproveWrite(r)
    \/ DenyWrite(r) \/ SettleExpired(r) \/ ClaimWrite(r) \/ ClaimRead(r) \/ Reveal(r)
    \/ AuditLands(r) \/ AuditFails(r) \/ Deliver(r)
    \/ SweepSettle(r) \/ SweepClear(r) \/ SweepDelete(r)

Begin(r) == CreateRead(r) \/ ApproveRead(r) \/ DenyRead(r) \/ ResumeRead(r) \/ SweepScan(r)

Next ==
    \/ \E r \in Requests : Begin(r) \/ Continue(r) \/ Crash(r)
    \/ CreateReuses \/ Sign \/ ChangeFields \/ Tick

Spec == Init /\ [][Next]_vars

(* Node runs every continuation; the sweep runs every hour; the audit store *)
(* and the process are not broken for ever.                                 *)
FairSpec ==
    /\ Spec
    /\ WF_vars(Tick)
    /\ \A r \in Requests :
          /\ WF_vars(Continue(r))
          /\ SF_vars(SweepScan(r)) /\ SF_vars(SweepSettle(r))
          /\ SF_vars(AuditLands(r) /\ req[r].sweeps)
          /\ SF_vars(SweepClear(r)) /\ SF_vars(SweepDelete(r))

-----------------------------------------------------------------------------
(* One approval releases the secret once, whatever resumes and claims race. *)
RevealedOnce == Len(disclosed) <= 1

(* What is released was signed for, by name: never more than the human saw, *)
(* whatever happened to the credential since, and never without a signature.*)
RevealedAsSigned ==
    \A i \in 1..Len(disclosed) :
        disclosed[i].names \subseteq row.names /\ disclosed[i].names # {} /\ signed # {}

(* Approved and denied are never both answered, and a denial that was       *)
(* answered or audited is final.                                            *)
DenialIsFinal ==
    ("denied" \in told \/ audited["denied"] > 0) =>
        disclosed = <<>> /\ "approved" \notin told

(* An expiry in the audit is the truth: the secret was not released, neither*)
(* before nor after it, and the lapse was not refused by the human.         *)
ExpiryIsTrue == audited["expired"] > 0 => disclosed = <<>> /\ audited["denied"] = 0

(* The audit row of a disclosure is there before the secret leaves.         *)
DisclosureIsAudited == disclosed # <<>> => audited["success"] > 0

(* A spent approval leaves a terminal audit row, unless a process or the    *)
(* audit store failed.                                                      *)
BurnedIsAccounted ==
    row.status = "consumed" =>
        \/ \E o \in Outcomes \ {"approved", "denied", "expired"} : audited[o] > 0
        \/ \E r \in Requests : req[r].won
        \/ mishap

(* A lapse the sweep settled is not deleted before its audit row landed.    *)
ParkedIsKept ==
    [][row.code = "expired_unaudited" /\ row'.status = "swept" => audited["expired"] > 0]_vars

(* What a fetch approval promises of every state, and of every step.        *)
FetchSafe ==
    /\ [](/\ TypeOK /\ RevealedOnce /\ RevealedAsSigned /\ DenialIsFinal /\ ExpiryIsTrue
          /\ DisclosureIsAudited /\ BurnedIsAccounted)
    /\ ParkedIsKept

(* An approval nobody comes back for is settled and its row removed.        *)
LapsedIsSwept == Exists /\ row.until < MaxTime ~> row.status = "swept"

(* The row and its requests hand out a one-time secret.                     *)
Decision ==
    CASE row.status \in {"none", "pending"} -> "open"
      [] row.status = "approved" -> "granted"
      [] row.status = "consumed" -> "spent"
      [] row.status \in {"denied", "failed"} -> "closed"
      [] row.status = "swept" -> "forgotten"

Right ==
    CASE disclosed # <<>> -> "used"
      [] disclosed = <<>> /\ \E r \in Requests : req[r].won -> "held"
      [] OTHER -> "none"

Secret == INSTANCE OneTimeSecret WITH decision <- Decision, right <- Right

(* The handlers and the sweep implement the one-time secret of OneTimeSecret. *)
FetchIsOneTime == Secret!Spec

-----------------------------------------------------------------------------
(* credential-fetch-audit.ts:3-5: a reveal left to lapse leaves exactly one *)
(* row. At least one, once its row is gone and nobody is about to write it: *)
LapseIsAudited ==
    /\ row.status = "swept" /\ row.code = "expired"
    /\ \A r \in Requests : req[r].pc # "audit"
    => audited["expired"] > 0

(* and at most one:                                                         *)
LapseAuditedOnce == audited["expired"] <= 1

(* credential-fetch.ts:481-482: an SDK approval never comes out in          *)
(* plaintext.                                                               *)
SealedNeverPlain ==
    wantsSeal => \A i \in 1..Len(disclosed) : disclosed[i].via = "keyed"
=============================================================================
