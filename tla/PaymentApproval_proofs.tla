------------------------ MODULE PaymentApproval_proofs ------------------------
(***************************************************************************)
(* Theorems about PaymentApproval for every set of sessions, cards,        *)
(* candidates and concurrent requests, and every TTL and bound: the types, *)
(* then the safety properties from an inductive invariant in six parts,    *)
(* then what it promises from step to step: a claim is not spent for       *)
(* nothing, a closed approval stays closed, and the handlers implement     *)
(* ApprovalDecision.                                                       *)
(***************************************************************************)
EXTENDS PaymentApproval, TLAPS

LEMMA IdleType == Idle \in RequestStates
BY ConstantsAssumption DEF Idle, RequestStates, PCs, Statuses, Outcomes

(* Every handler step replaces one entry of req by a well-typed one. *)
LEMMA RequestType ==
    ASSUME TypeOK, NEW r \in Requests, NEW state \in RequestStates, Becomes(r, state)
    PROVE  req' \in [Requests -> RequestStates]
BY DEF TypeOK, Becomes

LEMMA FinishType ==
    ASSUME TypeOK, NEW r \in Requests, Finish(r)
    PROVE  req' \in [Requests -> RequestStates]
BY IdleType, RequestType DEF Finish

LEMMA GotoType ==
    ASSUME TypeOK, NEW r \in Requests, NEW pc \in PCs, Goto(r, pc)
    PROVE  req' \in [Requests -> RequestStates]
<1>1. req[r] \in RequestStates
  BY DEF TypeOK
<1>2. [req[r] EXCEPT !.pc = pc] \in RequestStates
  BY <1>1 DEF RequestStates
<1>3. QED
  BY <1>2, RequestType DEF Goto

(* The reads that open a request. *)
LEMMA BeginType ==
    ASSUME TypeOK, NEW r \in Requests, BeginRequest(r)
    PROVE  TypeOK'
<1> USE ConstantsAssumption, IdleType
<1>1. ASSUME NEW s \in Sessions, NEW k \in Cards \union {NoCard}, NEW seal \in BOOLEAN,
             CreateApproval(r, s, k, seal)
      PROVE  TypeOK'
 <2>1. [Idle EXCEPT !.pc = "create_seal", !.who = s] \in RequestStates
   BY DEF Idle, RequestStates, PCs, Statuses
 <2>2. req' \in [Requests -> RequestStates]
   BY <1>1, <2>1, RequestType DEF CreateApproval, Start, TypeOK
 <2>3. row' \in Rows
  <3>1. row \in Rows /\ row' = [row EXCEPT !.status = "pending", !.card = k]
    BY <1>1 DEF CreateApproval, TypeOK
  <3>2. QED
    BY <3>1 DEF Rows, Statuses
 <2>4. expiresAt' \in Nat
   BY <1>1 DEF CreateApproval, TypeOK
 <2>5. QED
   BY <1>1, <2>2, <2>3, <2>4 DEF CreateApproval, TypeOK, history
<1>2. ASSUME NEW state \in RequestStates, Start(r, state), UNCHANGED <<now, db, history>>
      PROVE  TypeOK'
  BY <1>2, RequestType DEF Start, TypeOK, db, history
<1>3. row.status \in Statuses /\ now \in Nat
  BY DEF TypeOK, Rows
<1>4. ASSUME NEW s \in Sessions \union {NoSession}, NEW pc \in {"get_relay", "peek_relay"},
             GetRead(r, s, pc)
      PROVE  TypeOK'
  BY <1>2, <1>3, <1>4 DEF GetRead, Idle, RequestStates, PCs
<1>5. ASSUME NEW s \in Sessions, ClaimRead(r, s) PROVE TypeOK'
  BY <1>2, <1>3, <1>5 DEF ClaimRead, Idle, RequestStates, PCs
<1>6. ASSUME NEW c \in Candidates, ApproveRead(r, c) PROVE TypeOK'
  BY <1>2, <1>6 DEF ApproveRead, Idle, RequestStates, PCs
<1>7. ASSUME NEW s \in Sessions, NEW c \in Candidates, ConfirmRead(r, s, c) PROVE TypeOK'
  BY <1>2, <1>7 DEF ConfirmRead, Idle, RequestStates, PCs
<1>8. ASSUME DenyRead(r) PROVE TypeOK'
  BY <1>2, <1>8 DEF DenyRead, Idle, RequestStates, PCs
<1>9. ASSUME NEW k \in Cards, BindRead(r, k) PROVE TypeOK'
  BY <1>2, <1>3, <1>9 DEF BindRead, Idle, RequestStates, PCs
<1>10. ASSUME NEW s \in Sessions, NEW o \in Outcomes, OutcomeRead(r, s, o) PROVE TypeOK'
 <2>1. [Idle EXCEPT !.pc = "outcome_check", !.who = s, !.out = o] \in RequestStates
   BY DEF Idle, RequestStates, PCs, Statuses
 <2>2. QED
   BY <1>2, <1>10, <2>1 DEF OutcomeRead
<1>11. ASSUME SweepScan(r) PROVE TypeOK'
  BY <1>2, <1>3, <1>11 DEF SweepScan, Idle, RequestStates, PCs
<1>12. QED
  BY <1>1, <1>4, <1>5, <1>6, <1>7, <1>8, <1>9, <1>10, <1>11 DEF BeginRequest

(* The steps of a request in flight. *)
LEMMA ContinueType ==
    ASSUME TypeOK, NEW r \in Requests, ContinueRequest(r)
    PROVE  TypeOK'
<1> USE ConstantsAssumption, FinishType, GotoType
<1>1. row \in Rows /\ req[r] \in RequestStates /\ now \in Nat /\ expiresAt \in Nat
  BY DEF TypeOK
<1>2. CASE SealToApp(r)
 <2>1. sealed' \in [to : Sessions \union {NoSession}, claimed : BOOLEAN]
   BY <1>1, <1>2 DEF SealToApp, TypeOK, RequestStates
 <2>2. QED
   BY <1>2, <2>1 DEF SealToApp, TypeOK, history
<1>3. CASE GetRelay(r)
 <2>1. [req[r] EXCEPT !.cand = row.cand, !.t = row.relayUntil,
           !.pc = IF At(r, "get_relay") THEN "get_mark" ELSE "get_answer"] \in RequestStates
   BY <1>1 DEF RequestStates, Rows, PCs
 <2>2. req' \in [Requests -> RequestStates]
   BY <1>3, <2>1, RequestType DEF GetRelay, PCs
 <2>3. QED
   BY <1>3, <2>2 DEF GetRelay, TypeOK, db, history
<1>4. ASSUME NEW c, NEW until, MarkDelivered(c, until) PROVE row' \in Rows
  BY <1>1, <1>4 DEF MarkDelivered, Rows, Phases
<1>5. CASE GetMark(r)
  BY <1>4, <1>5 DEF GetMark, TypeOK, history, PCs
<1>6. CASE GetRecheck(r)
 <2>1. [req[r] EXCEPT !.pc = "get_final", !.seen = row.status,
           !.cand = IF PendingAt(now) THEN req[r].cand ELSE NoCand] \in RequestStates
   BY <1>1 DEF RequestStates, Rows, PCs
 <2>2. req' \in [Requests -> RequestStates]
   BY <1>6, <2>1, RequestType DEF GetRecheck
 <2>3. QED
   BY <1>6, <2>2 DEF GetRecheck, TypeOK, db, history
<1>7. ASSUME NEW s, NEW c \in Candidates \union {NoCand}, Receives(s, c)
      PROVE  held' \in [Sessions -> SUBSET Candidates]
  BY <1>7 DEF Receives, TypeOK
<1>8. CASE GetAnswer(r)
 <2>1. req[r].cand \in Candidates \union {NoCand}
   BY <1>1 DEF RequestStates
 <2>2. QED
   BY <1>7, <1>8, <2>1 DEF GetAnswer, AuditExpiry, TypeOK
<1>9. CASE ClaimPeek(r)
 <2>1. [req[r] EXCEPT !.pc = "claim_check",
           !.seen = IF Exists THEN row.status ELSE req[r].seen,
           !.cand = IF RelayableAt(now) THEN row.cand ELSE NoCand] \in RequestStates
   BY <1>1 DEF RequestStates, Rows, PCs
 <2>2. QED
   BY <1>9, <2>1, RequestType DEF ClaimPeek, TypeOK, db, history
<1>10. CASE ClaimCheck(r)
 <2>1. [req[r] EXCEPT !.pc = "claim_mark", !.t = now] \in RequestStates
   BY <1>1 DEF RequestStates, PCs
 <2>2. req' \in [Requests -> RequestStates]
   BY <1>10, <2>1, RequestType DEF ClaimCheck
 <2>3. QED
   BY <1>10, <2>2 DEF ClaimCheck, AuditExpiry, TypeOK, history
<1>11. CASE ClaimMark(r)
 <2>1. req' \in [Requests -> RequestStates]
   BY <1>11 DEF ClaimMark, PCs
 <2>2. sealed' \in [to : Sessions \union {NoSession}, claimed : BOOLEAN]
   BY <1>11 DEF ClaimMark, TypeOK
 <2>3. QED
   BY <1>11, <2>1, <2>2 DEF ClaimMark, TypeOK, history
<1>12. CASE ClaimRelay(r)
 <2>1. [req[r] EXCEPT !.pc = "claim_deliver", !.cand = row.cand, !.t = row.relayUntil]
         \in RequestStates
   BY <1>1 DEF RequestStates, Rows, PCs
 <2>2. req' \in [Requests -> RequestStates]
   BY <1>12, <2>1, RequestType DEF ClaimRelay
 <2>3. QED
   BY <1>12, <2>2 DEF ClaimRelay, TypeOK, db, history
<1>13. CASE ClaimDeliver(r)
  BY <1>4, <1>13 DEF ClaimDeliver, TypeOK, history, PCs
<1>14. CASE ClaimAnswer(r)
 <2>1. req[r].cand \in Candidates \union {NoCand}
   BY <1>1 DEF RequestStates
 <2>2. QED
   BY <1>7, <1>14, <2>1 DEF ClaimAnswer, TypeOK, db
<1>15. CASE ApproveSubmit(r)
 <2>1. req[r].cand \in Candidates \union {NoCand}
   BY <1>1 DEF RequestStates
 <2>2. row' \in Rows
   BY <1>1, <1>15, <2>1 DEF ApproveSubmit, RelayExpiry, Rows, Phases
 <2>3. QED
   BY <1>15, <2>2 DEF ApproveSubmit, TypeOK, history
<1>16. CASE ConfirmWrite(r)
 <2>1. row' \in Rows
   BY <1>1, <1>16 DEF ConfirmWrite, Rows, Phases, Statuses
 <2>2. told' \in SUBSET {"approved", "denied"}
   BY <1>16 DEF ConfirmWrite, TypeOK
 <2>3. QED
   BY <1>16, <2>1, <2>2 DEF ConfirmWrite, TypeOK
<1>17. CASE DenyWrite(r)
 <2>1. row' \in Rows
   BY <1>1, <1>17 DEF DenyWrite, Rows, Statuses
 <2>2. told' \in SUBSET {"approved", "denied"}
   BY <1>17 DEF DenyWrite, TypeOK
 <2>3. QED
   BY <1>17, <2>1, <2>2 DEF DenyWrite, TypeOK
<1>18. ASSUME NEW stored \in BOOLEAN, BindWrite(r, stored) PROVE TypeOK'
 <2>1. row' \in Rows
   BY <1>1, <1>18 DEF BindWrite, Rows, RequestStates
 <2>2. QED
   BY <1>18, <2>1 DEF BindWrite, TypeOK, history
<1>19. CASE OutcomeCheck(r)
  BY <1>19 DEF OutcomeCheck, TypeOK, db, history, PCs
<1>20. CASE OutcomeRecord(r)
 <2>1. ledger' \in Seq([by : {"outcome", "broker"}, status : Outcomes])
  <3>1. [by |-> "outcome", status |-> req[r].out]
           \in [by : {"outcome", "broker"}, status : Outcomes]
    BY <1>1 DEF RequestStates
  <3>2. ledger \in Seq([by : {"outcome", "broker"}, status : Outcomes])
    BY DEF TypeOK
  <3>3. QED
    BY <1>20, <3>1, <3>2 DEF OutcomeRecord
 <2>2. QED
   BY <1>20, <2>1 DEF OutcomeRecord, TypeOK
<1>21. ASSUME NEW ok \in BOOLEAN, SweepAudit(r, ok) PROVE TypeOK'
  BY <1>21 DEF SweepAudit, TypeOK, history, PCs
<1>22. CASE SweepDelete(r)
 <2>1. row' \in Rows
   BY <1>1, <1>22 DEF SweepDelete, Rows, Statuses
 <2>2. QED
   BY <1>22, <2>1 DEF SweepDelete, TypeOK, history
<1>23. QED
  BY <1>2, <1>3, <1>5, <1>6, <1>8, <1>9, <1>10, <1>11, <1>12, <1>13, <1>14, <1>15,
     <1>16, <1>17, <1>18, <1>19, <1>20, <1>21, <1>22 DEF ContinueRequest

LEMMA InitType == Init => TypeOK
<1> SUFFICES ASSUME Init PROVE TypeOK
  OBVIOUS
<1>1. row \in Rows
  BY DEF Init, Rows, Statuses, Phases
<1>2. now \in 0..MaxTime
  BY ConstantsAssumption DEF Init
<1>3. ledger \in Seq([by : {"outcome", "broker"}, status : Outcomes])
  BY DEF Init
<1>4. QED
  BY <1>1, <1>2, <1>3, IdleType DEF Init, TypeOK

LEMMA NextType == TypeOK /\ [Next]_vars => TypeOK'
<1> SUFFICES ASSUME TypeOK, [Next]_vars PROVE TypeOK'
  OBVIOUS
<1>1. ASSUME NEW r \in Requests, BeginRequest(r) PROVE TypeOK'
  BY <1>1, BeginType
<1>2. ASSUME NEW r \in Requests, ContinueRequest(r) PROVE TypeOK'
  BY <1>2, ContinueType
<1>3. ASSUME NEW r \in Requests, Crash(r) PROVE TypeOK'
  BY <1>3, FinishType DEF Crash, TypeOK, db
<1>4. ASSUME NEW s \in Sessions, BrokerAudit(s) PROVE TypeOK'
 <2>1. [by |-> "broker", status |-> "completed"]
          \in [by : {"outcome", "broker"}, status : Outcomes]
   BY DEF Outcomes
 <2>2. ledger' \in Seq([by : {"outcome", "broker"}, status : Outcomes])
   BY <1>4, <2>1 DEF BrokerAudit, TypeOK
 <2>3. QED
   BY <1>4, <2>2 DEF BrokerAudit, TypeOK, history
<1>5. ASSUME Tick PROVE TypeOK'
  BY <1>5, ConstantsAssumption DEF Tick, TypeOK, db, history
<1>6. CASE UNCHANGED vars
  BY <1>6 DEF TypeOK, vars
<1>7. QED
  BY <1>1, <1>2, <1>3, <1>4, <1>5, <1>6 DEF Next

(* The variables keep their types in every reachable state. *)
THEOREM TypeCorrect == Spec => []TypeOK
BY InitType, NextType, PTL DEF Spec

-----------------------------------------------------------------------------
(* Safety. *)

(* Before the row exists nothing is in flight, and nobody knows the id. *)
Untouched ==
    row.status = "none" =>
        /\ row.phase = "none" /\ ~surfaced /\ sealed.to = NoSession
        /\ told = {} /\ \A r \in Requests : At(r, "idle")

(* What is staged was verified, over the card of the row, and keeps the     *)
(* expiry of the row; so does a candidate about to be staged.               *)
OfferSound ==
    /\ row.phase # "none" =>
          /\ row.cand \in Signed /\ row.relayUntil = expiresAt
          /\ row.card # NoCard /\ CardOf[row.cand] = row.card
    /\ \A r \in Requests : At(r, "approve_submit") =>
          row.card # NoCard /\ CardOf[req[r].cand] = row.card

(* The status, the staged bytes and the answers given tell the same story. *)
DecisionSound ==
    /\ row.phase = "none" => ~row.staged
    /\ row.status = "approved" => row.phase = "confirmed"
    /\ row.status # "pending" => ~row.staged
    /\ row.status \in {"none", "pending"} => told = {}
    /\ row.status \in {"approved", "denied"} => told = {row.status}
    /\ told # {"approved", "denied"}

Unsurfaced == {"idle", "create_seal", "sweep_audit", "sweep_delete"}
Claiming == {"claim_peek", "claim_check", "claim_mark", "claim_relay",
             "claim_deliver", "claim_answer"}

(* The claim row is written before anybody can read the approval, so no     *)
(* other session has, or is about to receive, the card of a sealed one.     *)
SealSound ==
    /\ ~surfaced =>
          /\ sealed.to = NoSession /\ \A s \in Sessions : held[s] = {}
          /\ \A r \in Requests : req[r].pc \in Unsurfaced
    /\ \A r \in Requests : At(r, "create_seal") =>
          /\ ~surfaced /\ req[r].who \in Sessions
          /\ \A q \in Requests : At(q, "create_seal") => q = r
    /\ \A r \in Requests : req[r].pc \in Claiming =>
          req[r].who = sealed.to /\ sealed.to # NoSession
    /\ sealed.to # NoSession =>
          /\ \A s \in Sessions \ {sealed.to} : held[s] = {}
          /\ \A r \in Requests :
                /\ req[r].pc \notin {"get_relay", "peek_relay", "get_mark"}
                /\ req[r].pc \in {"get_answer", "get_final"} => req[r].cand = NoCand

(* Until a claim is marked the app holds nothing, and one claim is marked. *)
ClaimSound ==
    /\ sealed.claimed => sealed.to # NoSession
    /\ sealed.to # NoSession /\ ~sealed.claimed => held[sealed.to] = {}
    /\ ClaimServedOnce

(* A row is about to be deleted only with its end in the audit or decided. *)
SweepSound ==
    /\ \A r \in Requests : At(r, "sweep_delete") => expiryAudited \/ told # {}
    /\ SweptWasAudited

IInv == TypeOK /\ Untouched /\ OfferSound /\ DecisionSound /\ SealSound
        /\ ClaimSound /\ SweepSound

-----------------------------------------------------------------------------
(* Shapes of steps. *)

LEMMA ReqAfter ==
    ASSUME TypeOK, NEW r \in Requests, NEW state, Becomes(r, state)
    PROVE  req'[r] = state /\ \A q \in Requests : q # r => req'[q] = req[q]
BY DEF TypeOK, Becomes

LEMMA GotoAfter ==
    ASSUME TypeOK, NEW r \in Requests, NEW pc, Goto(r, pc)
    PROVE  /\ req'[r].pc = pc /\ req'[r].who = req[r].who /\ req'[r].cand = req[r].cand
           /\ \A q \in Requests : q # r => req'[q] = req[q]
<1>1. req[r] \in RequestStates
  BY DEF TypeOK
<1>2. QED
  BY <1>1, ReqAfter DEF Goto, RequestStates

LEMMA FinishAfter ==
    ASSUME TypeOK, NEW r \in Requests, Finish(r)
    PROVE  /\ req'[r].pc = "idle" /\ req'[r].cand = NoCand
           /\ \A q \in Requests : q # r => req'[q] = req[q]
BY ReqAfter DEF Finish, Idle

(* The state in which a read leaves its request. *)
Opened(state) ==
    /\ Exists
    /\ state.pc \in {"get_relay", "peek_relay", "get_answer", "claim_peek", "approve_submit",
                     "confirm_write", "deny_write", "bind_write", "outcome_check",
                     "sweep_audit", "sweep_delete"}
    /\ state.pc \notin {"sweep_audit", "sweep_delete"} => surfaced
    /\ state.pc \in {"get_relay", "peek_relay"} =>
          sealed.to = NoSession /\ state.who \in Sessions
    /\ state.pc \notin {"approve_submit", "confirm_write"} => state.cand = NoCand
    /\ state.pc = "confirm_write" => state.who \in Sessions /\ held[state.who] # {}
    /\ state.pc = "bind_write" => state.card \in Cards
    /\ state.pc = "claim_peek" => state.who = sealed.to /\ sealed.to \in Sessions
    /\ state.pc = "approve_submit" => row.card # NoCard /\ CardOf[state.cand] = row.card
    /\ state.pc = "sweep_delete" => row.status \in {"approved", "denied"}

Reads(r) == \E state \in RequestStates :
    Opened(state) /\ Start(r, state) /\ UNCHANGED <<now, db, history>>

Creates(r) == \E s \in Sessions, k \in Cards \union {NoCard}, seal \in BOOLEAN :
    CreateApproval(r, s, k, seal)

LEMMA BeginShape ==
    ASSUME TypeOK, NEW r \in Requests, BeginRequest(r)
    PROVE  Creates(r) \/ Reads(r)
<1> USE ConstantsAssumption, IdleType
<1>1. row.status \in Statuses /\ now \in Nat
  BY DEF TypeOK, Rows
<1>2. ASSUME NEW s \in Sessions \union {NoSession}, NEW pc \in {"get_relay", "peek_relay"},
             GetRead(r, s, pc)
      PROVE  Reads(r)
 <2> DEFINE state == [Idle EXCEPT !.who = s, !.seen = row.status,
                         !.pc = IF RelaysTo(s) /\ PendingAt(now) THEN pc ELSE "get_answer"]
 <2>1. state \in RequestStates
   BY <1>1 DEF Idle, RequestStates, PCs
 <2>2. Opened(state)
   BY <1>2 DEF GetRead, Readable, Opened, Idle, RelaysTo
 <2>3. QED
   BY <1>2, <2>1, <2>2 DEF GetRead, Reads
<1>3. ASSUME NEW s \in Sessions, ClaimRead(r, s) PROVE Reads(r)
 <2> DEFINE state == [Idle EXCEPT !.pc = "claim_peek", !.who = s, !.seen = row.status]
 <2>1. state \in RequestStates
   BY <1>1 DEF Idle, RequestStates, PCs
 <2>2. Opened(state)
   BY <1>3 DEF ClaimRead, Readable, Opened, Idle
 <2>3. QED
   BY <1>3, <2>1, <2>2 DEF ClaimRead, Reads
<1>4. ASSUME NEW c \in Candidates, ApproveRead(r, c) PROVE Reads(r)
 <2> DEFINE state == [Idle EXCEPT !.pc = "approve_submit", !.cand = c]
 <2>1. state \in RequestStates
   BY DEF Idle, RequestStates, PCs
 <2>2. Opened(state)
   BY <1>4 DEF ApproveRead, Readable, Opened, Idle, BoundToRow
 <2>3. QED
   BY <1>4, <2>1, <2>2 DEF ApproveRead, Reads
<1>5. ASSUME NEW s \in Sessions, NEW c \in Candidates, ConfirmRead(r, s, c) PROVE Reads(r)
 <2> DEFINE state == [Idle EXCEPT !.pc = "confirm_write", !.who = s, !.cand = c]
 <2>1. state \in RequestStates
   BY DEF Idle, RequestStates, PCs
 <2>2. Opened(state)
   BY <1>5 DEF ConfirmRead, Readable, Opened, Idle
 <2>3. QED
   BY <1>5, <2>1, <2>2 DEF ConfirmRead, Reads
<1>6. ASSUME DenyRead(r) PROVE Reads(r)
 <2> DEFINE state == [Idle EXCEPT !.pc = "deny_write"]
 <2>1. state \in RequestStates
   BY DEF Idle, RequestStates, PCs
 <2>2. Opened(state)
   BY <1>6 DEF DenyRead, Readable, Opened, Idle
 <2>3. QED
   BY <1>6, <2>1, <2>2 DEF DenyRead, Reads
<1>7. ASSUME NEW k \in Cards, BindRead(r, k) PROVE Reads(r)
 <2> DEFINE state == [Idle EXCEPT !.pc = "bind_write", !.card = k, !.t = now]
 <2>1. state \in RequestStates
   BY <1>1 DEF Idle, RequestStates, PCs
 <2>2. Opened(state)
   BY <1>7 DEF BindRead, Readable, Opened, Idle
 <2>3. QED
   BY <1>7, <2>1, <2>2 DEF BindRead, Reads
<1>8. ASSUME NEW s \in Sessions, NEW o \in Outcomes, OutcomeRead(r, s, o) PROVE Reads(r)
 <2> DEFINE state == [Idle EXCEPT !.pc = "outcome_check", !.who = s, !.out = o]
 <2>1. state \in RequestStates
   BY DEF Idle, RequestStates, PCs
 <2>2. Opened(state)
   BY <1>8 DEF OutcomeRead, Readable, Opened, Idle
 <2>3. QED
   BY <1>8, <2>1, <2>2 DEF OutcomeRead, Reads
<1>9. ASSUME SweepScan(r) PROVE Reads(r)
 <2> DEFINE state == [Idle EXCEPT !.t = now, !.seen = row.status,
               !.pc = IF row.status = "pending" THEN "sweep_audit" ELSE "sweep_delete"]
 <2>1. state \in RequestStates
   BY <1>1 DEF Idle, RequestStates, PCs
 <2>2. Opened(state)
   BY <1>9 DEF SweepScan, Exists, Opened, Idle
 <2>3. QED
   BY <1>9, <2>1, <2>2 DEF SweepScan, Reads
<1>10. QED
  BY <1>2, <1>3, <1>4, <1>5, <1>6, <1>7, <1>8, <1>9 DEF BeginRequest, Creates

-----------------------------------------------------------------------------
(* What a step may do to the row: one step of a handler in flight writes it *)
(* in one of five ways, every other step leaves it alone.                   *)

Writes(r) ==
    \/ GetMark(r) \/ ClaimDeliver(r) \/ ApproveSubmit(r) \/ ConfirmWrite(r) \/ DenyWrite(r)
    \/ \E stored \in BOOLEAN : BindWrite(r, stored)
    \/ SweepDelete(r)

Leaves(r) ==
    \/ SealToApp(r) \/ GetRelay(r) \/ GetRecheck(r) \/ GetAnswer(r)
    \/ ClaimPeek(r) \/ ClaimCheck(r) \/ ClaimMark(r) \/ ClaimRelay(r) \/ ClaimAnswer(r)
    \/ OutcomeCheck(r) \/ OutcomeRecord(r)
    \/ \E ok \in BOOLEAN : SweepAudit(r, ok)

LEMMA LeavesRow ==
    ASSUME TypeOK, NEW r \in Requests, Leaves(r)
    PROVE  /\ UNCHANGED <<row, expiresAt, told>>
           /\ ~At(r, "idle") /\ req'[r].pc # "approve_submit"
           /\ expiryAudited \/ req'[r].pc = "sweep_delete" => expiryAudited'
           /\ \A q \in Requests : q # r => req'[q] = req[q]
<1>1. req[r] \in RequestStates /\ req \in [Requests -> RequestStates]
  BY DEF TypeOK
<1>2. CASE SealToApp(r)
  BY <1>2, FinishAfter DEF SealToApp, At, history
<1>3. CASE GetRelay(r)
  BY <1>1, <1>3 DEF GetRelay, Becomes, Goto, At, db, history, RequestStates
<1>4. CASE GetRecheck(r)
 <2>1. CASE Finish(r)
   BY <1>4, <2>1, FinishAfter DEF GetRecheck, At, db, history
 <2>2. CASE ~Finish(r)
   BY <1>1, <1>4, <2>2 DEF GetRecheck, Becomes, At, db, history, RequestStates
 <2>3. QED
   BY <2>1, <2>2
<1>5. CASE GetAnswer(r)
  BY <1>5, FinishAfter DEF GetAnswer, AuditExpiry, At
<1>6. CASE ClaimPeek(r)
  BY <1>1, <1>6 DEF ClaimPeek, Becomes, At, db, history, RequestStates
<1>7. CASE ClaimCheck(r)
 <2>1. CASE Finish(r)
   BY <1>7, <2>1, FinishAfter DEF ClaimCheck, AuditExpiry, At, history
 <2>2. CASE ~Finish(r)
   BY <1>1, <1>7, <2>2 DEF ClaimCheck, AuditExpiry, Becomes, At, history, RequestStates
 <2>3. QED
   BY <2>1, <2>2
<1>8. CASE ClaimMark(r)
  BY <1>8, FinishAfter, GotoAfter DEF ClaimMark, At, history
<1>9. CASE ClaimRelay(r)
 <2>1. CASE Finish(r)
   BY <1>9, <2>1, FinishAfter DEF ClaimRelay, At, db, history
 <2>2. CASE ~Finish(r)
   BY <1>1, <1>9, <2>2 DEF ClaimRelay, Becomes, At, db, history, RequestStates
 <2>3. QED
   BY <2>1, <2>2
<1>10. CASE ClaimAnswer(r)
  BY <1>10, FinishAfter DEF ClaimAnswer, At, db
<1>11. CASE OutcomeCheck(r)
  BY <1>11, FinishAfter, GotoAfter DEF OutcomeCheck, At, db, history
<1>12. CASE OutcomeRecord(r)
  BY <1>12, FinishAfter DEF OutcomeRecord, At
<1>13. ASSUME NEW ok \in BOOLEAN, SweepAudit(r, ok)
       PROVE  /\ UNCHANGED <<row, expiresAt, told>>
              /\ ~At(r, "idle") /\ req'[r].pc # "approve_submit"
              /\ expiryAudited \/ req'[r].pc = "sweep_delete" => expiryAudited'
              /\ \A q \in Requests : q # r => req'[q] = req[q]
 <2>1. UNCHANGED <<row, expiresAt, told>> /\ ~At(r, "idle")
   BY <1>13 DEF SweepAudit, At, history
 <2>2. CASE ok
  <3>1. expiryAudited'
    BY <1>13, <2>2 DEF SweepAudit
  <3>2. QED
    BY <1>13, <2>1, <2>2, <3>1, GotoAfter DEF SweepAudit
 <2>3. CASE ~ok
   BY <1>13, <2>1, <2>3, FinishAfter DEF SweepAudit
 <2>4. QED
   BY <2>2, <2>3
<1>14. QED
  BY <1>2, <1>3, <1>4, <1>5, <1>6, <1>7, <1>8, <1>9, <1>10, <1>11, <1>12, <1>13 DEF Leaves

LEMMA ContinueShape ==
    ASSUME NEW r \in Requests, ContinueRequest(r)
    PROVE  Writes(r) \/ Leaves(r)
BY DEF ContinueRequest, Writes, Leaves

(* Where the steps with a choice leave their request. *)

LEMMA GetRelayAfter ==
    ASSUME TypeOK, NEW r \in Requests, GetRelay(r)
    PROVE  req'[r].pc \in {"get_mark", "get_answer"}
<1>1. req[r] \in RequestStates
  BY DEF TypeOK
<1>2. CASE RelayableAt(now)
 <2> DEFINE read == [req[r] EXCEPT !.cand = row.cand, !.t = row.relayUntil,
                        !.pc = IF At(r, "get_relay") THEN "get_mark" ELSE "get_answer"]
 <2>1. Becomes(r, read)
   BY <1>2 DEF GetRelay
 <2>2. read.pc \in {"get_mark", "get_answer"}
   BY <1>1 DEF RequestStates
 <2> HIDE DEF read
 <2>3. QED
   BY <2>1, <2>2, ReqAfter
<1>3. CASE ~RelayableAt(now)
  BY <1>3, GotoAfter DEF GetRelay
<1>4. QED
  BY <1>2, <1>3

LEMMA GetRecheckAfter ==
    ASSUME TypeOK, NEW r \in Requests, GetRecheck(r)
    PROVE  Finish(r) \/ req'[r].pc = "get_final"
<1> DEFINE again == [req[r] EXCEPT !.pc = "get_final", !.seen = row.status,
                        !.cand = IF PendingAt(now) THEN req[r].cand ELSE NoCand]
<1>1. req[r] \in RequestStates
  BY DEF TypeOK
<1>2. Finish(r) \/ Becomes(r, again)
  BY DEF GetRecheck
<1>3. again.pc = "get_final"
  BY <1>1 DEF RequestStates
<1> HIDE DEF again
<1>4. QED
  BY <1>2, <1>3, ReqAfter

LEMMA ClaimPeekAfter ==
    ASSUME TypeOK, NEW r \in Requests, ClaimPeek(r)
    PROVE  req'[r].pc = "claim_check" /\ req'[r].who = req[r].who
<1> DEFINE peeked == [req[r] EXCEPT !.pc = "claim_check",
                         !.seen = IF Exists THEN row.status ELSE req[r].seen,
                         !.cand = IF RelayableAt(now) THEN row.cand ELSE NoCand]
<1>1. req[r] \in RequestStates
  BY DEF TypeOK
<1>2. Becomes(r, peeked)
  BY DEF ClaimPeek
<1>3. peeked.pc = "claim_check" /\ peeked.who = req[r].who
  BY <1>1 DEF RequestStates
<1> HIDE DEF peeked
<1>4. QED
  BY <1>2, <1>3, ReqAfter

LEMMA ClaimCheckAfter ==
    ASSUME TypeOK, NEW r \in Requests, ClaimCheck(r)
    PROVE  Finish(r) \/ (req'[r].pc = "claim_mark" /\ req'[r].who = req[r].who)
<1> DEFINE checked == [req[r] EXCEPT !.pc = "claim_mark", !.t = now]
<1>1. req[r] \in RequestStates
  BY DEF TypeOK
<1>2. Finish(r) \/ Becomes(r, checked)
  BY DEF ClaimCheck
<1>3. checked.pc = "claim_mark" /\ checked.who = req[r].who
  BY <1>1 DEF RequestStates
<1> HIDE DEF checked
<1>4. QED
  BY <1>2, <1>3, ReqAfter

LEMMA ClaimRelayAfter ==
    ASSUME TypeOK, NEW r \in Requests, ClaimRelay(r)
    PROVE  Finish(r) \/ (req'[r].pc = "claim_deliver" /\ req'[r].who = req[r].who)
<1> DEFINE relayed == [req[r] EXCEPT !.pc = "claim_deliver", !.cand = row.cand,
                                     !.t = row.relayUntil]
<1>1. req[r] \in RequestStates
  BY DEF TypeOK
<1>2. Finish(r) \/ Becomes(r, relayed)
  BY DEF ClaimRelay
<1>3. relayed.pc = "claim_deliver" /\ relayed.who = req[r].who
  BY <1>1 DEF RequestStates
<1> HIDE DEF relayed
<1>4. QED
  BY <1>2, <1>3, ReqAfter

(* The writes happen to a row that exists, from a request that then ends,   *)
(* or has only its answer left to give.                                     *)
LEMMA WritesRow ==
    ASSUME TypeOK, Untouched, NEW r \in Requests, Writes(r)
    PROVE  /\ ~At(r, "idle") /\ row.status # "none"
           /\ row'.status \in {row.status, "approved", "denied"} \/ SweepDelete(r)
           /\ row'.status # "none"
           /\ row' \in Rows /\ row \in Rows
           /\ UNCHANGED <<expiresAt, sealed, surfaced, expiryAudited, held>>
           /\ req'[r].pc \in {"idle", "get_answer", "claim_answer"}
           /\ req'[r].cand \in {req[r].cand, NoCand}
           /\ \A q \in Requests : q # r => req'[q] = req[q]
<1>1. row \in Rows /\ req[r] \in RequestStates
  BY DEF TypeOK
<1>2. row' \in Rows
  BY ContinueType DEF Writes, ContinueRequest, TypeOK
<1>3. ~At(r, "idle")
  BY DEF Writes, GetMark, ClaimDeliver, ApproveSubmit, ConfirmWrite, DenyWrite, BindWrite,
         SweepDelete, At
<1>4. UNCHANGED <<expiresAt, sealed, surfaced, expiryAudited, held>>
  BY DEF Writes, GetMark, ClaimDeliver, ApproveSubmit, ConfirmWrite, DenyWrite, BindWrite,
         SweepDelete, history
<1>5. Goto(r, "get_answer") \/ Goto(r, "claim_answer") \/ Finish(r)
  BY DEF Writes, GetMark, ClaimDeliver, ApproveSubmit, ConfirmWrite, DenyWrite, BindWrite,
         SweepDelete
<1>6. row.status # "none"
  BY <1>3 DEF Untouched
<1>7. row'.status \in {row.status, "approved", "denied"} \/ SweepDelete(r)
 <2>1. ASSUME NEW c, NEW until, MarkDelivered(c, until) PROVE row'.status \in {row.status, "approved", "denied"}
   BY <1>1, <2>1 DEF MarkDelivered, Rows
 <2>2. CASE GetMark(r) \/ ClaimDeliver(r)
   BY <2>1, <2>2 DEF GetMark, ClaimDeliver
 <2>3. CASE ApproveSubmit(r)
   BY <1>1, <2>3 DEF ApproveSubmit, Rows
 <2>4. CASE ConfirmWrite(r)
   BY <1>1, <2>4 DEF ConfirmWrite, Rows
 <2>5. CASE DenyWrite(r)
   BY <1>1, <2>5 DEF DenyWrite, Rows
 <2>6. ASSUME NEW stored \in BOOLEAN, BindWrite(r, stored) PROVE row'.status \in {row.status, "approved", "denied"}
   BY <1>1, <2>6 DEF BindWrite, Rows
 <2>7. QED
   BY <2>2, <2>3, <2>4, <2>5, <2>6 DEF Writes
<1>8. row'.status # "none"
  BY <1>1, <1>6, <1>7 DEF SweepDelete, Rows
<1>9. QED
  BY <1>1, <1>2, <1>3, <1>4, <1>5, <1>6, <1>7, <1>8, GotoAfter, FinishAfter

(* The steps that touch neither the row nor the requests. *)
Idles == (\E s \in Sessions : BrokerAudit(s)) \/ Tick \/ UNCHANGED vars

LEMMA IdlesKeep ==
    ASSUME Idles
    PROVE  UNCHANGED <<row, expiresAt, sealed, surfaced, expiryAudited, req, held, told>>
BY DEF Idles, BrokerAudit, Tick, vars, db, history

LEMMA CrashKeeps ==
    ASSUME TypeOK, NEW r \in Requests, Crash(r)
    PROVE  /\ UNCHANGED <<row, expiresAt, sealed, surfaced, expiryAudited, held, told>>
           /\ ~At(r, "idle") /\ req'[r].pc = "idle" /\ req'[r].cand = NoCand
           /\ \A q \in Requests : q # r => req'[q] = req[q]
BY FinishAfter DEF Crash, db

LEMMA StepShape ==
    ASSUME TypeOK, [Next]_vars
    PROVE  \/ Idles
           \/ \E r \in Requests : Creates(r) \/ Reads(r) \/ Crash(r) \/ Writes(r) \/ Leaves(r)
BY BeginShape, ContinueShape DEF Next, Idles

LEMMA ReadAfter ==
    ASSUME TypeOK, NEW r \in Requests, Reads(r)
    PROVE  /\ Opened(req'[r])
           /\ UNCHANGED <<row, expiresAt, sealed, surfaced, expiryAudited, held, told>>
           /\ \A q \in Requests : q # r => req'[q] = req[q]
<1>1. PICK state \in RequestStates :
         Opened(state) /\ Start(r, state) /\ UNCHANGED <<now, db, history>>
  BY DEF Reads
<1>2. QED
  BY <1>1, ReqAfter DEF Start, db, history

(* The row appears with nothing staged, and either its id is out at once or *)
(* the request that made it is about to write the claim row.                *)
LEMMA CreateAfter ==
    ASSUME TypeOK, NEW r \in Requests, Creates(r)
    PROVE  /\ row.status = "none" /\ row'.status = "pending"
           /\ row'.phase = row.phase /\ row'.staged = row.staged
           /\ UNCHANGED <<sealed, expiryAudited, held, told>>
           /\ \A q \in Requests : q # r => req'[q] = req[q]
           /\ \/ surfaced' /\ req' = req
              \/ /\ ~surfaced' /\ req'[r].pc = "create_seal" /\ req'[r].who \in Sessions
                 /\ req'[r].cand = NoCand
<1>1. PICK s \in Sessions, k \in Cards \union {NoCard}, seal \in BOOLEAN :
         CreateApproval(r, s, k, seal)
  BY DEF Creates
<1>2. row \in Rows
  BY DEF TypeOK
<1>3. CASE seal
 <2>1. Becomes(r, [Idle EXCEPT !.pc = "create_seal", !.who = s])
   BY <1>1, <1>3 DEF CreateApproval, Start
 <2>2. /\ req'[r].pc = "create_seal" /\ req'[r].who = s /\ req'[r].cand = NoCand
       /\ \A q \in Requests : q # r => req'[q] = req[q]
   BY <2>1 DEF Becomes, Idle, TypeOK
 <2>3. QED
   BY <1>1, <1>2, <1>3, <2>2 DEF CreateApproval, history, Rows
<1>4. CASE ~seal
  BY <1>1, <1>2, <1>4 DEF CreateApproval, history, Rows
<1>5. QED
  BY <1>3, <1>4

-----------------------------------------------------------------------------
(* Each part of the invariant is kept by every step. *)

LEMMA UntouchedStep ==
    ASSUME TypeOK, Untouched, DecisionSound, [Next]_vars
    PROVE  Untouched'
<1>1. CASE Idles
  BY <1>1, IdlesKeep DEF Untouched, At
<1>2. ASSUME NEW r \in Requests, Creates(r) PROVE Untouched'
  BY <1>2, CreateAfter DEF Untouched
<1>3. ASSUME NEW r \in Requests, Reads(r) PROVE Untouched'
  BY <1>3, ReadAfter DEF Untouched, Opened, Exists
<1>4. ASSUME NEW r \in Requests, Crash(r) PROVE Untouched'
  BY <1>4, CrashKeeps DEF Untouched
<1>5. ASSUME NEW r \in Requests, Writes(r) PROVE Untouched'
  BY <1>5, WritesRow DEF Untouched
<1>6. ASSUME NEW r \in Requests, Leaves(r) PROVE Untouched'
  BY <1>6, LeavesRow DEF Untouched
<1>7. QED
  BY <1>1, <1>2, <1>3, <1>4, <1>5, <1>6, StepShape

(* The card of a row is set once, a candidate is staged once; so neither    *)
(* can be exchanged under the other.                                        *)
LEMMA OfferStep ==
    ASSUME TypeOK, Untouched, OfferSound, [Next]_vars
    PROVE  OfferSound'
<1>1. CASE Idles
  BY <1>1, IdlesKeep DEF OfferSound, At
<1>2. ASSUME NEW r \in Requests, Creates(r) PROVE OfferSound'
 <2>1. row'.phase = "none"
   BY <1>2, CreateAfter DEF Untouched
 <2>2. \A q \in Requests : req'[q].pc \in {"idle", "create_seal"}
   BY <1>2, CreateAfter DEF Untouched, At
 <2>3. QED
   BY <2>1, <2>2 DEF OfferSound, At
<1>3. ASSUME NEW r \in Requests, Reads(r) PROVE OfferSound'
  BY <1>3, ReadAfter DEF OfferSound, Opened, At
<1>4. ASSUME NEW r \in Requests, Crash(r) PROVE OfferSound'
  BY <1>4, CrashKeeps DEF OfferSound, At
<1>5. ASSUME NEW r \in Requests, Leaves(r) PROVE OfferSound'
  BY <1>5, LeavesRow DEF OfferSound, At
<1>6. ASSUME NEW r \in Requests, Writes(r) PROVE OfferSound'
 <2> USE <1>6, WritesRow
 <2>1. row \in Rows /\ now \in Nat /\ expiresAt \in Nat
   BY DEF TypeOK
 <2>2. ASSUME row'.phase = "none" <=> row.phase = "none", row'.cand = row.cand,
              row'.relayUntil = row.relayUntil, row'.card = row.card
       PROVE  OfferSound'
   BY <2>2 DEF OfferSound, At
 <2>3. ASSUME NEW c, NEW until, MarkDelivered(c, until) PROVE OfferSound'
   BY <2>1, <2>2, <2>3 DEF MarkDelivered, Rows
 <2>4. CASE GetMark(r) \/ ClaimDeliver(r)
   BY <2>3, <2>4 DEF GetMark, ClaimDeliver
 <2>5. CASE ApproveSubmit(r)
  <3>1. CASE row' = row
    BY <2>2, <3>1
  <3>2. CASE row' # row
   <4>1. /\ Verifies(req[r].cand) /\ SubmittableAt(now)
         /\ row' = [row EXCEPT !.phase = "submitted", !.cand = req[r].cand,
                               !.staged = TRUE, !.relayUntil = expiresAt]
     BY <2>5, <3>2 DEF ApproveSubmit, RelayExpiry
   <4>2. /\ row'.phase = "submitted" /\ row'.cand = req[r].cand
         /\ row'.relayUntil = expiresAt /\ row'.card = row.card
     BY <2>1, <4>1 DEF Rows
   <4>3. row.card # NoCard /\ CardOf[req[r].cand] = row.card
     BY <2>5 DEF ApproveSubmit, OfferSound
   <4>4. QED
     BY <4>1, <4>2, <4>3 DEF OfferSound, Verifies, At
  <3>3. QED
    BY <3>1, <3>2
 <2>6. CASE ConfirmWrite(r)
   BY <2>1, <2>2, <2>6 DEF ConfirmWrite, ConfirmableAt, Rows
 <2>7. CASE DenyWrite(r)
   BY <2>1, <2>2, <2>7 DEF DenyWrite, Rows
 <2>8. ASSUME NEW stored \in BOOLEAN, BindWrite(r, stored) PROVE OfferSound'
  <3>1. CASE row' = row
    BY <2>2, <3>1
  <3>2. CASE row' # row
   <4>1. row.card = NoCard /\ row' = [row EXCEPT !.card = req[r].card]
     BY <2>8, <3>2 DEF BindWrite, BindableAt
   <4>2. row'.phase = row.phase
     BY <2>1, <4>1 DEF Rows
   <4>3. QED
     BY <4>1, <4>2 DEF OfferSound, At
  <3>3. QED
    BY <3>1, <3>2
 <2>9. CASE SweepDelete(r)
   BY <2>1, <2>2, <2>9 DEF SweepDelete, Rows
 <2>10. QED
   BY <2>4, <2>5, <2>6, <2>7, <2>8, <2>9 DEF Writes
<1>7. QED
  BY <1>1, <1>2, <1>3, <1>4, <1>5, <1>6, StepShape

(* Confirm and deny are both conditional on a pending row. *)
LEMMA DecisionStep ==
    ASSUME TypeOK, Untouched, DecisionSound, [Next]_vars
    PROVE  DecisionSound'
<1>1. CASE Idles
  BY <1>1, IdlesKeep DEF DecisionSound
<1>2. ASSUME NEW r \in Requests, Creates(r) PROVE DecisionSound'
  BY <1>2, CreateAfter DEF Untouched, DecisionSound
<1>3. ASSUME NEW r \in Requests, Reads(r) PROVE DecisionSound'
  BY <1>3, ReadAfter DEF DecisionSound
<1>4. ASSUME NEW r \in Requests, Crash(r) PROVE DecisionSound'
  BY <1>4, CrashKeeps DEF DecisionSound
<1>5. ASSUME NEW r \in Requests, Leaves(r) PROVE DecisionSound'
  BY <1>5, LeavesRow DEF DecisionSound
<1>6. ASSUME NEW r \in Requests, Writes(r) PROVE DecisionSound'
 <2>1. row \in Rows
   BY DEF TypeOK
 <2>2. ASSUME NEW c, NEW until, MarkDelivered(c, until), UNCHANGED told
       PROVE  DecisionSound'
   BY <2>1, <2>2 DEF MarkDelivered, DecisionSound, Rows
 <2>3. CASE GetMark(r) \/ ClaimDeliver(r)
   BY <2>2, <2>3 DEF GetMark, ClaimDeliver, history
 <2>4. CASE ApproveSubmit(r)
   BY <2>1, <2>4 DEF ApproveSubmit, SubmittableAt, PendingAt, DecisionSound, Rows, history
 <2>5. CASE ConfirmWrite(r)
  <3>1. CASE Verifies(req[r].cand) /\ ConfirmableAt(now, req[r].cand)
    BY <2>1, <2>5, <3>1 DEF ConfirmWrite, ConfirmableAt, PendingAt, DecisionSound, Rows
  <3>2. CASE ~(Verifies(req[r].cand) /\ ConfirmableAt(now, req[r].cand))
    BY <2>1, <2>5, <3>2 DEF ConfirmWrite, AlreadyConfirmedAt, DecisionSound
  <3>3. QED
    BY <3>1, <3>2
 <2>6. CASE DenyWrite(r)
  <3>1. CASE PendingAt(now)
   <4>1. told' = {"denied"}
     BY <2>6, <3>1 DEF DenyWrite, PendingAt, DecisionSound
   <4>2. row'.status = "denied" /\ ~row'.staged
     BY <2>1, <2>6, <3>1 DEF DenyWrite, Rows
   <4>3. QED
     BY <4>1, <4>2 DEF DecisionSound
  <3>2. CASE ~PendingAt(now)
    BY <2>6, <3>2 DEF DenyWrite, DecisionSound
  <3>3. QED
    BY <3>1, <3>2
 <2>7. ASSUME NEW stored \in BOOLEAN, BindWrite(r, stored) PROVE DecisionSound'
   BY <2>1, <2>7 DEF BindWrite, DecisionSound, Rows, history
 <2>8. CASE SweepDelete(r)
   BY <2>1, <2>8 DEF SweepDelete, DecisionSound, Rows, history
 <2>9. QED
   BY <1>6, <2>3, <2>4, <2>5, <2>6, <2>7, <2>8 DEF Writes
<1>7. QED
  BY <1>1, <1>2, <1>3, <1>4, <1>5, <1>6, StepShape

LEMMA SweepStep ==
    ASSUME TypeOK, Untouched, DecisionSound, SweepSound, [Next]_vars
    PROVE  SweepSound'
<1>1. CASE Idles
  BY <1>1, IdlesKeep DEF SweepSound, SweptWasAudited, At
<1>2. ASSUME NEW r \in Requests, Creates(r) PROVE SweepSound'
 <2>1. row'.status = "pending"
   BY <1>2, CreateAfter
 <2>2. \A q \in Requests : req'[q].pc \in {"idle", "create_seal"}
   BY <1>2, CreateAfter DEF Untouched, At
 <2>3. QED
   BY <2>1, <2>2 DEF SweepSound, SweptWasAudited, At
<1>3. ASSUME NEW r \in Requests, Reads(r) PROVE SweepSound'
  BY <1>3, ReadAfter DEF SweepSound, SweptWasAudited, DecisionSound, Opened, At
<1>4. ASSUME NEW r \in Requests, Crash(r) PROVE SweepSound'
  BY <1>4, CrashKeeps DEF SweepSound, SweptWasAudited, At
<1>5. ASSUME NEW r \in Requests, Writes(r) PROVE SweepSound'
 <2>1. told \subseteq told'
   BY <1>5 DEF Writes, GetMark, ClaimDeliver, ApproveSubmit, ConfirmWrite, DenyWrite,
               BindWrite, SweepDelete, history
 <2>2. \A q \in Requests : At(q, "sweep_delete")' => expiryAudited' \/ told' # {}
   BY <1>5, <2>1, WritesRow DEF SweepSound, At
 <2>3. CASE SweepDelete(r)
   BY <1>5, <2>1, <2>2, <2>3, WritesRow DEF SweepDelete, SweepSound, SweptWasAudited
 <2>4. CASE ~SweepDelete(r)
   BY <1>5, <2>1, <2>2, <2>4, WritesRow DEF SweepSound, SweptWasAudited
 <2>5. QED
   BY <2>3, <2>4
<1>6. ASSUME NEW r \in Requests, Leaves(r) PROVE SweepSound'
  BY <1>6, LeavesRow DEF SweepSound, SweptWasAudited, At
<1>7. QED
  BY <1>1, <1>2, <1>3, <1>4, <1>5, <1>6, StepShape

(* SealToApp comes before any read, and reads never relay a sealed card. *)
LEMMA SealStep ==
    ASSUME TypeOK, Untouched, SealSound, [Next]_vars
    PROVE  SealSound'
<1> USE DEF Unsurfaced, Claiming
<1>1. CASE Idles
  BY <1>1, IdlesKeep DEF SealSound, At
<1>2. ASSUME NEW r \in Requests, Creates(r) PROVE SealSound'
 <2>1. /\ ~surfaced /\ sealed.to = NoSession /\ \A q \in Requests : req[q].pc = "idle"
       /\ \A s \in Sessions : held[s] = {}
   BY <1>2, CreateAfter DEF Untouched, SealSound, At
 <2>2. \A q \in Requests : req'[q].pc = "idle" \/ (q = r /\ req'[q].pc = "create_seal")
   BY <1>2, <2>1, CreateAfter
 <2>3. QED
   BY <1>2, <2>1, <2>2, CreateAfter DEF SealSound, At
<1>3. ASSUME NEW r \in Requests, Reads(r) PROVE SealSound'
  BY <1>3, ReadAfter, ConstantsAssumption DEF SealSound, Opened, At
<1>4. ASSUME NEW r \in Requests, Crash(r) PROVE SealSound'
  BY <1>4, CrashKeeps DEF SealSound, At
<1>5. ASSUME NEW r \in Requests, Writes(r) PROVE SealSound'
 <2>1. CASE GetMark(r)
   BY <1>5, <2>1, WritesRow, GotoAfter DEF GetMark, SealSound, At
 <2>2. CASE ClaimDeliver(r)
   BY <1>5, <2>2, WritesRow, GotoAfter DEF ClaimDeliver, SealSound, At
 <2>3. CASE Finish(r)
   BY <1>5, <2>3, WritesRow, FinishAfter DEF SealSound, At
 <2>4. QED
   BY <1>5, <2>1, <2>2, <2>3
      DEF Writes, ApproveSubmit, ConfirmWrite, DenyWrite, BindWrite, SweepDelete
<1>6. ASSUME NEW r \in Requests, Leaves(r) PROVE SealSound'
 <2>1. /\ req[r] \in RequestStates /\ req \in [Requests -> RequestStates]
       /\ sealed \in [to : Sessions \union {NoSession}, claimed : BOOLEAN]
   BY DEF TypeOK
 <2>2. ASSUME UNCHANGED <<sealed, surfaced, held>>, Finish(r) PROVE SealSound'
   BY <2>2, FinishAfter DEF SealSound, At
 <2>3. CASE SealToApp(r)
  <3>1. /\ surfaced' /\ sealed'.to = req[r].who /\ req[r].who \in Sessions
        /\ UNCHANGED held /\ ~surfaced
    BY <2>1, <2>3 DEF SealToApp, SealSound, history
  <3>2. \A q \in Requests : req'[q].pc \in {"idle", "sweep_audit", "sweep_delete"}
    BY <2>3, <3>1, FinishAfter DEF SealToApp, SealSound, At
  <3>3. QED
    BY <3>1, <3>2 DEF SealSound, At
 <2>4. CASE GetRelay(r)
  <3>1. sealed.to = NoSession /\ surfaced /\ UNCHANGED <<sealed, surfaced, held>>
    BY <2>4 DEF GetRelay, SealSound, db, history, At
  <3>2. req'[r].pc \in {"get_mark", "get_answer"}
    BY <2>4, GetRelayAfter
  <3>3. QED
    BY <1>6, <3>1, <3>2, LeavesRow DEF SealSound, At
 <2>5. CASE GetRecheck(r) /\ ~Finish(r)
  <3>1. sealed.to = NoSession /\ surfaced /\ UNCHANGED <<sealed, surfaced, held>>
    BY <2>5 DEF GetRecheck, SealSound, db, history, At
  <3>2. req'[r].pc = "get_final"
    BY <2>5, GetRecheckAfter
  <3>3. QED
    BY <1>6, <3>1, <3>2, LeavesRow DEF SealSound, At
 <2>6. CASE GetAnswer(r)
  <3>1. surfaced /\ UNCHANGED <<sealed, surfaced>>
    BY <2>6 DEF GetAnswer, SealSound, At
  <3>2. CASE req[r].cand = NoCand
    BY <2>2, <2>6, <3>1, <3>2 DEF GetAnswer, Receives
  <3>3. CASE req[r].cand # NoCand
   <4>1. sealed.to = NoSession
     BY <2>6, <3>3 DEF GetAnswer, SealSound, At
   <4>2. QED
     BY <2>6, <3>1, <4>1, FinishAfter DEF GetAnswer, SealSound, At
  <3>4. QED
    BY <3>2, <3>3
 <2>7. CASE ClaimPeek(r)
  <3>1. surfaced /\ UNCHANGED <<sealed, surfaced, held>>
    BY <2>7 DEF ClaimPeek, SealSound, db, history, At
  <3>2. req'[r].pc = "claim_check" /\ req'[r].who = req[r].who
    BY <2>7, ClaimPeekAfter
  <3>3. QED
    BY <1>6, <2>7, <3>1, <3>2, LeavesRow DEF ClaimPeek, SealSound, At
 <2>8. CASE ClaimCheck(r) /\ ~Finish(r)
  <3>1. surfaced /\ UNCHANGED <<sealed, surfaced, held>>
    BY <2>8 DEF ClaimCheck, SealSound, history, At
  <3>2. req'[r].pc = "claim_mark" /\ req'[r].who = req[r].who
    BY <2>8, ClaimCheckAfter
  <3>3. QED
    BY <1>6, <2>8, <3>1, <3>2, LeavesRow DEF ClaimCheck, SealSound, At
 <2>9. CASE ClaimMark(r)
  <3>1. surfaced /\ sealed'.to = sealed.to /\ UNCHANGED <<surfaced, held>>
    BY <2>1, <2>9 DEF ClaimMark, SealSound, history, At
  <3>2. req'[r].pc = "idle" \/ (req'[r].pc = "claim_relay" /\ req'[r].who = req[r].who)
    BY <2>9, GotoAfter, FinishAfter DEF ClaimMark
  <3>3. QED
    BY <1>6, <2>9, <3>1, <3>2, LeavesRow DEF ClaimMark, SealSound, At
 <2>10. CASE ClaimRelay(r) /\ ~Finish(r)
  <3>1. surfaced /\ UNCHANGED <<sealed, surfaced, held>>
    BY <2>10 DEF ClaimRelay, SealSound, db, history, At
  <3>2. req'[r].pc = "claim_deliver" /\ req'[r].who = req[r].who
    BY <2>10, ClaimRelayAfter
  <3>3. QED
    BY <1>6, <2>10, <3>1, <3>2, LeavesRow DEF ClaimRelay, SealSound, At
 <2>11. CASE ClaimAnswer(r)
  <3>1. req[r].who = sealed.to /\ surfaced /\ UNCHANGED <<sealed, surfaced>>
    BY <2>11 DEF ClaimAnswer, SealSound, db, At
  <3>2. \A s \in Sessions \ {sealed.to} : held'[s] = held[s]
    BY <2>11, <3>1 DEF ClaimAnswer, Receives, TypeOK
  <3>3. QED
    BY <2>11, <3>1, <3>2, FinishAfter DEF ClaimAnswer, SealSound, At
 <2>12. CASE OutcomeCheck(r) \/ OutcomeRecord(r)
  <3>1. surfaced /\ UNCHANGED <<sealed, surfaced, held>>
    BY <2>12 DEF OutcomeCheck, OutcomeRecord, SealSound, db, history, At
  <3>2. req'[r].pc \in {"idle", "outcome_record"}
    BY <2>12, GotoAfter, FinishAfter DEF OutcomeCheck, OutcomeRecord
  <3>3. QED
    BY <1>6, <3>1, <3>2, LeavesRow DEF SealSound, At
 <2>13. ASSUME NEW ok \in BOOLEAN, SweepAudit(r, ok) PROVE SealSound'
  <3>1. UNCHANGED <<sealed, surfaced, held>>
    BY <2>13 DEF SweepAudit, history
  <3>2. req'[r].pc \in {"idle", "sweep_delete"}
    BY <2>13, GotoAfter, FinishAfter DEF SweepAudit
  <3>3. QED
    BY <1>6, <3>1, <3>2, LeavesRow DEF SealSound, At
 <2>14. CASE (GetRecheck(r) \/ ClaimCheck(r) \/ ClaimRelay(r)) /\ Finish(r)
   BY <2>2, <2>14 DEF GetRecheck, ClaimCheck, ClaimRelay, db, history
 <2>15. QED
   BY <1>6, <2>3, <2>4, <2>5, <2>6, <2>7, <2>8, <2>9, <2>10, <2>11, <2>12, <2>13, <2>14
      DEF Leaves
<1>7. QED
  BY <1>1, <1>2, <1>3, <1>4, <1>5, <1>6, StepShape

(* ClaimMark lets one request through, and only GetAnswer and ClaimAnswer   *)
(* hand anything out.                                                       *)
LEMMA ClaimStep ==
    ASSUME TypeOK, Untouched, SealSound, ClaimSound, [Next]_vars
    PROVE  ClaimSound'
<1> USE DEF Claiming
<1>1. CASE Idles
  BY <1>1, IdlesKeep DEF ClaimSound, ClaimServedOnce, ClaimSpent
<1>2. ASSUME NEW r \in Requests, NEW pc, req'[r].pc = pc,
             pc \notin {"claim_relay", "claim_deliver", "claim_answer"},
             UNCHANGED <<sealed, held>>,
             \A q \in Requests : q # r => req'[q] = req[q]
      PROVE  ClaimSound'
  BY <1>2 DEF ClaimSound, ClaimServedOnce, ClaimSpent
<1>3. ASSUME NEW r \in Requests, Creates(r) PROVE ClaimSound'
 <2>1. \A q \in Requests : req'[q].pc \in {"idle", "create_seal"}
   BY <1>3, CreateAfter DEF Untouched, At
 <2>2. UNCHANGED <<sealed, held>>
   BY <1>3, CreateAfter
 <2>3. QED
   BY <2>1, <2>2 DEF ClaimSound, ClaimServedOnce, ClaimSpent
<1>4. ASSUME NEW r \in Requests, Reads(r) PROVE ClaimSound'
  BY <1>2, <1>4, ReadAfter DEF Opened
<1>5. ASSUME NEW r \in Requests, Crash(r) PROVE ClaimSound'
  BY <1>2, <1>5, CrashKeeps
<1>6. ASSUME NEW r \in Requests, Writes(r) PROVE ClaimSound'
 <2>1. CASE ClaimDeliver(r)
   BY <1>6, <2>1, WritesRow, GotoAfter
      DEF ClaimDeliver, ClaimSound, ClaimServedOnce, ClaimSpent, At
 <2>2. CASE ~ClaimDeliver(r)
  <3>1. req'[r].pc \in {"idle", "get_answer"}
    BY <1>6, <2>2, GotoAfter, FinishAfter
       DEF Writes, GetMark, ApproveSubmit, ConfirmWrite, DenyWrite, BindWrite, SweepDelete
  <3>2. QED
    BY <1>2, <1>6, <3>1, WritesRow
 <2>3. QED
   BY <2>1, <2>2
<1>7. ASSUME NEW r \in Requests, Leaves(r) PROVE ClaimSound'
 <2>1. /\ req[r] \in RequestStates /\ req \in [Requests -> RequestStates]
       /\ sealed \in [to : Sessions \union {NoSession}, claimed : BOOLEAN]
   BY DEF TypeOK
 <2>2. \A q \in Requests : q # r => req'[q] = req[q]
   BY <1>7, LeavesRow
 <2>3. CASE SealToApp(r)
  <3>1. ~surfaced /\ req[r].who \in Sessions
    BY <2>3 DEF SealToApp, SealSound
  <3>2. ~sealed.claimed /\ \A q \in Requests : ~ClaimSpent(q)
    BY <3>1 DEF ClaimSound, SealSound, ClaimSpent, Unsurfaced
  <3>3. ~sealed'.claimed /\ sealed'.to \in Sessions /\ held'[sealed'.to] = {}
    BY <2>1, <2>3, <3>1, <3>2 DEF SealToApp, SealSound, history
  <3>4. \A q \in Requests : ~ClaimSpent(q)'
    BY <2>2, <2>3, <3>2, FinishAfter DEF SealToApp, ClaimSpent
  <3>5. QED
    BY <3>3, <3>4 DEF ClaimSound, ClaimServedOnce
 <2>4. CASE GetRelay(r)
  <3>1. req'[r].pc \in {"get_mark", "get_answer"}
    BY <2>4, GetRelayAfter
  <3>2. QED
    BY <1>2, <2>2, <2>4, <3>1 DEF GetRelay, db, history
 <2>5. CASE GetRecheck(r)
  <3>1. ~Finish(r) => req'[r].pc = "get_final"
    BY <2>5, GetRecheckAfter
  <3>2. QED
    BY <1>2, <2>2, <2>5, <3>1, FinishAfter DEF GetRecheck, db, history
 <2>6. CASE GetAnswer(r)
  <3>1. CASE req[r].cand = NoCand
    BY <1>2, <2>6, <3>1, FinishAfter DEF GetAnswer, Receives
  <3>2. CASE req[r].cand # NoCand
   <4>1. sealed.to = NoSession
     BY <2>6, <3>2 DEF GetAnswer, SealSound, At
   <4>2. \A q \in Requests : ~ClaimSpent(q)
     BY <4>1 DEF SealSound, ClaimSpent
   <4>3. QED
     BY <2>2, <2>6, <4>1, <4>2, FinishAfter
        DEF GetAnswer, ClaimSound, ClaimServedOnce, ClaimSpent
  <3>3. QED
    BY <3>1, <3>2
 <2>7. CASE ClaimPeek(r)
   BY <1>2, <2>1, <2>2, <2>7 DEF ClaimPeek, Becomes, RequestStates, db, history
 <2>8. CASE ClaimCheck(r)
  <3>1. ~Finish(r) => req'[r].pc = "claim_mark"
    BY <2>8, ClaimCheckAfter
  <3>2. QED
    BY <1>2, <2>2, <2>8, <3>1, FinishAfter DEF ClaimCheck, history
 <2>9. CASE ClaimMark(r)
  <3>1. CASE MayMarkClaimed(req[r].who)
   <4>1. /\ ~sealed.claimed /\ req[r].who = sealed.to /\ sealed.to # NoSession
         /\ held[sealed.to] = {} /\ \A q \in Requests : ~ClaimSpent(q)
     BY <2>9, <3>1 DEF ClaimMark, MayMarkClaimed, SealSound, ClaimSound, ClaimServedOnce, At
   <4>2. /\ sealed'.to = sealed.to /\ sealed'.claimed /\ UNCHANGED held
         /\ req'[r].who = req[r].who
     BY <2>1, <2>9, <3>1, GotoAfter DEF ClaimMark, history
   <4>3. QED
     BY <2>2, <4>1, <4>2 DEF ClaimSound, ClaimServedOnce, ClaimSpent
  <3>2. CASE ~MayMarkClaimed(req[r].who)
    BY <1>2, <2>9, <3>2, FinishAfter DEF ClaimMark, history
  <3>3. QED
    BY <3>1, <3>2
 <2>10. CASE ClaimRelay(r)
  <3>1. ~Finish(r) => req'[r].pc = "claim_deliver" /\ req'[r].who = req[r].who
    BY <2>10, ClaimRelayAfter
  <3>2. UNCHANGED <<sealed, held>> /\ ClaimSpent(r)
    BY <2>10 DEF ClaimRelay, ClaimSpent, db, history, At
  <3>3. QED
    BY <2>2, <3>1, <3>2, FinishAfter DEF ClaimSound, ClaimServedOnce, ClaimSpent
 <2>11. CASE ClaimAnswer(r)
  <3>1. sealed.claimed /\ UNCHANGED sealed /\ \A q \in Requests \ {r} : ~ClaimSpent(q)
    BY <2>11 DEF ClaimAnswer, ClaimSound, ClaimServedOnce, ClaimSpent, db, At
  <3>2. \A q \in Requests : ~ClaimSpent(q)'
    BY <2>2, <2>11, <3>1, FinishAfter DEF ClaimAnswer, ClaimSpent
  <3>3. QED
    BY <3>1, <3>2 DEF ClaimSound, ClaimServedOnce
 <2>12. CASE OutcomeCheck(r) \/ OutcomeRecord(r)
   BY <1>2, <2>2, <2>12, GotoAfter, FinishAfter DEF OutcomeCheck, OutcomeRecord, db, history
 <2>13. ASSUME NEW ok \in BOOLEAN, SweepAudit(r, ok) PROVE ClaimSound'
   BY <1>2, <2>2, <2>13, GotoAfter, FinishAfter DEF SweepAudit, history
 <2>14. QED
   BY <1>7, <2>3, <2>4, <2>5, <2>6, <2>7, <2>8, <2>9, <2>10, <2>11, <2>12, <2>13 DEF Leaves
<1>8. QED
  BY <1>1, <1>3, <1>4, <1>5, <1>6, <1>7, StepShape

-----------------------------------------------------------------------------
(* The invariant, and what follows from it. *)

THEOREM Invariant == Spec => []IInv
<1>1. Init => IInv
 <2> SUFFICES ASSUME Init PROVE IInv
   OBVIOUS
 <2>1. \A r \in Requests : req[r].pc = "idle"
   BY DEF Init, Idle
 <2>2. Untouched /\ DecisionSound
   BY <2>1 DEF Init, Untouched, DecisionSound, At
 <2>3. OfferSound /\ SweepSound
   BY <2>1 DEF Init, OfferSound, SweepSound, SweptWasAudited, At
 <2>4. SealSound /\ ClaimSound
   BY <2>1 DEF Init, SealSound, ClaimSound, ClaimServedOnce, ClaimSpent, Unsurfaced,
               Claiming, At
 <2>5. TypeOK
   BY InitType
 <2>6. QED
   BY <2>2, <2>3, <2>4, <2>5 DEF IInv
<1>2. IInv /\ [Next]_vars => IInv'
 <2> SUFFICES ASSUME IInv, [Next]_vars PROVE IInv'
   OBVIOUS
 <2>1. TypeOK'
   BY NextType DEF IInv
 <2>2. QED
   BY <2>1, UntouchedStep, OfferStep, DecisionStep, SweepStep, SealStep, ClaimStep DEF IInv
<1>3. QED
  BY <1>1, <1>2, PTL DEF Spec

(* An approved payment was confirmed with a mandate that verified, signed   *)
(* over the card the row is bound to.                                       *)
THEOREM ApprovedSigned == Spec => []ApprovedIsSigned
<1>1. IInv => ApprovedIsSigned
  BY DEF IInv, OfferSound, DecisionSound, ApprovedIsSigned
<1>2. QED
  BY <1>1, Invariant, PTL

(* A decided row carries no mandate and no sealed card. *)
THEOREM DecidedIsClean == Spec => []NothingStagedOnceDecided
<1>1. IInv => NothingStagedOnceDecided
  BY DEF IInv, DecisionSound, NothingStagedOnceDecided
<1>2. QED
  BY <1>1, Invariant, PTL

(* No two callers are told opposite decisions. *)
THEOREM DecisionExclusive == Spec => []DecisionIsExclusive
<1>1. IInv => DecisionIsExclusive
  BY DEF IInv, DecisionSound, DecisionIsExclusive
<1>2. QED
  BY <1>1, Invariant, PTL

(* The card of an SDK approval reaches the session that asked, or nobody. *)
THEOREM SealedHeld == Spec => []SealedHeldByAppOnly
<1>1. IInv => SealedHeldByAppOnly
  BY DEF IInv, SealSound, SealedHeldByAppOnly
<1>2. QED
  BY <1>1, Invariant, PTL

(* At most one claim passes the mark, and before it nothing was handed out. *)
THEOREM ClaimOnce == Spec => []ClaimServedOnce
<1>1. IInv => ClaimServedOnce
  BY DEF IInv, ClaimSound
<1>2. QED
  BY <1>1, Invariant, PTL

(* No undecided approval is deleted without its expiry in the audit. *)
THEOREM SweptAudited == Spec => []SweptWasAudited
<1>1. IInv => SweptWasAudited
  BY DEF IInv, SweepSound
<1>2. QED
  BY <1>1, Invariant, PTL

(* Once staged, a candidate is never replaced: what one agent read is what  *)
(* another may confirm. A second submission would need the first to expire, *)
(* and it expires with the row.                                             *)
LEMMA WriteOnceStep ==
    ASSUME IInv, [Next]_vars, row.phase # "none"
    PROVE  row'.phase # "none" /\ row'.cand = row.cand
<1>1. TypeOK /\ Untouched /\ row \in Rows /\ now \in Nat /\ expiresAt \in Nat
  BY DEF IInv, TypeOK
<1>2. CASE Idles
  BY <1>2, IdlesKeep
<1>3. ASSUME NEW r \in Requests, Creates(r) PROVE FALSE
  BY <1>1, <1>3, CreateAfter DEF Untouched
<1>4. ASSUME NEW r \in Requests, Reads(r) \/ Crash(r) \/ Leaves(r) PROVE row' = row
  BY <1>1, <1>4, ReadAfter, CrashKeeps, LeavesRow
<1>5. ASSUME NEW r \in Requests, Writes(r)
      PROVE  row'.phase # "none" /\ row'.cand = row.cand
 <2>1. ASSUME NEW c, NEW until, MarkDelivered(c, until)
       PROVE  row'.phase # "none" /\ row'.cand = row.cand
   BY <1>1, <2>1 DEF MarkDelivered, Rows
 <2>2. CASE GetMark(r) \/ ClaimDeliver(r)
   BY <2>1, <2>2 DEF GetMark, ClaimDeliver
 <2>3. CASE ApproveSubmit(r)
  <3>1. row.relayUntil = expiresAt
    BY DEF IInv, OfferSound
  <3>2. ~SubmittableAt(now)
    BY <1>1, <3>1 DEF SubmittableAt, PendingAt
  <3>3. QED
    BY <2>3, <3>2 DEF ApproveSubmit
 <2>4. CASE ConfirmWrite(r)
   BY <1>1, <2>4 DEF ConfirmWrite, Rows
 <2>5. CASE DenyWrite(r)
   BY <1>1, <2>5 DEF DenyWrite, Rows
 <2>6. ASSUME NEW stored \in BOOLEAN, BindWrite(r, stored)
       PROVE  row'.phase # "none" /\ row'.cand = row.cand
   BY <1>1, <2>6 DEF BindWrite, Rows
 <2>7. CASE SweepDelete(r)
   BY <1>1, <2>7 DEF SweepDelete, Rows
 <2>8. QED
   BY <1>5, <2>2, <2>3, <2>4, <2>5, <2>6, <2>7 DEF Writes
<1>6. QED
  BY <1>1, <1>2, <1>3, <1>4, <1>5, StepShape

THEOREM CandidateWrittenOnce == Spec => CandidateIsWriteOnce
<1>1. IInv /\ [Next]_vars =>
         [row.phase # "none" => row'.phase # "none" /\ row'.cand = row.cand]_vars
  BY WriteOnceStep
<1>2. QED
  BY <1>1, Invariant, PTL DEF Spec, CandidateIsWriteOnce


-----------------------------------------------------------------------------
(* From step to step. *)


(* A pending row that was submitted holds its candidate until the decision, *)
(* and was approved by somebody who had received it.                        *)
RowSound ==
    /\ row.status = "none" => row.card = NoCard
    /\ ~surfaced => row.phase = "none"
    /\ row.status = "pending" /\ row.phase # "none" =>
          row.staged /\ row.phase \in {"submitted", "delivered"}
    /\ row.status = "approved" => \E s \in Sessions : held[s] # {}

Spends == {"claim_mark", "claim_relay", "claim_deliver", "claim_answer"}

(* What a request carries across its awaits: a candidate read from the row  *)
(* is still there, the reader is an agent, and a claim is marked only after *)
(* a candidate was seen and the clock stood before the deadline.            *)
Carries(q, phase, hold, deadline) ==
    /\ q.pc \notin {"approve_submit", "confirm_write"} /\ q.cand # NoCand => phase # "none"
    /\ q.pc \in {"get_relay", "peek_relay", "get_mark", "confirm_write"} => q.who \in Sessions
    /\ q.pc \in {"get_answer", "get_final"} /\ q.cand # NoCand => q.who \in Sessions
    /\ q.pc = "confirm_write" => hold[q.who] # {}
    /\ q.pc = "bind_write" => q.card \in Cards
    /\ q.pc \in Spends => q.cand # NoCand
    /\ q.pc \in {"claim_mark", "claim_relay"} => q.t < deadline

RequestSound == \A r \in Requests : Carries(req[r], row.phase, held, expiresAt)

PromiseInv == IInv /\ RowSound /\ RequestSound /\ ClaimNotWasted

-----------------------------------------------------------------------------
(* Where a step leaves its request. *)

LEMMA GotoFields ==
    ASSUME TypeOK, NEW r \in Requests, NEW pc, Goto(r, pc)
    PROVE  /\ req'[r].pc = pc /\ req'[r].who = req[r].who /\ req'[r].cand = req[r].cand
           /\ req'[r].card = req[r].card /\ req'[r].t = req[r].t
<1>1. req[r] \in RequestStates
  BY DEF TypeOK
<1>2. QED
  BY <1>1, ReqAfter DEF Goto, RequestStates

LEMMA FinishCarries ==
    ASSUME TypeOK, NEW r \in Requests, Finish(r), NEW phase, NEW hold, NEW deadline
    PROVE  Carries(req'[r], phase, hold, deadline)
BY FinishAfter DEF Carries, Spends

(* A candidate in the row is one that verified, hence no null. *)
LEMMA OfferIsCandidate ==
    ASSUME IInv, row.phase # "none"
    PROVE  row.cand \in Candidates /\ row.cand # NoCand
BY ConstantsAssumption DEF IInv, OfferSound

LEMMA GetRelayCarries ==
    ASSUME IInv, RequestSound, NEW r \in Requests, GetRelay(r)
    PROVE  Carries(req'[r], row.phase, held, expiresAt)
<1>1. TypeOK /\ req[r] \in RequestStates
  BY DEF IInv, TypeOK
<1>2. /\ req[r].who \in Sessions
      /\ req[r].cand # NoCand => row.phase # "none"
      /\ At(r, "get_relay") \/ At(r, "peek_relay")
  BY DEF GetRelay, RequestSound, Carries, At
<1>3. CASE RelayableAt(now)
 <2> DEFINE read == [req[r] EXCEPT !.cand = row.cand, !.t = row.relayUntil,
                        !.pc = IF At(r, "get_relay") THEN "get_mark" ELSE "get_answer"]
 <2>1. Becomes(r, read)
   BY <1>3 DEF GetRelay
 <2>2. read.pc \in {"get_mark", "get_answer"} /\ read.who = req[r].who
   BY <1>1 DEF RequestStates
 <2> HIDE DEF read
 <2>3. req'[r].pc \in {"get_mark", "get_answer"} /\ req'[r].who = req[r].who
   BY <1>1, <2>1, <2>2, ReqAfter
 <2>4. row.phase # "none"
   BY <1>3 DEF RelayableAt
 <2>5. QED
   BY <1>2, <2>3, <2>4 DEF Carries, Spends
<1>4. CASE ~RelayableAt(now)
 <2>1. Goto(r, "get_answer")
   BY <1>4 DEF GetRelay
 <2>2. QED
   BY <1>1, <1>2, <2>1, GotoFields DEF Carries, Spends
<1>5. QED
  BY <1>3, <1>4

LEMMA GetRecheckCarries ==
    ASSUME IInv, RequestSound, NEW r \in Requests, GetRecheck(r)
    PROVE  Carries(req'[r], row.phase, held, expiresAt)
<1> DEFINE again == [req[r] EXCEPT !.pc = "get_final", !.seen = row.status,
                        !.cand = IF PendingAt(now) THEN req[r].cand ELSE NoCand]
<1>1. TypeOK /\ req[r] \in RequestStates
  BY DEF IInv, TypeOK
<1>2. req[r].who \in Sessions /\ row.phase # "none"
  BY DEF GetRecheck, RequestSound, Carries, At
<1>3. Finish(r) \/ Becomes(r, again)
  BY DEF GetRecheck
<1>4. again.pc = "get_final" /\ again.who = req[r].who
  BY <1>1 DEF RequestStates
<1> HIDE DEF again
<1>5. CASE Becomes(r, again)
 <2>1. req'[r].pc = "get_final" /\ req'[r].who \in Sessions
   BY <1>1, <1>2, <1>4, <1>5, ReqAfter
 <2>2. QED
   BY <1>2, <2>1 DEF Carries, Spends
<1>6. QED
  BY <1>1, <1>3, <1>5, FinishCarries

LEMMA ClaimPeekCarries ==
    ASSUME IInv, RequestSound, NEW r \in Requests, ClaimPeek(r)
    PROVE  Carries(req'[r], row.phase, held, expiresAt)
<1> DEFINE peeked == [req[r] EXCEPT !.pc = "claim_check",
                         !.seen = IF Exists THEN row.status ELSE req[r].seen,
                         !.cand = IF RelayableAt(now) THEN row.cand ELSE NoCand]
<1>1. TypeOK /\ req[r] \in RequestStates
  BY DEF IInv, TypeOK
<1>2. Becomes(r, peeked)
  BY DEF ClaimPeek
<1>3. peeked.pc = "claim_check" /\ (peeked.cand # NoCand => RelayableAt(now))
  BY <1>1 DEF RequestStates
<1> HIDE DEF peeked
<1>4. req'[r].pc = "claim_check" /\ (req'[r].cand # NoCand => RelayableAt(now))
  BY <1>1, <1>2, <1>3, ReqAfter
<1>5. QED
  BY <1>4 DEF RelayableAt, Carries, Spends

LEMMA ClaimCheckCarries ==
    ASSUME IInv, RequestSound, NEW r \in Requests, ClaimCheck(r)
    PROVE  Carries(req'[r], row.phase, held, expiresAt)
<1> DEFINE checked == [req[r] EXCEPT !.pc = "claim_mark", !.t = now]
<1>1. TypeOK /\ req[r] \in RequestStates
  BY DEF IInv, TypeOK
<1>2. Finish(r) \/ (Becomes(r, checked) /\ req[r].cand # NoCand /\ now < expiresAt)
  BY DEF ClaimCheck
<1>3. checked.pc = "claim_mark" /\ checked.cand = req[r].cand /\ checked.t = now
  BY <1>1 DEF RequestStates
<1> HIDE DEF checked
<1>4. CASE Becomes(r, checked) /\ req[r].cand # NoCand /\ now < expiresAt
 <2>1. req'[r].pc = "claim_mark" /\ req'[r].cand = req[r].cand /\ req'[r].t = now
   BY <1>1, <1>3, <1>4, ReqAfter
 <2>2. row.phase # "none"
   BY <1>4 DEF ClaimCheck, RequestSound, Carries, At
 <2>3. QED
   BY <1>4, <2>1, <2>2 DEF Carries, Spends
<1>5. QED
  BY <1>1, <1>2, <1>4, FinishCarries

LEMMA ClaimMarkCarries ==
    ASSUME IInv, RequestSound, NEW r \in Requests, ClaimMark(r)
    PROVE  Carries(req'[r], row.phase, held, expiresAt)
<1>1. TypeOK
  BY DEF IInv
<1>2. CASE Goto(r, "claim_relay")
 <2>1. row.phase # "none" /\ req[r].cand # NoCand /\ req[r].t < expiresAt
   BY DEF ClaimMark, RequestSound, Carries, Spends, At
 <2>2. QED
   BY <1>1, <1>2, <2>1, GotoFields DEF Carries, Spends
<1>3. QED
  BY <1>1, <1>2, FinishCarries DEF ClaimMark

LEMMA ClaimRelayServes ==
    ASSUME TypeOK, NEW r \in Requests, ClaimRelay(r), RelayableAt(req[r].t)
    PROVE  req'[r].pc = "claim_deliver"
<1> DEFINE relayed == [req[r] EXCEPT !.pc = "claim_deliver", !.cand = row.cand,
                                     !.t = row.relayUntil]
<1>1. Becomes(r, relayed)
  BY DEF ClaimRelay
<1>2. relayed.pc = "claim_deliver"
  BY DEF TypeOK, RequestStates
<1> HIDE DEF relayed
<1>3. QED
  BY <1>1, <1>2, ReqAfter

LEMMA ClaimRelayCarries ==
    ASSUME IInv, RequestSound, NEW r \in Requests, ClaimRelay(r)
    PROVE  Carries(req'[r], row.phase, held, expiresAt)
<1> DEFINE relayed == [req[r] EXCEPT !.pc = "claim_deliver", !.cand = row.cand,
                                     !.t = row.relayUntil]
<1>1. TypeOK /\ req[r] \in RequestStates
  BY DEF IInv, TypeOK
<1>2. Finish(r) \/ Becomes(r, relayed)
  BY DEF ClaimRelay
<1>3. relayed.pc = "claim_deliver" /\ relayed.cand = row.cand
  BY <1>1 DEF RequestStates
<1> HIDE DEF relayed
<1>4. CASE Becomes(r, relayed)
 <2>1. req'[r].pc = "claim_deliver" /\ req'[r].cand = row.cand
   BY <1>1, <1>3, <1>4, ReqAfter
 <2>2. row.phase # "none"
   BY DEF ClaimRelay, RequestSound, Carries, Spends, At
 <2>3. QED
   BY <2>1, <2>2, OfferIsCandidate DEF Carries, Spends
<1>5. QED
  BY <1>1, <1>2, <1>4, FinishCarries

(* A step that leaves the row alone leaves its request sound for it. *)
LEMMA LeavesCarries ==
    ASSUME IInv, RequestSound, NEW r \in Requests, Leaves(r)
    PROVE  Carries(req'[r], row.phase, held, expiresAt)
<1>1. TypeOK
  BY DEF IInv
<1>2. CASE Finish(r)
  BY <1>1, <1>2, FinishCarries
<1>3. ASSUME NEW pc \in {"outcome_record", "sweep_delete"}, Goto(r, pc),
             req[r].pc \in {"outcome_check", "sweep_audit"}
      PROVE  Carries(req'[r], row.phase, held, expiresAt)
 <2>1. req[r].cand # NoCand => row.phase # "none"
   BY <1>3 DEF RequestSound, Carries
 <2>2. QED
   BY <1>1, <1>3, <2>1, GotoFields DEF Carries, Spends
<1>4. QED
  BY <1>2, <1>3, GetRelayCarries, GetRecheckCarries, ClaimPeekCarries, ClaimCheckCarries,
     ClaimMarkCarries, ClaimRelayCarries
     DEF Leaves, SealToApp, GetAnswer, ClaimAnswer, OutcomeCheck, OutcomeRecord, SweepAudit, At
-----------------------------------------------------------------------------
(* No step takes anything back from a session. *)
LEMMA HeldGrows ==
    ASSUME TypeOK, [Next]_vars, NEW s \in Sessions
    PROVE  held[s] \subseteq held'[s]
<1>1. held \in [Sessions -> SUBSET Candidates]
  BY DEF TypeOK
<1>2. ASSUME NEW who, NEW c, Receives(who, c) PROVE held[s] \subseteq held'[s]
  BY <1>1, <1>2 DEF Receives
<1>3. CASE Idles
  BY <1>3, IdlesKeep
<1>4. ASSUME NEW r \in Requests, Creates(r) \/ Reads(r) \/ Crash(r)
      PROVE  held[s] \subseteq held'[s]
  BY <1>4, CreateAfter, ReadAfter, CrashKeeps
<1>5. ASSUME NEW r \in Requests, Writes(r) PROVE held[s] \subseteq held'[s]
  BY <1>5 DEF Writes, GetMark, ClaimDeliver, ApproveSubmit, ConfirmWrite, DenyWrite,
              BindWrite, SweepDelete, history
<1>6. ASSUME NEW r \in Requests, Leaves(r) PROVE held[s] \subseteq held'[s]
 <2>1. CASE GetAnswer(r) \/ ClaimAnswer(r)
   BY <1>2, <2>1 DEF GetAnswer, ClaimAnswer
 <2>2. CASE ~(GetAnswer(r) \/ ClaimAnswer(r))
   BY <1>6, <2>2 DEF Leaves, SealToApp, GetRelay, GetRecheck, ClaimPeek, ClaimCheck,
      ClaimMark, ClaimRelay, OutcomeCheck, OutcomeRecord, SweepAudit, db, history
 <2>3. QED
   BY <2>1, <2>2
<1>7. QED
  BY <1>3, <1>4, <1>5, <1>6, StepShape

(* What a request carries stays sound while others work on the row. *)
LEMMA CarriesOn ==
    ASSUME TypeOK, [Next]_vars, row.phase # "none" => row'.phase # "none",
           expiresAt' = expiresAt, NEW q, Carries(q, row.phase, held, expiresAt)
    PROVE  Carries(q, row'.phase, held', expiresAt')
<1>1. q.pc = "confirm_write" => q.who \in Sessions /\ held[q.who] # {}
  BY DEF Carries
<1>2. q.pc = "confirm_write" => held'[q.who] # {}
  BY <1>1, HeldGrows
<1>3. QED
  BY <1>2 DEF Carries

LEMMA RequestStep ==
    ASSUME IInv, RequestSound, [Next]_vars
    PROVE  RequestSound'
<1>1. TypeOK /\ Untouched
  BY DEF IInv
<1>2. row.phase # "none" => row'.phase # "none"
  BY WriteOnceStep
<1>3. ASSUME expiresAt' = expiresAt, NEW r \in Requests,
             Carries(req'[r], row.phase, held, expiresAt),
             \A q \in Requests : q # r => req'[q] = req[q]
      PROVE  RequestSound'
 <2>1. ASSUME NEW q \in Requests PROVE Carries(req'[q], row.phase, held, expiresAt)
   BY <1>3 DEF RequestSound
 <2>2. ASSUME NEW q \in Requests PROVE Carries(req'[q], row'.phase, held', expiresAt')
   BY <1>1, <1>2, <1>3, <2>1, CarriesOn
 <2>3. QED
   BY <2>2 DEF RequestSound
<1>4. CASE Idles
  BY <1>4, IdlesKeep DEF RequestSound
<1>5. ASSUME NEW r \in Requests, Creates(r) PROVE RequestSound'
 <2>1. /\ row.phase = "none" /\ row'.phase = "none"
       /\ \A q \in Requests : req[q].pc = "idle" /\ req[q].cand = NoCand
   BY <1>1, <1>5, CreateAfter DEF Untouched, RequestSound, Carries, At
 <2>2. ASSUME NEW q \in Requests
       PROVE  req'[q].pc \in {"idle", "create_seal"} /\ req'[q].cand = NoCand
   BY <1>1, <1>5, <2>1, CreateAfter
 <2>3. QED
   BY <2>2 DEF RequestSound, Carries, Spends
<1>6. ASSUME NEW r \in Requests, Reads(r) PROVE RequestSound'
 <2>1. Opened(req'[r]) /\ expiresAt' = expiresAt /\ \A q \in Requests : q # r => req'[q] = req[q]
   BY <1>1, <1>6, ReadAfter
 <2>2. Carries(req'[r], row.phase, held, expiresAt)
   BY <2>1 DEF Opened, Carries, Spends
 <2>3. QED
   BY <1>3, <2>1, <2>2
<1>7. ASSUME NEW r \in Requests, Crash(r) PROVE RequestSound'
  BY <1>1, <1>3, <1>7, CrashKeeps, FinishCarries DEF Crash
<1>8. ASSUME NEW r \in Requests, Leaves(r) PROVE RequestSound'
  BY <1>1, <1>3, <1>8, LeavesRow, LeavesCarries
<1>9. ASSUME NEW r \in Requests, Writes(r) PROVE RequestSound'
 <2>1. expiresAt' = expiresAt /\ \A q \in Requests : q # r => req'[q] = req[q]
   BY <1>1, <1>9, WritesRow
 <2>2. CASE GetMark(r)
  <3>1. req[r].who \in Sessions /\ (req[r].cand # NoCand => row.phase # "none")
    BY <2>2 DEF GetMark, RequestSound, Carries, At
  <3>2. Goto(r, "get_answer")
    BY <2>2 DEF GetMark
  <3>3. Carries(req'[r], row.phase, held, expiresAt)
    BY <1>1, <3>1, <3>2, GotoFields DEF Carries, Spends
  <3>4. QED
    BY <1>3, <2>1, <3>3
 <2>3. CASE ClaimDeliver(r)
  <3>1. req[r].cand # NoCand /\ row.phase # "none"
    BY <2>3 DEF ClaimDeliver, RequestSound, Carries, Spends, At
  <3>2. Goto(r, "claim_answer")
    BY <2>3 DEF ClaimDeliver
  <3>3. Carries(req'[r], row.phase, held, expiresAt)
    BY <1>1, <3>1, <3>2, GotoFields DEF Carries, Spends
  <3>4. QED
    BY <1>3, <2>1, <3>3
 <2>4. CASE Finish(r)
   BY <1>1, <1>3, <2>1, <2>4, FinishCarries
 <2>5. QED
   BY <1>9, <2>2, <2>3, <2>4
      DEF Writes, ApproveSubmit, ConfirmWrite, DenyWrite, BindWrite, SweepDelete
<1>10. QED
  BY <1>1, <1>4, <1>5, <1>6, <1>7, <1>8, <1>9, StepShape
(* The row and the sessions that hold its candidate change together. *)
LEMMA RowStep ==
    ASSUME IInv, RowSound, RequestSound, [Next]_vars
    PROVE  RowSound'
<1>1. TypeOK /\ Untouched /\ row \in Rows /\ now \in Nat /\ expiresAt \in Nat
  BY DEF IInv, TypeOK
<1>2. (\E s \in Sessions : held[s] # {}) => \E s \in Sessions : held'[s] # {}
  BY <1>1, HeldGrows
<1>3. ASSUME row' = row, surfaced => surfaced' PROVE RowSound'
  BY <1>2, <1>3 DEF RowSound
<1>4. CASE Idles
  BY <1>3, <1>4, IdlesKeep
<1>5. ASSUME NEW r \in Requests, Creates(r) PROVE RowSound'
  BY <1>1, <1>5, CreateAfter DEF RowSound, Untouched
<1>6. ASSUME NEW r \in Requests, Reads(r) \/ Crash(r) PROVE RowSound'
  BY <1>1, <1>3, <1>6, ReadAfter, CrashKeeps
<1>7. ASSUME NEW r \in Requests, Leaves(r) PROVE RowSound'
 <2>1. surfaced => surfaced'
   BY <1>7 DEF Leaves, SealToApp, GetRelay, GetRecheck, GetAnswer, ClaimPeek, ClaimCheck,
      ClaimMark, ClaimRelay, ClaimAnswer, OutcomeCheck, OutcomeRecord, SweepAudit, db
 <2>2. QED
   BY <1>1, <1>3, <1>7, <2>1, LeavesRow
<1>8. ASSUME NEW r \in Requests, Writes(r) PROVE RowSound'
 <2>1. surfaced' = surfaced /\ row.status # "none" /\ row'.status # "none"
   BY <1>1, <1>8, WritesRow
 <2>2. ~surfaced => At(r, "sweep_delete")
   BY <1>8 DEF IInv, SealSound, Unsurfaced, At, Writes, GetMark, ClaimDeliver,
      ApproveSubmit, ConfirmWrite, DenyWrite, BindWrite, SweepDelete
 <2>3. ASSUME NEW c, NEW until, MarkDelivered(c, until), surfaced PROVE RowSound'
  <3>1. /\ row'.status = row.status /\ row'.staged = row.staged
        /\ row'.phase = row.phase \/ (row.phase = "submitted" /\ row'.phase = "delivered")
    BY <1>1, <2>3 DEF MarkDelivered, Rows
  <3>2. QED
    BY <1>2, <2>1, <2>3, <3>1 DEF RowSound
 <2>4. CASE GetMark(r) \/ ClaimDeliver(r)
   BY <2>2, <2>3, <2>4 DEF GetMark, ClaimDeliver, At
 <2>5. CASE ApproveSubmit(r)
  <3>1. CASE row' = row
    BY <1>3, <2>1, <3>1
  <3>2. CASE row' # row
   <4>1. row'.status = "pending" /\ row'.staged /\ row'.phase = "submitted"
     BY <1>1, <2>5, <3>2 DEF ApproveSubmit, SubmittableAt, PendingAt, Rows
   <4>2. surfaced
     BY <2>2, <2>5 DEF ApproveSubmit, At
   <4>3. QED
     BY <2>1, <4>1, <4>2 DEF RowSound
  <3>3. QED
    BY <3>1, <3>2
 <2>6. CASE ConfirmWrite(r)
  <3>1. CASE row' = row
    BY <1>3, <2>1, <3>1
  <3>2. CASE row' # row
   <4>1. row'.status = "approved"
     BY <1>1, <2>6, <3>2 DEF ConfirmWrite, Rows
   <4>2. req[r].who \in Sessions /\ held[req[r].who] # {}
     BY <2>6 DEF ConfirmWrite, RequestSound, Carries, At
   <4>3. surfaced
     BY <2>2, <2>6 DEF ConfirmWrite, At
   <4>4. QED
     BY <1>2, <2>1, <4>1, <4>2, <4>3 DEF RowSound
  <3>3. QED
    BY <3>1, <3>2
 <2>7. CASE DenyWrite(r)
  <3>1. row' = row \/ row'.status = "denied"
    BY <1>1, <2>7 DEF DenyWrite, Rows
  <3>2. surfaced
    BY <2>2, <2>7 DEF DenyWrite, At
  <3>3. QED
    BY <1>3, <2>1, <3>1, <3>2 DEF RowSound
 <2>8. ASSUME NEW stored \in BOOLEAN, BindWrite(r, stored) PROVE RowSound'
  <3>1. row'.status = row.status /\ row'.phase = row.phase /\ row'.staged = row.staged
    BY <1>1, <2>8 DEF BindWrite, Rows
  <3>2. QED
    BY <1>2, <2>1, <3>1 DEF RowSound
 <2>9. CASE SweepDelete(r)
  <3>1. row'.phase = row.phase /\ (row' = row \/ row'.status = "swept")
    BY <1>1, <2>9 DEF SweepDelete, Rows
  <3>2. QED
    BY <1>3, <2>1, <3>1 DEF RowSound
 <2>10. QED
   BY <1>8, <2>4, <2>5, <2>6, <2>7, <2>8, <2>9 DEF Writes
<1>9. QED
  BY <1>1, <1>4, <1>5, <1>6, <1>7, <1>8, StepShape
(* A denied or deleted row is decided for good. *)
LEMMA DeniedStays ==
    ASSUME TypeOK, Untouched, [Next]_vars, row.status \in {"denied", "swept"}
    PROVE  row'.status \in {"denied", "swept"}
<1>1. row \in Rows /\ row.status # "pending" /\ row.status # "none"
  BY DEF TypeOK
<1>2. ASSUME NEW r \in Requests, Writes(r) PROVE row'.status \in {"denied", "swept"}
  BY <1>1, <1>2 DEF Writes, GetMark, ClaimDeliver, MarkDelivered, ApproveSubmit, SubmittableAt,
     PendingAt, ConfirmWrite, ConfirmableAt, DenyWrite, BindWrite, BindableAt, SweepDelete, Rows
<1>3. QED
  BY <1>1, <1>2, StepShape, IdlesKeep, CreateAfter, ReadAfter, CrashKeeps, LeavesRow

(* A claim that finds nothing to relay any more finds the approval denied   *)
(* or deleted: time alone does not take the candidate away, the clock was   *)
(* read when the claim was checked, and nobody but this claim can approve.  *)
LEMMA RelayFails ==
    ASSUME IInv, RowSound, RequestSound, NEW r \in Requests, ClaimRelay(r),
           ~RelayableAt(req[r].t)
    PROVE  row.status \in {"denied", "swept"}
<1>1. /\ row \in Rows /\ req[r] \in RequestStates /\ expiresAt \in Nat
      /\ sealed \in [to : Sessions \union {NoSession}, claimed : BOOLEAN]
  BY DEF IInv, TypeOK
<1>2. req[r].t < expiresAt /\ row.phase # "none"
  BY DEF ClaimRelay, RequestSound, Carries, Spends, At
<1>3. row.relayUntil = expiresAt
  BY <1>2 DEF IInv, OfferSound
<1>4. row.status # "pending"
  BY <1>2, <1>3 DEF RowSound, RelayableAt, PendingAt
<1>5. row.status # "none"
  BY DEF IInv, Untouched, ClaimRelay, At
<1>6. \A s \in Sessions : held[s] = {}
 <2>1. sealed.to # NoSession /\ req[r].who = sealed.to
   BY DEF IInv, SealSound, Claiming, ClaimRelay, At
 <2>2. held[sealed.to] = {}
   BY <2>1 DEF IInv, ClaimSound, ClaimServedOnce, ClaimSpent, ClaimRelay, At
 <2>3. QED
   BY <2>1, <2>2 DEF IInv, SealSound
<1>7. row.status # "approved"
  BY <1>6 DEF RowSound
<1>8. QED
  BY <1>1, <1>4, <1>5, <1>7 DEF Rows, Statuses

LEMMA WastedStep ==
    ASSUME IInv, RowSound, RequestSound, ClaimNotWasted, [Next]_vars
    PROVE  ClaimNotWasted'
<1>1. /\ TypeOK /\ Untouched
      /\ sealed \in [to : Sessions \union {NoSession}, claimed : BOOLEAN]
      /\ sealed.claimed => sealed.to \in Sessions
  BY DEF IInv, TypeOK, ClaimSound
<1>2. row.status \in {"denied", "swept"} => row'.status \in {"denied", "swept"}
  BY <1>1, DeniedStays
<1>3. ASSUME sealed' = sealed, lost => lost', \A q \in Requests : ClaimSpent(q) => ClaimSpent(q)'
      PROVE  ClaimNotWasted'
  BY <1>1, <1>2, <1>3, HeldGrows DEF ClaimNotWasted
<1>4. ASSUME NEW r \in Requests, ~ClaimSpent(r), sealed' = sealed, lost => lost',
             \A q \in Requests : q # r => req'[q] = req[q]
      PROVE  ClaimNotWasted'
  BY <1>3, <1>4 DEF ClaimSpent
<1>5. CASE Idles
 <2>1. lost' = lost
   BY <1>5 DEF Idles, BrokerAudit, Tick, vars, history
 <2>2. QED
   BY <1>3, <1>5, <2>1, IdlesKeep DEF ClaimSpent
<1>6. ASSUME NEW r \in Requests, Creates(r) PROVE ClaimNotWasted'
  BY <1>1, <1>6, ConstantsAssumption, CreateAfter DEF Untouched, ClaimNotWasted
<1>7. ASSUME NEW r \in Requests, Reads(r) PROVE ClaimNotWasted'
 <2>1. ~ClaimSpent(r) /\ lost' = lost
   BY <1>7 DEF Reads, Start, At, ClaimSpent, history
 <2>2. QED
   BY <1>1, <1>4, <1>7, <2>1, ReadAfter
<1>8. ASSUME NEW r \in Requests, Crash(r) PROVE ClaimNotWasted'
 <2>1. CASE ClaimSpent(r)
   BY <1>8, <2>1 DEF Crash, ClaimNotWasted
 <2>2. CASE ~ClaimSpent(r)
   BY <1>1, <1>4, <1>8, <2>2, CrashKeeps DEF Crash
 <2>3. QED
   BY <2>1, <2>2
<1>9. ASSUME NEW r \in Requests, Writes(r) PROVE ClaimNotWasted'
 <2>1. lost' = lost
   BY <1>9 DEF Writes, GetMark, ClaimDeliver, ApproveSubmit, ConfirmWrite, DenyWrite,
               BindWrite, SweepDelete, history
 <2>2. ClaimSpent(r) => ClaimDeliver(r)
   BY <1>9 DEF Writes, GetMark, ApproveSubmit, ConfirmWrite, DenyWrite, BindWrite,
               SweepDelete, ClaimSpent, At
 <2>3. ClaimDeliver(r) => ClaimSpent(r)'
   BY <1>1, GotoFields DEF ClaimDeliver, ClaimSpent
 <2>4. sealed' = sealed /\ \A q \in Requests : q # r => req'[q] = req[q]
   BY <1>1, <1>9, WritesRow
 <2>5. QED
   BY <1>3, <2>1, <2>2, <2>3, <2>4 DEF ClaimSpent
<1>10. ASSUME NEW r \in Requests, Leaves(r) PROVE ClaimNotWasted'
 <2>1. row' = row /\ \A q \in Requests : q # r => req'[q] = req[q]
   BY <1>1, <1>10, LeavesRow
 <2>2. CASE SealToApp(r)
  <3>1. ~sealed.claimed /\ sealed'.claimed = sealed.claimed
    BY <1>1, <2>2, ConstantsAssumption DEF SealToApp, IInv, SealSound
  <3>2. QED
    BY <3>1 DEF ClaimNotWasted
 <2>3. CASE ClaimMark(r)
  <3>1. CASE MayMarkClaimed(req[r].who)
   <4>1. req'[r].pc = "claim_relay"
     BY <1>1, <2>3, <3>1, GotoFields DEF ClaimMark
   <4>2. QED
     BY <4>1 DEF ClaimNotWasted, ClaimSpent
  <3>2. CASE ~MayMarkClaimed(req[r].who)
    BY <1>4, <2>1, <2>3, <3>2 DEF ClaimMark, ClaimSpent, At, history
  <3>3. QED
    BY <3>1, <3>2
 <2>4. CASE ClaimRelay(r)
  <3>1. CASE RelayableAt(req[r].t)
   <4>1. req'[r].pc = "claim_deliver"
     BY <1>1, <2>4, <3>1, ClaimRelayServes
   <4>2. QED
     BY <4>1 DEF ClaimNotWasted, ClaimSpent
  <3>2. CASE ~RelayableAt(req[r].t)
    BY <2>1, <2>4, <3>2, RelayFails DEF ClaimNotWasted
  <3>3. QED
    BY <3>1, <3>2
 <2>5. CASE ClaimAnswer(r)
  <3>1. /\ req[r].who = sealed.to /\ sealed.to # NoSession /\ req[r].cand # NoCand
        /\ sealed' = sealed
    BY <2>5 DEF ClaimAnswer, IInv, SealSound, Claiming, RequestSound, Carries, Spends, At, db
  <3>2. held'[sealed.to] # {}
    BY <1>1, <2>5, <3>1 DEF ClaimAnswer, Receives, TypeOK
  <3>3. QED
    BY <3>1, <3>2 DEF ClaimNotWasted
 <2>6. CASE ~(SealToApp(r) \/ ClaimMark(r) \/ ClaimRelay(r) \/ ClaimAnswer(r))
  <3>1. ~ClaimSpent(r) /\ sealed' = sealed /\ lost' = lost
    BY <1>10, <2>6 DEF Leaves, GetRelay, GetRecheck, GetAnswer, ClaimPeek, ClaimCheck,
       OutcomeCheck, OutcomeRecord, SweepAudit, ClaimSpent, At, db, history
  <3>2. QED
    BY <1>4, <2>1, <3>1
 <2>7. QED
   BY <2>2, <2>3, <2>4, <2>5, <2>6
<1>11. QED
  BY <1>1, <1>5, <1>6, <1>7, <1>8, <1>9, <1>10, StepShape

(* The invariant behind the promises. *)
THEOREM PromisesHold == Spec => []PromiseInv
<1>1. Init => RowSound /\ RequestSound /\ ClaimNotWasted
  BY DEF Init, Idle, RowSound, RequestSound, Carries, Spends, ClaimNotWasted
<1>2. PromiseInv /\ IInv' /\ [Next]_vars => PromiseInv'
  BY RowStep, RequestStep, WastedStep DEF PromiseInv
<1>3. IInv /\ RowSound /\ RequestSound /\ ClaimNotWasted <=> PromiseInv
  BY DEF PromiseInv
<1>4. QED
  BY <1>1, <1>2, <1>3, Invariant, PTL DEF Spec

(* The single claim of a sealed approval is not spent for nothing: unless   *)
(* the answer was lost on the way, the app has the card or the approval was *)
(* denied, or deleted, in the meantime.                                     *)
THEOREM ClaimsAreNotWasted == Spec => []ClaimNotWasted
<1>1. PromiseInv => ClaimNotWasted
  BY DEF PromiseInv
<1>2. QED
  BY <1>1, PromisesHold, PTL
-----------------------------------------------------------------------------
(* The status that cards and webhooks show. *)

LEMMA ShownStatus ==
    ASSUME row \in Rows, now \in Nat, expiresAt \in Nat
    PROVE  /\ row.status = "denied" => PublicStatus = "denied"
           /\ row.status = "swept" => PublicStatus = "not_found"
           /\ row.status = "pending" /\ expiresAt <= now /\ row.phase # "none" =>
                 PublicStatus = "failed"
           /\ row.status = "pending" /\ expiresAt <= now /\ row.phase = "none" =>
                 PublicStatus = "expired"
BY DEF PublicStatus, Rows

(* A pending row whose deadline has passed can only be deleted, or have its *)
(* delivery noted: nobody submits, confirms, denies or binds it any more.   *)
LEMMA LapsedRow ==
    ASSUME IInv, [Next]_vars, row.status = "pending", expiresAt <= now
    PROVE  /\ expiresAt' = expiresAt /\ now <= now'
           /\ row'.status \in {"pending", "swept"}
           /\ (row'.phase = "none" <=> row.phase = "none")
<1>1. TypeOK /\ Untouched /\ row \in Rows /\ now \in Nat /\ expiresAt \in Nat
  BY DEF IInv, TypeOK
<1>2. now' = now \/ now' = now + 1
  BY DEF Next, BeginRequest, ContinueRequest, CreateApproval, GetRead, ClaimRead, ApproveRead,
     ConfirmRead, DenyRead, BindRead, OutcomeRead, SweepScan, SealToApp, GetRelay, GetMark,
     GetRecheck, GetAnswer, ClaimPeek, ClaimCheck, ClaimMark, ClaimRelay, ClaimDeliver,
     ClaimAnswer, ApproveSubmit, ConfirmWrite, DenyWrite, BindWrite, OutcomeCheck,
     OutcomeRecord, SweepAudit, SweepDelete, Crash, BrokerAudit, Tick, vars
<1>3. ~PendingAt(now)
  BY <1>1 DEF PendingAt
<1>4. ASSUME NEW r \in Requests, Writes(r)
      PROVE  /\ row'.status \in {"pending", "swept"}
             /\ (row'.phase = "none" <=> row.phase = "none")
 <2>1. CASE row' = row
   BY <2>1
 <2>2. ASSUME NEW c, NEW until, MarkDelivered(c, until)
       PROVE  /\ row'.status \in {"pending", "swept"}
              /\ (row'.phase = "none" <=> row.phase = "none")
   BY <1>1, <2>2 DEF MarkDelivered, Rows
 <2>3. CASE GetMark(r) \/ ClaimDeliver(r)
   BY <2>2, <2>3 DEF GetMark, ClaimDeliver
 <2>4. CASE ApproveSubmit(r) \/ ConfirmWrite(r) \/ DenyWrite(r)
  <3>1. row' = row
    BY <1>3, <2>4, Zenon DEF ApproveSubmit, SubmittableAt, ConfirmWrite, ConfirmableAt,
       DenyWrite
  <3>2. QED
    BY <3>1, <2>1
 <2>7. ASSUME NEW stored \in BOOLEAN, BindWrite(r, stored)
       PROVE  row'.status = row.status /\ row'.phase = row.phase
   BY <1>1, <2>7 DEF BindWrite, Rows
 <2>5. CASE SweepDelete(r)
   BY <1>1, <2>5 DEF SweepDelete, Rows
 <2>6. QED
   BY <1>1, <1>4, <2>3, <2>4, <2>5, <2>7 DEF Writes
<1>5. /\ expiresAt' = expiresAt
      /\ row'.status \in {"pending", "swept"}
      /\ (row'.phase = "none" <=> row.phase = "none")
  BY <1>1, <1>4, StepShape, IdlesKeep, CreateAfter, ReadAfter, CrashKeeps, LeavesRow, WritesRow
<1>6. QED
  BY <1>1, <1>2, <1>5

(* A denied or lapsed approval keeps the status its card shows until it is  *)
(* deleted: no late submission or confirmation reopens it, and the failure  *)
(* it shows does not change its name.                                       *)
THEOREM ClosedApprovalStaysClosed == Spec => ClosedStaysClosed
<1>1. ASSUME IInv, TypeOK', [Next]_vars,
             row.status = "denied" \/ (row.status = "pending" /\ expiresAt <= now)
      PROVE  PublicStatus' \in {PublicStatus, "not_found"}
 <2>1. /\ TypeOK /\ Untouched /\ row \in Rows /\ now \in Nat /\ expiresAt \in Nat
       /\ row' \in Rows /\ now' \in Nat /\ expiresAt' \in Nat
   BY <1>1 DEF IInv, TypeOK
 <2>2. /\ row'.status = "denied" => PublicStatus' = "denied"
       /\ row'.status = "swept" => PublicStatus' = "not_found"
       /\ row'.status = "pending" /\ expiresAt' <= now' /\ row'.phase # "none" =>
             PublicStatus' = "failed"
       /\ row'.status = "pending" /\ expiresAt' <= now' /\ row'.phase = "none" =>
             PublicStatus' = "expired"
   BY <2>1 DEF PublicStatus, Rows
 <2>3. CASE row.status = "denied"
   BY <1>1, <2>1, <2>2, <2>3, DeniedStays, ShownStatus
 <2>4. CASE row.status = "pending" /\ expiresAt <= now
   BY <1>1, <2>1, <2>2, <2>4, LapsedRow, ShownStatus
 <2>5. QED
   BY <1>1, <2>3, <2>4
<1>2. IInv /\ IInv' /\ [Next]_vars =>
         [row.status = "denied" \/ (row.status = "pending" /\ expiresAt <= now) =>
             PublicStatus' \in {PublicStatus, "not_found"}]_vars
  BY <1>1 DEF IInv
<1>3. QED
  BY <1>2, Invariant, PTL DEF Spec, ClosedStaysClosed
-----------------------------------------------------------------------------
(* The handlers implement ApprovalDecision. *)

Verdict == IF row.status \in {"none", "pending"} THEN "open"
           ELSE IF row.status = "swept" THEN "forgotten" ELSE row.status
Offered == IF row.phase = "none" THEN NoCand ELSE row.cand
Holders == {s \in Sessions : held[s] # {}}

LEMMA DecisionInit == Init => Decision!Init
BY DEF Init, Decision!Init

(* The steps the owner and the agents do not see. *)
LEMMA DecisionStutters ==
    ASSUME Verdict' = Verdict, row'.card = row.card, sealed'.to = sealed.to,
           Offered' = Offered, Holders' = Holders
    PROVE  [Decision!Next]_(Decision!vars)
BY DEF Decision!vars, Verdict, Offered, Holders

LEMMA SameRowStutters ==
    ASSUME row' = row, sealed'.to = sealed.to, held' = held
    PROVE  [Decision!Next]_(Decision!vars)
BY DecisionStutters DEF Verdict, Offered, Holders

LEMMA DecisionBinds ==
    ASSUME NEW k \in Cards, Verdict = "open", Verdict' = "open", row.card = NoCard,
           row'.card = k, sealed'.to = sealed.to, Offered' = Offered, Holders' = Holders
    PROVE  [Decision!Next]_(Decision!vars)
BY DEF Decision!Next, Decision!Bind, Verdict, Offered, Holders

LEMMA DecisionAddresses ==
    ASSUME NEW s \in Sessions, sealed.to = NoSession, sealed'.to = s, Offered = NoCand,
           Holders = {}, row' = row, held' = held
    PROVE  [Decision!Next]_(Decision!vars)
BY DEF Decision!Next, Decision!Address, Verdict, Offered, Holders

LEMMA DecisionOffers ==
    ASSUME NEW c \in Candidates, Verdict = "open", Verdict' = "open", Offered = NoCand,
           Offered' = c, row.card # NoCard, CardOf[c] = row.card, row'.card = row.card,
           sealed'.to = sealed.to, Holders' = Holders
    PROVE  [Decision!Next]_(Decision!vars)
BY DEF Decision!Next, Decision!Offer, Verdict, Offered, Holders

LEMMA DecisionDelivers ==
    ASSUME NEW s \in Sessions, Offered # NoCand, sealed.to \in {NoSession, s},
           Holders' = Holders \union {s}, row' = row, sealed' = sealed
    PROVE  [Decision!Next]_(Decision!vars)
BY DEF Decision!Next, Decision!Deliver, Verdict, Offered, Holders

LEMMA DecisionApproves ==
    ASSUME Verdict = "open", Verdict' = "approved", Holders # {}, row'.card = row.card,
           sealed'.to = sealed.to, Offered' = Offered, Holders' = Holders
    PROVE  [Decision!Next]_(Decision!vars)
BY DEF Decision!Next, Decision!Approve, Verdict, Offered, Holders

LEMMA DecisionDenies ==
    ASSUME Verdict = "open", Verdict' = "denied", row'.card = row.card,
           sealed'.to = sealed.to, Offered' = Offered, Holders' = Holders
    PROVE  [Decision!Next]_(Decision!vars)
BY DEF Decision!Next, Decision!Deny, Verdict, Offered, Holders

LEMMA DecisionForgets ==
    ASSUME Verdict # "forgotten", Verdict' = "forgotten", row'.card = row.card,
           sealed'.to = sealed.to, Offered' = Offered, Holders' = Holders
    PROVE  [Decision!Next]_(Decision!vars)
BY DEF Decision!Next, Decision!Forget, Verdict, Offered, Holders

(* An answer that carries a candidate delivers the offer to its reader. *)
LEMMA AnswerDelivers ==
    ASSUME PromiseInv, NEW r \in Requests, Receives(req[r].who, req[r].cand),
           row' = row, sealed' = sealed,
           req[r].cand # NoCand =>
              /\ row.phase # "none" /\ req[r].who \in Sessions
              /\ sealed.to \in {NoSession, req[r].who}
    PROVE  [Decision!Next]_(Decision!vars)
<1>1. held \in [Sessions -> SUBSET Candidates] /\ req[r] \in RequestStates
  BY DEF PromiseInv, IInv, TypeOK
<1>2. CASE req[r].cand = NoCand
  BY <1>2, SameRowStutters DEF Receives
<1>3. CASE req[r].cand # NoCand
 <2>1. Offered # NoCand
   BY <1>3, OfferIsCandidate DEF Offered, PromiseInv
 <2>2. held' = [held EXCEPT ![req[r].who] = @ \union {req[r].cand}]
   BY <1>3 DEF Receives
 <2>3. \A s \in Sessions : held'[s] # {} <=> held[s] # {} \/ s = req[r].who
   BY <1>1, <1>3, <2>2
 <2>4. Holders' = Holders \union {req[r].who}
   BY <1>3, <2>3 DEF Holders
 <2>5. QED
   BY <1>3, <2>1, <2>4, DecisionDelivers
<1>4. QED
  BY <1>2, <1>3
(* A row is made with its card or without, and nothing else is promised. *)
LEMMA CreateImplements ==
    ASSUME PromiseInv, NEW r \in Requests, Creates(r)
    PROVE  [Decision!Next]_(Decision!vars)
<1>1. TypeOK /\ Untouched /\ row.card = NoCard /\ row.status = "none" /\ row.phase = "none"
  BY CreateAfter DEF PromiseInv, IInv, RowSound, Untouched
<1>2. row'.phase = "none" /\ row'.status = "pending" /\ sealed' = sealed /\ held' = held
  BY <1>1, CreateAfter
<1>3. row'.card \in Cards \union {NoCard}
  BY <1>1 DEF Creates, CreateApproval, TypeOK, Rows
<1>4. /\ Verdict = "open" /\ Verdict' = "open" /\ Offered' = Offered /\ Holders' = Holders
  BY <1>1, <1>2 DEF Verdict, Offered, Holders
<1>5. CASE row'.card = NoCard
  BY <1>1, <1>2, <1>4, <1>5, DecisionStutters
<1>6. CASE row'.card \in Cards
  BY <1>1, <1>2, <1>4, <1>6, DecisionBinds
<1>7. QED
  BY <1>3, <1>5, <1>6

(* Among the steps that leave the row alone, SealToApp addresses the offer  *)
(* and the answers deliver it.                                              *)
LEMMA LeavesImplements ==
    ASSUME PromiseInv, NEW r \in Requests, Leaves(r)
    PROVE  [Decision!Next]_(Decision!vars)
<1>1. /\ TypeOK /\ req[r] \in RequestStates
      /\ sealed \in [to : Sessions \union {NoSession}, claimed : BOOLEAN]
      /\ Carries(req[r], row.phase, held, expiresAt)
  BY DEF PromiseInv, IInv, TypeOK, RequestSound
<1>2. row' = row
  BY <1>1, LeavesRow
<1>3. CASE SealToApp(r)
 <2>1. ~surfaced /\ req[r].who \in Sessions /\ held' = held
   BY <1>3 DEF SealToApp, PromiseInv, IInv, SealSound, history
 <2>2. sealed.to = NoSession /\ sealed'.to = req[r].who /\ Holders = {} /\ Offered = NoCand
   BY <1>1, <1>3, <2>1 DEF SealToApp, PromiseInv, IInv, SealSound, RowSound, Holders, Offered
 <2>3. QED
   BY <1>2, <2>1, <2>2, DecisionAddresses
<1>4. CASE GetAnswer(r)
 <2>1. req[r].cand # NoCand =>
          row.phase # "none" /\ req[r].who \in Sessions /\ sealed.to = NoSession
   BY <1>1, <1>4 DEF GetAnswer, Carries, PromiseInv, IInv, SealSound, At
 <2>2. Receives(req[r].who, req[r].cand) /\ sealed' = sealed
   BY <1>4 DEF GetAnswer
 <2>3. QED
   BY <1>2, <2>1, <2>2, AnswerDelivers
<1>5. CASE ClaimAnswer(r)
 <2>1. sealed.to = req[r].who /\ req[r].who # NoSession
   BY <1>5 DEF ClaimAnswer, PromiseInv, IInv, SealSound, Claiming, At
 <2>2. req[r].cand # NoCand => row.phase # "none" /\ req[r].who \in Sessions
   BY <1>1, <1>5, <2>1 DEF ClaimAnswer, Carries, RequestStates, At
 <2>3. Receives(req[r].who, req[r].cand) /\ sealed' = sealed
   BY <1>5 DEF ClaimAnswer, db
 <2>4. QED
   BY <1>2, <2>1, <2>2, <2>3, AnswerDelivers
<1>6. CASE ~(SealToApp(r) \/ GetAnswer(r) \/ ClaimAnswer(r))
 <2>1. sealed'.to = sealed.to /\ held' = held
   BY <1>1, <1>6 DEF Leaves, GetRelay, GetRecheck, ClaimPeek, ClaimCheck, ClaimMark,
      ClaimRelay, OutcomeCheck, OutcomeRecord, SweepAudit, db, history
 <2>2. QED
   BY <1>2, <2>1, SameRowStutters
<1>7. QED
  BY <1>3, <1>4, <1>5, <1>6

(* A write of the row is one operation of ApprovalDecision, or none when    *)
(* its conditions no longer hold.                                           *)
LEMMA WritesImplement ==
    ASSUME PromiseInv, NEW r \in Requests, Writes(r)
    PROVE  [Decision!Next]_(Decision!vars)
<1>1. /\ TypeOK /\ Untouched /\ req[r] \in RequestStates /\ row \in Rows
      /\ now \in Nat /\ expiresAt \in Nat
      /\ Carries(req[r], row.phase, held, expiresAt)
  BY DEF PromiseInv, IInv, TypeOK, RequestSound
<1>2. sealed' = sealed /\ held' = held /\ Holders' = Holders
  BY <1>1, WritesRow DEF Holders
<1>3. CASE row' = row
  BY <1>2, <1>3, SameRowStutters
<1>4. ASSUME NEW c, NEW until, MarkDelivered(c, until)
      PROVE  [Decision!Next]_(Decision!vars)
 <2>1. row'.status = row.status /\ row'.card = row.card /\ Offered' = Offered
   BY <1>1, <1>4 DEF MarkDelivered, Rows, Offered
 <2>2. QED
   BY <1>2, <2>1, DecisionStutters DEF Verdict
<1>5. CASE GetMark(r) \/ ClaimDeliver(r)
  BY <1>4, <1>5 DEF GetMark, ClaimDeliver
<1>6. CASE ApproveSubmit(r) /\ row' # row
 <2>1. /\ Verifies(req[r].cand) /\ SubmittableAt(now)
       /\ row' = [row EXCEPT !.phase = "submitted", !.cand = req[r].cand,
                             !.staged = TRUE, !.relayUntil = expiresAt]
   BY <1>6 DEF ApproveSubmit, RelayExpiry
 <2>2. row.card # NoCard /\ CardOf[req[r].cand] = row.card
   BY <1>6 DEF PromiseInv, IInv, OfferSound, ApproveSubmit
 <2>3. row.phase # "none" => row.relayUntil = expiresAt
   BY DEF PromiseInv, IInv, OfferSound
 <2>4. row.status = "pending" /\ row.phase = "none"
   BY <1>1, <2>1, <2>3 DEF SubmittableAt, PendingAt
 <2>5. /\ row'.status = "pending" /\ row'.card = row.card
       /\ row'.phase = "submitted" /\ row'.cand = req[r].cand
   BY <1>1, <2>1, <2>4 DEF Rows
 <2>6. req[r].cand \in Candidates
   BY <2>1, ConstantsAssumption DEF Verifies
 <2>7. Verdict = "open" /\ Verdict' = "open" /\ Offered = NoCand /\ Offered' = req[r].cand
   BY <2>4, <2>5 DEF Verdict, Offered
 <2>8. QED
   BY <1>2, <2>2, <2>5, <2>6, <2>7, DecisionOffers
<1>7. CASE ConfirmWrite(r) /\ row' # row
 <2>1. /\ ConfirmableAt(now, req[r].cand)
       /\ row' = [row EXCEPT !.status = "approved", !.phase = "confirmed", !.staged = FALSE]
   BY <1>7 DEF ConfirmWrite
 <2>2. req[r].who \in Sessions /\ held[req[r].who] # {}
   BY <1>1, <1>7 DEF ConfirmWrite, Carries, At
 <2>3. row.status = "pending" /\ row.phase = "delivered"
   BY <2>1 DEF ConfirmableAt, PendingAt
 <2>4. /\ row'.status = "approved" /\ row'.card = row.card
       /\ row'.phase = "confirmed" /\ row'.cand = row.cand
   BY <1>1, <2>1 DEF Rows
 <2>5. /\ Verdict = "open" /\ Verdict' = "approved" /\ Offered' = Offered /\ Holders # {}
   BY <2>2, <2>3, <2>4 DEF Verdict, Offered, Holders
 <2>6. QED
   BY <1>2, <2>4, <2>5, DecisionApproves
<1>8. CASE DenyWrite(r) /\ row' # row
 <2>1. row.status = "pending" /\ row' = [row EXCEPT !.status = "denied", !.staged = FALSE]
   BY <1>8 DEF DenyWrite, PendingAt
 <2>2. /\ row'.status = "denied" /\ row'.card = row.card
       /\ row'.phase = row.phase /\ row'.cand = row.cand
   BY <1>1, <2>1 DEF Rows
 <2>3. Verdict = "open" /\ Verdict' = "denied" /\ Offered' = Offered
   BY <2>1, <2>2 DEF Verdict, Offered
 <2>4. QED
   BY <1>2, <2>2, <2>3, DecisionDenies
<1>9. ASSUME NEW stored \in BOOLEAN, BindWrite(r, stored), row' # row
      PROVE  [Decision!Next]_(Decision!vars)
 <2>1. BindableAt(req[r].t) /\ row' = [row EXCEPT !.card = req[r].card]
   BY <1>9 DEF BindWrite
 <2>2. req[r].card \in Cards
   BY <1>1, <1>9 DEF BindWrite, Carries, At
 <2>3. row.status = "pending" /\ row.card = NoCard
   BY <2>1 DEF BindableAt, PendingAt
 <2>4. /\ row'.status = "pending" /\ row'.card = req[r].card
       /\ row'.phase = row.phase /\ row'.cand = row.cand
   BY <1>1, <2>1, <2>3 DEF Rows
 <2>5. Verdict = "open" /\ Verdict' = "open" /\ Offered' = Offered
   BY <2>3, <2>4 DEF Verdict, Offered
 <2>6. QED
   BY <1>2, <2>2, <2>3, <2>4, <2>5, DecisionBinds
<1>10. CASE SweepDelete(r) /\ row' # row
 <2>1. Exists /\ row' = [row EXCEPT !.status = "swept", !.staged = FALSE]
   BY <1>10 DEF SweepDelete
 <2>2. /\ row'.status = "swept" /\ row'.card = row.card
       /\ row'.phase = row.phase /\ row'.cand = row.cand
   BY <1>1, <2>1 DEF Rows
 <2>3. Verdict # "forgotten" /\ Verdict' = "forgotten" /\ Offered' = Offered
   BY <2>1, <2>2 DEF Exists, Verdict, Offered
 <2>4. QED
   BY <1>2, <2>2, <2>3, DecisionForgets
<1>11. QED
  BY <1>3, <1>5, <1>6, <1>7, <1>8, <1>9, <1>10 DEF Writes

LEMMA DecisionNext ==
    ASSUME PromiseInv, [Next]_vars
    PROVE  [Decision!Next]_(Decision!vars)
<1>1. TypeOK
  BY DEF PromiseInv, IInv
<1>2. CASE Idles
  BY <1>2, IdlesKeep, SameRowStutters
<1>3. ASSUME NEW r \in Requests, Reads(r) \/ Crash(r)
      PROVE  [Decision!Next]_(Decision!vars)
  BY <1>1, <1>3, ReadAfter, CrashKeeps, SameRowStutters
<1>4. QED
  BY <1>1, <1>2, <1>3, StepShape, CreateImplements, LeavesImplements, WritesImplement

(* The handlers, with their awaits, races, lost answers and sweeps, keep    *)
(* the promises of ApprovalDecision: a card is bound once, one offer signed *)
(* over it is accepted, only its recipient receives it, only somebody who   *)
(* received it approves, and the decision is taken at most once.            *)
THEOREM ApprovalImplementsDecision == Spec => ImplementsDecision
<1>1. PromiseInv /\ [Next]_vars => [Decision!Next]_(Decision!vars)
  BY DecisionNext
<1>2. QED
  BY <1>1, DecisionInit, PromisesHold, PTL DEF Spec, ImplementsDecision, Decision!Spec
=============================================================================
