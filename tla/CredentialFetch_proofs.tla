------------------------ MODULE CredentialFetch_proofs ------------------------
(***************************************************************************)
(* Theorems about CredentialFetch for any number of concurrent requests,   *)
(* any fields and any TTL, and its refinement of OneTimeSecret.            *)
(***************************************************************************)
EXTENDS CredentialFetch, TLAPS

Reveals == {"success", "internal_error", "missing_credential", "field_set_changed",
            "rate_limited"}

Auditing(r, outcome) == req[r].pc = "audit" /\ req[r].out = outcome

(* What an answer, the audit or a request in flight says became of the row. *)
DenialKnown ==
    \/ "denied" \in told \/ audited["denied"] > 0
    \/ \E r \in Requests : Auditing(r, "denied")
ConsentKnown ==
    \/ "approved" \in told
    \/ \E r \in Requests : Auditing(r, "approved")
ClaimKnown == disclosed # <<>> \/ \E r \in Requests : req[r].won
LapseKnown ==
    \/ audited["expired"] > 0
    \/ \E r \in Requests : Auditing(r, "expired")

(* One fate per row: it is read off the status as long as there is one, and *)
(* of what survives the row no two things contradict each other.            *)
FateSound ==
    /\ DenialKnown => row.status \in {"denied", "swept"} /\ row.code = "none"
                      /\ ~ConsentKnown /\ ~ClaimKnown
    /\ ConsentKnown => row.status \notin {"none", "pending", "denied"}
    /\ ClaimKnown => row.status \in {"consumed", "swept"} /\ row.code = "none"
    /\ LapseKnown => row.status \in {"failed", "swept"} /\ row.code # "none"
    /\ row.code # "none" => row.status \in {"failed", "swept"}
    /\ row.status = "failed" => row.code # "none"

(* One request at a time holds the right to reveal, and none once revealed. *)
ClaimSound ==
    /\ \A r, q \in Requests : req[r].won /\ req[q].won => r = q
    /\ disclosed # <<>> => \A r \in Requests : ~req[r].won
    /\ Len(disclosed) <= 1
    /\ \A r \in Requests :
          /\ req[r].won => \/ req[r].pc \in {"claim_read", "reveal", "deliver"}
                           \/ req[r].pc = "audit" /\ req[r].out \in Reveals
          /\ req[r].pc \in {"reveal", "deliver"} => req[r].won
          /\ req[r].pc = "audit" /\ req[r].out \in Reveals => req[r].won

(* What is on its way out was signed for, and audited before it leaves. *)
OfferSound ==
    /\ \A r \in Requests :
          /\ req[r].pc \in {"approve_verify", "approve_write"} => signed # {}
          /\ req[r].pc \in {"reveal", "deliver"} \/ Auditing(r, "success") =>
                req[r].names \subseteq row.names
          /\ req[r].pc = "deliver" \/ Auditing(r, "success") => req[r].names # {}
          /\ req[r].pc = "deliver" => audited["success"] > 0
    /\ row.status \in {"approved", "consumed"} \/ ClaimKnown => signed # {}
    /\ RevealedAsSigned /\ DisclosureIsAudited

(* The sweep deletes what is decided and audited; a spent approval is on    *)
(* its way to an audit row.                                                 *)
SweepSound ==
    /\ \A r \in Requests :
          /\ req[r].sweeps => \/ req[r].pc \in {"sweep_settle", "sweep_clear", "sweep_delete"}
                              \/ Auditing(r, "expired")
          /\ req[r].pc = "sweep_clear" => row.status \in {"failed", "swept"} /\ row.code # "none"
          /\ req[r].pc = "sweep_delete" =>
                ~Live /\ row.status # "none" /\ row.code # "expired_unaudited"
    /\ row.status = "swept" => row.code # "expired_unaudited"
    /\ BurnedIsAccounted

Sound == FateSound /\ ClaimSound /\ OfferSound /\ SweepSound

IInv == TypeOK /\ Sound

RequestStates == [pc : PCs, t : Nat, form : Forms, out : Outcomes, names : SUBSET Fields,
                  won : BOOLEAN, sweeps : BOOLEAN]
RowStates == [status : Statuses, code : Codes, until : Nat, names : SUBSET Fields]

Becomes(r, state) == req' = [req EXCEPT ![r] = state]
-----------------------------------------------------------------------------
(* Types *)

LEMMA InitType == FetchAssumption /\ Init => TypeOK
<1> SUFFICES ASSUME FetchAssumption, Init PROVE TypeOK
  OBVIOUS
<1>1. disclosed \in Seq([via : Forms, names : SUBSET Fields])
  BY DEF Init
<1>2. row \in [status : Statuses, code : Codes, until : Nat, names : SUBSET Fields]
  BY DEF Init, Statuses, Codes
<1>3. req \in [Requests -> [pc : PCs, t : Nat, form : Forms, out : Outcomes,
                            names : SUBSET Fields, won : BOOLEAN, sweeps : BOOLEAN]]
  BY DEF Init, Idle, PCs, Forms, Outcomes
<1>4. audited \in [Outcomes -> 0..2] /\ now \in 0..MaxTime
  BY DEF FetchAssumption, Init
<1>5. /\ wantsSeal \in BOOLEAN /\ bound \in BOOLEAN /\ surfaced \in BOOLEAN
      /\ mishap \in BOOLEAN
  BY DEF Init
<1>6. fields \in SUBSET Fields /\ signed \in SUBSET Forms
      /\ told \in SUBSET {"approved", "denied"}
  BY DEF Init
<1>7. QED
  BY <1>1, <1>2, <1>3, <1>4, <1>5, <1>6 DEF TypeOK

LEMMA IdleType == Idle \in RequestStates
BY DEF Idle, RequestStates, PCs, Forms, Outcomes

(* Every step of a request replaces its entry of req by a well-typed one. *)
LEMMA RequestType ==
    ASSUME TypeOK, NEW r \in Requests, NEW state \in RequestStates, Becomes(r, state)
    PROVE  req' \in [Requests -> RequestStates]
BY DEF TypeOK, Becomes, RequestStates

LEMMA RequestAfter ==
    ASSUME TypeOK, NEW r \in Requests, NEW state, Becomes(r, state)
    PROVE  req'[r] = state /\ \A q \in Requests : q # r => req'[q] = req[q]
BY DEF TypeOK, Becomes

(* The ways a handler leaves its request behind. *)
LEMMA HandlerType ==
    ASSUME TypeOK, NEW r \in Requests,
           \/ Done(r) \/ \E pc \in PCs : Goto(r, pc)
           \/ \E t \in Nat : Settle(r, t) \/ \E out \in Outcomes : Record(r, out)
    PROVE  req' \in [Requests -> RequestStates]
<1>1. req[r] \in RequestStates /\ Idle \in RequestStates
  BY IdleType DEF TypeOK, RequestStates
<1>2. CASE Done(r)
  BY <1>1, <1>2, RequestType DEF Done, Becomes
<1>3. ASSUME NEW pc \in PCs, Goto(r, pc) PROVE req' \in [Requests -> RequestStates]
 <2>1. [req[r] EXCEPT !.pc = pc] \in RequestStates
   BY <1>1 DEF RequestStates
 <2>2. QED
   BY <1>3, <2>1, RequestType DEF Goto, Becomes
<1>4. ASSUME NEW t \in Nat, Settle(r, t) PROVE req' \in [Requests -> RequestStates]
 <2>1. [Idle EXCEPT !.pc = "settle", !.t = t] \in RequestStates
   BY <1>1 DEF RequestStates, PCs
 <2>2. QED
   BY <1>4, <2>1, RequestType DEF Settle, Becomes
<1>5. ASSUME NEW out \in Outcomes, Record(r, out) PROVE req' \in [Requests -> RequestStates]
 <2>1. [req[r] EXCEPT !.pc = "audit", !.out = out] \in RequestStates
   BY <1>1 DEF RequestStates, PCs
 <2>2. Becomes(r, [req[r] EXCEPT !.pc = "audit", !.out = out])
   BY <1>5 DEF Record, Becomes
 <2>3. QED
   BY <2>1, <2>2, RequestType
<1>6. QED
  BY <1>2, <1>3, <1>4, <1>5

LEMMA RowType ==
    ASSUME TypeOK, NEW status \in Statuses, NEW code \in Codes
    PROVE  /\ [row EXCEPT !.status = status] \in RowStates
           /\ [row EXCEPT !.code = code] \in RowStates
           /\ [row EXCEPT !.status = status, !.code = code] \in RowStates
BY DEF TypeOK, RowStates

(* A step that keeps to these variables keeps its types if they do. *)
LEMMA StepType ==
    ASSUME TypeOK, UNCHANGED <<now, wantsSeal, fields, signed>>,
           bound' \in BOOLEAN, surfaced' \in BOOLEAN, mishap' \in BOOLEAN,
           row' \in RowStates, req' \in [Requests -> RequestStates],
           audited' \in [Outcomes -> 0..2], told' \in SUBSET {"approved", "denied"},
           disclosed' \in Seq([via : Forms, names : SUBSET Fields])
    PROVE  TypeOK'
BY DEF TypeOK, RowStates, RequestStates

LEMMA StepTypeQuiet ==
    ASSUME TypeOK, row' \in RowStates, req' \in [Requests -> RequestStates],
           UNCHANGED <<now, wantsSeal, bound, surfaced, fields, signed, audited, told, disclosed,
                       mishap>>
    PROVE  TypeOK'
<1>1. /\ bound' \in BOOLEAN /\ surfaced' \in BOOLEAN /\ mishap' \in BOOLEAN
      /\ audited' \in [Outcomes -> 0..2] /\ told' \in SUBSET {"approved", "denied"}
      /\ disclosed' \in Seq([via : Forms, names : SUBSET Fields])
  BY DEF TypeOK
<1>2. QED
  BY <1>1, StepType

LEMMA BeginType ==
    ASSUME FetchAssumption, TypeOK, NEW r \in Requests, Begin(r)
    PROVE  TypeOK'
<1>1. now \in Nat /\ row \in RowStates /\ fields \in SUBSET Fields /\ signed \subseteq Forms
      /\ KeyForm \in Forms
  BY DEF FetchAssumption, TypeOK, RowStates, KeyForm, Forms
<1>2. UNCHANGED <<now, wantsSeal, row, bound, surfaced, fields, signed, audited, told, disclosed,
                  mishap>>
  BY DEF Begin, CreateRead, ApproveRead, DenyRead, ResumeRead, SweepScan
<1>3. ASSUME NEW pc \in PCs, NEW t \in Nat, NEW form \in Forms, NEW names \in SUBSET Fields,
             NEW sweeps \in BOOLEAN,
             \/ Becomes(r, [Idle EXCEPT !.pc = pc, !.t = t])
             \/ Becomes(r, [Idle EXCEPT !.pc = pc, !.t = t, !.form = form])
             \/ Becomes(r, [Idle EXCEPT !.pc = pc, !.t = t, !.names = names])
             \/ Becomes(r, [Idle EXCEPT !.pc = pc, !.sweeps = sweeps])
      PROVE  req' \in [Requests -> RequestStates]
 <2>1. /\ [Idle EXCEPT !.pc = pc, !.t = t] \in RequestStates
       /\ [Idle EXCEPT !.pc = pc, !.t = t, !.form = form] \in RequestStates
       /\ [Idle EXCEPT !.pc = pc, !.t = t, !.names = names] \in RequestStates
       /\ [Idle EXCEPT !.pc = pc, !.sweeps = sweeps] \in RequestStates
   BY IdleType DEF RequestStates
 <2>2. QED
   BY <1>3, <2>1, RequestType
<1>4. req' \in [Requests -> RequestStates]
 <2>1. CASE CreateRead(r)
  <3>1. PICK names \in SUBSET Fields :
            Becomes(r, [Idle EXCEPT !.pc = "create_insert", !.t = now, !.names = names])
    BY <1>1, <2>1 DEF CreateRead, Becomes
  <3>2. QED
    BY <1>1, <1>3, <3>1 DEF PCs, Forms
 <2>2. CASE ApproveRead(r)
  <3>1. PICK form \in Forms :
            \/ Settle(r, now)
            \/ Becomes(r, [Idle EXCEPT !.pc = "approve_verify", !.t = now, !.form = form])
    BY <1>1, <2>2 DEF ApproveRead, Becomes
  <3>2. CASE Settle(r, now)
    BY <1>1, <3>2, HandlerType
  <3>3. CASE Becomes(r, [Idle EXCEPT !.pc = "approve_verify", !.t = now, !.form = form])
    BY <1>1, <1>3, <3>3 DEF PCs
  <3>4. QED
    BY <3>1, <3>2, <3>3
 <2>3. CASE DenyRead(r)
   BY <1>1, <1>3, <2>3 DEF DenyRead, Becomes, PCs
 <2>4. CASE ResumeRead(r)
   BY <1>1, <1>3, <2>4 DEF ResumeRead, Becomes, PCs
 <2>5. CASE SweepScan(r)
  <3>1. PICK pc \in {"sweep_settle", "audit", "sweep_delete"} :
            Becomes(r, [Idle EXCEPT !.pc = pc, !.sweeps = TRUE])
    BY <2>5 DEF SweepScan, Becomes
  <3>2. QED
    BY <1>1, <1>3, <3>1 DEF PCs
 <2>6. QED
   BY <2>1, <2>2, <2>3, <2>4, <2>5 DEF Begin
<1>5. QED
  BY <1>1, <1>2, <1>4, StepTypeQuiet

LEMMA ContinueType ==
    ASSUME FetchAssumption, TypeOK, NEW r \in Requests, Continue(r)
    PROVE  TypeOK'
<1> DEFINE kept == UNCHANGED <<now, wantsSeal, bound, surfaced, fields, signed, audited, told,
                               disclosed, mishap>>
<1>1. /\ row \in RowStates /\ req[r] \in RequestStates /\ req \in [Requests -> RequestStates]
      /\ req[r].t \in Nat
  BY DEF TypeOK, RowStates, RequestStates
<1>2. /\ bound \in BOOLEAN /\ surfaced \in BOOLEAN /\ mishap \in BOOLEAN
      /\ audited \in [Outcomes -> 0..2] /\ told \in SUBSET {"approved", "denied"}
      /\ disclosed \in Seq([via : Forms, names : SUBSET Fields])
  BY DEF TypeOK
<1>3. CASE CreateInsert(r)
 <2>1. [status |-> "pending", code |-> "none", until |-> Expiry(req[r].t),
        names |-> req[r].names] \in RowStates
   BY <1>1, SMT DEF FetchAssumption, RowStates, RequestStates, Statuses, Codes, Expiry
 <2>2. row' \in RowStates /\ surfaced' \in BOOLEAN
   BY <1>1, <1>2, <1>3, <2>1 DEF CreateInsert
 <2>3. req' \in [Requests -> RequestStates]
   BY <1>3, HandlerType DEF CreateInsert, PCs
 <2>4. QED
   BY <1>2, <1>3, <2>2, <2>3, StepType DEF CreateInsert
<1>4. CASE CreateSeal(r)
  BY <1>1, <1>2, <1>4, HandlerType, StepType DEF CreateSeal
<1>5. CASE ApproveVerify(r)
  BY <1>1, <1>5, HandlerType, StepTypeQuiet DEF ApproveVerify, PCs
<1>6. CASE ApproveWrite(r)
 <2>1. req' \in [Requests -> RequestStates]
  <3>1. Record(r, "approved") \/ Done(r) \/ Settle(r, req[r].t)
    BY <1>6 DEF ApproveWrite
  <3>2. QED
    BY <1>1, <3>1, HandlerType DEF Outcomes
 <2>2. row' \in RowStates
   BY <1>1, <1>6, RowType DEF ApproveWrite, Statuses, Codes
 <2>3. told' \in SUBSET {"approved", "denied"}
   BY <1>2, <1>6 DEF ApproveWrite
 <2>4. QED
   BY <1>2, <1>6, <2>1, <2>2, <2>3, StepType DEF ApproveWrite
<1>7. CASE DenyWrite(r)
 <2>1. req' \in [Requests -> RequestStates]
   BY <1>1, <1>7, HandlerType DEF DenyWrite, Outcomes
 <2>2. row' \in RowStates
   BY <1>1, <1>7, RowType DEF DenyWrite, Statuses, Codes
 <2>3. told' \in SUBSET {"approved", "denied"}
   BY <1>2, <1>7 DEF DenyWrite
 <2>4. QED
   BY <1>2, <1>7, <2>1, <2>2, <2>3, StepType DEF DenyWrite
<1>8. CASE SettleExpired(r)
 <2>1. req' \in [Requests -> RequestStates]
   BY <1>8, HandlerType DEF SettleExpired, Outcomes
 <2>2. row' \in RowStates
   BY <1>1, <1>8, RowType DEF SettleExpired, Statuses, Codes
 <2>3. QED
   BY <1>8, <2>1, <2>2, StepTypeQuiet DEF SettleExpired
<1>9. CASE ClaimWrite(r)
 <2>0. PICK clock \in req[r].t .. now :
           LET won == row.status = "approved" /\ ~LapsedAt(clock)
           IN /\ row' = IF won THEN [row EXCEPT !.status = "consumed"] ELSE row
              /\ req' = [req EXCEPT ![r].pc = "claim_read", ![r].won = won]
   BY <1>9 DEF ClaimWrite
 <2> DEFINE won == row.status = "approved" /\ ~LapsedAt(clock)
 <2>1. [req[r] EXCEPT !.pc = "claim_read", !.won = won] \in RequestStates
   BY <1>1 DEF RequestStates, PCs
 <2>2. Becomes(r, [req[r] EXCEPT !.pc = "claim_read", !.won = won])
   BY <2>0 DEF Becomes
 <2>3. row' \in RowStates /\ req' \in [Requests -> RequestStates]
   BY <1>1, <2>0, <2>1, <2>2, RowType, RequestType DEF Statuses, Codes
 <2>4. QED
   BY <1>9, <2>3, StepTypeQuiet DEF ClaimWrite
<1>10. CASE ClaimRead(r)
 <2>1. [req[r] EXCEPT !.pc = "reveal", !.names = row.names] \in RequestStates
   BY <1>1 DEF RequestStates, RowStates, PCs
 <2>2. req' \in [Requests -> RequestStates]
   BY <1>1, <1>10, <2>1, RequestType, HandlerType DEF ClaimRead, Becomes
 <2>3. QED
   BY <1>1, <1>10, <2>2, StepTypeQuiet DEF ClaimRead
<1>11. CASE Reveal(r)
 <2>1. ASSUME NEW out \in Outcomes
       PROVE  [req[r] EXCEPT !.pc = "audit", !.names = Disclosable(r), !.out = out]
                  \in RequestStates
   BY <1>1 DEF RequestStates, PCs, Disclosable
 <2>2. PICK out \in Outcomes :
           \/ Becomes(r, [req[r] EXCEPT !.pc = "audit", !.names = Disclosable(r), !.out = out])
           \/ Record(r, out)
   BY <1>11 DEF Reveal, Becomes, Outcomes
 <2>3. req' \in [Requests -> RequestStates]
   BY <2>1, <2>2, RequestType, HandlerType
 <2>4. QED
   BY <1>1, <1>11, <2>3, StepTypeQuiet DEF Reveal
<1>12. CASE AuditLands(r)
 <2>1. req' \in [Requests -> RequestStates]
   BY <1>12, HandlerType DEF AuditLands, PCs
 <2>2. audited' \in [Outcomes -> 0..2]
   BY <1>1, <1>2, <1>12 DEF AuditLands, Add, RequestStates
 <2>3. told' \in SUBSET {"approved", "denied"}
   BY <1>2, <1>12 DEF AuditLands
 <2>4. QED
   BY <1>1, <1>2, <1>12, <2>1, <2>2, <2>3, StepType DEF AuditLands
<1>13. CASE AuditFails(r)
 <2>1. req' \in [Requests -> RequestStates]
   BY <1>13, HandlerType DEF AuditFails, Outcomes
 <2>2. audited' \in [Outcomes -> 0..2]
   BY <1>1, <1>2, <1>13 DEF AuditFails, Add, RequestStates
 <2>3. mishap' \in BOOLEAN
   BY <1>2, <1>13 DEF AuditFails
 <2>4. QED
   BY <1>1, <1>2, <1>13, <2>1, <2>2, <2>3, StepType DEF AuditFails
<1>14. CASE Deliver(r)
 <2>1. [via |-> req[r].form, names |-> req[r].names] \in [via : Forms, names : SUBSET Fields]
   BY <1>1 DEF RequestStates
 <2>2. disclosed' \in Seq([via : Forms, names : SUBSET Fields])
   BY <1>2, <1>14, <2>1 DEF Deliver
 <2>3. QED
   BY <1>1, <1>2, <1>14, <2>2, HandlerType, StepType DEF Deliver
<1>15. CASE SweepSettle(r)
 <2>1. req' \in [Requests -> RequestStates]
   BY <1>15, HandlerType DEF SweepSettle, Outcomes
 <2>2. row' \in RowStates
   BY <1>1, <1>15, RowType DEF SweepSettle, Statuses, Codes
 <2>3. QED
   BY <1>15, <2>1, <2>2, StepTypeQuiet DEF SweepSettle
<1>16. CASE SweepClear(r)
 <2>1. req' \in [Requests -> RequestStates] /\ row' \in RowStates
   BY <1>1, <1>16, HandlerType, RowType DEF SweepClear, PCs, Codes, Statuses
 <2>2. QED
   BY <1>16, <2>1, StepTypeQuiet DEF SweepClear
<1>17. CASE SweepDelete(r)
 <2>1. req' \in [Requests -> RequestStates] /\ row' \in RowStates
   BY <1>1, <1>17, HandlerType, RowType DEF SweepDelete, Codes, Statuses
 <2>2. QED
   BY <1>17, <2>1, StepTypeQuiet DEF SweepDelete
<1>18. QED
  BY <1>3, <1>4, <1>5, <1>6, <1>7, <1>8, <1>9, <1>10, <1>11, <1>12, <1>13, <1>14, <1>15, <1>16,
     <1>17 DEF Continue

LEMMA TypeNext == FetchAssumption /\ TypeOK /\ [Next]_vars => TypeOK'
<1> SUFFICES ASSUME FetchAssumption, TypeOK, [Next]_vars PROVE TypeOK'
  OBVIOUS
<1>1. ASSUME NEW r \in Requests, Crash(r) PROVE TypeOK'
 <2>1. req' \in [Requests -> RequestStates]
   BY <1>1, HandlerType DEF Crash
 <2>2. mishap' \in BOOLEAN
   BY <1>1 DEF Crash, TypeOK
 <2>3. QED
   BY <1>1, <2>1, <2>2, StepType DEF Crash, TypeOK, RowStates
<1>2. CASE CreateReuses \/ Sign \/ ChangeFields
 <2>1. signed' \in SUBSET Forms /\ fields' \in SUBSET Fields /\ surfaced' \in BOOLEAN
   BY <1>2 DEF CreateReuses, Sign, ChangeFields, TypeOK, KeyForm, Forms
 <2>2. UNCHANGED <<now, wantsSeal, row, bound, audited, req, told, disclosed, mishap>>
   BY <1>2 DEF CreateReuses, Sign, ChangeFields
 <2>3. QED
   BY <2>1, <2>2 DEF TypeOK
<1>3. CASE Tick
 <2>1. now' \in 0..MaxTime
   BY <1>3 DEF Tick, TypeOK, FetchAssumption
 <2>2. QED
   BY <1>3, <2>1 DEF Tick, TypeOK
<1>4. CASE UNCHANGED vars
  BY <1>4 DEF vars, TypeOK
<1>5. QED
  BY <1>1, <1>2, <1>3, <1>4, BeginType, ContinueType DEF Next

-----------------------------------------------------------------------------
(* The sound parts, step by step. *)

QuietPCs == {"idle", "create_insert", "create_seal", "approve_verify", "approve_write",
             "deny_write", "settle", "claim_write", "claim_read", "sweep_settle"}

(* A request that holds nothing moves to a point where it claims nothing. *)
LEMMA QuietMove ==
    ASSUME IInv, NEW r \in Requests, NEW state, Becomes(r, state),
           ~req[r].won, ~state.won, state.pc \in QuietPCs,
           state.pc \in {"approve_verify", "approve_write"} => signed # {},
           state.sweeps => state.pc = "sweep_settle",
           UNCHANGED <<row, signed, audited, told, disclosed, mishap>>
    PROVE  Sound'
<1>1. req'[r] = state /\ \A q \in Requests : q # r => req'[q] = req[q]
  BY RequestAfter DEF IInv
<1>2. /\ \A q \in Requests : req'[q].won <=> req[q].won
      /\ \A q \in Requests : \A out : Auditing(q, out)' => Auditing(q, out)
  BY <1>1 DEF Auditing, QuietPCs
<1>3. FateSound'
  BY <1>2 DEF IInv, Sound, FateSound, DenialKnown, ConsentKnown, ClaimKnown, LapseKnown
<1>4. ClaimSound'
  BY <1>1, <1>2 DEF IInv, Sound, ClaimSound, QuietPCs
<1>5. OfferSound'
  BY <1>1, <1>2 DEF IInv, Sound, OfferSound, ClaimKnown, RevealedAsSigned, DisclosureIsAudited,
     QuietPCs, Auditing
<1>6. SweepSound'
  BY <1>1, <1>2 DEF IInv, Sound, SweepSound, BurnedIsAccounted, Live, QuietPCs, Auditing
<1>7. QED
  BY <1>3, <1>4, <1>5, <1>6 DEF Sound

LEMMA IdleHolds == Idle.pc = "idle" /\ ~Idle.won /\ ~Idle.sweeps /\ Idle.pc \in QuietPCs
BY DEF Idle, QuietPCs

LEMMA QuietBegin ==
    ASSUME IInv, NEW r \in Requests, NEW pc \in QuietPCs, NEW t, NEW form, NEW names,
           \/ Becomes(r, [Idle EXCEPT !.pc = pc, !.t = t])
           \/ Becomes(r, [Idle EXCEPT !.pc = pc, !.t = t, !.form = form])
           \/ Becomes(r, [Idle EXCEPT !.pc = pc, !.t = t, !.names = names]),
           ~req[r].won, pc \in {"approve_verify", "approve_write"} => signed # {},
           UNCHANGED <<row, signed, audited, told, disclosed, mishap>>
    PROVE  Sound'
<1>1. ASSUME NEW state \in {[Idle EXCEPT !.pc = pc, !.t = t],
                           [Idle EXCEPT !.pc = pc, !.t = t, !.form = form],
                           [Idle EXCEPT !.pc = pc, !.t = t, !.names = names]}
      PROVE  state.pc = pc /\ ~state.won /\ ~state.sweeps
  BY <1>1 DEF Idle
<1>2. QED
  BY <1>1, QuietMove

LEMMA BeginSound ==
    ASSUME FetchAssumption, IInv, NEW r \in Requests, Begin(r)
    PROVE  Sound'
<1>1. /\ ~req[r].won /\ req[r] = Idle
      /\ UNCHANGED <<row, signed, audited, told, disclosed, mishap>>
  BY IdleHolds DEF Begin, CreateRead, ApproveRead, DenyRead, ResumeRead, SweepScan
<1>2. "create_insert" \in QuietPCs /\ "settle" \in QuietPCs /\ "deny_write" \in QuietPCs
      /\ "claim_write" \in QuietPCs /\ "approve_verify" \in QuietPCs
  BY DEF QuietPCs
<1>3. CASE CreateRead(r)
 <2>1. PICK names : Becomes(r, [Idle EXCEPT !.pc = "create_insert", !.t = now, !.names = names])
   BY <1>3 DEF CreateRead, Becomes
 <2>2. QED
   BY <1>1, <1>2, <2>1, QuietBegin
<1>4. CASE ApproveRead(r)
 <2>1. PICK form \in signed :
           \/ Settle(r, now)
           \/ Becomes(r, [Idle EXCEPT !.pc = "approve_verify", !.t = now, !.form = form])
   BY <1>4 DEF ApproveRead, Becomes
 <2>2. CASE Settle(r, now)
  <3>1. Becomes(r, [Idle EXCEPT !.pc = "settle", !.t = now])
    BY <2>2 DEF Settle, Becomes
  <3>2. QED
    BY <1>1, <1>2, <3>1, QuietBegin
 <2>3. CASE Becomes(r, [Idle EXCEPT !.pc = "approve_verify", !.t = now, !.form = form])
   BY <1>1, <1>2, <2>3, QuietBegin
 <2>4. QED
   BY <2>1, <2>2, <2>3
<1>5. CASE DenyRead(r)
 <2>1. Becomes(r, [Idle EXCEPT !.pc = "deny_write", !.t = now])
   BY <1>5 DEF DenyRead, Becomes
 <2>2. QED
   BY <1>1, <1>2, <2>1, QuietBegin
<1>6. CASE ResumeRead(r)
 <2>1. Becomes(r, [Idle EXCEPT !.pc = "claim_write", !.t = now, !.form = KeyForm])
   BY <1>6 DEF ResumeRead, Becomes
 <2>2. QED
   BY <1>1, <1>2, <2>1, QuietBegin
<1>7. CASE SweepScan(r)
 <2>1. PICK pc : /\ Becomes(r, [Idle EXCEPT !.pc = pc, !.sweeps = TRUE])
                 /\ \/ pc = "sweep_settle"
                    \/ /\ pc = "audit" /\ row.status = "failed"
                       /\ row.code = "expired_unaudited"
                    \/ /\ pc = "sweep_delete" /\ ~Live /\ row.status \notin {"none", "swept"}
                       /\ ~(row.status = "failed" /\ row.code = "expired_unaudited")
   BY <1>7 DEF SweepScan, Becomes, Exists
 <2> DEFINE state == [Idle EXCEPT !.pc = pc, !.sweeps = TRUE]
 <2>2. state.pc = pc /\ ~state.won /\ state.sweeps /\ state.out = "expired"
   BY DEF Idle
 <2>3. req'[r] = state /\ \A q \in Requests : q # r => req'[q] = req[q]
   BY <2>1, RequestAfter DEF IInv
 <2> HIDE DEF state
 <2>4. CASE pc = "sweep_settle"
   BY <1>1, <2>1, <2>2, <2>4, QuietMove DEF state, QuietPCs
 <2>5. CASE pc # "sweep_settle"
  <3>1. \A q \in Requests : req'[q].won <=> req[q].won
    BY <1>1, <2>2, <2>3
  <3>2. \A q \in Requests : \A out : Auditing(q, out)' => Auditing(q, out) \/ out = "expired"
    BY <2>2, <2>3 DEF Auditing
  <3>3. LapseKnown' => row.status \in {"failed", "swept"} /\ row.code # "none"
    BY <1>1, <2>1, <2>2, <2>3, <2>5
       DEF IInv, Sound, FateSound, LapseKnown, Auditing
  <3>4. FateSound'
    BY <1>1, <3>1, <3>2, <3>3 DEF IInv, Sound, FateSound, DenialKnown, ConsentKnown, ClaimKnown
  <3>5. ClaimSound'
    BY <1>1, <2>1, <2>2, <2>3, <2>5, <3>1 DEF IInv, Sound, ClaimSound, Reveals
  <3>6. OfferSound'
    BY <1>1, <2>1, <2>2, <2>3, <2>5, <3>1 DEF IInv, Sound, OfferSound, ClaimKnown,
       RevealedAsSigned, DisclosureIsAudited, Auditing
  <3>7. row.code = "expired_unaudited" => row.status \in {"failed", "swept"}
    BY DEF IInv, Sound, FateSound
  <3>8. SweepSound'
    BY <1>1, <2>1, <2>2, <2>3, <2>5, <3>1, <3>7 DEF IInv, Sound, SweepSound, BurnedIsAccounted,
       Live, Auditing
  <3>9. QED
    BY <3>4, <3>5, <3>6, <3>8 DEF Sound
 <2>6. QED
   BY <2>4, <2>5
<1>8. QED
  BY <1>3, <1>4, <1>5, <1>6, <1>7 DEF Begin

(* A handler that answers and forgets, or goes on to settle a lapse. *)
LEMMA DoneSound ==
    ASSUME IInv, NEW r \in Requests, ~req[r].won, Done(r) \/ \E t \in Nat : Settle(r, t),
           UNCHANGED <<row, signed, audited, told, disclosed, mishap>>
    PROVE  Sound'
<1>1. CASE Done(r)
  BY <1>1, IdleHolds, QuietMove DEF Done, Becomes
<1>2. ASSUME NEW t \in Nat, Settle(r, t) PROVE Sound'
 <2>1. Becomes(r, [Idle EXCEPT !.pc = "settle", !.t = t]) /\ "settle" \in QuietPCs
   BY <1>2 DEF Settle, Becomes, QuietPCs
 <2>2. QED
   BY <2>1, QuietBegin
<1>3. QED
  BY <1>1, <1>2

LEMMA CreateSound ==
    ASSUME FetchAssumption, IInv, NEW r \in Requests,
           CreateInsert(r) \/ CreateSeal(r) \/ ApproveVerify(r)
    PROVE  Sound'
<1>1. ~req[r].won /\ ~req[r].sweeps /\ (req[r].pc = "approve_verify" => signed # {})
  BY DEF IInv, Sound, ClaimSound, OfferSound, SweepSound, CreateInsert, CreateSeal, ApproveVerify,
     Auditing
<1>2. ASSUME NEW pc \in QuietPCs, Goto(r, pc), pc = "approve_write" => signed # {},
             pc # "approve_verify",
             UNCHANGED <<row, signed, audited, told, disclosed, mishap>>
      PROVE  Sound'
 <2> DEFINE state == [req[r] EXCEPT !.pc = pc]
 <2>1. state.pc = pc /\ ~state.won /\ ~state.sweeps /\ Becomes(r, state)
   BY <1>1, <1>2 DEF IInv, TypeOK, Goto, Becomes
 <2> HIDE DEF state
 <2>2. QED
   BY <1>1, <1>2, <2>1, QuietMove
<1>3. CASE CreateInsert(r) /\ row.status # "none"
  BY <1>1, <1>3, DoneSound DEF CreateInsert
<1>4. CASE CreateInsert(r) /\ row.status = "none"
 <2>1. /\ row'.status = "pending" /\ row'.code = "none"
       /\ UNCHANGED <<signed, audited, told, disclosed, mishap>>
   BY <1>4 DEF CreateInsert
 <2>2. /\ req'[r].pc \in {"create_seal", "idle"} /\ ~req'[r].won /\ ~req'[r].sweeps
       /\ \A q \in Requests : q # r => req'[q] = req[q]
  <3>1. Goto(r, "create_seal") \/ Done(r)
    BY <1>4 DEF CreateInsert
  <3>2. CASE Goto(r, "create_seal")
    BY <1>1, <3>2 DEF IInv, TypeOK, Goto
  <3>3. CASE Done(r)
    BY <3>3, IdleHolds DEF IInv, TypeOK, Done
  <3>4. QED
    BY <3>1, <3>2, <3>3
 <2>3. ~DenialKnown /\ ~ConsentKnown /\ ~ClaimKnown /\ ~LapseKnown
   BY <1>4 DEF IInv, Sound, FateSound
 <2>4. ~DenialKnown' /\ ~ConsentKnown' /\ ~ClaimKnown' /\ ~LapseKnown'
   BY <2>1, <2>2, <2>3 DEF DenialKnown, ConsentKnown, ClaimKnown, LapseKnown, Auditing
 <2>5. FateSound'
   BY <2>1, <2>4 DEF FateSound
 <2>6. ClaimSound'
   BY <2>1, <2>2 DEF IInv, Sound, ClaimSound
 <2>7. OfferSound'
   BY <2>1, <2>2, <2>3, <2>4 DEF IInv, Sound, OfferSound, ClaimSound, ClaimKnown, RevealedAsSigned,
      DisclosureIsAudited, Auditing, Reveals
 <2>8. SweepSound'
   BY <1>4, <2>1, <2>2 DEF IInv, Sound, SweepSound, BurnedIsAccounted, Auditing
 <2>9. QED
   BY <2>5, <2>6, <2>7, <2>8 DEF Sound
<1>5. CASE CreateSeal(r)
  BY <1>1, <1>5, DoneSound DEF CreateSeal
<1>6. CASE ApproveVerify(r)
 <2>1. signed # {} /\ UNCHANGED <<row, signed, audited, told, disclosed, mishap>>
   BY <1>1, <1>6 DEF ApproveVerify
 <2>2. CASE Goto(r, "approve_write")
   BY <1>2, <2>1, <2>2 DEF QuietPCs
 <2>3. CASE Done(r)
   BY <1>1, <2>1, <2>3, DoneSound
 <2>4. QED
   BY <1>6, <2>2, <2>3 DEF ApproveVerify
<1>7. QED
  BY <1>3, <1>4, <1>5, <1>6

(* The first write of a decision: its audit row is on the way. *)
LEMMA DecideSound ==
    ASSUME IInv, NEW r \in Requests, NEW outcome \in {"approved", "denied", "expired"},
           NEW status, NEW code, ~req[r].won, Record(r, outcome),
           req[r].sweeps => outcome = "expired",
           row' = [row EXCEPT !.status = status, !.code = code],
           outcome = "approved" => row.status = "pending" /\ status = "approved"
                                   /\ code = "none" /\ signed # {},
           outcome = "denied" => row.status = "pending" /\ status = "denied" /\ code = "none",
           outcome = "expired" => Live /\ status = "failed"
                                  /\ code \in {"expired", "expired_unaudited"},
           UNCHANGED <<signed, audited, told, disclosed, mishap>>
    PROVE  Sound'
<1>1. /\ row.status \in {"pending", "approved"} /\ row'.status = status /\ row'.code = code
      /\ row'.names = row.names
  BY DEF IInv, TypeOK, Live
<1>2. /\ req'[r].pc = "audit" /\ req'[r].out = outcome /\ ~req'[r].won
      /\ req'[r].sweeps = req[r].sweeps
      /\ \A q \in Requests : q # r => req'[q] = req[q]
  BY DEF IInv, TypeOK, Record
<1>3. /\ \A q \in Requests : req'[q].won <=> req[q].won
      /\ \A q \in Requests : \A out : Auditing(q, out)' => Auditing(q, out) \/ out = outcome
  BY <1>2 DEF Auditing
<1>4. ~DenialKnown /\ ~ClaimKnown /\ ~LapseKnown /\ (row.status = "pending" => ~ConsentKnown)
  BY <1>1 DEF IInv, Sound, FateSound
<1>5. /\ ~ClaimKnown' /\ (outcome # "denied" => ~DenialKnown')
      /\ (outcome # "expired" => ~LapseKnown')
      /\ (outcome = "denied" => ~ConsentKnown')
  BY <1>3, <1>4 DEF DenialKnown, ConsentKnown, ClaimKnown, LapseKnown
<1>6. FateSound'
  BY <1>1, <1>5 DEF FateSound
<1>7. ClaimSound'
  BY <1>2, <1>3 DEF IInv, Sound, ClaimSound, Reveals
<1>8. OfferSound'
  BY <1>1, <1>2, <1>5 DEF IInv, Sound, OfferSound, RevealedAsSigned, DisclosureIsAudited, Auditing
<1>9. SweepSound'
  BY <1>1, <1>2 DEF IInv, Sound, SweepSound, BurnedIsAccounted, Auditing, Live
<1>10. QED
  BY <1>6, <1>7, <1>8, <1>9 DEF Sound

(* A repeated decision is answered from the row. *)
LEMMA TellSound ==
    ASSUME IInv, NEW r \in Requests, NEW decision \in {"approved", "denied"},
           row.status = decision, ~req[r].won, Done(r), told' = told \union {decision},
           UNCHANGED <<row, signed, audited, disclosed, mishap>>
    PROVE  Sound'
<1>1. /\ req'[r] = Idle /\ ~req'[r].won /\ req'[r].pc = "idle" /\ ~req'[r].sweeps
      /\ \A q \in Requests : q # r => req'[q] = req[q]
  BY IdleHolds DEF IInv, TypeOK, Done
<1>2. /\ \A q \in Requests : req'[q].won <=> req[q].won
      /\ \A q \in Requests : \A out : Auditing(q, out)' => Auditing(q, out)
  BY <1>1 DEF Auditing
<1>3. ~ClaimKnown /\ ~LapseKnown /\ row.code = "none"
      /\ (decision = "approved" => ~DenialKnown) /\ (decision = "denied" => ~ConsentKnown)
  BY DEF IInv, Sound, FateSound, TypeOK
<1>4. ~ClaimKnown' /\ ~LapseKnown'
      /\ (decision = "approved" => ~DenialKnown') /\ (decision = "denied" => ~ConsentKnown')
  BY <1>2, <1>3 DEF DenialKnown, ConsentKnown, ClaimKnown, LapseKnown
<1>5. FateSound'
  BY <1>3, <1>4 DEF FateSound
<1>6. ClaimSound'
  BY <1>1, <1>2 DEF IInv, Sound, ClaimSound, Reveals
<1>7. OfferSound'
  BY <1>1, <1>4 DEF IInv, Sound, OfferSound, RevealedAsSigned, DisclosureIsAudited, Auditing
<1>8. SweepSound'
  BY <1>1, <1>2 DEF IInv, Sound, SweepSound, BurnedIsAccounted, Auditing, Live
<1>9. QED
  BY <1>5, <1>6, <1>7, <1>8 DEF Sound

LEMMA WriteSound ==
    ASSUME FetchAssumption, IInv, NEW r \in Requests,
           ApproveWrite(r) \/ DenyWrite(r) \/ SettleExpired(r) \/ SweepSettle(r)
    PROVE  Sound'
<1>1. /\ ~req[r].won /\ (req[r].sweeps => SweepSettle(r)) /\ req[r].t \in Nat
      /\ (ApproveWrite(r) => signed # {})
      /\ UNCHANGED <<signed, audited, disclosed, mishap>>
  BY DEF IInv, TypeOK, Sound, ClaimSound, OfferSound, SweepSound, ApproveWrite, DenyWrite,
     SettleExpired, SweepSettle, Auditing
<1>2. row.status \in {"pending", "approved"} => row.code = "none"
  BY DEF IInv, TypeOK, Sound, FateSound
<1>3. ASSUME NEW status, NEW code, row.code = code, row' = [row EXCEPT !.status = status]
      PROVE  row' = [row EXCEPT !.status = status, !.code = code]
  BY <1>3 DEF IInv, TypeOK
<1>4. CASE ApproveWrite(r)
 <2>0. \/ /\ row.status = "pending" /\ row' = [row EXCEPT !.status = "approved"]
          /\ Record(r, "approved") /\ UNCHANGED told
       \/ /\ UNCHANGED row
          /\ \/ row.status = "approved" /\ Done(r) /\ told' = told \union {"approved"}
             \/ (Settle(r, req[r].t) \/ Done(r)) /\ UNCHANGED told
   BY <1>4 DEF ApproveWrite
 <2>1. CASE /\ row.status = "pending" /\ row' = [row EXCEPT !.status = "approved"]
            /\ Record(r, "approved") /\ UNCHANGED told
  <3>1. row' = [row EXCEPT !.status = "approved", !.code = "none"]
    BY <1>2, <1>3, <2>1
  <3>2. ~req[r].sweeps
    BY <1>4 DEF IInv, Sound, SweepSound, Auditing, ApproveWrite
  <3>3. QED
    BY <1>1, <1>4, <2>1, <3>1, <3>2, DecideSound
 <2>2. CASE /\ UNCHANGED row
            /\ \/ row.status = "approved" /\ Done(r) /\ told' = told \union {"approved"}
               \/ (Settle(r, req[r].t) \/ Done(r)) /\ UNCHANGED told
   BY <1>1, <2>2, DoneSound, TellSound
 <2>3. QED
   BY <2>0, <2>1, <2>2
<1>5. CASE DenyWrite(r)
 <2>1. CASE row.status = "pending" /\ ~LapsedAt(req[r].t)
  <3>1. /\ row' = [row EXCEPT !.status = "denied", !.code = "none"]
        /\ Record(r, "denied") /\ UNCHANGED told
    BY <1>2, <1>3, <1>5, <2>1 DEF DenyWrite
  <3>2. ~req[r].sweeps
    BY <1>5 DEF IInv, Sound, SweepSound, Auditing, DenyWrite
  <3>3. QED
    BY <1>1, <2>1, <3>1, <3>2, DecideSound
 <2>2. CASE ~(row.status = "pending" /\ ~LapsedAt(req[r].t))
  <3>1. /\ UNCHANGED row
        /\ \/ row.status = "denied" /\ Done(r) /\ told' = told \union {"denied"}
           \/ (Settle(r, req[r].t) \/ Done(r)) /\ UNCHANGED told
    BY <1>5, <2>2 DEF DenyWrite
  <3>2. QED
    BY <1>1, <3>1, DoneSound, TellSound
 <2>3. QED
   BY <2>1, <2>2
<1>6. CASE SettleExpired(r)
 <2>1. CASE Live /\ LapsedAt(req[r].t)
   BY <1>1, <1>6, <2>1, DecideSound DEF SettleExpired
 <2>2. CASE ~(Live /\ LapsedAt(req[r].t))
   BY <1>1, <1>6, <2>2, DoneSound DEF SettleExpired
 <2>3. QED
   BY <2>1, <2>2
<1>7. CASE SweepSettle(r)
 <2>1. CASE Live
   BY <1>1, <1>7, <2>1, DecideSound DEF SweepSettle
 <2>2. CASE ~Live
   BY <1>1, <1>7, <2>2, DoneSound DEF SweepSettle
 <2>3. QED
   BY <2>1, <2>2
<1>8. QED
  BY <1>4, <1>5, <1>6, <1>7

(* The claim: the one that finds the approval unspent holds the right. *)
LEMMA ClaimWriteSound ==
    ASSUME IInv, NEW r \in Requests, ClaimWrite(r)
    PROVE  Sound'
<1>0. PICK clock \in req[r].t .. now :
          LET won == row.status = "approved" /\ ~LapsedAt(clock)
          IN /\ row' = IF won THEN [row EXCEPT !.status = "consumed"] ELSE row
             /\ req' = [req EXCEPT ![r].pc = "claim_read", ![r].won = won]
  BY DEF ClaimWrite
<1> DEFINE won == row.status = "approved" /\ ~LapsedAt(clock)
           state == [req[r] EXCEPT !.pc = "claim_read", !.won = won]
<1>1. ~req[r].won /\ ~req[r].sweeps
  BY DEF IInv, Sound, ClaimSound, SweepSound, Auditing, ClaimWrite
<1>2. /\ Becomes(r, state) /\ UNCHANGED <<signed, audited, told, disclosed, mishap>>
      /\ row' = IF won THEN [row EXCEPT !.status = "consumed"] ELSE row
  BY <1>0 DEF ClaimWrite, Becomes
<1>3. state.pc = "claim_read" /\ (state.won <=> won) /\ ~state.sweeps
  BY <1>1 DEF IInv, TypeOK
<1>4. req'[r] = state /\ \A q \in Requests : q # r => req'[q] = req[q]
  BY <1>2, RequestAfter DEF IInv
<1> HIDE DEF state
<1>5. CASE ~won
  BY <1>1, <1>2, <1>3, <1>5, QuietMove DEF QuietPCs
<1>6. CASE won
 <2>1. row'.status = "consumed" /\ row'.code = row.code /\ row'.names = row.names
       /\ row.status = "approved" /\ row.code = "none"
   BY <1>2, <1>6 DEF IInv, TypeOK, Sound, FateSound
 <2>2. ~DenialKnown /\ ~ClaimKnown /\ ~LapseKnown
   BY <2>1 DEF IInv, Sound, FateSound
 <2>3. ~DenialKnown' /\ ~LapseKnown' /\ req'[r].won
   BY <1>2, <1>3, <1>4, <1>6, <2>2 DEF DenialKnown, LapseKnown, Auditing
 <2>4. FateSound'
   BY <2>1, <2>3 DEF FateSound
 <2>5. ClaimSound'
   BY <1>2, <1>3, <1>4, <2>2 DEF IInv, Sound, ClaimSound, ClaimKnown
 <2>6. OfferSound'
   BY <1>2, <1>3, <1>4, <2>1 DEF IInv, Sound, OfferSound, RevealedAsSigned, DisclosureIsAudited,
      Auditing
 <2>7. SweepSound'
   BY <1>2, <1>3, <1>4, <2>1, <2>3 DEF IInv, Sound, SweepSound, BurnedIsAccounted, Auditing, Live
 <2>8. QED
   BY <2>4, <2>5, <2>6, <2>7 DEF Sound
<1>7. QED
  BY <1>5, <1>6

(* A step that may give up the right, and never takes one. *)
LEMMA FateKept ==
    ASSUME IInv, UNCHANGED row,
           DenialKnown' => DenialKnown, ConsentKnown' => ConsentKnown,
           ClaimKnown' => ClaimKnown, LapseKnown' => LapseKnown
    PROVE  FateSound'
BY DEF IInv, Sound, FateSound

LEMMA ClaimReadSound ==
    ASSUME IInv, NEW r \in Requests, ClaimRead(r)
    PROVE  Sound'
<1>1. /\ UNCHANGED <<row, signed, audited, told, disclosed, mishap>> /\ ~req[r].sweeps
      /\ req[r].pc = "claim_read"
  BY DEF IInv, Sound, SweepSound, Auditing, ClaimRead
<1>2. (req[r].won => row.status \in {"consumed", "swept"}) /\ req[r].t \in Nat
  BY DEF IInv, TypeOK, Sound, FateSound, ClaimKnown
<1>3. \/ Exists /\ req[r].won
         /\ Becomes(r, [req[r] EXCEPT !.pc = "reveal", !.names = row.names])
      \/ ~req[r].won /\ (Settle(r, req[r].t) \/ Done(r))
      \/ req[r].won /\ row.status = "swept" /\ Done(r)
  BY <1>2 DEF ClaimRead, Exists, Becomes
<1>4. CASE ~req[r].won /\ (Settle(r, req[r].t) \/ Done(r))
  BY <1>1, <1>2, <1>4, DoneSound
<1>5. CASE /\ req[r].won
            /\ \/ row.status = "swept" /\ Done(r)
               \/ Becomes(r, [req[r] EXCEPT !.pc = "reveal", !.names = row.names])
 <2>1. /\ \/ row.status = "swept" /\ req'[r].pc = "idle" /\ ~req'[r].won
          \/ req'[r].pc = "reveal" /\ req'[r].won /\ req'[r].names = row.names
       /\ ~req'[r].sweeps
       /\ \A q \in Requests : q # r => req'[q] = req[q]
  <3>1. CASE row.status = "swept" /\ Done(r)
    BY <1>1, <3>1, IdleHolds DEF IInv, TypeOK, Done
  <3>2. CASE Becomes(r, [req[r] EXCEPT !.pc = "reveal", !.names = row.names])
    BY <1>1, <1>5, <3>2 DEF IInv, TypeOK, Becomes
  <3>3. QED
    BY <1>5, <3>1, <3>2
 <2>2. /\ \A q \in Requests : req'[q].won => req[q].won
       /\ \A q \in Requests : \A out : Auditing(q, out)' => Auditing(q, out)
   BY <1>5, <2>1 DEF Auditing
 <2>3. FateSound'
   BY <1>1, <2>2, FateKept DEF DenialKnown, ConsentKnown, ClaimKnown, LapseKnown
 <2>4. ClaimSound'
   BY <1>1, <2>1, <2>2 DEF IInv, Sound, ClaimSound
 <2>5. OfferSound'
   BY <1>1, <2>1, <2>2 DEF IInv, Sound, OfferSound, ClaimKnown, RevealedAsSigned,
      DisclosureIsAudited, Auditing
 <2>6. SweepSound'
   BY <1>1, <2>1 DEF IInv, Sound, SweepSound, BurnedIsAccounted, Auditing, Live
 <2>7. QED
   BY <2>3, <2>4, <2>5, <2>6 DEF Sound
<1>6. QED
  BY <1>3, <1>4, <1>5

(* What the vault hands out is part of what was approved. *)
LEMMA RevealSound ==
    ASSUME IInv, NEW r \in Requests, Reveal(r)
    PROVE  Sound'
<1>1. /\ UNCHANGED <<row, signed, audited, told, disclosed, mishap>>
      /\ req[r].won /\ ~req[r].sweeps /\ req[r].names \subseteq row.names
  BY DEF IInv, Sound, ClaimSound, OfferSound, SweepSound, Auditing, Reveal
<1>2. PICK out \in Reveals, names \in SUBSET Fields :
          /\ \/ Becomes(r, [req[r] EXCEPT !.pc = "audit", !.names = names, !.out = out])
             \/ Record(r, out) /\ out # "success"
          /\ out = "success" => names \subseteq req[r].names /\ names # {}
 <2>1. CASE Record(r, "rate_limited") \/ Record(r, "internal_error")
   BY <2>1 DEF Reveals
 <2>2. CASE ~(Record(r, "rate_limited") \/ Record(r, "internal_error"))
  <3> DEFINE out == CASE fields = {} -> "missing_credential"
                      [] fields # {} /\ Disclosable(r) = {} -> "field_set_changed"
                      [] OTHER -> "success"
  <3>1. Becomes(r, [req[r] EXCEPT !.pc = "audit", !.names = Disclosable(r), !.out = out])
    BY <2>2 DEF Reveal, Becomes
  <3>2. /\ out \in Reveals
        /\ out = "success" => Disclosable(r) \subseteq req[r].names /\ Disclosable(r) # {}
    BY DEF Reveals, Disclosable
  <3>3. Disclosable(r) \in SUBSET Fields
    BY DEF IInv, TypeOK, Disclosable
  <3>4. QED
    BY <3>1, <3>2, <3>3
 <2>3. QED
   BY <2>1, <2>2
<1>3. /\ req'[r].pc = "audit" /\ req'[r].won /\ ~req'[r].sweeps /\ req'[r].out = out
      /\ out = "success" => req'[r].names \subseteq row.names /\ req'[r].names # {}
      /\ \A q \in Requests : q # r => req'[q] = req[q]
 <2>1. CASE Becomes(r, [req[r] EXCEPT !.pc = "audit", !.names = names, !.out = out])
   BY <1>1, <1>2, <2>1 DEF IInv, TypeOK, Becomes
 <2>2. CASE Record(r, out) /\ out # "success"
   BY <1>1, <2>2 DEF IInv, TypeOK, Record
 <2>3. QED
   BY <1>2, <2>1, <2>2
<1>4. /\ \A q \in Requests : req'[q].won => req[q].won
      /\ \A q \in Requests : \A o : Auditing(q, o)' => Auditing(q, o) \/ o \in Reveals
  BY <1>1, <1>3 DEF Auditing
<1>5. FateSound'
  BY <1>1, <1>4, FateKept DEF DenialKnown, ConsentKnown, ClaimKnown, LapseKnown, Reveals
<1>6. ClaimSound'
  BY <1>1, <1>3, <1>4 DEF IInv, Sound, ClaimSound, Reveals
<1>7. OfferSound'
  BY <1>1, <1>3, <1>4 DEF IInv, Sound, OfferSound, ClaimKnown, RevealedAsSigned,
     DisclosureIsAudited, Auditing
<1>8. SweepSound'
  BY <1>1, <1>3 DEF IInv, Sound, SweepSound, BurnedIsAccounted, Auditing, Live
<1>9. QED
  BY <1>5, <1>6, <1>7, <1>8 DEF Sound

LEMMA AuditLandsSound ==
    ASSUME IInv, NEW r \in Requests, AuditLands(r)
    PROVE  Sound'
<1> DEFINE out == req[r].out
<1>1. /\ UNCHANGED <<row, signed, disclosed, mishap>> /\ Auditing(r, out) /\ out \in Outcomes
      /\ audited \in [Outcomes -> 0..2]
      /\ (req[r].sweeps => out = "expired") /\ (req[r].won <=> out \in Reveals)
      /\ told' = told \union ({out} \intersect {"approved", "denied"})
  BY DEF IInv, TypeOK, Sound, ClaimSound, SweepSound, Auditing, AuditLands, Reveals
<1>2. /\ audited'[out] > 0
      /\ \A o \in Outcomes : o # out => audited'[o] = audited[o]
      /\ \A o \in Outcomes : audited[o] > 0 => audited'[o] > 0
  BY <1>1 DEF AuditLands, Add
<1>3. /\ \/ out = "success" /\ Goto(r, "deliver")
         \/ out # "success" /\ req[r].sweeps /\ Goto(r, "sweep_clear")
         \/ out # "success" /\ ~req[r].sweeps /\ Done(r)
 <2>1. CASE out = "success"
   BY <1>1, <2>1 DEF AuditLands
 <2>2. CASE out # "success" /\ req[r].sweeps
   BY <2>2 DEF AuditLands
 <2>3. CASE out # "success" /\ ~req[r].sweeps
   BY <2>3 DEF AuditLands
 <2>4. QED
   BY <2>1, <2>2, <2>3
<1>4. /\ \/ out = "success" /\ req'[r].pc = "deliver" /\ req'[r].won /\ ~req'[r].sweeps
         \/ out = "expired" /\ req'[r].pc = "sweep_clear" /\ ~req'[r].won
         \/ out # "success" /\ req'[r].pc = "idle" /\ ~req'[r].won /\ ~req'[r].sweeps
      /\ out = "success" => req'[r].names = req[r].names
      /\ \A q \in Requests : q # r => req'[q] = req[q]
  BY <1>1, <1>3, IdleHolds DEF IInv, TypeOK, Goto, Done, Reveals
<1>5. /\ \A q \in Requests : req'[q].won => req[q].won
      /\ \A q \in Requests : \A o : Auditing(q, o)' => Auditing(q, o)
  BY <1>1, <1>4 DEF Auditing, Reveals
<1>6. FateSound'
  BY <1>1, <1>2, <1>5, FateKept
     DEF DenialKnown, ConsentKnown, ClaimKnown, LapseKnown, Outcomes
<1>7. ClaimSound'
  BY <1>1, <1>4, <1>5 DEF IInv, Sound, ClaimSound, Reveals
<1>8. "success" \in Outcomes
  BY DEF Outcomes
<1>9. OfferSound'
  BY <1>1, <1>2, <1>4, <1>5, <1>8 DEF IInv, Sound, OfferSound, ClaimKnown, RevealedAsSigned,
     DisclosureIsAudited, Auditing
<1>10. out = "expired" => row.status \in {"failed", "swept"} /\ row.code # "none"
  BY <1>1 DEF IInv, Sound, FateSound, LapseKnown
<1>11. row.status = "consumed" =>
          \/ \E o \in Outcomes \ {"approved", "denied", "expired"} : audited'[o] > 0
          \/ \E q \in Requests : req'[q].won
          \/ mishap'
 <2>1. CASE req[r].won
   BY <1>1, <1>2, <2>1 DEF Reveals
 <2>2. CASE ~req[r].won
   BY <1>1, <1>2, <1>4, <2>2 DEF IInv, Sound, SweepSound, BurnedIsAccounted
 <2>3. QED
   BY <2>1, <2>2
<1>12. SweepSound'
  BY <1>1, <1>4, <1>5, <1>10, <1>11 DEF IInv, Sound, SweepSound, BurnedIsAccounted, Auditing, Live
<1>13. QED
  BY <1>6, <1>7, <1>9, <1>12 DEF Sound

LEMMA AuditFailsSound ==
    ASSUME IInv, NEW r \in Requests, AuditFails(r)
    PROVE  Sound'
<1> DEFINE out == req[r].out
<1>1. /\ UNCHANGED <<row, signed, disclosed, told>> /\ Auditing(r, out) /\ out \in Outcomes
      /\ audited \in [Outcomes -> 0..2]
      /\ (req[r].sweeps => out = "expired") /\ (req[r].won <=> out \in Reveals)
  BY DEF IInv, TypeOK, Sound, ClaimSound, SweepSound, Auditing, AuditFails, Reveals
<1>2. /\ \A o \in Outcomes : o # out => audited'[o] = audited[o]
      /\ \A o \in Outcomes : audited[o] > 0 => audited'[o] > 0
  BY <1>1 DEF AuditFails, Add
<1>3. \/ req[r].won /\ Record(r, "internal_error") /\ UNCHANGED mishap
      \/ Done(r) /\ (req[r].won => mishap') /\ (mishap => mishap')
  BY <1>1 DEF AuditFails, Reveals
<1>4. /\ \/ req[r].won /\ req'[r].pc = "audit" /\ req'[r].out = "internal_error"
            /\ req'[r].won /\ ~req'[r].sweeps /\ UNCHANGED mishap
         \/ /\ req'[r].pc = "idle" /\ ~req'[r].won /\ ~req'[r].sweeps
            /\ (req[r].won => mishap') /\ (mishap => mishap')
      /\ \A q \in Requests : q # r => req'[q] = req[q]
  BY <1>1, <1>3, IdleHolds DEF IInv, TypeOK, Record, Done, Reveals
<1>5. /\ \A q \in Requests : req'[q].won => req[q].won
      /\ \A q \in Requests : \A o : Auditing(q, o)' => Auditing(q, o) \/ o = "internal_error"
  BY <1>1, <1>4 DEF Auditing
<1>6. FateSound'
  BY <1>1, <1>2, <1>5, FateKept
     DEF DenialKnown, ConsentKnown, ClaimKnown, LapseKnown, Outcomes
<1>7. ClaimSound'
  BY <1>1, <1>4, <1>5 DEF IInv, Sound, ClaimSound, Reveals
<1>8. "success" \in Outcomes
  BY DEF Outcomes
<1>9. OfferSound'
  BY <1>1, <1>2, <1>4, <1>5, <1>8 DEF IInv, Sound, OfferSound, ClaimKnown, RevealedAsSigned,
     DisclosureIsAudited, Auditing
<1>10. BurnedIsAccounted'
  BY <1>1, <1>2, <1>4 DEF IInv, Sound, SweepSound, BurnedIsAccounted
<1>11. SweepSound'
  BY <1>1, <1>4, <1>10 DEF IInv, Sound, SweepSound, Auditing, Live
<1>12. QED
  BY <1>6, <1>7, <1>9, <1>11 DEF Sound

LEMMA DeliverSound ==
    ASSUME IInv, NEW r \in Requests, Deliver(r)
    PROVE  Sound'
<1>1. /\ UNCHANGED <<row, signed, audited, told, mishap>>
      /\ req[r].pc = "deliver" /\ req[r].won /\ ~req[r].sweeps
      /\ req[r].names \subseteq row.names /\ req[r].names # {}
      /\ audited["success"] > 0 /\ signed # {} /\ ClaimKnown
  BY DEF IInv, Sound, ClaimSound, OfferSound, SweepSound, Auditing, Deliver, ClaimKnown
<1>2. disclosed = <<>>
  BY <1>1 DEF IInv, Sound, ClaimSound
<1>3. disclosed' = <<[via |-> req[r].form, names |-> req[r].names]>>
  BY <1>2 DEF Deliver
<1>4. Len(disclosed') = 1 /\ disclosed'[1].names = req[r].names /\ disclosed' # <<>>
  BY <1>3
<1>5. /\ req'[r].pc = "idle" /\ ~req'[r].won /\ ~req'[r].sweeps
      /\ \A q \in Requests : q # r => req'[q] = req[q] /\ ~req'[q].won
  BY <1>1, IdleHolds DEF IInv, TypeOK, Sound, ClaimSound, Deliver, Done
<1>6. /\ \A q \in Requests : ~req'[q].won
      /\ \A q \in Requests : \A o : Auditing(q, o)' => Auditing(q, o)
  BY <1>5 DEF Auditing
<1>7. FateSound'
  BY <1>1, <1>6, FateKept DEF DenialKnown, ConsentKnown, LapseKnown
<1>8. ClaimSound'
  BY <1>4, <1>5, <1>6 DEF IInv, Sound, ClaimSound, Reveals
<1>9. OfferSound'
  BY <1>1, <1>4, <1>5 DEF IInv, Sound, OfferSound, RevealedAsSigned, DisclosureIsAudited, Auditing
<1>10. "success" \in Outcomes \ {"approved", "denied", "expired"}
  BY DEF Outcomes
<1>11. SweepSound'
  BY <1>1, <1>5, <1>10 DEF IInv, Sound, SweepSound, BurnedIsAccounted, Auditing, Live
<1>12. QED
  BY <1>7, <1>8, <1>9, <1>11 DEF Sound

LEMMA SweepWriteSound ==
    ASSUME IInv, NEW r \in Requests, SweepClear(r) \/ SweepDelete(r)
    PROVE  Sound'
<1>1. /\ UNCHANGED <<signed, audited, told, disclosed, mishap>> /\ ~req[r].won
      /\ row.status \in {"denied", "consumed", "failed", "swept"}
  BY DEF IInv, TypeOK, Sound, ClaimSound, SweepSound, Live, Statuses, SweepClear, SweepDelete
<1>2. /\ row'.names = row.names
      /\ SweepClear(r) => /\ row'.status = row.status /\ row.code # "none"
                          /\ row.status \in {"failed", "swept"}
                          /\ row'.code \notin {"none", "expired_unaudited"}
      /\ SweepDelete(r) => /\ row'.status = "swept" /\ row'.code = row.code
                           /\ row.code # "expired_unaudited"
  BY DEF IInv, TypeOK, Sound, SweepSound, Codes, SweepClear, SweepDelete
<1>3. /\ ~req'[r].won
      /\ \/ SweepClear(r) /\ req'[r].pc = "sweep_delete"
         \/ SweepDelete(r) /\ req'[r].pc = "idle" /\ ~req'[r].sweeps
      /\ \A q \in Requests : q # r => req'[q] = req[q]
 <2>1. CASE SweepClear(r)
  <3>1. Goto(r, "sweep_delete")
    BY <2>1 DEF SweepClear
  <3>2. QED
    BY <1>1, <2>1, <3>1 DEF IInv, TypeOK, Goto
 <2>2. CASE SweepDelete(r)
  <3>1. Done(r)
    BY <2>2 DEF SweepDelete
  <3>2. QED
    BY <1>1, <2>2, <3>1, IdleHolds DEF IInv, TypeOK, Done
 <2>3. QED
   BY <2>1, <2>2
<1>4. /\ \A q \in Requests : req'[q].won <=> req[q].won
      /\ \A q \in Requests : \A o : Auditing(q, o)' => Auditing(q, o)
  BY <1>1, <1>3 DEF Auditing
<1>5. /\ DenialKnown' => DenialKnown
      /\ ConsentKnown' => ConsentKnown
      /\ ClaimKnown' => ClaimKnown
      /\ LapseKnown' => LapseKnown
  BY <1>1, <1>4 DEF DenialKnown, ConsentKnown, ClaimKnown, LapseKnown
<1>6. FateSound'
  BY <1>1, <1>2, <1>5 DEF IInv, Sound, FateSound
<1>7. ClaimSound'
  BY <1>1, <1>3, <1>4 DEF IInv, Sound, ClaimSound, Reveals
<1>8. OfferSound'
  BY <1>1, <1>2, <1>3, <1>5 DEF IInv, Sound, OfferSound, RevealedAsSigned, DisclosureIsAudited,
     Auditing
<1>9. SweepSound'
  BY <1>1, <1>2, <1>3 DEF IInv, Sound, SweepSound, BurnedIsAccounted, Auditing, Live
<1>10. QED
  BY <1>6, <1>7, <1>8, <1>9 DEF Sound

LEMMA CrashSound ==
    ASSUME IInv, NEW r \in Requests, Crash(r)
    PROVE  Sound'
<1>1. /\ UNCHANGED <<row, signed, audited, told, disclosed>>
      /\ (req[r].won => mishap') /\ (mishap => mishap')
  BY DEF Crash
<1>2. /\ req'[r].pc = "idle" /\ ~req'[r].won /\ ~req'[r].sweeps
      /\ \A q \in Requests : q # r => req'[q] = req[q]
  BY IdleHolds DEF IInv, TypeOK, Crash, Done
<1>3. /\ \A q \in Requests : req'[q].won => req[q].won
      /\ \A q \in Requests : \A o : Auditing(q, o)' => Auditing(q, o)
  BY <1>2 DEF Auditing
<1>4. FateSound'
  BY <1>1, <1>3, FateKept DEF DenialKnown, ConsentKnown, ClaimKnown, LapseKnown
<1>5. ClaimSound'
  BY <1>1, <1>2, <1>3 DEF IInv, Sound, ClaimSound, Reveals
<1>6. OfferSound'
  BY <1>1, <1>2, <1>3 DEF IInv, Sound, OfferSound, ClaimKnown, RevealedAsSigned,
     DisclosureIsAudited, Auditing
<1>7. SweepSound'
  BY <1>1, <1>2 DEF IInv, Sound, SweepSound, BurnedIsAccounted, Auditing, Live
<1>8. QED
  BY <1>4, <1>5, <1>6, <1>7 DEF Sound

(* The page and the owner touch none of it, but for one more signature. *)
LEMMA ElsewhereSound ==
    ASSUME IInv, UNCHANGED <<row, audited, req, told, disclosed, mishap>>, signed \subseteq signed'
    PROVE  Sound'
<1>1. FateSound'
  BY FateKept DEF DenialKnown, ConsentKnown, ClaimKnown, LapseKnown, Auditing
<1>2. ClaimSound'
  BY DEF IInv, Sound, ClaimSound
<1>3. OfferSound'
  BY DEF IInv, Sound, OfferSound, ClaimKnown, RevealedAsSigned, DisclosureIsAudited, Auditing
<1>4. SweepSound'
  BY DEF IInv, Sound, SweepSound, BurnedIsAccounted, Auditing, Live
<1>5. QED
  BY <1>1, <1>2, <1>3, <1>4 DEF Sound

LEMMA InitInv == FetchAssumption /\ Init => IInv
<1> SUFFICES ASSUME FetchAssumption, Init PROVE IInv
  OBVIOUS
<1>1. /\ row.status = "none" /\ row.code = "none" /\ disclosed = <<>> /\ told = {}
      /\ \A r \in Requests : req[r].pc = "idle" /\ ~req[r].won /\ ~req[r].sweeps
      /\ \A o \in Outcomes : audited[o] = 0
  BY IdleHolds DEF Init
<1>2. FateSound
  BY <1>1 DEF FateSound, DenialKnown, ConsentKnown, ClaimKnown, LapseKnown, Auditing, Outcomes
<1>3. Len(disclosed) = 0
  BY <1>1
<1>4. ClaimSound
  BY <1>1, <1>3 DEF ClaimSound
<1>5. OfferSound
  BY <1>1, <1>3 DEF OfferSound, ClaimKnown, RevealedAsSigned, DisclosureIsAudited, Auditing
<1>6. SweepSound
  BY <1>1 DEF SweepSound, BurnedIsAccounted, Auditing
<1>7. QED
  BY <1>2, <1>4, <1>5, <1>6, InitType DEF IInv, Sound

LEMMA InvNext == FetchAssumption /\ IInv /\ [Next]_vars => IInv'
<1> SUFFICES ASSUME FetchAssumption, IInv, [Next]_vars PROVE IInv'
  OBVIOUS
<1>1. TypeOK'
  BY TypeNext DEF IInv
<1> SUFFICES Sound'
  BY <1>1 DEF IInv
<1>2. ASSUME NEW r \in Requests, Begin(r) \/ Continue(r) \/ Crash(r) PROVE Sound'
  BY <1>2, BeginSound, CreateSound, WriteSound, ClaimWriteSound, ClaimReadSound, RevealSound,
     AuditLandsSound, AuditFailsSound, DeliverSound, SweepWriteSound, CrashSound DEF Continue
<1>3. CASE CreateReuses \/ Sign \/ ChangeFields \/ Tick \/ UNCHANGED vars
 <2>1. UNCHANGED <<row, audited, req, told, disclosed, mishap>>
   BY <1>3 DEF CreateReuses, Sign, ChangeFields, Tick, vars
 <2>2. signed \subseteq signed'
   BY <1>3 DEF CreateReuses, Sign, ChangeFields, Tick, vars
 <2>3. QED
   BY <2>1, <2>2, ElsewhereSound
<1>4. QED
  BY <1>2, <1>3 DEF Next

-----------------------------------------------------------------------------
(* The theorems. *)

LEMMA InvSafe ==
    IInv => /\ TypeOK /\ RevealedOnce /\ RevealedAsSigned /\ DenialIsFinal /\ ExpiryIsTrue
            /\ DisclosureIsAudited /\ BurnedIsAccounted
<1> SUFFICES ASSUME IInv
             PROVE  /\ TypeOK /\ RevealedOnce /\ RevealedAsSigned /\ DenialIsFinal /\ ExpiryIsTrue
                    /\ DisclosureIsAudited /\ BurnedIsAccounted
  OBVIOUS
<1>1. /\ TypeOK /\ RevealedOnce /\ RevealedAsSigned /\ DisclosureIsAudited /\ BurnedIsAccounted
  BY DEF IInv, Sound, ClaimSound, OfferSound, SweepSound, RevealedOnce
<1>2. DenialIsFinal
  BY DEF IInv, Sound, FateSound, DenialIsFinal, DenialKnown, ConsentKnown, ClaimKnown
<1>3. audited["expired"] > 0 => disclosed = <<>> /\ ~(audited["denied"] > 0)
  BY DEF IInv, Sound, FateSound, DenialKnown, ClaimKnown, LapseKnown
<1>4. audited["denied"] \in 0..2
  BY DEF IInv, TypeOK, Outcomes
<1>5. ExpiryIsTrue
  BY <1>3, <1>4 DEF ExpiryIsTrue
<1>6. QED
  BY <1>1, <1>2, <1>5

(* A row parked for its audit is not deleted at all. *)
LEMMA InvParked ==
    ASSUME IInv, [Next]_vars, row.code = "expired_unaudited"
    PROVE  row'.status # "swept"
<1>1. row.status = "failed"
  BY DEF IInv, Sound, FateSound, SweepSound
<1>2. ASSUME NEW r \in Requests PROVE ~SweepDelete(r)
  BY DEF IInv, Sound, SweepSound, SweepDelete
<1>3. ASSUME NEW r \in Requests, Continue(r) PROVE row'.status # "swept"
  BY <1>1, <1>2, <1>3 DEF IInv, TypeOK, Continue, Live, CreateInsert, CreateSeal, ApproveVerify,
     ApproveWrite, DenyWrite, SettleExpired, ClaimWrite, ClaimRead, Reveal, AuditLands,
     AuditFails, Deliver, SweepSettle, SweepClear
<1>4. ASSUME NEW r \in Requests, Begin(r) \/ Crash(r) PROVE row'.status # "swept"
  BY <1>1, <1>4 DEF Begin, Crash, CreateRead, ApproveRead, DenyRead, ResumeRead, SweepScan
<1>5. QED
  BY <1>1, <1>3, <1>4 DEF Next, vars, CreateReuses, Sign, ChangeFields, Tick

(* Whatever is created, decided, claimed, swept and lost at the same time:  *)
(* each answer, audit row and request in flight tells the one fate of the   *)
(* approval, and one request at most holds the right to reveal.             *)
THEOREM FetchIsSound == FetchAssumption => (Spec => []IInv)
<1> SUFFICES ASSUME FetchAssumption PROVE Spec => []IInv
  OBVIOUS
<1>1. Init => IInv
  BY InitInv
<1>2. IInv /\ [Next]_vars => IInv'
  BY InvNext
<1>3. QED
  BY <1>1, <1>2, PTL DEF Spec

(* credential-fetch.ts and its sweep: an approval releases the secret once, *)
(* at most what was signed for, never after a denial or an expiry in the    *)
(* audit, with its audit row first; a lapse is not forgotten unaudited.     *)
THEOREM FetchesAreSafe == FetchAssumption => (Spec => FetchSafe)
<1> SUFFICES ASSUME FetchAssumption PROVE Spec => FetchSafe
  OBVIOUS
<1>1. Spec => []IInv
  BY FetchIsSound
<1>2. IInv => /\ TypeOK /\ RevealedOnce /\ RevealedAsSigned /\ DenialIsFinal /\ ExpiryIsTrue
              /\ DisclosureIsAudited /\ BurnedIsAccounted
  BY InvSafe
<1>3. IInv /\ [Next]_vars =>
          [row.code = "expired_unaudited" /\ row'.status = "swept" => audited["expired"] > 0]_vars
  BY InvParked
<1>4. QED
  BY <1>1, <1>2, <1>3, PTL DEF Spec, FetchSafe, ParkedIsKept

-----------------------------------------------------------------------------
(* The refinement of OneTimeSecret, step by step. *)

LEMMA RightIs ==
    /\ disclosed # <<>> => Right = "used"
    /\ disclosed = <<>> /\ (\E q \in Requests : req[q].won) => Right = "held"
    /\ disclosed = <<>> /\ ~(\E q \in Requests : req[q].won) => Right = "none"
BY DEF Right

LEMMA RightBecomes ==
    /\ disclosed' # <<>> => Right' = "used"
    /\ disclosed' = <<>> /\ (\E q \in Requests : req'[q].won) => Right' = "held"
    /\ disclosed' = <<>> /\ ~(\E q \in Requests : req'[q].won) => Right' = "none"
BY DEF Right

(* A request may lose the right, or none of it changes hands. *)
LEMMA RightOrLost ==
    ASSUME IInv, NEW r \in Requests, UNCHANGED disclosed, req'[r].won => req[r].won,
           \A q \in Requests : q # r => req'[q] = req[q]
    PROVE  /\ Right' = Right \/ (Right = "held" /\ Right' = "none")
           /\ ~req[r].won => Right' = Right
<1>1. CASE disclosed # <<>>
  BY <1>1, RightIs, RightBecomes
<1>2. CASE disclosed = <<>> /\ (req[r].won => req'[r].won)
 <2>1. (\E q \in Requests : req'[q].won) <=> \E q \in Requests : req[q].won
   BY <1>2
 <2>2. QED
   BY <1>2, <2>1, RightIs, RightBecomes
<1>3. CASE disclosed = <<>> /\ req[r].won /\ ~req'[r].won
 <2>1. (\E q \in Requests : req[q].won) /\ ~\E q \in Requests : req'[q].won
   BY <1>3 DEF IInv, Sound, ClaimSound
 <2>2. QED
   BY <1>3, <2>1, RightIs, RightBecomes
<1>4. QED
  BY <1>1, <1>2, <1>3

LEMMA HandlerRight ==
    ASSUME IInv, NEW r \in Requests, UNCHANGED disclosed,
           \/ Done(r) \/ \E pc \in PCs : Goto(r, pc)
           \/ \E t \in Nat : Settle(r, t) \/ \E out \in Outcomes : Record(r, out)
    PROVE  /\ Right' = Right \/ (Right = "held" /\ Right' = "none")
           /\ ~req[r].won => Right' = Right
<1>1. (req'[r].won => req[r].won) /\ \A q \in Requests : q # r => req'[q] = req[q]
 <2>1. CASE Done(r)
   BY <2>1, IdleHolds DEF IInv, TypeOK, Done
 <2>2. ASSUME NEW pc, Goto(r, pc)
       PROVE  (req'[r].won => req[r].won) /\ \A q \in Requests : q # r => req'[q] = req[q]
   BY <2>2 DEF IInv, TypeOK, Goto
 <2>3. ASSUME NEW t, Settle(r, t)
       PROVE  (req'[r].won => req[r].won) /\ \A q \in Requests : q # r => req'[q] = req[q]
   BY <2>3 DEF IInv, TypeOK, Settle, Idle
 <2>4. ASSUME NEW out, Record(r, out)
       PROVE  (req'[r].won => req[r].won) /\ \A q \in Requests : q # r => req'[q] = req[q]
  <3>1. Becomes(r, [req[r] EXCEPT !.pc = "audit", !.out = out])
    BY <2>4 DEF Record, Becomes
  <3>2. [req[r] EXCEPT !.pc = "audit", !.out = out].won = req[r].won
    BY DEF IInv, TypeOK
  <3>3. QED
    BY <3>1, <3>2, RequestAfter DEF IInv
 <2>5. QED
   BY <2>1, <2>2, <2>3, <2>4
<1>2. QED
  BY <1>1, RightOrLost

StepsSecret == [Secret!Next]_<<Decision, Right>>

LEMMA StutterOrLose ==
    ASSUME Decision' = Decision, Right' = Right \/ (Right = "held" /\ Right' = "none")
    PROVE  StepsSecret
BY DEF StepsSecret, Secret!Next, Secret!Lose

LEMMA BeginRefines ==
    ASSUME FetchAssumption, IInv, NEW r \in Requests, Begin(r)
    PROVE  StepsSecret
<1>1. UNCHANGED <<row, disclosed>> /\ ~req[r].won
  BY IdleHolds DEF Begin, CreateRead, ApproveRead, DenyRead, ResumeRead, SweepScan
<1>2. \E state : Becomes(r, state) /\ ~state.won
 <2>1. ASSUME NEW pc, NEW t, NEW form, NEW names
       PROVE  /\ ~[Idle EXCEPT !.pc = pc, !.t = t].won
              /\ ~[Idle EXCEPT !.pc = pc, !.t = t, !.form = form].won
              /\ ~[Idle EXCEPT !.pc = pc, !.t = t, !.names = names].won
              /\ ~[Idle EXCEPT !.pc = pc, !.sweeps = TRUE].won
   BY DEF Idle
 <2>2. CASE CreateRead(r)
  <3>1. PICK names :
            Becomes(r, [Idle EXCEPT !.pc = "create_insert", !.t = now, !.names = names])
    BY <2>2 DEF CreateRead, Becomes
  <3>2. QED
    BY <2>1, <3>1
 <2>3. CASE ApproveRead(r)
  <3>1. PICK form :
            \/ Becomes(r, [Idle EXCEPT !.pc = "settle", !.t = now])
            \/ Becomes(r, [Idle EXCEPT !.pc = "approve_verify", !.t = now, !.form = form])
    BY <2>3 DEF ApproveRead, Becomes, Settle
  <3>2. QED
    BY <2>1, <3>1
 <2>4. CASE DenyRead(r) \/ ResumeRead(r)
  <3>1. \/ Becomes(r, [Idle EXCEPT !.pc = "deny_write", !.t = now])
        \/ Becomes(r, [Idle EXCEPT !.pc = "claim_write", !.t = now, !.form = KeyForm])
    BY <2>4 DEF DenyRead, ResumeRead, Becomes
  <3>2. QED
    BY <2>1, <3>1
 <2>5. CASE SweepScan(r)
   BY <2>1, <2>5 DEF SweepScan, Becomes
 <2>6. QED
   BY <2>2, <2>3, <2>4, <2>5 DEF Begin
<1>3. ~req'[r].won /\ \A q \in Requests : q # r => req'[q] = req[q]
  BY <1>2, RequestAfter DEF IInv
<1>4. Right' = Right
  BY <1>1, <1>3, RightOrLost
<1>5. Decision' = Decision
  BY <1>1 DEF Decision
<1>6. QED
  BY <1>4, <1>5, StutterOrLose

(* A decision, a lapse and a deletion leave the right where it is. *)
LEMMA DecideRefines ==
    ASSUME FetchAssumption, IInv, NEW r \in Requests,
           \/ CreateInsert(r) \/ ApproveWrite(r) \/ DenyWrite(r) \/ SettleExpired(r)
           \/ SweepSettle(r) \/ SweepClear(r) \/ SweepDelete(r)
    PROVE  StepsSecret
<1>1. ~req[r].won /\ UNCHANGED disclosed /\ req[r].t \in Nat
  BY DEF IInv, TypeOK, Sound, ClaimSound, CreateInsert, ApproveWrite, DenyWrite, SettleExpired,
     SweepSettle, SweepClear, SweepDelete
<1>2. Right' = Right
  BY <1>1, HandlerRight DEF CreateInsert, ApproveWrite, DenyWrite, SettleExpired,
     SweepSettle, SweepClear, SweepDelete, PCs, Outcomes
<1>3. row.status \in Statuses
  BY DEF IInv, TypeOK
<1>4. CASE CreateInsert(r)
 <2>1. row' = row \/ (row.status = "none" /\ row'.status = "pending")
   BY <1>4 DEF CreateInsert
 <2>2. Decision' = Decision
   BY <2>1 DEF Decision
 <2>3. QED
   BY <1>2, <2>2, StutterOrLose
<1>5. CASE ApproveWrite(r)
 <2>1. row' = row \/ (row.status = "pending" /\ row'.status = "approved")
   BY <1>5 DEF IInv, TypeOK, ApproveWrite
 <2>2. Decision' = Decision \/ (Decision = "open" /\ Decision' = "granted")
   BY <2>1 DEF Decision
 <2>3. QED
   BY <1>2, <2>2 DEF StepsSecret, Secret!Next, Secret!Grant
<1>6. CASE DenyWrite(r) \/ SettleExpired(r) \/ SweepSettle(r)
 <2>1. row' = row \/ (Live /\ row'.status \in {"denied", "failed"})
   BY <1>6 DEF IInv, TypeOK, DenyWrite, SettleExpired, SweepSettle, Live
 <2>2. Decision' = Decision \/ (Decision \in {"open", "granted"} /\ Decision' = "closed")
   BY <2>1 DEF Decision, Live
 <2>3. QED
   BY <1>2, <2>2 DEF StepsSecret, Secret!Next, Secret!Close
<1>7. CASE SweepClear(r)
 <2>1. row'.status = row.status
   BY <1>7 DEF IInv, TypeOK, SweepClear
 <2>2. Decision' = Decision
   BY <2>1 DEF Decision
 <2>3. QED
   BY <1>2, <2>2, StutterOrLose
<1>8. CASE SweepDelete(r)
 <2>1. row'.status = "swept" /\ row.status \in {"denied", "consumed", "failed", "swept"}
   BY <1>3, <1>8 DEF IInv, TypeOK, Sound, SweepSound, SweepDelete, Live, Statuses
 <2>2. Decision \in {"spent", "closed", "forgotten"} /\ Decision' = "forgotten"
   BY <2>1 DEF Decision
 <2>3. QED
   BY <1>2, <2>2 DEF StepsSecret, Secret!Next, Secret!Forget
<1>9. QED
  BY <1>4, <1>5, <1>6, <1>7, <1>8

LEMMA SpendRefines ==
    ASSUME IInv, NEW r \in Requests, ClaimWrite(r)
    PROVE  StepsSecret
<1>0. PICK clock \in req[r].t .. now :
          LET won == row.status = "approved" /\ ~LapsedAt(clock)
          IN /\ row' = IF won THEN [row EXCEPT !.status = "consumed"] ELSE row
             /\ req' = [req EXCEPT ![r].pc = "claim_read", ![r].won = won]
  BY DEF ClaimWrite
<1> DEFINE won == row.status = "approved" /\ ~LapsedAt(clock)
           state == [req[r] EXCEPT !.pc = "claim_read", !.won = won]
<1>1. /\ ~req[r].won /\ UNCHANGED disclosed /\ Becomes(r, state)
      /\ row' = IF won THEN [row EXCEPT !.status = "consumed"] ELSE row
  BY <1>0 DEF IInv, Sound, ClaimSound, ClaimWrite, Becomes
<1>2. /\ (req'[r].won <=> won)
      /\ \A q \in Requests : q # r => req'[q] = req[q]
 <2>1. state.won <=> won
   BY DEF IInv, TypeOK
 <2>2. QED
   BY <1>1, <2>1, RequestAfter DEF IInv
<1>3. CASE ~won
 <2>1. Right' = Right
   BY <1>1, <1>2, <1>3, RightOrLost
 <2>2. Decision' = Decision
   BY <1>1, <1>3 DEF Decision
 <2>3. QED
   BY <2>1, <2>2, StutterOrLose
<1>4. CASE won
 <2>1. row.status = "approved" /\ row'.status = "consumed" /\ ~ClaimKnown
   BY <1>1, <1>4 DEF IInv, TypeOK, Sound, FateSound
 <2>2. Decision = "granted" /\ Decision' = "spent"
   BY <2>1 DEF Decision
 <2>3. Right = "none" /\ Right' = "held"
   BY <1>1, <1>2, <1>4, <2>1, RightIs, RightBecomes DEF ClaimKnown
 <2>4. QED
   BY <2>2, <2>3 DEF StepsSecret, Secret!Next, Secret!Spend
<1>5. QED
  BY <1>3, <1>4

LEMMA HolderRefines ==
    ASSUME IInv, NEW r \in Requests,
           \/ CreateSeal(r) \/ ApproveVerify(r) \/ ClaimRead(r) \/ Reveal(r)
           \/ AuditLands(r) \/ AuditFails(r) \/ Crash(r)
    PROVE  StepsSecret
<1>1. UNCHANGED <<row, disclosed>>
  BY DEF CreateSeal, ApproveVerify, ClaimRead, Reveal, AuditLands, AuditFails, Crash
<1>2. Decision' = Decision
  BY <1>1 DEF Decision
<1>3. ASSUME NEW pc, NEW names, NEW out,
             \/ Becomes(r, [req[r] EXCEPT !.pc = pc, !.names = names])
             \/ Becomes(r, [req[r] EXCEPT !.pc = pc, !.names = names, !.out = out])
      PROVE  StepsSecret
 <2>1. (req'[r].won => req[r].won) /\ \A q \in Requests : q # r => req'[q] = req[q]
  <3>1. /\ [req[r] EXCEPT !.pc = pc, !.names = names].won = req[r].won
        /\ [req[r] EXCEPT !.pc = pc, !.names = names, !.out = out].won = req[r].won
    BY DEF IInv, TypeOK
  <3>2. QED
    BY <1>3, <3>1, RequestAfter DEF IInv
 <2>2. QED
   BY <1>1, <1>2, <2>1, RightOrLost, StutterOrLose
<1>4. ASSUME \/ Done(r) \/ \E pc \in PCs : Goto(r, pc)
             \/ \E t \in Nat : Settle(r, t) \/ \E out \in Outcomes : Record(r, out)
      PROVE  StepsSecret
  BY <1>1, <1>2, <1>4, HandlerRight, StutterOrLose
<1>5. CASE CreateSeal(r) \/ ApproveVerify(r) \/ Crash(r)
  BY <1>4, <1>5 DEF CreateSeal, ApproveVerify, Crash, PCs
<1>6. CASE ClaimRead(r)
 <2>1. req[r].t \in Nat
   BY DEF IInv, TypeOK
 <2>2. \/ Becomes(r, [req[r] EXCEPT !.pc = "reveal", !.names = row.names])
       \/ Settle(r, req[r].t) \/ Done(r)
   BY <1>6 DEF ClaimRead, Becomes
 <2>3. QED
   BY <1>3, <1>4, <2>1, <2>2
<1>7. CASE Reveal(r)
 <2>1. \/ \E out : Becomes(r, [req[r] EXCEPT !.pc = "audit", !.names = Disclosable(r),
                                            !.out = out])
       \/ \E out \in Outcomes : Record(r, out)
   BY <1>7 DEF Reveal, Becomes, Outcomes
 <2>2. QED
   BY <1>3, <1>4, <2>1
<1>8. CASE AuditLands(r) \/ AuditFails(r)
  BY <1>4, <1>8 DEF AuditLands, AuditFails, PCs, Outcomes
<1>9. QED
  BY <1>5, <1>6, <1>7, <1>8

LEMMA HandOutRefines ==
    ASSUME IInv, NEW r \in Requests, Deliver(r)
    PROVE  StepsSecret
<1>1. UNCHANGED row /\ req[r].won
  BY DEF IInv, Sound, ClaimSound, Deliver
<1>2. disclosed = <<>>
  BY <1>1 DEF IInv, Sound, ClaimSound
<1>3. disclosed' # <<>>
  BY <1>2 DEF Deliver
<1>4. Decision' = Decision /\ Right = "held" /\ Right' = "used"
  BY <1>1, <1>2, <1>3, RightIs, RightBecomes DEF Decision
<1>5. QED
  BY <1>4 DEF StepsSecret, Secret!Next, Secret!HandOut

LEMMA StepRefines == FetchAssumption /\ IInv /\ [Next]_vars => StepsSecret
<1> SUFFICES ASSUME FetchAssumption, IInv, [Next]_vars PROVE StepsSecret
  OBVIOUS
<1>1. ASSUME NEW r \in Requests, Begin(r) \/ Continue(r) \/ Crash(r) PROVE StepsSecret
  BY <1>1, BeginRefines, DecideRefines, SpendRefines, HolderRefines, HandOutRefines DEF Continue
<1>2. CASE CreateReuses \/ Sign \/ ChangeFields \/ Tick \/ UNCHANGED vars
 <2>1. UNCHANGED <<row, req, disclosed>>
   BY <1>2 DEF CreateReuses, Sign, ChangeFields, Tick, vars
 <2>2. Decision' = Decision /\ Right' = Right
   BY <2>1, RightIs, RightBecomes DEF Decision
 <2>3. QED
   BY <2>2, StutterOrLose
<1>3. QED
  BY <1>1, <1>2 DEF Next

LEMMA InitRefines == Init => Secret!Init
<1> SUFFICES ASSUME Init PROVE Secret!Init
  OBVIOUS
<1>1. row.status = "none" /\ disclosed = <<>> /\ \A r \in Requests : ~req[r].won
  BY IdleHolds DEF Init
<1>2. QED
  BY <1>1, RightIs DEF Secret!Init, Decision

(* The handlers, the audit and the sweep together hand out a one-time       *)
(* secret: every step of theirs is a step of OneTimeSecret, or none.        *)
THEOREM FetchImplementsSecret == FetchAssumption => (Spec => FetchIsOneTime)
<1> SUFFICES ASSUME FetchAssumption PROVE Spec => FetchIsOneTime
  OBVIOUS
<1>1. Spec => []IInv
  BY FetchIsSound
<1>2. Init => Secret!Init
  BY InitRefines
<1>3. IInv /\ [Next]_vars => [Secret!Next]_Secret!vars
  BY StepRefines DEF StepsSecret, Secret!vars
<1>4. QED
  BY <1>1, <1>2, <1>3, PTL DEF Spec, FetchIsOneTime, Secret!Spec
=============================================================================
