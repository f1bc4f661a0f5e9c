----------------------- MODULE CredentialMutation_proofs -----------------------
(***************************************************************************)
(* Theorems about CredentialMutation for every set of approvals, requests, *)
(* credentials and labels: a mutation is applied at most once, as it was   *)
(* signed, and never after a denial was answered.  And about CardMutation, *)
(* for every set of approvals, pages and faces: the same of an edit, over  *)
(* the face that was seen.                                                 *)
(***************************************************************************)
EXTENDS CredentialMutation, CardMutation, TLAPS

(* The state of an approval, its audit rows and the answers given about it. *)
ApprovalOK(a) ==
    /\ appr[a].status # "none" => appr[a].cred \in Credentials /\ appr[a].before \in Labels
    /\ appr[a].status = "none" => a \notin signed
    /\ audit[a] <= 1
    /\ appr[a].status = "approved" => audit[a] = 1
    /\ audit[a] = 1 => appr[a].status \in {"approved", "swept"}
    /\ <<a, "approved">> \in told => audit[a] = 1
    /\ <<a, "denied">> \in told => audit[a] = 0 /\ appr[a].status \in {"denied", "swept"}

(* An approval about to be inserted is known to its request alone. *)
InsertOK(r) ==
    /\ appr[req[r].ap].status = "none"
    /\ req[r].draft.status = "pending"
    /\ req[r].draft.cred \in Credentials /\ req[r].draft.before \in Labels
    /\ \A q \in Requests : req[q].pc # "idle" /\ req[q].ap = req[r].ap => q = r

(* The transaction that read the credential holds the lock of its approval, *)
(* so nobody else decides it before the transaction ends.                   *)
CommitOK(r) ==
    /\ req[r].ap \in locked /\ req[r].ap \in signed
    /\ appr[req[r].ap].status = "pending" /\ req[r].seen = appr[req[r].ap].before
    /\ \A q \in Requests : req[q].pc = "commit_write" /\ req[q].ap = req[r].ap => q = r

RequestOK(r) ==
    /\ req[r].pc # "idle" => req[r].ap \in Approvals
    /\ req[r].pc = "insert" => InsertOK(r)
    /\ req[r].pc = "commit_read" => req[r].ap \in signed
    /\ req[r].pc = "commit_write" => CommitOK(r)
    /\ req[r].pc = "approve_answer" => audit[req[r].ap] = 1
    /\ req[r].pc = "deny_answer" /\ req[r].won =>
          audit[req[r].ap] = 0 /\ appr[req[r].ap].status \in {"denied", "swept"}

ApprovalSound == \A a \in Approvals : ApprovalOK(a)
RequestSound == \A r \in Requests : RequestOK(r)

IInv == TypeOK /\ ApprovalSound /\ RequestSound

-----------------------------------------------------------------------------
(* Types. *)

RequestStates == [pc : PCs, t : Nat, ap : Approvals \union {"none"}, draft : Rows,
                  seen : States, won : BOOLEAN]

LEMMA RowTypes == NoApproval \in Rows /\ Idle \in RequestStates
<1>1. NoApproval \in Rows
  BY DEF NoApproval, Rows, Statuses, States
<1>2. QED
  BY <1>1 DEF Idle, RequestStates, PCs, States

(* What the steps of a request make of its state. *)
LEMMA ReqAfter ==
    ASSUME TypeOK, NEW r \in Requests, NEW state, req' = [req EXCEPT ![r] = state]
    PROVE  /\ req'[r] = state
           /\ \A q \in Requests : q # r => req'[q] = req[q]
           /\ state \in RequestStates => req' \in [Requests -> RequestStates]
BY DEF TypeOK, RequestStates

LEMMA DoneAfter ==
    ASSUME TypeOK, NEW r \in Requests, Done(r)
    PROVE  /\ req'[r].pc = "idle" /\ \A q \in Requests : q # r => req'[q] = req[q]
           /\ req' \in [Requests -> RequestStates]
<1>1. Idle.pc = "idle"
  BY DEF Idle
<1>2. QED
  BY <1>1, ReqAfter, RowTypes DEF Done

LEMMA GotoAfter ==
    ASSUME TypeOK, NEW r \in Requests, NEW pc \in PCs, Goto(r, pc)
    PROVE  /\ req'[r].pc = pc /\ req'[r].ap = req[r].ap
           /\ \A q \in Requests : q # r => req'[q] = req[q]
           /\ req' \in [Requests -> RequestStates]
<1>1. req[r] \in RequestStates /\ req' = [req EXCEPT ![r] = [req[r] EXCEPT !.pc = pc]]
  BY DEF TypeOK, RequestStates, Goto
<1>2. [req[r] EXCEPT !.pc = pc] \in RequestStates
  BY <1>1 DEF RequestStates
<1>3. [req[r] EXCEPT !.pc = pc].pc = pc /\ [req[r] EXCEPT !.pc = pc].ap = req[r].ap
  BY <1>1 DEF RequestStates
<1>4. QED
  BY <1>1, <1>2, <1>3, ReqAfter

LEMMA StartAfter ==
    ASSUME TypeOK, NEW r \in Requests, NEW a \in Approvals, NEW pc \in PCs, NEW t \in Nat,
           Start(r, a, pc, t)
    PROVE  /\ req'[r].pc = pc /\ req'[r].ap = a
           /\ \A q \in Requests : q # r => req'[q] = req[q]
           /\ req' \in [Requests -> RequestStates]
<1> DEFINE state == [Idle EXCEPT !.pc = pc, !.ap = a, !.t = t]
<1>1. state \in RequestStates /\ state.pc = pc /\ state.ap = a
  BY RowTypes DEF Idle, RequestStates
<1>2. req' = [req EXCEPT ![r] = state]
  BY DEF Start
<1> HIDE DEF state
<1>3. QED
  BY <1>1, <1>2, ReqAfter

(* A row whose status alone changes. *)
LEMMA StatusAfter ==
    ASSUME TypeOK, NEW a \in Approvals, NEW s \in Statuses,
           appr' = [appr EXCEPT ![a].status = s]
    PROVE  /\ appr' \in [Approvals -> Rows]
           /\ appr'[a].status = s
           /\ appr'[a].cred = appr[a].cred /\ appr'[a].before = appr[a].before
           /\ appr'[a].after = appr[a].after
           /\ \A b \in Approvals : b # a => appr'[b] = appr[b]
BY DEF TypeOK, Rows

(* The draft names the credential as it was read, which was not deleted. *)
LEMMA CreateAfter ==
    ASSUME MutationAssumption, IInv, NEW r \in Requests, CreateRead(r)
    PROVE  /\ req'[r].pc = "insert" /\ req'[r].ap \in Approvals
           /\ appr[req'[r].ap].status = "none" /\ \A q \in Requests : req[q].ap # req'[r].ap
           /\ req'[r].draft.status = "pending" /\ req'[r].draft.cred \in Credentials
           /\ req'[r].draft.before \in Labels
           /\ \A q \in Requests : q # r => req'[q] = req[q]
           /\ req' \in [Requests -> RequestStates]
<1>1. PICK a \in Approvals, c \in Credentials, after \in States :
          /\ appr[a].status = "none" /\ \A q \in Requests : req[q].ap # a
          /\ ~cred[c].deleted /\ after # State(c)
          /\ req' = [req EXCEPT ![r] = [Idle EXCEPT
                 !.pc = "insert", !.ap = a,
                 !.draft = [status |-> "pending", cred |-> c, before |-> State(c),
                            after |-> after, until |-> Expiry(now)]]]
  BY DEF CreateRead
<1> DEFINE draft == [status |-> "pending", cred |-> c, before |-> State(c),
                     after |-> after, until |-> Expiry(now)]
           state == [Idle EXCEPT !.pc = "insert", !.ap = a, !.draft = draft]
<1>2. TypeOK /\ State(c) \in Labels
  BY <1>1 DEF IInv, TypeOK, State
<1>3. Expiry(now) \in Nat
  BY <1>2 DEF TypeOK, Expiry, MutationAssumption
<1>4. draft \in Rows
  BY <1>2, <1>3 DEF Rows, Statuses, States
<1>5. draft.status = "pending" /\ draft.cred = c /\ draft.before = State(c)
  OBVIOUS
<1> HIDE DEF draft
<1>6. state \in RequestStates /\ state.pc = "insert" /\ state.ap = a /\ state.draft = draft
  BY <1>4, RowTypes DEF Idle, RequestStates, PCs
<1>7. req' = [req EXCEPT ![r] = state]
  BY <1>1 DEF draft
<1> HIDE DEF state
<1>8. /\ req'[r] = state /\ req' \in [Requests -> RequestStates]
      /\ \A q \in Requests : q # r => req'[q] = req[q]
  BY <1>2, <1>6, <1>7, ReqAfter
<1>9. QED
  BY <1>1, <1>2, <1>5, <1>6, <1>8
-----------------------------------------------------------------------------
(* The branches of the transaction. *)

(* What a commit makes of the credential it names. *)
LEMMA ApplyAfter ==
    ASSUME TypeOK, MutationAssumption, NEW a \in Approvals, NEW c \in Credentials,
           appr[a].cred = c, Apply(a)
    PROVE  /\ cred' \in [Credentials -> [label : Labels, deleted : BOOLEAN]]
           /\ State(c) # Gone => State(c)' = appr[a].after
<1>1. /\ cred \in [Credentials -> [label : Labels, deleted : BOOLEAN]]
      /\ appr[a].after \in Labels \union {Gone}
  BY DEF TypeOK, Rows, States
<1>2. CASE appr[a].after = Gone
 <2>1. cred' = [cred EXCEPT ![c] = [cred[c] EXCEPT !.deleted = TRUE]]
   BY <1>1, <1>2 DEF Apply
 <2>2. cred' \in [Credentials -> [label : Labels, deleted : BOOLEAN]] /\ cred'[c].deleted
   BY <1>1, <2>1
 <2>3. QED
   BY <1>1, <1>2, <2>2 DEF State
<1>3. CASE appr[a].after # Gone
 <2>1. cred' = [cred EXCEPT ![c] = [cred[c] EXCEPT !.label = appr[a].after]]
   BY <1>1, <1>3 DEF Apply
 <2>2. /\ cred' \in [Credentials -> [label : Labels, deleted : BOOLEAN]]
       /\ cred'[c].deleted = cred[c].deleted /\ cred'[c].label = appr[a].after
   BY <1>1, <1>3, <2>1
 <2>3. QED
   BY <1>1, <1>3, <2>2 DEF State
<1>4. QED
  BY <1>2, <1>3

(* The outcomes of the statement that commits. *)
Loses(r) ==
    /\ appr' = [appr EXCEPT ![req[r].ap].status = "failed"]
    /\ Done(r) /\ UNCHANGED <<cred, audit>>
Aborts(r) == Done(r) /\ UNCHANGED <<cred, appr, audit>>
Commits(r) ==
    /\ State(appr[req[r].ap].cred) = req[r].seen
    /\ Apply(req[r].ap)
    /\ appr' = [appr EXCEPT ![req[r].ap].status = "approved"]
    /\ audit' = [audit EXCEPT ![req[r].ap] = @ + 1]
    /\ Goto(r, "approve_answer")

LEMMA CommitWriteShape ==
    ASSUME NEW r \in Requests, CommitWrite(r)
    PROVE  /\ Loses(r) \/ Aborts(r) \/ Commits(r)
           /\ req[r].pc = "commit_write" /\ locked' = locked \ {req[r].ap}
           /\ UNCHANGED <<now, signed, told>>
BY DEF CommitWrite, Loses, Aborts, Commits

(* The outcomes of the transaction's first half. *)
Refuses(r) ==
    /\ appr[req[r].ap].status = "pending"
    /\ appr' = [appr EXCEPT ![req[r].ap].status = "failed"]
    /\ Done(r) /\ UNCHANGED locked
Locks(r) ==
    /\ appr[req[r].ap].status = "pending"
    /\ State(appr[req[r].ap].cred) = appr[req[r].ap].before
    /\ req' = [req EXCEPT ![r].pc = "commit_write", ![r].seen = State(appr[req[r].ap].cred)]
    /\ locked' = locked \union {req[r].ap}
    /\ UNCHANGED appr
Repeats(r) ==
    /\ appr[req[r].ap].status = "approved"
    /\ Goto(r, "approve_answer") /\ UNCHANGED <<appr, locked>>

LEMMA CommitReadShape ==
    ASSUME NEW r \in Requests, CommitRead(r)
    PROVE  /\ Repeats(r) \/ (Done(r) /\ UNCHANGED <<appr, locked>>) \/ Refuses(r) \/ Locks(r)
           /\ req[r].pc = "commit_read" /\ req[r].ap \notin locked
           /\ UNCHANGED <<now, cred, signed, audit, told>>
<1> DEFINE a == req[r].ap
<1>1. /\ req[r].pc = "commit_read" /\ a \notin locked
      /\ UNCHANGED <<now, cred, signed, audit, told>>
  BY DEF CommitRead
<1>2. CASE appr[a].status = "approved"
  BY <1>2 DEF CommitRead, Repeats
<1>3. CASE appr[a].status # "approved" /\ (appr[a].status # "pending" \/ LapsedAt(a, now))
  BY <1>3 DEF CommitRead
<1>4. CASE appr[a].status = "pending" /\ ~LapsedAt(a, now)
  BY <1>4 DEF CommitRead, Refuses, Locks
<1>5. QED
  BY <1>1, <1>2, <1>3, <1>4

LEMMA LocksAfter ==
    ASSUME TypeOK, NEW r \in Requests, req[r].ap \in Approvals, Locks(r)
    PROVE  /\ req'[r].pc = "commit_write" /\ req'[r].ap = req[r].ap
           /\ req'[r].seen = State(appr[req[r].ap].cred)
           /\ \A q \in Requests : q # r => req'[q] = req[q]
           /\ req' \in [Requests -> RequestStates]
<1> DEFINE x == State(appr[req[r].ap].cred)
           state == [req[r] EXCEPT !.pc = "commit_write", !.seen = x]
<1>1. req \in [Requests -> RequestStates] /\ req[r] \in RequestStates
  BY DEF TypeOK, RequestStates
<1>2. x \in States
  BY DEF Locks, TypeOK, Rows
<1>3. req' = [req EXCEPT ![r] = state]
  BY <1>1 DEF Locks
<1> HIDE DEF x
<1>4. state \in RequestStates /\ state.pc = "commit_write" /\ state.ap = req[r].ap /\ state.seen = x
  BY <1>1, <1>2 DEF RequestStates, PCs
<1> HIDE DEF state
<1>5. QED
  BY <1>3, <1>4, ReqAfter DEF x

LEMMA CommitsAfter ==
    ASSUME MutationAssumption, IInv, NEW r \in Requests, req[r].pc = "commit_write",
           NEW a \in Approvals, req[r].ap = a, Commits(r)
    PROVE  /\ appr[a].status = "pending" /\ a \in signed
           /\ appr' \in [Approvals -> Rows] /\ appr'[a].status = "approved"
           /\ appr'[a].cred = appr[a].cred /\ appr'[a].before = appr[a].before
           /\ appr'[a].after = appr[a].after
           /\ \A b \in Approvals : b # a => appr'[b] = appr[b] /\ audit'[b] = audit[b]
           /\ audit' \in [Approvals -> Nat] /\ audit'[a] = 1
           /\ cred' \in [Credentials -> [label : Labels, deleted : BOOLEAN]]
           /\ State(appr[a].cred) = appr[a].before
           /\ State(appr[a].cred)' = appr[a].after
<1>1. TypeOK /\ ApprovalOK(a) /\ CommitOK(r)
  BY DEF IInv, ApprovalSound, RequestSound, RequestOK
<1>2. /\ appr[a].status = "pending" /\ a \in signed /\ appr[a].cred \in Credentials
      /\ appr[a].before \in Labels /\ State(appr[a].cred) = appr[a].before
  BY <1>1 DEF CommitOK, ApprovalOK, Commits
<1>3. audit[a] = 0
 <2>1. audit[a] # 1 /\ audit[a] <= 1
   BY <1>1, <1>2 DEF ApprovalOK
 <2>2. audit[a] \in Nat
   BY <1>1 DEF TypeOK
 <2>3. QED
   BY <2>1, <2>2
<1>4. audit' = [audit EXCEPT ![a] = audit[a] + 1]
  BY DEF Commits
<1>5. /\ audit' \in [Approvals -> Nat] /\ audit'[a] = 1
      /\ \A b \in Approvals : b # a => audit'[b] = audit[b]
  BY <1>1, <1>3, <1>4 DEF TypeOK
<1>6. appr' = [appr EXCEPT ![a].status = "approved"] /\ "approved" \in Statuses
  BY DEF Commits, Statuses
<1>7. /\ appr' \in [Approvals -> Rows] /\ appr'[a].status = "approved"
      /\ appr'[a].cred = appr[a].cred /\ appr'[a].before = appr[a].before
      /\ appr'[a].after = appr[a].after
      /\ \A b \in Approvals : b # a => appr'[b] = appr[b]
  BY <1>1, <1>6, StatusAfter
<1>8. PICK c \in Credentials : c = appr[a].cred
  BY <1>2
<1>9. /\ cred' \in [Credentials -> [label : Labels, deleted : BOOLEAN]]
      /\ State(c) # Gone => State(c)' = appr[a].after
  BY <1>1, <1>8, ApplyAfter DEF Commits
<1>10. State(c) # Gone
  BY <1>2, <1>8 DEF MutationAssumption
<1>11. State(appr[a].cred)' = State(c)'
  BY <1>7, <1>8
<1>12. QED
  BY <1>2, <1>5, <1>7, <1>8, <1>9, <1>10, <1>11

-----------------------------------------------------------------------------
(* Every step keeps the types. *)

LEMMA TypeStep ==
    ASSUME MutationAssumption, IInv, Next
    PROVE  TypeOK'
<1>1. TypeOK
  BY DEF IInv
<1> USE <1>1
<1>2. ASSUME NEW r \in Requests, CreateRead(r)
      PROVE  TypeOK'
  BY <1>2, CreateAfter DEF CreateRead, TypeOK, RequestStates
<1>3. ASSUME NEW r \in Requests, ApproveRead(r)
      PROVE  TypeOK'
 <2>1. PICK a \in Approvals :
           Start(r, a, "commit_read", 0) \/ Start(r, a, "approve_answer", 0)
   BY <1>3 DEF ApproveRead, TypeOK
 <2>2. req' \in [Requests -> RequestStates]
   BY <2>1, StartAfter DEF PCs
 <2>3. QED
   BY <1>3, <2>2 DEF ApproveRead, TypeOK, RequestStates
<1>4. ASSUME NEW r \in Requests, DenyRead(r)
      PROVE  TypeOK'
 <2>1. PICK a \in Approvals : Start(r, a, "deny_write", now)
   BY <1>4 DEF DenyRead
 <2>2. now \in Nat
   BY DEF TypeOK, MutationAssumption
 <2>3. req' \in [Requests -> RequestStates]
   BY <2>1, <2>2, StartAfter DEF PCs
 <2>4. QED
   BY <1>4, <2>3 DEF DenyRead, TypeOK, RequestStates
<1>5. ASSUME NEW r \in Requests, CreateInsert(r)
      PROVE  TypeOK'
 <2>1. req[r].ap \in Approvals /\ req[r].draft \in Rows
   BY <1>5 DEF CreateInsert, IInv, RequestSound, RequestOK, TypeOK
 <2>2. appr' \in [Approvals -> Rows]
   BY <1>5, <2>1 DEF CreateInsert, TypeOK
 <2>3. QED
   BY <1>5, <2>2, DoneAfter DEF CreateInsert, TypeOK, RequestStates
<1>6. ASSUME NEW r \in Requests, CommitRead(r)
      PROVE  TypeOK'
 <2>1. req[r].ap \in Approvals
   BY <1>6 DEF CommitRead, IInv, RequestSound, RequestOK
 <2>2. UNCHANGED <<now, cred, signed, audit, told>>
   BY <1>6, CommitReadShape
 <2>3. CASE Repeats(r)
   BY <2>2, <2>3, GotoAfter DEF Repeats, TypeOK, RequestStates, PCs
 <2>4. CASE Done(r) /\ UNCHANGED <<appr, locked>>
   BY <2>2, <2>4, DoneAfter DEF TypeOK, RequestStates
 <2>5. CASE Refuses(r)
  <3>1. appr' \in [Approvals -> Rows]
    BY <2>1, <2>5, StatusAfter DEF Refuses, Statuses
  <3>2. QED
    BY <2>2, <2>5, <3>1, DoneAfter DEF Refuses, TypeOK, RequestStates
 <2>6. CASE Locks(r)
  <3>1. req' \in [Requests -> RequestStates]
    BY <2>1, <2>6, LocksAfter
  <3>2. QED
    BY <2>1, <2>2, <2>6, <3>1 DEF Locks, TypeOK, RequestStates
 <2>7. QED
   BY <1>6, <2>3, <2>4, <2>5, <2>6, CommitReadShape
<1>7. ASSUME NEW r \in Requests, CommitWrite(r)
      PROVE  TypeOK'
 <2>1. /\ req[r].pc = "commit_write" /\ locked' = locked \ {req[r].ap}
       /\ UNCHANGED <<now, signed, told>>
   BY <1>7, CommitWriteShape
 <2>2. req[r].ap \in Approvals
   BY <2>1 DEF IInv, RequestSound, RequestOK
 <2>3. CASE Loses(r)
  <3>1. appr' \in [Approvals -> Rows]
    BY <2>2, <2>3, StatusAfter DEF Loses, Statuses
  <3>2. QED
    BY <2>1, <2>3, <3>1, DoneAfter DEF Loses, TypeOK, RequestStates
 <2>4. CASE Aborts(r)
   BY <2>1, <2>4, DoneAfter DEF Aborts, TypeOK, RequestStates
 <2>5. CASE Commits(r)
  <3>1. req' \in [Requests -> RequestStates]
    BY <2>5, GotoAfter DEF Commits, PCs
  <3>2. /\ appr' \in [Approvals -> Rows] /\ audit' \in [Approvals -> Nat]
        /\ cred' \in [Credentials -> [label : Labels, deleted : BOOLEAN]]
    BY <2>1, <2>2, <2>5, CommitsAfter
  <3>3. QED
    BY <2>1, <3>1, <3>2 DEF TypeOK, RequestStates
 <2>6. QED
   BY <1>7, <2>3, <2>4, <2>5, CommitWriteShape
<1>8. ASSUME NEW r \in Requests, ApproveAnswer(r)
      PROVE  TypeOK'
 <2>1. req[r].ap \in Approvals
   BY <1>8 DEF ApproveAnswer, IInv, RequestSound, RequestOK
 <2>2. told' \in SUBSET (Approvals \X {"approved", "denied"})
   BY <1>8, <2>1 DEF ApproveAnswer, TypeOK
 <2>3. QED
   BY <1>8, <2>2, DoneAfter DEF ApproveAnswer, TypeOK, RequestStates
<1>9. ASSUME NEW r \in Requests, DenyWrite(r)
      PROVE  TypeOK'
 <2> DEFINE won == appr[req[r].ap].status = "pending" /\ ~LapsedAt(req[r].ap, req[r].t)
            state == [req[r] EXCEPT !.pc = "deny_answer", !.t = 0, !.won = won]
 <2>1. req[r].ap \in Approvals /\ req[r] \in RequestStates
   BY <1>9 DEF DenyWrite, IInv, RequestSound, RequestOK, TypeOK, RequestStates
 <2>2. appr' \in [Approvals -> Rows]
   BY <1>9, <2>1, StatusAfter DEF DenyWrite, Statuses, TypeOK
 <2>3. req' = [req EXCEPT ![r] = state]
   BY <1>9 DEF DenyWrite
 <2>4. won \in BOOLEAN
   OBVIOUS
 <2> HIDE DEF won
 <2>5. state \in RequestStates
   BY <2>1, <2>4 DEF RequestStates, PCs
 <2> HIDE DEF state
 <2>6. req' \in [Requests -> RequestStates]
   BY <2>3, <2>5, ReqAfter
 <2>7. QED
   BY <1>9, <2>2, <2>6 DEF DenyWrite, TypeOK, RequestStates
<1>10. ASSUME NEW r \in Requests, DenyAnswer(r)
       PROVE  TypeOK'
 <2>1. req[r].ap \in Approvals
   BY <1>10 DEF DenyAnswer, IInv, RequestSound, RequestOK
 <2>2. told' \in SUBSET (Approvals \X {"approved", "denied"})
   BY <1>10, <2>1 DEF DenyAnswer, TypeOK
 <2>3. QED
   BY <1>10, <2>2, DoneAfter DEF DenyAnswer, TypeOK, RequestStates
<1>11. ASSUME NEW r \in Requests, Crash(r)
       PROVE  TypeOK'
  BY <1>11, DoneAfter DEF Crash, TypeOK, RequestStates
<1>12. ASSUME NEW a \in Approvals, Sign(a)
       PROVE  TypeOK'
  BY <1>12 DEF Sign, TypeOK
<1>13. ASSUME NEW a \in Approvals, Sweep(a)
       PROVE  TypeOK'
  BY <1>13, StatusAfter DEF Sweep, TypeOK, Statuses
<1>14. CASE OwnerDeletes
  BY <1>14 DEF OwnerDeletes, TypeOK
<1>15. CASE OwnerRestores
  BY <1>15 DEF OwnerRestores, TypeOK
<1>16. CASE Tick
  BY <1>16 DEF Tick, TypeOK, MutationAssumption
<1>17. QED
  BY <1>2, <1>3, <1>4, <1>5, <1>6, <1>7, <1>8, <1>9, <1>10, <1>11, <1>12, <1>13, <1>14,
     <1>15, <1>16 DEF Next, Continue

-----------------------------------------------------------------------------
(* What every step keeps of the approvals. *)

(* An approval of which a step changes neither the row nor the rest. *)
LEMMA ApprovalKept ==
    ASSUME IInv, NEW a \in Approvals, appr'[a] = appr[a], audit'[a] = audit[a],
           a \in signed' => a \in signed \/ appr[a].status # "none",
           <<a, "approved">> \in told' => <<a, "approved">> \in told \/ audit[a] = 1,
           <<a, "denied">> \in told' =>
               \/ <<a, "denied">> \in told
               \/ audit[a] = 0 /\ appr[a].status \in {"denied", "swept"}
    PROVE  ApprovalOK(a)'
BY DEF IInv, ApprovalSound, ApprovalOK

(* A row whose status a step changes to anything but approved. *)
LEMMA ApprovalDecided ==
    ASSUME IInv, NEW a \in Approvals, NEW s \in {"failed", "denied", "swept"},
           appr'[a].status = s, appr[a].status = "pending" \/ s = "swept",
           appr[a].status # "none", appr'[a].cred = appr[a].cred,
           appr'[a].before = appr[a].before, audit'[a] = audit[a], signed' = signed, told' = told
    PROVE  ApprovalOK(a)'
BY DEF IInv, ApprovalSound, ApprovalOK

LEMMA ApprovalStep ==
    ASSUME MutationAssumption, IInv, Next, NEW a \in Approvals
    PROVE  ApprovalOK(a)'
<1>1. TypeOK /\ ApprovalOK(a)
  BY DEF IInv, ApprovalSound
<1> USE <1>1
<1>2. ASSUME NEW r \in Requests, CreateRead(r) \/ ApproveRead(r) \/ DenyRead(r)
      PROVE  ApprovalOK(a)'
  BY <1>2, ApprovalKept DEF CreateRead, ApproveRead, DenyRead
<1>5. ASSUME NEW r \in Requests, CreateInsert(r)
      PROVE  ApprovalOK(a)'
 <2>1. InsertOK(r) /\ req[r].ap \in Approvals
   BY <1>5 DEF CreateInsert, IInv, RequestSound, RequestOK
 <2>2. CASE req[r].ap = a
  <3>1. appr'[a] = req[r].draft /\ UNCHANGED <<signed, audit, told>>
    BY <1>5, <2>2 DEF CreateInsert, TypeOK
  <3>2. QED
    BY <2>1, <2>2, <3>1 DEF InsertOK, ApprovalOK
 <2>3. CASE req[r].ap # a
   BY <1>5, <2>3, ApprovalKept DEF CreateInsert, TypeOK
 <2>4. QED
   BY <2>2, <2>3
<1>6. ASSUME NEW r \in Requests, CommitRead(r)
      PROVE  ApprovalOK(a)'
 <2>1. UNCHANGED <<now, cred, signed, audit, told>> /\ req[r].pc = "commit_read"
   BY <1>6, CommitReadShape
 <2>2. CASE UNCHANGED appr
   BY <2>1, <2>2, ApprovalKept
 <2>3. CASE Refuses(r) /\ req[r].ap = a
  <3>1. appr[a].status = "pending" /\ appr' = [appr EXCEPT ![a].status = "failed"]
    BY <2>3 DEF Refuses
  <3>2. QED
    BY <2>1, <3>1, StatusAfter, ApprovalDecided DEF Statuses
 <2>4. CASE Refuses(r) /\ req[r].ap # a
   BY <2>1, <2>4, ApprovalKept DEF Refuses, TypeOK
 <2>5. QED
   BY <1>6, <2>2, <2>3, <2>4, CommitReadShape DEF Repeats, Locks
<1>7. ASSUME NEW r \in Requests, CommitWrite(r)
      PROVE  ApprovalOK(a)'
 <2>1. UNCHANGED <<now, signed, told>> /\ req[r].pc = "commit_write"
   BY <1>7, CommitWriteShape
 <2>2. CommitOK(r) /\ req[r].ap \in Approvals
   BY <2>1 DEF IInv, RequestSound, RequestOK
 <2>3. CASE Aborts(r)
   BY <2>1, <2>3, ApprovalKept DEF Aborts
 <2>4. CASE Loses(r) /\ req[r].ap = a
  <3>1. /\ appr[a].status = "pending" /\ appr' = [appr EXCEPT ![a].status = "failed"]
        /\ audit' = audit
    BY <2>2, <2>4 DEF Loses, CommitOK
  <3>2. QED
    BY <2>1, <3>1, StatusAfter, ApprovalDecided DEF Statuses
 <2>5. CASE Loses(r) /\ req[r].ap # a
   BY <2>1, <2>5, ApprovalKept DEF Loses, TypeOK
 <2>6. CASE Commits(r) /\ req[r].ap = a
  <3>1. /\ appr[a].status = "pending" /\ a \in signed /\ appr'[a].status = "approved"
        /\ appr'[a].cred = appr[a].cred /\ appr'[a].before = appr[a].before
        /\ audit'[a] = 1
    BY <2>1, <2>6, CommitsAfter
  <3>2. <<a, "denied">> \notin told
    BY <3>1 DEF ApprovalOK
  <3>3. QED
    BY <2>1, <3>1, <3>2 DEF ApprovalOK
 <2>7. CASE Commits(r) /\ req[r].ap # a
  <3>1. appr'[a] = appr[a] /\ audit'[a] = audit[a]
    BY <2>1, <2>2, <2>7, CommitsAfter
  <3>2. QED
    BY <2>1, <3>1, ApprovalKept
 <2>8. QED
   BY <1>7, <2>3, <2>4, <2>5, <2>6, <2>7, CommitWriteShape
<1>8. ASSUME NEW r \in Requests, ApproveAnswer(r)
      PROVE  ApprovalOK(a)'
 <2>1. audit[req[r].ap] = 1
   BY <1>8 DEF ApproveAnswer, IInv, RequestSound, RequestOK
 <2>2. <<a, "approved">> \in told' => <<a, "approved">> \in told \/ audit[a] = 1
   BY <1>8, <2>1 DEF ApproveAnswer
 <2>3. <<a, "denied">> \in told' => <<a, "denied">> \in told
   BY <1>8 DEF ApproveAnswer
 <2>4. QED
   BY <1>8, <2>2, <2>3, ApprovalKept DEF ApproveAnswer
<1>9. ASSUME NEW r \in Requests, DenyWrite(r)
      PROVE  ApprovalOK(a)'
 <2>1. UNCHANGED <<now, cred, locked, signed, audit, told>>
   BY <1>9 DEF DenyWrite
 <2>2. CASE appr' = appr
   BY <2>1, <2>2, ApprovalKept
 <2>3. CASE /\ appr[req[r].ap].status = "pending"
            /\ appr' = [appr EXCEPT ![req[r].ap].status = "denied"]
  <3>1. CASE req[r].ap = a
    BY <2>1, <2>3, <3>1, StatusAfter, ApprovalDecided DEF Statuses
  <3>2. CASE req[r].ap # a
    BY <2>1, <2>3, <3>2, ApprovalKept DEF TypeOK
  <3>3. QED
    BY <3>1, <3>2
 <2>4. QED
   BY <1>9, <2>2, <2>3 DEF DenyWrite
<1>10. ASSUME NEW r \in Requests, DenyAnswer(r)
       PROVE  ApprovalOK(a)'
 <2>1. UNCHANGED <<now, cred, appr, locked, signed, audit>>
   BY <1>10 DEF DenyAnswer
 <2>2. <<a, "approved">> \in told' => <<a, "approved">> \in told
   BY <1>10 DEF DenyAnswer
 <2>3. req[r].won => audit[req[r].ap] = 0 /\ appr[req[r].ap].status \in {"denied", "swept"}
   BY <1>10 DEF DenyAnswer, IInv, RequestSound, RequestOK
 <2>4. appr[a].status = "denied" => audit[a] = 0
  <3>1. audit[a] \in Nat /\ audit[a] <= 1
    BY DEF ApprovalOK, TypeOK
  <3>2. appr[a].status = "denied" => audit[a] # 1
    BY DEF ApprovalOK
  <3>3. QED
    BY <3>1, <3>2
 <2>5. <<a, "denied">> \in told' =>
           \/ <<a, "denied">> \in told
           \/ req[r].ap = a /\ (req[r].won \/ appr[a].status = "denied")
   BY <1>10 DEF DenyAnswer
 <2>6. QED
   BY <2>1, <2>2, <2>3, <2>4, <2>5, ApprovalKept
<1>11. ASSUME NEW r \in Requests, Crash(r)
       PROVE  ApprovalOK(a)'
  BY <1>11, ApprovalKept DEF Crash
<1>12. ASSUME NEW b \in Approvals, Sign(b)
       PROVE  ApprovalOK(a)'
  BY <1>12, ApprovalKept DEF Sign, Exists
<1>13. ASSUME NEW b \in Approvals, Sweep(b)
       PROVE  ApprovalOK(a)'
 <2>1. CASE a = b
   BY <1>13, <2>1, StatusAfter, ApprovalDecided DEF Sweep, Exists, Statuses
 <2>2. CASE a # b
   BY <1>13, <2>2, ApprovalKept DEF Sweep, TypeOK
 <2>3. QED
   BY <2>1, <2>2
<1>14. CASE OwnerDeletes \/ OwnerRestores \/ Tick
  BY <1>14, ApprovalKept DEF OwnerDeletes, OwnerRestores, Tick
<1>15. QED
  BY <1>2, <1>5, <1>6, <1>7, <1>8, <1>9, <1>10, <1>11, <1>12, <1>13, <1>14 DEF Next, Continue

-----------------------------------------------------------------------------
(* What every step keeps of the requests. *)

(* What request p becomes does not disturb request q: it ends, goes on with *)
(* the approval it has without locking one that is locked, or begins with   *)
(* an approval q is not about to insert.                                    *)
Gentle(p, q) ==
    \/ req'[p] = req[p]
    \/ req'[p].pc = "idle"
    \/ /\ req[p].pc # "idle" /\ req'[p].ap = req[p].ap
       /\ req'[p].pc = "commit_write" => req[p].ap \notin locked
    \/ /\ req'[p].pc # "commit_write"
       /\ req[q].pc = "insert" => req'[p].ap # req[q].ap

(* What a step does to the approval of q is what q reckons with: nothing, a *)
(* decision while q holds no lock, or the sweep of an unlocked row.         *)
Spares(q, a) ==
    \/ /\ appr'[a].status = appr[a].status /\ appr'[a].before = appr[a].before
       /\ audit'[a] = audit[a] /\ (req[q].pc = "commit_write" => a \in locked')
    \/ appr[a].status = "pending" /\ req[q].pc # "commit_write"
    \/ /\ appr'[a].status = "swept" /\ appr[a].status # "none"
       /\ audit'[a] = audit[a] /\ a \notin locked

LEMMA RequestKept ==
    ASSUME IInv, NEW q \in Requests, req'[q] = req[q], signed \subseteq signed',
           \A p \in Requests : p # q => Gentle(p, q),
           req[q].pc # "idle" => Spares(q, req[q].ap)
    PROVE  RequestOK(q)'
<1>1. RequestOK(q) /\ (req[q].pc # "idle" => ApprovalOK(req[q].ap))
  BY DEF IInv, ApprovalSound, RequestSound, RequestOK
<1>2. ASSUME req[q].pc = "insert"
      PROVE  InsertOK(q)'
 <2>1. InsertOK(q)
   BY <1>1, <1>2 DEF RequestOK
 <2>2. appr'[req[q].ap].status = "none"
   BY <1>2, <2>1 DEF InsertOK, Spares
 <2>3. \A p \in Requests : req'[p].pc # "idle" /\ req'[p].ap = req[q].ap => p = q
   BY <1>2, <2>1 DEF InsertOK, Gentle
 <2>4. QED
   BY <2>1, <2>2, <2>3 DEF InsertOK
<1>3. ASSUME req[q].pc = "commit_write"
      PROVE  CommitOK(q)'
 <2>1. CommitOK(q)
   BY <1>1, <1>3 DEF RequestOK
 <2>2. Spares(q, req[q].ap)
   BY <1>3
 <2>3. /\ req[q].ap \in locked' /\ appr'[req[q].ap].status = "pending"
       /\ appr'[req[q].ap].before = appr[req[q].ap].before
   BY <1>3, <2>1, <2>2 DEF CommitOK, Spares
 <2>4. \A p \in Requests : req'[p].pc = "commit_write" /\ req'[p].ap = req[q].ap => p = q
   BY <1>3, <2>1 DEF CommitOK, Gentle
 <2>5. QED
   BY <2>1, <2>3, <2>4 DEF CommitOK
<1>4. req[q].pc = "approve_answer" => audit'[req[q].ap] = 1
  BY <1>1 DEF RequestOK, ApprovalOK, Spares
<1>5. req[q].pc = "deny_answer" /\ req[q].won =>
          audit'[req[q].ap] = 0 /\ appr'[req[q].ap].status \in {"denied", "swept"}
  BY <1>1 DEF RequestOK, ApprovalOK, Spares
<1>6. QED
  BY <1>1, <1>2, <1>3, <1>4, <1>5 DEF RequestOK

(* A step that leaves the approvals as they are and unlocks none. *)
LEMMA QuietStep ==
    ASSUME IInv, NEW q \in Requests, req'[q] = req[q], signed \subseteq signed',
           UNCHANGED <<appr, audit>>, locked \subseteq locked',
           \A p \in Requests : p # q => Gentle(p, q)
    PROVE  RequestOK(q)'
<1>1. req[q].pc = "commit_write" => req[q].ap \in locked
  BY DEF IInv, RequestSound, RequestOK, CommitOK
<1>2. QED
  BY <1>1, RequestKept DEF Spares

(* A step of one request that decides the approval it is about. *)
LEMMA DecisionStep ==
    ASSUME IInv, NEW q \in Requests, NEW r \in Requests, q # r,
           \A p \in Requests : p # r => req'[p] = req[p],
           Gentle(r, q), signed \subseteq signed', NEW a \in Approvals, req[r].ap = a,
           req[r].pc # "idle", appr[a].status = "pending",
           a \notin locked \/ req[r].pc = "commit_write",
           locked \ {a} \subseteq locked', a \notin locked => locked \subseteq locked',
           \A b \in Approvals : b # a => appr'[b] = appr[b] /\ audit'[b] = audit[b]
    PROVE  RequestOK(q)'
<1>1. RequestOK(q) /\ RequestOK(r)
  BY DEF IInv, RequestSound
<1>2. req[q].pc = "commit_write" => req[q].ap # a /\ req[q].ap \in locked
  BY <1>1 DEF RequestOK, CommitOK
<1>3. req[q].pc # "idle" => req[q].ap \in Approvals
  BY <1>1 DEF RequestOK
<1>4. req[q].pc # "idle" => Spares(q, req[q].ap)
  BY <1>2, <1>3 DEF Spares
<1>5. \A p \in Requests : p # q => Gentle(p, q)
  BY DEF Gentle
<1>6. QED
  BY <1>4, <1>5, RequestKept

LEMMA RequestStep ==
    ASSUME MutationAssumption, IInv, Next, NEW q \in Requests
    PROVE  RequestOK(q)'
<1>1. TypeOK /\ RequestOK(q)
  BY DEF IInv, RequestSound
<1> USE <1>1
<1>2. ASSUME NEW r \in Requests, CreateRead(r)
      PROVE  RequestOK(q)'
 <2>1. UNCHANGED <<now, cred, appr, locked, signed, audit, told>>
   BY <1>2 DEF CreateRead
 <2>2. /\ req'[r].pc = "insert" /\ req'[r].ap \in Approvals
       /\ appr[req'[r].ap].status = "none" /\ \A p \in Requests : req[p].ap # req'[r].ap
       /\ req'[r].draft.status = "pending" /\ req'[r].draft.cred \in Credentials
       /\ req'[r].draft.before \in Labels
       /\ \A p \in Requests : p # r => req'[p] = req[p]
   BY <1>2, CreateAfter
 <2>3. CASE q = r
  <3>1. InsertOK(q)'
    BY <2>1, <2>2, <2>3 DEF InsertOK
  <3>2. QED
    BY <2>2, <2>3, <3>1 DEF RequestOK
 <2>4. CASE q # r
   BY <2>1, <2>2, <2>4, QuietStep DEF Gentle
 <2>5. QED
   BY <2>3, <2>4
<1>3. ASSUME NEW r \in Requests, ApproveRead(r)
      PROVE  RequestOK(q)'
 <2>1. UNCHANGED <<now, cred, appr, locked, signed, audit, told>>
   BY <1>3 DEF ApproveRead
 <2>2. PICK a \in Approvals :
           /\ a \in signed
           /\ \/ Start(r, a, "commit_read", 0)
              \/ appr[a].status = "approved" /\ Start(r, a, "approve_answer", 0)
   BY <1>3 DEF ApproveRead, TypeOK
 <2>3. ApprovalOK(a)
   BY DEF IInv, ApprovalSound
 <2>4. /\ req'[r].ap = a /\ req'[r].pc \in {"commit_read", "approve_answer"}
       /\ req'[r].pc = "approve_answer" => appr[a].status = "approved"
       /\ \A p \in Requests : p # r => req'[p] = req[p]
   BY <2>2, StartAfter DEF PCs
 <2>5. CASE q = r
   BY <2>1, <2>2, <2>3, <2>4, <2>5 DEF RequestOK, ApprovalOK
 <2>6. CASE q # r
  <3>1. req[q].pc = "insert" => a # req[q].ap
    BY <2>2, <2>3 DEF RequestOK, InsertOK, ApprovalOK
  <3>2. QED
    BY <2>1, <2>4, <2>6, <3>1, QuietStep DEF Gentle
 <2>7. QED
   BY <2>5, <2>6
<1>4. ASSUME NEW r \in Requests, DenyRead(r)
      PROVE  RequestOK(q)'
 <2>1. UNCHANGED <<now, cred, appr, locked, signed, audit, told>>
   BY <1>4 DEF DenyRead
 <2>2. PICK a \in Approvals : Exists(a) /\ Start(r, a, "deny_write", now)
   BY <1>4 DEF DenyRead
 <2>3. now \in Nat
   BY DEF TypeOK, MutationAssumption
 <2>4. /\ req'[r].ap = a /\ req'[r].pc = "deny_write"
       /\ \A p \in Requests : p # r => req'[p] = req[p]
   BY <2>2, <2>3, StartAfter DEF PCs
 <2>5. CASE q = r
   BY <2>2, <2>4, <2>5 DEF RequestOK
 <2>6. CASE q # r
  <3>1. req[q].pc = "insert" => a # req[q].ap
    BY <2>2 DEF RequestOK, InsertOK, Exists
  <3>2. QED
    BY <2>1, <2>4, <2>6, <3>1, QuietStep DEF Gentle
 <2>7. QED
   BY <2>5, <2>6
<1>5. ASSUME NEW r \in Requests, CreateInsert(r)
      PROVE  RequestOK(q)'
 <2>1. InsertOK(r) /\ req[r].ap \in Approvals /\ req[r].pc = "insert"
   BY <1>5 DEF CreateInsert, IInv, RequestSound, RequestOK
 <2>2. req'[r].pc = "idle" /\ \A p \in Requests : p # r => req'[p] = req[p]
   BY <1>5, DoneAfter DEF CreateInsert
 <2>3. CASE q = r
   BY <2>2, <2>3 DEF RequestOK
 <2>4. CASE q # r
  <3>1. req[q].pc # "idle" => req[q].ap # req[r].ap /\ req[q].ap \in Approvals
    BY <2>1, <2>4 DEF InsertOK, RequestOK
  <3>2. req[q].pc # "idle" => appr'[req[q].ap] = appr[req[q].ap]
    BY <1>5, <3>1 DEF CreateInsert, TypeOK
  <3>3. req[q].pc = "commit_write" => req[q].ap \in locked
    BY DEF RequestOK, CommitOK
  <3>4. \A p \in Requests : p # q => Gentle(p, q)
    BY <2>2 DEF Gentle
  <3>5. req[q].pc # "idle" => Spares(q, req[q].ap)
    BY <1>5, <3>2, <3>3 DEF Spares, CreateInsert
  <3>6. signed' = signed
    BY <1>5 DEF CreateInsert
  <3>7. QED
    BY <2>2, <2>4, <3>4, <3>5, <3>6, RequestKept
 <2>5. QED
   BY <2>3, <2>4
<1>6. ASSUME NEW r \in Requests, CommitRead(r)
      PROVE  RequestOK(q)'
 <2>1. /\ UNCHANGED <<now, cred, signed, audit, told>> /\ req[r].pc = "commit_read"
       /\ req[r].ap \notin locked
   BY <1>6, CommitReadShape
 <2>2. req[r].ap \in Approvals /\ req[r].ap \in signed /\ ApprovalOK(req[r].ap)
   BY <2>1 DEF IInv, RequestSound, RequestOK, ApprovalSound
 <2>3. CASE Repeats(r)
  <3>1. /\ req'[r].pc = "approve_answer" /\ req'[r].ap = req[r].ap
        /\ \A p \in Requests : p # r => req'[p] = req[p]
    BY <2>3, GotoAfter DEF Repeats, PCs
  <3>2. CASE q = r
    BY <2>1, <2>2, <2>3, <3>1, <3>2 DEF Repeats, RequestOK, ApprovalOK
  <3>3. CASE q # r
    BY <2>1, <2>3, <3>1, <3>3, QuietStep DEF Gentle, Repeats
  <3>4. QED
    BY <3>2, <3>3
 <2>4. CASE Done(r) /\ UNCHANGED <<appr, locked>>
  <3>1. req'[r].pc = "idle" /\ \A p \in Requests : p # r => req'[p] = req[p]
    BY <2>4, DoneAfter
  <3>2. CASE q = r
    BY <3>1, <3>2 DEF RequestOK
  <3>3. CASE q # r
    BY <2>1, <2>4, <3>1, <3>3, QuietStep DEF Gentle
  <3>4. QED
    BY <3>2, <3>3
 <2>5. CASE Refuses(r)
  <3>1. req'[r].pc = "idle" /\ \A p \in Requests : p # r => req'[p] = req[p]
    BY <2>5, DoneAfter DEF Refuses
  <3>2. CASE q = r
    BY <3>1, <3>2 DEF RequestOK
  <3>3. CASE q # r
   <4>1. \A b \in Approvals : b # req[r].ap => appr'[b] = appr[b] /\ audit'[b] = audit[b]
     BY <2>1, <2>2, <2>5 DEF Refuses, TypeOK
   <4>2. Gentle(r, q)
     BY <3>1 DEF Gentle
   <4>3. QED
     BY <2>1, <2>2, <2>5, <3>1, <3>3, <4>1, <4>2, DecisionStep DEF Refuses
  <3>4. QED
    BY <3>2, <3>3
 <2>6. CASE Locks(r)
  <3>1. /\ req'[r].pc = "commit_write" /\ req'[r].ap = req[r].ap
        /\ req'[r].seen = State(appr[req[r].ap].cred)
        /\ \A p \in Requests : p # r => req'[p] = req[p]
    BY <2>2, <2>6, LocksAfter
  <3>2. /\ appr' = appr /\ locked' = locked \union {req[r].ap}
        /\ appr[req[r].ap].status = "pending"
        /\ State(appr[req[r].ap].cred) = appr[req[r].ap].before
    BY <2>6 DEF Locks
  <3>3. CASE q = r
   <4>1. \A p \in Requests : req[p].pc = "commit_write" => req[p].ap \in locked
     BY DEF IInv, RequestSound, RequestOK, CommitOK
   <4>2. \A p \in Requests : req'[p].pc = "commit_write" /\ req'[p].ap = req[r].ap => p = r
     BY <2>1, <3>1, <4>1
   <4>3. CommitOK(q)'
     BY <2>1, <2>2, <3>1, <3>2, <3>3, <4>2 DEF CommitOK
   <4>4. QED
     BY <2>2, <3>1, <3>3, <4>3 DEF RequestOK
  <3>4. CASE q # r
   <4>1. Gentle(r, q)
     BY <2>1, <3>1 DEF Gentle
   <4>2. QED
     BY <2>1, <3>1, <3>2, <3>4, <4>1, QuietStep DEF Gentle
  <3>5. QED
    BY <3>3, <3>4
 <2>7. QED
   BY <1>6, <2>3, <2>4, <2>5, <2>6, CommitReadShape
<1>7. ASSUME NEW r \in Requests, CommitWrite(r)
      PROVE  RequestOK(q)'
 <2>1. /\ UNCHANGED <<now, signed, told>> /\ req[r].pc = "commit_write"
       /\ locked' = locked \ {req[r].ap}
   BY <1>7, CommitWriteShape
 <2>2. CommitOK(r) /\ req[r].ap \in Approvals
   BY <2>1 DEF IInv, RequestSound, RequestOK
 <2>3. appr[req[r].ap].status = "pending" /\ req[r].ap \in locked
   BY <2>2 DEF CommitOK
 <2>4. CASE Loses(r) \/ Aborts(r)
  <3>1. req'[r].pc = "idle" /\ \A p \in Requests : p # r => req'[p] = req[p]
    BY <2>4, DoneAfter DEF Loses, Aborts
  <3>2. CASE q = r
    BY <3>1, <3>2 DEF RequestOK
  <3>3. CASE q # r
   <4>1. \A b \in Approvals : b # req[r].ap => appr'[b] = appr[b] /\ audit'[b] = audit[b]
     BY <2>2, <2>4 DEF Loses, Aborts, TypeOK
   <4>2. Gentle(r, q)
     BY <3>1 DEF Gentle
   <4>3. QED
     BY <2>1, <2>2, <2>3, <3>1, <3>3, <4>1, <4>2, DecisionStep
  <3>4. QED
    BY <3>2, <3>3
 <2>5. CASE Commits(r)
  <3>1. /\ req'[r].pc = "approve_answer" /\ req'[r].ap = req[r].ap
        /\ \A p \in Requests : p # r => req'[p] = req[p]
    BY <2>5, GotoAfter DEF Commits, PCs
  <3>2. /\ audit'[req[r].ap] = 1
        /\ \A b \in Approvals : b # req[r].ap => appr'[b] = appr[b] /\ audit'[b] = audit[b]
    BY <2>1, <2>2, <2>5, CommitsAfter
  <3>3. CASE q = r
    BY <2>2, <3>1, <3>2, <3>3 DEF RequestOK
  <3>4. CASE q # r
   <4>1. Gentle(r, q)
     BY <2>1, <3>1 DEF Gentle
   <4>2. QED
     BY <2>1, <2>2, <2>3, <3>1, <3>2, <3>4, <4>1, DecisionStep
  <3>5. QED
    BY <3>3, <3>4
 <2>6. QED
   BY <1>7, <2>4, <2>5, CommitWriteShape
<1>8. ASSUME NEW r \in Requests, ApproveAnswer(r) \/ DenyAnswer(r)
      PROVE  RequestOK(q)'
 <2>1. req'[r].pc = "idle" /\ \A p \in Requests : p # r => req'[p] = req[p]
   BY <1>8, DoneAfter DEF ApproveAnswer, DenyAnswer
 <2>2. UNCHANGED <<now, cred, appr, locked, signed, audit>>
   BY <1>8 DEF ApproveAnswer, DenyAnswer
 <2>3. CASE q = r
   BY <2>1, <2>3 DEF RequestOK
 <2>4. CASE q # r
   BY <2>1, <2>2, <2>4, QuietStep DEF Gentle
 <2>5. QED
   BY <2>3, <2>4
<1>9. ASSUME NEW r \in Requests, DenyWrite(r)
      PROVE  RequestOK(q)'
 <2> DEFINE won == appr[req[r].ap].status = "pending" /\ ~LapsedAt(req[r].ap, req[r].t)
            state == [req[r] EXCEPT !.pc = "deny_answer", !.t = 0, !.won = won]
 <2>1. /\ UNCHANGED <<now, cred, locked, signed, audit, told>> /\ req[r].pc = "deny_write"
       /\ req[r].ap \notin locked
       /\ appr' = IF won THEN [appr EXCEPT ![req[r].ap].status = "denied"] ELSE appr
       /\ req' = [req EXCEPT ![r] = state]
   BY <1>9 DEF DenyWrite
 <2>2. req[r].ap \in Approvals /\ req[r] \in RequestStates
   BY <2>1 DEF IInv, RequestSound, RequestOK, TypeOK, RequestStates
 <2>3. won => appr[req[r].ap].status = "pending"
   OBVIOUS
 <2> HIDE DEF won
 <2>4. state.pc = "deny_answer" /\ state.ap = req[r].ap /\ (state.won => won)
   BY <2>2 DEF RequestStates
 <2> HIDE DEF state
 <2>5. req'[r] = state /\ \A p \in Requests : p # r => req'[p] = req[p]
   BY <2>1, ReqAfter
 <2>6. CASE q = r
  <3>1. ASSUME won
        PROVE  audit'[req[r].ap] = 0 /\ appr'[req[r].ap].status = "denied"
   <4>1. appr'[req[r].ap].status = "denied"
     BY <2>1, <2>2, <3>1, StatusAfter DEF Statuses
   <4>2. audit[req[r].ap] # 1 /\ audit[req[r].ap] <= 1
     BY <2>2, <2>3, <3>1 DEF IInv, ApprovalSound, ApprovalOK
   <4>3. audit[req[r].ap] \in Nat
     BY <2>2 DEF TypeOK
   <4>4. QED
     BY <2>1, <4>1, <4>2, <4>3
  <3>2. QED
    BY <2>2, <2>4, <2>5, <2>6, <3>1 DEF RequestOK
 <2>7. CASE q # r
  <3>1. Gentle(r, q)
    BY <2>1, <2>4, <2>5 DEF Gentle
  <3>2. CASE won
   <4>1. \A b \in Approvals : b # req[r].ap => appr'[b] = appr[b] /\ audit'[b] = audit[b]
     BY <2>1, <2>2, <3>2 DEF TypeOK
   <4>2. QED
     BY <2>1, <2>2, <2>3, <2>5, <2>7, <3>1, <3>2, <4>1, DecisionStep
  <3>3. CASE ~won
   <4>1. UNCHANGED <<appr, audit>> /\ locked' = locked /\ signed' = signed
     BY <2>1, <3>3
   <4>2. \A p \in Requests : p # q => Gentle(p, q)
     BY <2>5, <3>1 DEF Gentle
   <4>3. QED
     BY <2>5, <2>7, <4>1, <4>2, QuietStep
  <3>4. QED
    BY <3>2, <3>3
 <2>8. QED
   BY <2>6, <2>7
<1>10. ASSUME NEW r \in Requests, Crash(r)
       PROVE  RequestOK(q)'
 <2>1. req'[r].pc = "idle" /\ \A p \in Requests : p # r => req'[p] = req[p]
   BY <1>10, DoneAfter DEF Crash
 <2>2. CASE q = r
   BY <2>1, <2>2 DEF RequestOK
 <2>3. CASE q # r /\ req[r].pc = "commit_write"
  <3>1. UNCHANGED <<appr, audit, signed>> /\ locked' = locked \ {req[r].ap}
    BY <1>10, <2>3 DEF Crash
  <3>2. CommitOK(r)
    BY <2>3 DEF IInv, RequestSound, RequestOK
  <3>3. req[q].pc = "commit_write" => req[q].ap \in locked'
    BY <2>3, <3>1, <3>2 DEF RequestOK, CommitOK
  <3>4. Spares(q, req[q].ap)
    BY <3>1, <3>3 DEF Spares
  <3>5. \A p \in Requests : p # q => Gentle(p, q)
    BY <2>1 DEF Gentle
  <3>6. QED
    BY <2>1, <2>3, <3>1, <3>4, <3>5, RequestKept
 <2>4. CASE q # r /\ req[r].pc # "commit_write"
   BY <1>10, <2>1, <2>4, QuietStep DEF Gentle, Crash
 <2>5. QED
   BY <2>2, <2>3, <2>4
<1>11. ASSUME NEW a \in Approvals, Sweep(a)
       PROVE  RequestOK(q)'
 <2>1. UNCHANGED <<now, cred, locked, signed, audit, told, req>> /\ a \notin locked
   BY <1>11 DEF Sweep
 <2>2. /\ appr[a].status # "none" /\ appr'[a].status = "swept"
       /\ \A b \in Approvals : b # a => appr'[b] = appr[b]
   BY <1>11, StatusAfter DEF Sweep, Exists, Statuses
 <2>3. /\ req[q].pc = "commit_write" => req[q].ap \in locked
       /\ req[q].pc # "idle" => req[q].ap \in Approvals
   BY DEF RequestOK, CommitOK
 <2>4. req[q].pc # "idle" => Spares(q, req[q].ap)
   BY <2>1, <2>2, <2>3 DEF Spares
 <2>5. QED
   BY <2>1, <2>4, RequestKept DEF Gentle
<1>12. CASE \/ OwnerDeletes \/ OwnerRestores \/ Tick
            \/ \E a \in Approvals : Sign(a)
 <2>1. UNCHANGED <<appr, locked, audit, req>> /\ signed \subseteq signed'
   BY <1>12 DEF OwnerDeletes, OwnerRestores, Tick, Sign
 <2>2. QED
   BY <2>1, QuietStep DEF Gentle
<1>13. QED
  BY <1>2, <1>3, <1>4, <1>5, <1>6, <1>7, <1>8, <1>9, <1>10, <1>11, <1>12 DEF Next, Continue

-----------------------------------------------------------------------------
(* The theorems. *)

(* Every step of the approval routes, the sweep and the owner keeps the     *)
(* inductive invariant: the lock on an approval's row keeps it pending      *)
(* while its transaction runs.                                              *)
THEOREM MutationIsSound == MutationAssumption => (Spec => []IInv)
<1> SUFFICES ASSUME MutationAssumption
             PROVE  Spec => []IInv
  OBVIOUS
<1>1. Init => IInv
 <2> SUFFICES ASSUME Init
              PROVE  IInv
   OBVIOUS
 <2>1. TypeOK
  <3>1. /\ cred \in [Credentials -> [label : Labels, deleted : BOOLEAN]]
        /\ appr \in [Approvals -> Rows] /\ audit \in [Approvals -> Nat]
        /\ req \in [Requests -> RequestStates]
    BY RowTypes DEF Init
  <3>2. QED
    BY <3>1 DEF Init, TypeOK, RequestStates, MutationAssumption
 <2>2. ApprovalSound
   BY DEF Init, ApprovalSound, ApprovalOK, NoApproval
 <2>3. RequestSound
   BY DEF Init, RequestSound, RequestOK, Idle
 <2>4. QED
   BY <2>1, <2>2, <2>3 DEF IInv
<1>2. IInv /\ [Next]_vars => IInv'
 <2> SUFFICES ASSUME IInv, [Next]_vars
              PROVE  IInv'
   OBVIOUS
 <2>1. CASE Next
   BY <2>1, TypeStep, ApprovalStep, RequestStep DEF IInv, ApprovalSound, RequestSound
 <2>2. CASE UNCHANGED vars
   BY <2>2 DEF vars, IInv, TypeOK, ApprovalSound, ApprovalOK, RequestSound, RequestOK,
               InsertOK, CommitOK
 <2>3. QED
   BY <2>1, <2>2
<1>3. QED
  BY <1>1, <1>2, PTL DEF Spec

(* Only the statement that commits makes an approval approved, and it turns *)
(* the state that was shown into the one that was signed.                   *)
LEMMA OnlyCommitApproves ==
    ASSUME MutationAssumption, IInv, Next, NEW a \in Approvals,
           appr'[a].status = "approved", appr[a].status # "approved"
    PROVE  /\ a \in signed /\ State(appr[a].cred) = appr[a].before
           /\ State(appr[a].cred)' = appr[a].after
<1>1. TypeOK
  BY DEF IInv
<1>2. appr'[a] # appr[a]
  OBVIOUS
<1>3. PICK r \in Requests : CreateInsert(r) \/ CommitRead(r) \/ CommitWrite(r) \/ DenyWrite(r)
 <2>1. ASSUME NEW b \in Approvals, Sweep(b)
       PROVE  FALSE
  <3>1. CASE a = b
    BY <1>1, <2>1, <3>1, StatusAfter DEF Sweep, Statuses
  <3>2. CASE a # b
    BY <1>1, <1>2, <2>1, <3>2 DEF Sweep, TypeOK
  <3>3. QED
    BY <3>1, <3>2
 <2>2. QED
   BY <1>2, <2>1 DEF Next, Continue, CreateRead, ApproveRead, DenyRead, ApproveAnswer, DenyAnswer,
               Crash, Sign, OwnerDeletes, OwnerRestores, Tick
<1>4. RequestOK(r)
  BY DEF IInv, RequestSound
<1>5. ~CreateInsert(r)
 <2> SUFFICES ASSUME CreateInsert(r)
              PROVE  FALSE
   OBVIOUS
 <2>1. req[r].draft.status = "pending" /\ req[r].ap \in Approvals
   BY <1>4 DEF CreateInsert, RequestOK, InsertOK
 <2>2. appr'[a] = appr[a] \/ appr'[a] = req[r].draft
   BY <1>1, <2>1 DEF CreateInsert, TypeOK
 <2>3. QED
   BY <1>2, <2>1, <2>2
<1>6. ~CommitRead(r)
 <2> SUFFICES ASSUME CommitRead(r)
              PROVE  FALSE
   OBVIOUS
 <2>1. Refuses(r) /\ req[r].ap \in Approvals
   BY <1>2, <1>4, CommitReadShape DEF Repeats, Locks, RequestOK
 <2>2. CASE req[r].ap = a
   BY <1>1, <2>1, <2>2, StatusAfter DEF Refuses, Statuses
 <2>3. CASE req[r].ap # a
   BY <1>1, <1>2, <2>1, <2>3 DEF Refuses, TypeOK
 <2>4. QED
   BY <2>2, <2>3
<1>7. ~DenyWrite(r)
 <2> SUFFICES ASSUME DenyWrite(r)
              PROVE  FALSE
   OBVIOUS
 <2>1. appr' = [appr EXCEPT ![req[r].ap].status = "denied"]
   BY <1>2 DEF DenyWrite
 <2>2. CASE req[r].ap = a
   BY <1>1, <2>1, <2>2, StatusAfter DEF Statuses
 <2>3. CASE req[r].ap # a
   BY <1>1, <1>2, <2>1, <2>3 DEF TypeOK
 <2>4. QED
   BY <2>2, <2>3
<1>8. CommitWrite(r)
  BY <1>3, <1>5, <1>6, <1>7
<1>9. req[r].pc = "commit_write" /\ req[r].ap \in Approvals
  BY <1>4, <1>8, CommitWriteShape DEF RequestOK
<1>10. Commits(r)
 <2>1. ~Aborts(r)
   BY <1>2 DEF Aborts
 <2>2. ASSUME Loses(r)
       PROVE  FALSE
  <3>1. CASE req[r].ap = a
    BY <1>1, <2>2, <3>1, StatusAfter DEF Loses, Statuses
  <3>2. CASE req[r].ap # a
    BY <1>1, <1>2, <2>2, <3>2 DEF Loses, TypeOK
  <3>3. QED
    BY <3>1, <3>2
 <2>3. QED
   BY <1>8, <2>1, <2>2, CommitWriteShape
<1>11. req[r].ap = a
  BY <1>2, <1>9, <1>10, CommitsAfter
<1>12. QED
  BY <1>9, <1>10, <1>11, CommitsAfter

(* An owner's signature applies one mutation, once, to the credential as    *)
(* it was shown; an answered denial is never followed by it.                *)
THEOREM MutationsAreSafe == MutationAssumption => (Spec => MutationSafe)
<1> SUFFICES ASSUME MutationAssumption
             PROVE  Spec => MutationSafe
  OBVIOUS
<1>1. IInv => TypeOK /\ AppliedOnce /\ DenialIsFinal
  BY DEF IInv, ApprovalSound, ApprovalOK, AppliedOnce, DenialIsFinal
<1>2. IInv /\ [Next]_vars =>
          [\A a \in Approvals :
              appr'[a].status = "approved" /\ appr[a].status # "approved" =>
                  /\ a \in signed /\ State(appr[a].cred) = appr[a].before
                  /\ State(appr[a].cred)' = appr[a].after]_vars
  BY OnlyCommitApproves
<1>3. QED
  BY <1>1, <1>2, MutationIsSound, PTL DEF Spec, MutationSafe, AppliesAsSigned

-----------------------------------------------------------------------------
(* What a page waits for: the approval it edits for is one of this card's,  *)
(* the mandate it sent names it, and a mandate about to be answered was     *)
(* found approved.  A commit that has read the approval keeps it pending:   *)
(* it alone holds the row's lock until its transaction ends.                *)
PageSound(p) ==
    /\ page[p].pc # "closed" => page[p].ap \in CardApprovals
    /\ page[p].pc \notin {"closed", "editing"} => page[p].mandate \in Mandates
    /\ page[p].pc = "answer" => approval[page[p].mandate.ap].status = "approved"
    /\ page[p].pc = "commit_write" =>
          /\ approval[page[p].mandate.ap].status = "pending"
          /\ \A q \in Pages :
                page[q].pc = "commit_write" /\ page[q].mandate.ap = page[p].mandate.ap => q = p

(* A row is approved exactly when its one edit is audited, and what was     *)
(* applied or answered as approved belongs to such rows; a denial that was  *)
(* answered, or won and about to be, left its row denied.                   *)
EditSound ==
    /\ \A a \in CardApprovals : logged[a] = IF approval[a].status = "approved" THEN 1 ELSE 0
    /\ \A m \in applied \union answered : approval[m.ap].status = "approved"
    /\ \A a \in denied : approval[a].status = "denied"
    /\ deny.pc # "idle" => deny.ap \in CardApprovals
    /\ deny.pc = "answer" /\ deny.won => approval[deny.ap].status = "denied"

EditInv == EditTypeOK /\ (\A p \in Pages : PageSound(p)) /\ EditSound

PageRecords == [pc : PagePCs, ap : CardApprovals \union {"none"}, base : SUBSET Pages,
                mandate : Mandates \union {NoMandate}]
DenyRecords == [pc : {"idle", "write", "answer"}, ap : CardApprovals \union {"none"}, t : Nat,
                won : BOOLEAN]
ApprovalRecords == [status : EditStatuses, before : Faces \union {"none"}, until : Nat]

LEMMA EditInitInv == EditAssumption /\ EditInit => EditInv
<1> SUFFICES ASSUME EditAssumption, EditInit
             PROVE  EditInv
  OBVIOUS
<1>1. Closed \in PageRecords
  BY DEF Closed, PageRecords, PagePCs
<1>2. EditTypeOK
 <2>1. card \in [face : Faces, content : SUBSET Pages, deleted : BOOLEAN]
   BY DEF EditInit
 <2>2. approval \in [CardApprovals -> ApprovalRecords]
   BY DEF EditInit, EditStatuses, ApprovalRecords
 <2>3. page \in [Pages -> PageRecords]
   BY <1>1 DEF EditInit
 <2>4. /\ NoDeny \in [pc : {"idle", "write", "answer"}, ap : CardApprovals \union {"none"},
                      t : Nat, won : BOOLEAN]
       /\ deny = NoDeny
   BY DEF NoDeny, EditInit
 <2>5. clock \in 0..LastTick /\ logged \in [CardApprovals -> Nat]
       /\ applied = {} /\ answered = {} /\ denied = {}
   BY DEF EditAssumption, EditInit
 <2>6. QED
   BY <2>1, <2>2, <2>3, <2>4, <2>5 DEF EditTypeOK, ApprovalRecords, PageRecords
<1>3. \A p \in Pages : PageSound(p)
  BY DEF EditInit, PageSound, Closed
<1>4. EditSound
  BY DEF EditInit, EditSound, NoDeny
<1>5. QED
  BY <1>2, <1>3, <1>4 DEF EditInv

(* A page moves, and nothing else does: what it needs of the rows is all    *)
(* there is to check, as long as it does not come to hold a lock.           *)
LEMMA PageMoves ==
  ASSUME EditInv, NEW p \in Pages, NEW w \in PageRecords,
         page' = [page EXCEPT ![p] = w], w.pc # "commit_write",
         w.pc # "closed" => w.ap \in CardApprovals,
         w.pc \notin {"closed", "editing"} => w.mandate \in Mandates,
         w.pc = "answer" => approval[w.mandate.ap].status = "approved",
         UNCHANGED <<clock, card, approval, deny, applied, logged, denied>>,
         answered' \in SUBSET Mandates,
         \A m \in answered' : approval[m.ap].status = "approved"
  PROVE  EditInv'
<1>1. /\ page \in [Pages -> PageRecords]
      /\ page'[p] = w /\ \A q \in Pages : q # p => page'[q] = page[q]
      /\ page' \in [Pages -> PageRecords]
  BY DEF EditInv, EditTypeOK, PageRecords
<1>2. EditTypeOK'
  BY <1>1 DEF EditInv, EditTypeOK, PageRecords
<1>3. ASSUME NEW q \in Pages
      PROVE  PageSound(q)'
 <2>1. CASE q = p
   BY <1>1, <2>1 DEF PageSound
 <2>2. CASE q # p
  <3>1. PageSound(q) /\ page'[q] = page[q]
    BY <1>1, <2>2 DEF EditInv
  <3>2. \A o \in Pages : page'[o].pc = "commit_write" => page'[o] = page[o]
    BY <1>1
  <3>3. QED
    BY <3>1, <3>2 DEF PageSound
 <2>3. QED
   BY <2>1, <2>2
<1>4. EditSound'
  BY DEF EditInv, EditSound
<1>5. QED
  BY <1>2, <1>3, <1>4 DEF EditInv

(* No page goes on with the lock of a row; a deny that moved was about it. *)
Unlocks(a) ==
    \A q \in Pages :
        \/ page'[q] = page[q] /\ ~(page[q].pc = "commit_write" /\ page[q].mandate.ap = a)
        \/ page'[q].pc = "closed"
        \/ page'[q].pc = "editing" /\ page'[q].ap \in CardApprovals
Decides(a, w) == deny' = deny \/ (deny'.ap = a /\ (deny'.won => w.status = "denied"))

(* The row of an approval nobody has decided changes, to anything but       *)
(* approved, while no page that goes on holds its lock.                     *)
LEMMA RowMoves ==
  ASSUME EditInv, NEW a \in CardApprovals, NEW w \in ApprovalRecords,
         approval' = [approval EXCEPT ![a] = w],
         approval[a].status \notin {"approved", "denied"}, w.status # "approved",
         page' \in [Pages -> PageRecords],
         Unlocks(a),
         deny' \in DenyRecords, Decides(a, w),
         UNCHANGED <<clock, card, edits>>
  PROVE  EditInv'
<1>1. /\ approval'[a] = w /\ \A b \in CardApprovals : b # a => approval'[b] = approval[b]
      /\ approval' \in [CardApprovals -> ApprovalRecords]
  BY DEF EditInv, EditTypeOK, ApprovalRecords
<1>2. EditTypeOK'
  BY <1>1 DEF EditInv, EditTypeOK, PageRecords, ApprovalRecords, DenyRecords,
                      edits
<1>3. ASSUME NEW q \in Pages
      PROVE  PageSound(q)'
 <2>1. CASE page'[q].pc \in {"closed", "editing"}
   BY <2>1 DEF PageSound, EditInv, Unlocks
 <2>2. CASE page'[q].pc \notin {"closed", "editing"}
  <3>1. PageSound(q) /\ page'[q] = page[q]
        /\ ~(page[q].pc = "commit_write" /\ page[q].mandate.ap = a)
    BY <2>2 DEF EditInv, Unlocks
  <3>2. page[q].mandate \in Mandates /\ page[q].mandate.ap \in CardApprovals
    BY <2>2, <3>1 DEF PageSound, Mandates
  <3>3. page[q].pc \in {"answer", "commit_write"} =>
            approval'[page[q].mandate.ap] = approval[page[q].mandate.ap]
    BY <1>1, <3>1, <3>2 DEF PageSound
  <3>4. \A o \in Pages : page'[o].pc = "commit_write" => page'[o] = page[o]
    BY DEF Unlocks
  <3>5. QED
    BY <3>1, <3>2, <3>3, <3>4 DEF PageSound
 <2>3. QED
   BY <2>1, <2>2 DEF EditInv, EditTypeOK, PageRecords
<1>4. EditSound'
 <2>1. \A b \in CardApprovals : logged'[b] = IF approval'[b].status = "approved" THEN 1 ELSE 0
   BY <1>1 DEF EditInv, EditSound, edits
 <2>2. \A m \in (applied \union answered)' : approval'[m.ap].status = "approved"
   BY <1>1 DEF EditInv, EditSound, EditTypeOK, Mandates, edits
 <2>3. \A b \in denied' : approval'[b].status = "denied"
   BY <1>1 DEF EditInv, EditSound, EditTypeOK, edits
 <2>4. deny'.pc # "idle" => deny'.ap \in CardApprovals
   BY DEF EditInv, EditSound, Decides
 <2>5. deny'.pc = "answer" /\ deny'.won => approval'[deny'.ap].status = "denied"
   BY <1>1, <2>4 DEF EditInv, EditSound, Decides
 <2>6. QED
   BY <2>1, <2>2, <2>3, <2>4, <2>5 DEF EditSound
<1>5. QED
  BY <1>2, <1>3, <1>4 DEF EditInv

-----------------------------------------------------------------------------
(* What an update of a page amounts to. *)
LEMMA PageUpdates ==
  ASSUME EditInv, NEW p \in Pages
  PROVE  /\ page[p] \in PageRecords
         /\ \A pc \in PagePCs :
               Turn(p, pc) => page' = [page EXCEPT ![p] = [page[p] EXCEPT !.pc = pc]]
         /\ Reopen(p) => page' = [page EXCEPT ![p] = [page[p] EXCEPT !.pc = "editing",
                                                                    !.mandate = NoMandate]]
         /\ \A pc \in PagePCs : [page[p] EXCEPT !.pc = pc] \in PageRecords
         /\ [page[p] EXCEPT !.pc = "editing", !.mandate = NoMandate] \in PageRecords
<1>1. page[p] \in PageRecords /\ page \in [Pages -> PageRecords]
  BY DEF EditInv, EditTypeOK, PageRecords
<1>2. \A pc \in PagePCs : [page[p] EXCEPT !.pc = pc] \in PageRecords
  BY <1>1 DEF PageRecords
<1>3. [page[p] EXCEPT !.pc = "editing", !.mandate = NoMandate] \in PageRecords
  BY <1>1 DEF PageRecords, PagePCs
<1>4. \A pc \in PagePCs :
          Turn(p, pc) => page' = [page EXCEPT ![p] = [page[p] EXCEPT !.pc = pc]]
  BY <1>1 DEF Turn, PageRecords
<1>5. Reopen(p) => page' = [page EXCEPT ![p] = [page[p] EXCEPT !.pc = "editing",
                                                               !.mandate = NoMandate]]
  BY <1>1 DEF Reopen, PageRecords
<1>6. QED
  BY <1>1, <1>2, <1>3, <1>4, <1>5

(* A page whose POST is in flight carries a mandate of this card. *)
LEMMA SentFor ==
  ASSUME EditInv, NEW p \in Pages, page[p].pc \notin {"closed", "editing"}
  PROVE  page[p].mandate \in Mandates /\ page[p].mandate.ap \in CardApprovals
  BY DEF EditInv, PageSound, Mandates

LEMMA TurnStep ==
  ASSUME EditInv, NEW p \in Pages, NEW pc \in PagePCs, Turn(p, pc),
         page[p].pc \notin {"closed", "editing"},
         pc \notin {"commit_write", "closed", "editing"},
         pc = "answer" => approval[page[p].mandate.ap].status = "approved",
         UNCHANGED <<clock, card, approval, deny, edits>>
  PROVE  EditInv'
<1> DEFINE w == [page[p] EXCEPT !.pc = pc]
<1>1. w \in PageRecords /\ page' = [page EXCEPT ![p] = w]
  BY PageUpdates
<1>2. w.pc = pc /\ w.ap = page[p].ap /\ w.mandate = page[p].mandate
  BY PageUpdates DEF PageRecords
<1>3. w.mandate \in Mandates /\ w.ap \in CardApprovals
  BY <1>2, SentFor DEF EditInv, PageSound
<1>4. \A m \in answered' : approval[m.ap].status = "approved"
  BY DEF EditInv, EditSound, edits
<1>5. answered' \in SUBSET Mandates
  BY DEF EditInv, EditTypeOK, edits
<1> HIDE DEF w
<1>6. QED
  BY <1>1, <1>2, <1>3, <1>4, <1>5, PageMoves DEF edits

LEMMA ReopenStep ==
  ASSUME EditInv, NEW p \in Pages, Reopen(p), page[p].pc # "closed",
         UNCHANGED <<clock, card, approval, deny, edits>>
  PROVE  EditInv'
<1> DEFINE w == [page[p] EXCEPT !.pc = "editing", !.mandate = NoMandate]
<1>1. w \in PageRecords /\ page' = [page EXCEPT ![p] = w]
  BY PageUpdates
<1>2. w.pc = "editing" /\ w.ap = page[p].ap
 <2>1. page[p] \in PageRecords
   BY PageUpdates
 <2>2. QED
   BY <2>1 DEF PageRecords
<1>3. w.ap \in CardApprovals
  BY <1>2 DEF EditInv, PageSound
<1>4. \A m \in answered' : approval[m.ap].status = "approved"
  BY DEF EditInv, EditSound, edits
<1>5. answered' \in SUBSET Mandates
  BY DEF EditInv, EditTypeOK, edits
<1> HIDE DEF w
<1>6. QED
  BY <1>1, <1>2, <1>3, <1>4, <1>5, PageMoves DEF edits

(* An approval whose card is not the one that was seen fails, and the page  *)
(* that sent the edit opens again.                                          *)
LEMMA FailStep ==
  ASSUME EditInv, NEW p \in Pages, Reopen(p), page[p].pc \notin {"closed", "editing"},
         approval[page[p].mandate.ap].status = "pending",
         \A q \in Pages : page[q].pc = "commit_write"
                          /\ page[q].mandate.ap = page[p].mandate.ap => q = p,
         approval' = [approval EXCEPT ![page[p].mandate.ap].status = "failed"],
         UNCHANGED <<clock, card, deny, edits>>
  PROVE  EditInv'
<1> DEFINE a == page[p].mandate.ap
           w == [approval[a] EXCEPT !.status = "failed"]
<1>1. a \in CardApprovals
  BY SentFor
<1>2. approval \in [CardApprovals -> ApprovalRecords]
  BY DEF EditInv, EditTypeOK, ApprovalRecords
<1>3. w \in ApprovalRecords /\ w.status = "failed"
  BY <1>1, <1>2 DEF ApprovalRecords, EditStatuses
<1>4. approval' = [approval EXCEPT ![a] = w]
  BY <1>1, <1>2 DEF ApprovalRecords
<1> DEFINE v == [page[p] EXCEPT !.pc = "editing", !.mandate = NoMandate]
<1>5. v \in PageRecords /\ page' = [page EXCEPT ![p] = v]
  BY PageUpdates
<1>6. v.pc = "editing" /\ v.ap = page[p].ap
 <2>1. page[p] \in PageRecords
   BY PageUpdates
 <2>2. QED
   BY <2>1 DEF PageRecords
<1>7. v.ap \in CardApprovals
  BY <1>6 DEF EditInv, PageSound
<1>8. page \in [Pages -> PageRecords]
  BY DEF EditInv, EditTypeOK, PageRecords
<1>9. deny' \in DenyRecords /\ Decides(a, w)
  BY DEF EditInv, EditTypeOK, DenyRecords, Decides
<1>10. approval[a].status = "pending"
       /\ \A q \in Pages : page[q].pc = "commit_write" /\ page[q].mandate.ap = a => q = p
  OBVIOUS
<1> HIDE DEF a, v, w
<1>11. page' \in [Pages -> PageRecords]
       /\ page'[p] = v /\ \A q \in Pages : q # p => page'[q] = page[q]
  BY <1>5, <1>8
<1>12. Unlocks(a)
  BY <1>6, <1>7, <1>10, <1>11 DEF Unlocks
<1>13. QED
  BY <1>1, <1>3, <1>4, <1>9, <1>10, <1>11, <1>12, RowMoves

-----------------------------------------------------------------------------
(* One lemma per handler whose step is not one of the three above. *)
LEMMA CreateStep ==
  ASSUME EditAssumption, EditInv, NEW a \in CardApprovals, ReadFace(a) \/ Create(a)
  PROVE  EditInv'
<1>1. PICK w \in ApprovalRecords :
          /\ approval' = [approval EXCEPT ![a] = w] /\ w.status \in {"read", "pending"}
          /\ approval[a].status \in {"none", "read"}
 <2>1. CASE ReadFace(a)
  <3> DEFINE w == [status |-> "read", before |-> card.face, until |-> EditExpiry(clock)]
  <3>1. w \in ApprovalRecords
    BY DEF EditInv, EditTypeOK, ApprovalRecords, EditStatuses, EditExpiry, EditAssumption
  <3>2. QED
    BY <2>1, <3>1 DEF ReadFace
 <2>2. CASE Create(a)
  <3> DEFINE w == [approval[a] EXCEPT !.status = "pending"]
  <3>1. w \in ApprovalRecords /\ w.status = "pending"
    BY DEF EditInv, EditTypeOK, ApprovalRecords, EditStatuses
  <3>2. approval' = [approval EXCEPT ![a] = w]
    BY <2>2 DEF Create
  <3>3. QED
    BY <2>2, <3>1, <3>2 DEF Create
 <2>3. QED
   BY <2>1, <2>2
<1>2. page' \in [Pages -> PageRecords] /\ deny' \in DenyRecords /\ Decides(a, w)
  BY DEF ReadFace, Create, EditInv, EditTypeOK, PageRecords, DenyRecords, Decides
<1>3. Unlocks(a)
  BY <1>1 DEF Unlocks, ReadFace, Create, EditInv, PageSound
<1>4. UNCHANGED <<clock, card, edits>>
  BY DEF ReadFace, Create
<1>5. QED
  BY <1>1, <1>2, <1>3, <1>4, RowMoves

LEMMA LoadStep ==
  ASSUME EditInv, NEW p \in Pages, Load(p)
  PROVE  EditInv'
<1>1. PICK a \in CardApprovals :
          page' = [page EXCEPT ![p] = [Closed EXCEPT !.pc = "editing", !.ap = a,
                                                     !.base = card.content]]
  BY DEF Load
<1> DEFINE w == [Closed EXCEPT !.pc = "editing", !.ap = a, !.base = card.content]
<1>2. w \in PageRecords /\ w.pc = "editing" /\ w.ap = a
  BY DEF Closed, PageRecords, PagePCs, EditInv, EditTypeOK
<1>3. page' = [page EXCEPT ![p] = w]
  BY <1>1
<1> HIDE DEF w
<1>4. QED
  BY <1>2, <1>3, PageMoves DEF Load, edits, EditInv, EditSound, EditTypeOK

LEMMA SaveStep ==
  ASSUME EditInv, NEW p \in Pages, Save(p)
  PROVE  EditInv'
<1>1. PICK face \in Faces :
          page' = [page EXCEPT ![p].pc = "approve_read", ![p].mandate =
                       [ap |-> page[p].ap, face |-> face, content |-> page[p].base \union {p}]]
  BY DEF Save
<1> DEFINE m == [ap |-> page[p].ap, face |-> face, content |-> page[p].base \union {p}]
           w == [page[p] EXCEPT !.pc = "approve_read", !.mandate = m]
<1>2. page \in [Pages -> PageRecords] /\ page[p] \in PageRecords
  BY DEF EditInv, EditTypeOK, PageRecords
<1>3. page[p].ap \in CardApprovals
  BY DEF Save, EditInv, PageSound
<1>4. m \in Mandates
  BY <1>2, <1>3 DEF Mandates, PageRecords
<1> HIDE DEF m
<1>5. w \in PageRecords /\ w.pc = "approve_read" /\ w.ap = page[p].ap /\ w.mandate = m
  BY <1>2, <1>4 DEF PageRecords, PagePCs
<1>6. page' = [page EXCEPT ![p] = w]
  BY <1>1, <1>2 DEF PageRecords, m
<1> HIDE DEF w
<1>7. QED
  BY <1>3, <1>4, <1>5, <1>6, PageMoves DEF Save, edits, EditInv, EditSound, EditTypeOK

LEMMA CloseStep ==
  ASSUME EditInv, NEW p \in Pages, page' = [page EXCEPT ![p] = Closed],
         UNCHANGED <<clock, card, approval, deny, applied, logged, denied>>,
         answered' \in SUBSET Mandates,
         \A m \in answered' : approval[m.ap].status = "approved"
  PROVE  EditInv'
<1>1. Closed \in PageRecords /\ Closed.pc = "closed"
  BY DEF Closed, PageRecords, PagePCs
<1>2. QED
  BY <1>1, PageMoves

LEMMA EditApproveReadStep ==
  ASSUME EditInv, NEW p \in Pages, EditApproveRead(p)
  PROVE  EditInv'
<1>1. page[p].pc = "approve_read" /\ UNCHANGED <<clock, card, approval, deny, edits>>
  BY DEF EditApproveRead
<1>2. \/ Turn(p, "answer") /\ approval[page[p].mandate.ap].status = "approved"
      \/ Turn(p, "commit_read")
      \/ Reopen(p)
  BY DEF EditApproveRead
<1>3. {"answer", "commit_read"} \subseteq PagePCs
  BY DEF PagePCs
<1>4. QED
  BY <1>1, <1>2, <1>3, TurnStep, ReopenStep

(* The commit reads the approval under its lock, and the card. *)
LEMMA EditCommitReadStep ==
  ASSUME EditInv, NEW p \in Pages, EditCommitRead(p)
  PROVE  EditInv'
<1> DEFINE a == page[p].mandate.ap
<1>1. page[p].pc = "commit_read" /\ ~Locked(a) /\ UNCHANGED <<clock, card, deny, edits>>
  BY DEF EditCommitRead
<1>2. a \in CardApprovals /\ page[p].mandate \in Mandates
  BY <1>1, SentFor
<1>3. \/ Turn(p, "answer") /\ approval[a].status = "approved" /\ UNCHANGED approval
      \/ Reopen(p) /\ UNCHANGED approval
      \/ /\ approval[a].status = "pending"
         /\ approval' = [approval EXCEPT ![a].status = "failed"] /\ Reopen(p)
      \/ approval[a].status = "pending" /\ Turn(p, "commit_write") /\ UNCHANGED approval
  BY DEF EditCommitRead
<1>4. CASE Turn(p, "answer") /\ approval[a].status = "approved" /\ UNCHANGED approval
 <2>1. "answer" \in PagePCs
   BY DEF PagePCs
 <2>2. QED
   BY <1>1, <1>4, <2>1, TurnStep
<1>5. CASE Reopen(p) /\ UNCHANGED approval
  BY <1>1, <1>5, ReopenStep
<1>6. CASE /\ approval[a].status = "pending"
           /\ approval' = [approval EXCEPT ![a].status = "failed"] /\ Reopen(p)
  BY <1>1, <1>6, FailStep DEF Locked
<1>7. CASE approval[a].status = "pending" /\ Turn(p, "commit_write") /\ UNCHANGED approval
 <2> DEFINE w == [page[p] EXCEPT !.pc = "commit_write"]
 <2>1. page[p] \in PageRecords /\ page \in [Pages -> PageRecords]
   BY DEF EditInv, EditTypeOK, PageRecords
 <2>2. w \in PageRecords /\ w.pc = "commit_write" /\ w.mandate = page[p].mandate
       /\ w.ap = page[p].ap
   BY <2>1 DEF PageRecords, PagePCs
 <2>3. page' = [page EXCEPT ![p] = w]
   BY <1>7, <2>1 DEF Turn, PageRecords
 <2> HIDE DEF w
 <2>4. page' \in [Pages -> PageRecords]
       /\ page'[p] = w /\ \A q \in Pages : q # p => page'[q] = page[q]
   BY <2>1, <2>2, <2>3
 <2>5. EditTypeOK'
   BY <1>1, <1>7, <2>4 DEF EditInv, EditTypeOK, PageRecords, edits
 <2>6. ASSUME NEW q \in Pages
       PROVE  PageSound(q)'
  <3>1. CASE q = p
   <4>1. page'[q] = w /\ approval' = approval
     BY <1>7, <2>4, <3>1
   <4>2. w.ap \in CardApprovals
     BY <1>1, <2>2 DEF EditInv, PageSound
   <4>3. \A o \in Pages : page'[o].pc = "commit_write" /\ page'[o].mandate.ap = a => o = p
     BY <1>1, <2>4 DEF Locked
   <4>4. QED
     BY <1>2, <1>7, <2>2, <3>1, <4>1, <4>2, <4>3 DEF PageSound
  <3>2. CASE q # p
   <4>1. PageSound(q) /\ page'[q] = page[q] /\ approval' = approval
     BY <1>7, <2>4, <3>2 DEF EditInv
   <4>2. page[q].pc = "commit_write" => page[q].mandate.ap # a
     BY <1>1 DEF Locked
   <4>3. \A o \in Pages : page'[o].pc = "commit_write" => page'[o] = page[o] \/ o = p
     BY <2>4
   <4>4. page'[p].mandate.ap = a
     BY <2>2, <2>4
   <4>5. QED
     BY <4>1, <4>2, <4>3, <4>4 DEF PageSound
  <3>3. QED
    BY <3>1, <3>2
 <2>7. EditSound'
   BY <1>1, <1>7 DEF EditInv, EditSound, edits
 <2>8. QED
   BY <2>5, <2>6, <2>7 DEF EditInv
<1>8. QED
  BY <1>3, <1>4, <1>5, <1>6, <1>7

(* The commit's write: the row is the one it read, so the edit it applies   *)
(* is the first, and no denial stands.                                      *)
LEMMA AppliedStep ==
  ASSUME EditInv, NEW p \in Pages, page[p].pc = "commit_write",
         Turn(p, "answer"),
         card' = [card EXCEPT !.face = page[p].mandate.face,
                              !.content = page[p].mandate.content],
         approval' = [approval EXCEPT ![page[p].mandate.ap].status = "approved"],
         applied' = applied \union {page[p].mandate},
         logged' = [logged EXCEPT ![page[p].mandate.ap] = @ + 1],
         UNCHANGED <<clock, deny, answered, denied>>
  PROVE  EditInv'
<1> DEFINE m == page[p].mandate
           a == m.ap
           w == [page[p] EXCEPT !.pc = "answer"]
           v == [approval[a] EXCEPT !.status = "approved"]
<1>1. m \in Mandates /\ a \in CardApprovals
  BY SentFor
<1>2. /\ page \in [Pages -> PageRecords]
      /\ approval \in [CardApprovals -> ApprovalRecords]
      /\ logged \in [CardApprovals -> Nat]
  BY DEF EditInv, EditTypeOK, PageRecords, ApprovalRecords
<1>3. w \in PageRecords /\ w.pc = "answer" /\ w.mandate = m /\ w.ap = page[p].ap
  BY <1>2 DEF PageRecords, PagePCs
<1>4. v \in ApprovalRecords /\ v.status = "approved"
  BY <1>1, <1>2 DEF ApprovalRecords, EditStatuses
<1>5. approval[a].status = "pending" /\ logged[a] = 0
      /\ \A q \in Pages : page[q].pc = "commit_write" /\ page[q].mandate.ap = a => q = p
  BY <1>1 DEF EditInv, PageSound, EditSound
<1>6. page' = [page EXCEPT ![p] = w] /\ w.ap \in CardApprovals
  BY <1>2, <1>3 DEF Turn, PageRecords, EditInv, PageSound
<1>7. approval' = [approval EXCEPT ![a] = v]
  BY <1>1, <1>2 DEF ApprovalRecords
<1>8. logged' = [logged EXCEPT ![a] = 1]
  BY <1>1, <1>2, <1>5
<1>9. applied' = applied \union {m}
  OBVIOUS
<1>10. card' \in [face : Faces, content : SUBSET Pages, deleted : BOOLEAN]
  BY <1>1 DEF EditInv, EditTypeOK, Mandates
<1> HIDE DEF v, w
<1>11. /\ page'[p] = w /\ \A q \in Pages : q # p => page'[q] = page[q]
       /\ page' \in [Pages -> PageRecords]
       /\ approval'[a] = v /\ \A b \in CardApprovals : b # a => approval'[b] = approval[b]
       /\ approval' \in [CardApprovals -> ApprovalRecords]
       /\ logged'[a] = 1 /\ \A b \in CardApprovals : b # a => logged'[b] = logged[b]
       /\ logged' \in [CardApprovals -> Nat]
  BY <1>1, <1>2, <1>3, <1>4, <1>6, <1>7, <1>8
<1> HIDE DEF a, m
<1>12. EditTypeOK'
  BY <1>1, <1>9, <1>10, <1>11 DEF EditInv, EditTypeOK, PageRecords, ApprovalRecords
<1>13. ASSUME NEW q \in Pages
       PROVE  PageSound(q)'
 <2>1. \A o \in Pages : page'[o].pc = "commit_write" => page'[o] = page[o]
   BY <1>3, <1>11
 <2>2. CASE q = p
  <3>1. page'[q] = w /\ w.mandate.ap = a
    BY <1>3, <1>11, <2>2 DEF a
  <3>2. QED
    BY <1>1, <1>3, <1>4, <1>6, <1>11, <3>1 DEF PageSound
 <2>3. CASE q # p
  <3>1. PageSound(q) /\ page'[q] = page[q]
    BY <1>11, <2>3 DEF EditInv
  <3>2. page[q].pc \notin {"closed", "editing"} => page[q].mandate.ap \in CardApprovals
    BY SentFor
  <3>3. page[q].pc = "commit_write" => page[q].mandate.ap # a
    BY <1>5, <2>3
  <3>4. page[q].pc = "commit_write" =>
            approval'[page[q].mandate.ap] = approval[page[q].mandate.ap]
    BY <1>11, <3>2, <3>3
  <3>5. page[q].pc = "answer" => approval'[page[q].mandate.ap].status = "approved"
    BY <1>4, <1>11, <3>1, <3>2 DEF PageSound
  <3>6. QED
    BY <2>1, <3>1, <3>4, <3>5 DEF PageSound
 <2>4. QED
   BY <2>2, <2>3
<1>14. EditSound'
 <2>1. \A b \in CardApprovals : logged'[b] = IF approval'[b].status = "approved" THEN 1 ELSE 0
   BY <1>4, <1>11 DEF EditInv, EditSound
 <2>2. ASSUME NEW n \in (applied \union answered)'
       PROVE  approval'[n.ap].status = "approved"
  <3>1. n = m \/ n \in applied \union answered
    BY <1>9
  <3>2. n \in applied \union answered =>
            n.ap \in CardApprovals /\ approval[n.ap].status = "approved"
    BY DEF EditInv, EditTypeOK, EditSound, Mandates
  <3>3. QED
    BY <1>4, <1>11, <3>1, <3>2 DEF a
 <2>3. \A b \in denied : b \in CardApprovals /\ approval'[b].status = "denied"
   BY <1>5, <1>11 DEF EditInv, EditTypeOK, EditSound
 <2>4. deny.pc # "idle" => deny.ap \in CardApprovals
   BY DEF EditInv, EditSound
 <2>5. deny.pc = "answer" /\ deny.won => approval'[deny.ap].status = "denied"
   BY <1>5, <1>11, <2>4 DEF EditInv, EditSound
 <2>6. QED
   BY <2>1, <2>2, <2>3, <2>4, <2>5 DEF EditSound
<1>15. QED
  BY <1>12, <1>13, <1>14 DEF EditInv

LEMMA EditCommitWriteStep ==
  ASSUME EditInv, NEW p \in Pages, EditCommitWrite(p)
  PROVE  EditInv'
<1>1. page[p].pc = "commit_write"
  BY DEF EditCommitWrite
<1>2. /\ approval[page[p].mandate.ap].status = "pending"
      /\ \A q \in Pages : page[q].pc = "commit_write"
                          /\ page[q].mandate.ap = page[p].mandate.ap => q = p
  BY <1>1 DEF EditInv, PageSound
<1>3. CASE card.deleted \/ card.face # approval[page[p].mandate.ap].before
 <2>1. /\ approval' = [approval EXCEPT ![page[p].mandate.ap].status = "failed"]
       /\ Reopen(p) /\ UNCHANGED <<clock, card, deny, edits>>
   BY <1>3 DEF EditCommitWrite, edits
 <2>2. QED
   BY <1>1, <1>2, <2>1, FailStep
<1>4. CASE ~(card.deleted \/ card.face # approval[page[p].mandate.ap].before)
  BY <1>1, <1>4, AppliedStep DEF EditCommitWrite
<1>5. QED
  BY <1>3, <1>4

LEMMA AnswerStep ==
  ASSUME EditInv, NEW p \in Pages, Answer(p)
  PROVE  EditInv'
<1>1. /\ page[p].mandate \in Mandates
      /\ approval[page[p].mandate.ap].status = "approved"
  BY DEF Answer, EditInv, PageSound
<1>2. answered' \in SUBSET Mandates /\ \A m \in answered' : approval[m.ap].status = "approved"
  BY <1>1 DEF Answer, EditInv, EditTypeOK, EditSound
<1>3. QED
  BY <1>2, CloseStep DEF Answer

(* A deny reads the row, writes it under its lock and reads it again for    *)
(* its answer.                                                              *)
LEMMA EditDenyReadStep == EditInv /\ EditDenyRead => EditInv'
<1> SUFFICES ASSUME EditInv, EditDenyRead
             PROVE  EditInv'
  OBVIOUS
<1>1. PICK a \in CardApprovals : deny' = [NoDeny EXCEPT !.pc = "write", !.ap = a, !.t = clock]
  BY DEF EditDenyRead
<1>2. deny' \in DenyRecords /\ deny'.pc = "write" /\ deny'.ap = a
 <2>1. clock \in Nat
   BY DEF EditInv, EditTypeOK
 <2>2. deny' = [pc |-> "write", ap |-> a, t |-> clock, won |-> FALSE]
   BY <1>1 DEF NoDeny
 <2>3. QED
   BY <2>1, <2>2 DEF DenyRecords
<1>3. EditTypeOK'
  BY <1>2 DEF EditDenyRead, EditInv, EditTypeOK, DenyRecords, edits
<1>4. \A p \in Pages : PageSound(p)'
  BY DEF EditDenyRead, EditInv, PageSound
<1>5. EditSound'
  BY <1>2 DEF EditDenyRead, EditInv, EditSound, edits
<1>6. QED
  BY <1>3, <1>4, <1>5 DEF EditInv

LEMMA EditDenyWriteStep == EditInv /\ EditDenyWrite => EditInv'
<1> SUFFICES ASSUME EditInv, EditDenyWrite
             PROVE  EditInv'
  OBVIOUS
<1> DEFINE a == deny.ap
           won == approval[a].status = "pending" /\ ~EditLapsed(a, deny.t)
           d == [deny EXCEPT !.pc = "answer", !.t = 0, !.won = won]
<1>1. a \in CardApprovals
  BY DEF EditDenyWrite, EditInv, EditSound
<1>2. deny \in DenyRecords
  BY DEF EditInv, EditTypeOK, DenyRecords
<1>3. won \in BOOLEAN /\ deny' = d
  BY DEF EditDenyWrite
<1> HIDE DEF won
<1>4. d \in DenyRecords /\ d.pc = "answer" /\ d.ap = a /\ d.won = won
  BY <1>2, <1>3 DEF DenyRecords
<1>5. page \in [Pages -> PageRecords] /\ UNCHANGED <<clock, card, page, edits>>
  BY DEF EditDenyWrite, EditInv, EditTypeOK, PageRecords
<1> HIDE DEF d
<1>6. CASE won
 <2> DEFINE w == [approval[a] EXCEPT !.status = "denied"]
 <2>1. approval \in [CardApprovals -> ApprovalRecords] /\ approval[a].status = "pending"
   BY <1>6 DEF EditInv, EditTypeOK, ApprovalRecords, won
 <2>2. w \in ApprovalRecords /\ w.status = "denied"
   BY <1>1, <2>1 DEF ApprovalRecords, EditStatuses
 <2>3. approval' = [approval EXCEPT ![a] = w]
   BY <1>1, <1>6, <2>1 DEF EditDenyWrite, ApprovalRecords, won
 <2> HIDE DEF w
 <2>4. Unlocks(a)
   BY <1>5 DEF Unlocks, EditDenyWrite, Locked
 <2>5. Decides(a, w)
   BY <1>3, <1>4, <2>2 DEF Decides
 <2>6. page' \in [Pages -> PageRecords] /\ deny' \in DenyRecords
   BY <1>3, <1>4, <1>5
 <2> HIDE DEF a
 <2>7. QED
   BY <1>1, <1>5, <2>1, <2>2, <2>3, <2>4, <2>5, <2>6, RowMoves
<1>7. CASE ~won
 <2>1. approval' = approval
   BY <1>7 DEF EditDenyWrite, won
 <2>2. EditTypeOK'
   BY <1>3, <1>4, <1>5, <2>1 DEF EditInv, EditTypeOK, DenyRecords, edits
 <2>3. \A p \in Pages : PageSound(p)'
   BY <1>5, <2>1 DEF EditInv, PageSound
 <2>4. EditSound'
   BY <1>1, <1>3, <1>4, <1>5, <1>7, <2>1 DEF EditInv, EditSound, edits
 <2>5. QED
   BY <2>2, <2>3, <2>4 DEF EditInv
<1>8. QED
  BY <1>6, <1>7

LEMMA EditDenyAnswerStep == EditInv /\ EditDenyAnswer => EditInv'
<1> SUFFICES ASSUME EditInv, EditDenyAnswer
             PROVE  EditInv'
  OBVIOUS
<1>1. NoDeny \in DenyRecords \/ deny' = NoDeny
  BY DEF EditDenyAnswer
<1>2. deny.ap \in CardApprovals /\ deny' = NoDeny /\ NoDeny.pc = "idle"
  BY DEF EditDenyAnswer, EditInv, EditSound, NoDeny
<1>3. denied' \in SUBSET CardApprovals /\ \A a \in denied' : approval[a].status = "denied"
  BY <1>2 DEF EditDenyAnswer, EditInv, EditTypeOK, EditSound
<1>4. deny' \in DenyRecords
  BY <1>2 DEF NoDeny, DenyRecords
<1>5. EditTypeOK'
  BY <1>3, <1>4 DEF EditDenyAnswer, EditInv, EditTypeOK, DenyRecords
<1>6. \A p \in Pages : PageSound(p)'
  BY DEF EditDenyAnswer, EditInv, PageSound
<1>7. EditSound'
  BY <1>2, <1>3 DEF EditDenyAnswer, EditInv, EditSound
<1>8. QED
  BY <1>5, <1>6, <1>7 DEF EditInv

LEMMA RestStep ==
  ASSUME EditAssumption, EditInv, Rename \/ Delete \/ TimePasses
  PROVE  EditInv'
<1>1. UNCHANGED <<approval, page, deny, applied, logged, answered, denied>>
  BY DEF Rename, Delete, TimePasses, edits
<1>2. card' \in [face : Faces, content : SUBSET Pages, deleted : BOOLEAN]
 <2>1. card \in [face : Faces, content : SUBSET Pages, deleted : BOOLEAN]
   BY DEF EditInv, EditTypeOK
 <2>2. CASE Rename
   BY <2>1, <2>2 DEF Rename
 <2>3. CASE Delete
   BY <2>1, <2>3 DEF Delete
 <2>4. CASE TimePasses
   BY <2>1, <2>4 DEF TimePasses
 <2>5. QED
   BY <2>2, <2>3, <2>4
<1>3. clock' \in 0..LastTick
  BY DEF Rename, Delete, TimePasses, EditInv, EditTypeOK, EditAssumption
<1>4. EditTypeOK'
  BY <1>1, <1>2, <1>3 DEF EditInv, EditTypeOK
<1>5. \A p \in Pages : PageSound(p)'
  BY <1>1 DEF EditInv, PageSound
<1>6. EditSound'
  BY <1>1 DEF EditInv, EditSound
<1>7. QED
  BY <1>4, <1>5, <1>6 DEF EditInv

(* Every handler of a card's approvals keeps the rows, the audit and the    *)
(* answers in agreement, whoever else is at work.                           *)
THEOREM EditIsSound == EditAssumption => (EditSpec => []EditInv)
<1> SUFFICES ASSUME EditAssumption
             PROVE  EditSpec => []EditInv
  OBVIOUS
<1>1. EditInit => EditInv
  BY EditInitInv
<1>2. EditInv /\ [EditNext]_editVars => EditInv'
 <2> SUFFICES ASSUME EditInv, [EditNext]_editVars
              PROVE  EditInv'
   OBVIOUS
 <2>1. CASE \E a \in CardApprovals : ReadFace(a) \/ Create(a)
   BY <2>1, CreateStep
 <2>2. ASSUME NEW p \in Pages,
              \/ Load(p) \/ Save(p) \/ EditApproveRead(p) \/ EditCommitRead(p)
              \/ EditCommitWrite(p) \/ Answer(p) \/ Lose(p) \/ Close(p)
       PROVE  EditInv'
  <3>1. Lose(p) => EditInv'
    BY ReopenStep DEF Lose
  <3>2. Close(p) => EditInv'
   <4>1. Close(p) => answered' \in SUBSET Mandates
                     /\ \A m \in answered' : approval[m.ap].status = "approved"
     BY DEF Close, edits, EditInv, EditTypeOK, EditSound
   <4>2. QED
     BY <4>1, CloseStep DEF Close, edits
  <3>3. QED
    BY <2>2, <3>1, <3>2, LoadStep, SaveStep, EditApproveReadStep, EditCommitReadStep,
       EditCommitWriteStep, AnswerStep
 <2>3. CASE EditDenyRead \/ EditDenyWrite \/ EditDenyAnswer
   BY <2>3, EditDenyReadStep, EditDenyWriteStep, EditDenyAnswerStep
 <2>4. CASE Rename \/ Delete \/ TimePasses
   BY <2>4, RestStep
 <2>5. CASE UNCHANGED editVars
  <3>1. EditTypeOK'
    BY <2>5 DEF editVars, EditInv, EditTypeOK
  <3>2. (\A p \in Pages : PageSound(p)') /\ EditSound'
    BY <2>5 DEF editVars, EditInv, PageSound, EditSound
  <3>3. QED
    BY <3>1, <3>2 DEF EditInv
 <2>6. QED
   BY <2>1, <2>2, <2>3, <2>4, <2>5 DEF EditNext
<1>3. QED
  BY <1>1, <1>2, PTL DEF EditSpec

(* Nothing but the write of a commit applies an edit. *)
LEMMA OnlyCommitApplies ==
  ASSUME EditInv, [EditNext]_editVars, applied' # applied
  PROVE  \E m \in applied' :
             /\ applied' = applied \union {m}
             /\ \A n \in applied : n.ap # m.ap
             /\ card.face = approval[m.ap].before /\ ~card.deleted
<1>1. PICK p \in Pages : EditCommitWrite(p)
  BY DEF EditNext, editVars, edits, ReadFace, Create, Load, Save, EditApproveRead, EditCommitRead, Answer,
     Lose, Close, EditDenyRead, EditDenyWrite, EditDenyAnswer, Rename, Delete, TimePasses
<1> DEFINE m == page[p].mandate
<1>2. /\ applied' = applied \union {m}
      /\ card.face = approval[m.ap].before /\ ~card.deleted
  BY <1>1 DEF EditCommitWrite
<1>3. approval[m.ap].status = "pending"
  BY <1>1 DEF EditCommitWrite, EditInv, PageSound
<1>4. \A n \in applied : approval[n.ap].status = "approved"
  BY DEF EditInv, EditSound
<1>5. \A n \in applied : n.ap # m.ap
  BY <1>3, <1>4
<1>6. m \in applied'
  BY <1>2
<1> HIDE DEF m
<1>7. QED
  BY <1>2, <1>5, <1>6

(* An approved edit of a card is applied once, over the face its owner saw, *)
(* and never after an answered denial, for any approvals, pages and faces.  *)
THEOREM EditsAreSafe == EditAssumption => (EditSpec => EditsSafe)
<1> SUFFICES ASSUME EditAssumption
             PROVE  EditSpec => EditsSafe
  OBVIOUS
<1>1. EditInv => EditTypeOK /\ EditedOnce /\ DenialStands
 <2> SUFFICES ASSUME EditInv
              PROVE  EditTypeOK /\ EditedOnce /\ DenialStands
   OBVIOUS
 <2>1. EditTypeOK /\ DenialStands
   BY DEF EditInv, EditTypeOK, EditSound, DenialStands
 <2>2. EditedOnce
   BY DEF EditInv, EditTypeOK, EditSound, EditedOnce
 <2>3. QED
   BY <2>1, <2>2
<1>2. EditInv /\ [EditNext]_editVars =>
          [applied' # applied =>
              \E m \in applied' :
                  /\ applied' = applied \union {m}
                  /\ \A n \in applied : n.ap # m.ap
                  /\ card.face = approval[m.ap].before /\ ~card.deleted]_editVars
  BY OnlyCommitApplies
<1>3. QED
  BY <1>1, <1>2, EditIsSound, PTL DEF EditSpec, EditsSafe, AppliesToFaceSeen
=============================================================================
