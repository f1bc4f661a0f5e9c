------------------------- MODULE CredentialMutation -------------------------
(***************************************************************************)
(* Approvals that rename or delete a stored credential.  An approval is    *)
(* created for the metadata its requester saw; the owner's signature lets  *)
(* one transaction commit it, which locks the approval's row but not the   *)
(* credential's.                                                           *)
(***************************************************************************)
EXTENDS Integers, FiniteSets

CONSTANTS
    Approvals,    \* ids of approvals
    Requests,     \* handler invocations in flight at once
    Credentials,  \* credentials of one account and service
    Labels,       \* values of the editable metadata, by their label
    Ttl,          \* 10 minutes, in ticks
    MaxTime       \* bound: last tick of the clock

Gone == "deleted"  \* what a deletion leaves, in place of a label

MutationAssumption ==
    Ttl \in Nat \ {0} /\ MaxTime \in Nat /\ Gone \notin Labels

VARIABLES
    now,
    cred,      \* Credential rows: label, and deleted or not
    appr,      \* CredentialMutationApproval rows
    locked,    \* approvals whose row a transaction has locked
    signed,    \* approvals the owner's passkey has signed
    audit,     \* audit rows of committed mutations, per approval
    told,      \* <<approval, decision>> answered with 200
    req        \* in-flight requests

vars == <<now, cred, appr, locked, signed, audit, told, req>>

States == Labels \union {Gone}
Statuses == {"none", "pending", "approved", "failed", "denied", "swept"}
PCs == {"idle", "insert", "commit_read", "commit_write", "approve_answer",
        "deny_write", "deny_answer"}

NoApproval == [status |-> "none", cred |-> "none", before |-> Gone, after |-> Gone, until |-> 0]
Idle == [pc |-> "idle", t |-> 0, ap |-> "none", draft |-> NoApproval, seen |-> Gone,
         won |-> FALSE]
Rows == [status : Statuses, cred : Credentials \union {"none"}, before : States,
         after : States, until : Nat]

TypeOK ==
    /\ now \in 0..MaxTime
    /\ cred \in [Credentials -> [label : Labels, deleted : BOOLEAN]]
    /\ appr \in [Approvals -> Rows]
    /\ locked \in SUBSET Approvals
    /\ signed \in SUBSET Approvals
    /\ audit \in [Approvals -> Nat]
    /\ told \in SUBSET (Approvals \X {"approved", "denied"})
    /\ req \in [Requests -> [pc : PCs, t : Nat, ap : Approvals \union {"none"}, draft : Rows,
                             seen : States, won : BOOLEAN]]

Init ==
    /\ now = 0
    /\ cred \in {f \in [Credentials -> [label : Labels, deleted : {FALSE}]] :
                    \A c, d \in Credentials : c # d => f[c].label # f[d].label}
    /\ appr = [a \in Approvals |-> NoApproval]
    /\ locked = {} /\ signed = {} /\ told = {}
    /\ audit = [a \in Approvals |-> 0]
    /\ req = [r \in Requests |-> Idle]

State(c) == IF cred[c].deleted THEN Gone ELSE cred[c].label
Exists(a) == appr[a].status \notin {"none", "swept"}
LapsedAt(a, t) == appr[a].until <= t

(* The unique index over the active rows of an account. *)
Taken(c, label) == \E d \in Credentials \ {c} : State(d) = label

(* Mutated forms, named Operator_Fault, precede the operator they distort;
   nothing refers to them but the mutation runs of PROJECT.json. *)
Expiry(t) == t + Ttl

Start(r, a, pc, t) == req' = [req EXCEPT ![r] = [Idle EXCEPT !.pc = pc, !.ap = a, !.t = t]]
Goto(r, pc) == req' = [req EXCEPT ![r].pc = pc]
Done(r) == req' = [req EXCEPT ![r] = Idle]

-----------------------------------------------------------------------------
(* POST /v1/vault/mutation-approvals: before is the metadata as it is read, *)
(* after what the requested change makes of it.                             *)

CreateRead(r) ==
    /\ req[r] = Idle
    /\ \E a \in Approvals, c \in Credentials, after \in States :
           /\ appr[a].status = "none" /\ \A q \in Requests : req[q].ap # a
           /\ ~cred[c].deleted /\ after # State(c)
           /\ req' = [req EXCEPT ![r] = [Idle EXCEPT
                  !.pc = "insert", !.ap = a,
                  !.draft = [status |-> "pending", cred |-> c, before |-> State(c),
                             after |-> after, until |-> Expiry(now)]]]
    /\ UNCHANGED <<now, cred, appr, locked, signed, audit, told>>

CreateInsert(r) ==
    /\ req[r].pc = "insert"
    /\ appr' = [appr EXCEPT ![req[r].ap] = req[r].draft]
    /\ Done(r)
    /\ UNCHANGED <<now, cred, locked, signed, audit, told>>

(* The ceremony page shows the stored before and after; the passkey signs.  *)
Sign(a) ==
    /\ Exists(a)
    /\ signed' = signed \union {a}
    /\ UNCHANGED <<now, cred, appr, locked, audit, told, req>>

-----------------------------------------------------------------------------
(* POST /:id/approve                                                        *)

ApproveRead(r) ==
    /\ req[r] = Idle
    /\ \E a \in signed :
           \/ appr[a].status = "pending" /\ ~LapsedAt(a, now) /\ Start(r, a, "commit_read", 0)
           \/ appr[a].status = "approved" /\ Start(r, a, "approve_answer", 0)
    /\ UNCHANGED <<now, cred, appr, locked, signed, audit, told>>

(* The transaction locks the approval, takes the database's clock, and      *)
(* reads the credential.  A refusal is recorded on the approval.            *)
CommitRead(r) ==
    LET a == req[r].ap  c == appr[a].cred
    IN /\ req[r].pc = "commit_read" /\ a \notin locked
       /\ CASE appr[a].status = "approved" ->
                   Goto(r, "approve_answer") /\ UNCHANGED <<appr, locked>>
            [] appr[a].status # "approved" /\ (appr[a].status # "pending" \/ LapsedAt(a, now)) ->
                   Done(r) /\ UNCHANGED <<appr, locked>>
            [] appr[a].status = "pending" /\ ~LapsedAt(a, now) ->
                   IF State(c) # appr[a].before
                   THEN /\ appr' = [appr EXCEPT ![a].status = "failed"]
                        /\ Done(r) /\ UNCHANGED locked
                   ELSE /\ req' = [req EXCEPT ![r].pc = "commit_write", ![r].seen = State(c)]
                        /\ locked' = locked \union {a}
                        /\ UNCHANGED appr
       /\ UNCHANGED <<now, cred, signed, audit, told>>

Apply(a) ==
    LET c == appr[a].cred
    IN cred' = [cred EXCEPT ![c] = IF appr[a].after = Gone THEN [@ EXCEPT !.deleted = TRUE]
                                   ELSE [@ EXCEPT !.label = appr[a].after]]

CommitWrite_Unconditional(r) ==
    LET a == req[r].ap  c == appr[a].cred
    IN /\ req[r].pc = "commit_write"
       /\ ~Taken(c, appr[a].after) \/ appr[a].after = Gone
       /\ Apply(a)
       /\ appr' = [appr EXCEPT ![a].status = "approved"]
       /\ audit' = [audit EXCEPT ![a] = @ + 1]
       /\ Goto(r, "approve_answer")
       /\ locked' = locked \ {a}
       /\ UNCHANGED <<now, signed, told>>

(* The update holds the credential to what was read; its metadata taken by  *)
(* another credential aborts the transaction, which leaves the approval     *)
(* pending.                                                                 *)
CommitWrite(r) ==
    LET a == req[r].ap  c == appr[a].cred
    IN /\ req[r].pc = "commit_write"
       /\ CASE State(c) # req[r].seen ->
                   /\ appr' = [appr EXCEPT ![a].status = "failed"]
                   /\ Done(r) /\ UNCHANGED <<cred, audit>>
            [] State(c) = req[r].seen /\ appr[a].after # Gone /\ Taken(c, appr[a].after) ->
                   Done(r) /\ UNCHANGED <<cred, appr, audit>>
            [] OTHER ->
                   /\ Apply(a)
                   /\ appr' = [appr EXCEPT ![a].status = "approved"]
                   /\ audit' = [audit EXCEPT ![a] = @ + 1]
                   /\ Goto(r, "approve_answer")
       /\ locked' = locked \ {a}
       /\ UNCHANGED <<now, signed, told>>

ApproveAnswer(r) ==
    /\ req[r].pc = "approve_answer"
    /\ told' = told \union {<<req[r].ap, "approved">>}
    /\ Done(r)
    /\ UNCHANGED <<now, cred, appr, locked, signed, audit>>

-----------------------------------------------------------------------------
(* POST /v1/approvals/:id/deny: the clock is read before the update, which  *)
(* waits for the lock; the answer is what a later read finds.               *)

DenyRead(r) ==
    /\ req[r] = Idle
    /\ \E a \in Approvals : Exists(a) /\ Start(r, a, "deny_write", now)
    /\ UNCHANGED <<now, cred, appr, locked, signed, audit, told>>

DenyWrite(r) ==
    LET a == req[r].ap
        won == appr[a].status = "pending" /\ ~LapsedAt(a, req[r].t)
    IN /\ req[r].pc = "deny_write" /\ a \notin locked
       /\ appr' = IF won THEN [appr EXCEPT ![a].status = "denied"] ELSE appr
       /\ req' = [req EXCEPT ![r] = [@ EXCEPT !.pc = "deny_answer", !.t = 0, !.won = won]]
       /\ UNCHANGED <<now, cred, locked, signed, audit, told>>

DenyAnswer(r) ==
    LET a == req[r].ap
    IN /\ req[r].pc = "deny_answer"
       /\ told' = IF req[r].won \/ appr[a].status = "denied"
                  THEN told \union {<<a, "denied">>} ELSE told
       /\ Done(r)
       /\ UNCHANGED <<now, cred, appr, locked, signed, audit>>

-----------------------------------------------------------------------------
(* The sweep deletes lapsed approvals whatever became of them.              *)
Sweep(a) ==
    /\ Exists(a) /\ appr[a].until < now /\ a \notin locked
    /\ appr' = [appr EXCEPT ![a].status = "swept"]
    /\ UNCHANGED <<now, cred, locked, signed, audit, told, req>>

(* The owner deletes and restores credentials directly.                     *)
OwnerDeletes ==
    /\ \E c \in Credentials : cred' = [cred EXCEPT ![c].deleted = TRUE]
    /\ UNCHANGED <<now, appr, locked, signed, audit, told, req>>

OwnerRestores ==
    /\ \E c \in Credentials :
           /\ cred[c].deleted /\ ~Taken(c, cred[c].label)
           /\ cred' = [cred EXCEPT ![c].deleted = FALSE]
    /\ UNCHANGED <<now, appr, locked, signed, audit, told, req>>

(* The process or its connection dies: the database rolls back.             *)
Crash(r) ==
    /\ req[r] # Idle
    /\ Done(r)
    /\ locked' = IF req[r].pc = "commit_write" THEN locked \ {req[r].ap} ELSE locked
    /\ UNCHANGED <<now, cred, appr, signed, audit, told>>

Tick ==
    /\ now < MaxTime
    /\ now' = now + 1
    /\ UNCHANGED <<cred, appr, locked, signed, audit, told, req>>

Continue(r) ==
    \/ CreateInsert(r) \/ CommitRead(r) \/ CommitWrite(r) \/ ApproveAnswer(r)
    \/ DenyWrite(r) \/ DenyAnswer(r)

Next ==
    \/ \E r \in Requests : CreateRead(r) \/ ApproveRead(r) \/ DenyRead(r)
    \/ \E r \in Requests : Continue(r) \/ Crash(r)
    \/ \E a \in Approvals : Sign(a) \/ Sweep(a)
    \/ OwnerDeletes \/ OwnerRestores \/ Tick

Spec == Init /\ [][Next]_vars

(* Node and Postgres finish or roll back what was begun; the sweep runs     *)
(* every hour, between transactions.                                        *)
FairSpec ==
    /\ Spec
    /\ WF_vars(Tick)
    /\ \A r \in Requests : WF_vars(Continue(r) \/ Crash(r))
    /\ \A a \in Approvals : SF_vars(Sweep(a))

-----------------------------------------------------------------------------
(* A commit turns exactly the state that was shown and signed into the one  *)
(* that was, in spite of renames, deletions and restores in between.        *)
AppliesAsSigned ==
    [][\A a \in Approvals :
           appr'[a].status = "approved" /\ appr[a].status # "approved" =>
               /\ a \in signed /\ State(appr[a].cred) = appr[a].before
               /\ State(appr[a].cred)' = appr[a].after]_vars

(* However often it is signed, retried or raced, a mutation is applied and  *)
(* audited at most once, and an answered approval was.                      *)
AppliedOnce ==
    \A a \in Approvals :
        /\ audit[a] <= 1
        /\ <<a, "approved">> \in told => audit[a] = 1

(* An answered denial is final: its mutation was not and will not be        *)
(* applied.                                                                 *)
DenialIsFinal == \A a \in Approvals : <<a, "denied">> \in told => audit[a] = 0

(* What the owner signs is applied once and as signed, or not after a no.   *)
MutationSafe == [](TypeOK /\ AppliedOnce /\ DenialIsFinal) /\ AppliesAsSigned

(* An approval that lapses before the end of the run is removed.            *)
LapsedIsRemoved ==
    \A a \in Approvals : Exists(a) /\ appr[a].until < MaxTime ~> appr[a].status = "swept"
=============================================================================
