----------------------------- MODULE VaultStore -----------------------------
(***************************************************************************)
(* Writes to the stored credentials of one account, service and label:     *)
(* upserts, captures by a running browser session, rotations, added        *)
(* fields, deletes and restores.  Each is a few database statements with   *)
(* no transaction around them; a unique index holds the slot to one active *)
(* row.                                                                    *)
(***************************************************************************)
EXTENDS Integers, FiniteSets

CONSTANTS
    Requests,    \* one call of the vault each; also names the values it brings
    Captures,    \* write ids of captures, which retries share
    Names,       \* names of fields
    Operations   \* calls in play, a subset of AllOperations

AllOperations == {"store", "capture", "rotate", "add", "delete", "restore"}

StoreAssumption == Operations \subseteq AllOperations /\ Requests \cap Captures = {}

VARIABLES
    stored,  \* Credential rows; a capture's reference is its write id
    audit,   \* number of audit rows, per request or capture
    req,     \* requests
    inserted \* captures whose row was inserted

storeVars == <<stored, audit, req, inserted>>

References == Requests \union Captures
Nothing == [n \in {} |-> "none"]
Values == References
Contents == UNION {[s -> Values] : s \in SUBSET Names}
PCs == {"new", "find", "slot", "insert", "winner", "replace", "delete", "restore",
        "receipt", "audit", "ok", "refused", "dead"}

StoreTypeOK ==
    /\ stored \in [References ->
                     [status : {"absent", "active", "deleted"}, content : Contents]]
    /\ audit \in [References -> Nat]
    /\ req \in [Requests -> [pc : PCs, op : AllOperations \union {"none"},
                             ref : References \union {"none"}, content : Contents]]
    /\ inserted \in SUBSET Captures

StoreInit ==
    /\ stored = [x \in References |-> [status |-> "absent", content |-> Nothing]]
    /\ audit = [x \in References |-> 0]
    /\ req = [r \in Requests |-> [pc |-> "new", op |-> "none", ref |-> "none",
                                  content |-> Nothing]]
    /\ inserted = {}

Active == {x \in References : stored[x].status = "active"}
Goto(r, pc) == req' = [req EXCEPT ![r].pc = pc]
With(r, pc, ref, content) ==
    req' = [req EXCEPT ![r] = [@ EXCEPT !.pc = pc, !.ref = ref, !.content = content]]

-----------------------------------------------------------------------------
(* The upsert: find the slot's row, replace its secret or insert one; a     *)
(* conflict on insert replaces the winner's secret.                         *)

StoreFind(r) ==
    /\ req[r].pc = "new" /\ "store" \in Operations
    /\ \E s \in SUBSET Names \ {{}} :
           LET content == [n \in s |-> r]
           IN req' = [req EXCEPT ![r] =
                  IF Active = {} THEN [pc |-> "insert", op |-> "store", ref |-> r,
                                       content |-> content]
                  ELSE [pc |-> "replace", op |-> "store",
                        ref |-> CHOOSE x \in Active : TRUE, content |-> content]]
    /\ UNCHANGED <<stored, audit, inserted>>

Insert(r) ==
    LET x == req[r].ref
    IN /\ req[r].pc = "insert"
       /\ IF Active = {} /\ stored[x].status = "absent"
          THEN /\ stored' = [stored EXCEPT ![x] =
                                [status |-> "active", content |-> req[r].content]]
               /\ inserted' = inserted \union ({x} \cap Captures)
               /\ Goto(r, IF req[r].op = "capture" THEN "receipt" ELSE "audit")
          ELSE /\ Goto(r, "winner")
               /\ UNCHANGED <<stored, inserted>>
       /\ UNCHANGED audit

StoreWinner(r) ==
    /\ req[r].pc = "winner" /\ req[r].op = "store"
    /\ IF Active = {} THEN Goto(r, "refused")
       ELSE With(r, "replace", CHOOSE x \in Active : TRUE, req[r].content)
    /\ UNCHANGED <<stored, audit, inserted>>

(* By reference, whatever the row has become.                               *)
Replace(r) ==
    /\ req[r].pc = "replace"
    /\ stored' = [stored EXCEPT ![req[r].ref].content = req[r].content]
    /\ Goto(r, "audit")
    /\ UNCHANGED <<audit, inserted>>

(* Every write is audited after it, and then answered.                      *)
Audit(r) ==
    /\ req[r].pc = "audit"
    /\ audit' = [audit EXCEPT ![r] = @ + 1]
    /\ Goto(r, "ok")
    /\ UNCHANGED <<stored, inserted>>

-----------------------------------------------------------------------------
(* A capture: its reference is found again by its retries, and an occupied  *)
(* slot is refused.                                                         *)

CaptureOf(w) == [n \in Names |-> w]

CaptureFind(r) ==
    /\ req[r].pc = "new" /\ "capture" \in Operations
    /\ \E w \in Captures :
           req' = [req EXCEPT ![r] =
               IF stored[w].status = "active"
               THEN [pc |-> "receipt", op |-> "capture", ref |-> w,
                     content |-> stored[w].content]
               ELSE [pc |-> "slot", op |-> "capture", ref |-> w, content |-> CaptureOf(w)]]
    /\ UNCHANGED <<stored, audit, inserted>>

CaptureSlot(r) ==
    /\ req[r].pc = "slot"
    /\ Goto(r, IF Active = {} THEN "insert" ELSE "refused")
    /\ UNCHANGED <<stored, audit, inserted>>

(* Mutated forms, named Operator_Fault, precede the operator they distort;
   nothing refers to them but the mutation runs of PROJECT.json. *)
CaptureWinner_Upserts(r) ==
    /\ req[r].pc = "winner" /\ req[r].op = "capture"
    /\ IF Active = {} THEN Goto(r, "refused")
       ELSE With(r, "replace", CHOOSE x \in Active : TRUE, req[r].content)
    /\ UNCHANGED <<stored, audit, inserted>>

CaptureWinner(r) ==
    LET w == req[r].ref
    IN /\ req[r].pc = "winner" /\ req[r].op = "capture"
       /\ IF stored[w].status = "active" THEN With(r, "receipt", w, stored[w].content)
          ELSE Goto(r, "refused")
       /\ UNCHANGED <<stored, audit, inserted>>

(* The audit row has an id of the capture's own: a retry finds it there.    *)
Receipt(r) ==
    LET w == req[r].ref
    IN /\ req[r].pc = "receipt"
       /\ IF req[r].content # CaptureOf(w) THEN Goto(r, "refused") /\ UNCHANGED audit
          ELSE audit' = [audit EXCEPT ![w] = 1] /\ Goto(r, "ok")
       /\ UNCHANGED <<stored, inserted>>

-----------------------------------------------------------------------------
(* replaceFields and addField write what they read, or were given, by       *)
(* reference; delete and restore change the status.                         *)

RotateRead(r) ==
    /\ req[r].pc = "new" /\ "rotate" \in Operations
    /\ \E x \in Active, s \in SUBSET Names \ {{}} :
           req' = [req EXCEPT ![r] = [pc |-> "replace", op |-> "rotate", ref |-> x,
                                      content |-> [n \in s |-> r]]]
    /\ UNCHANGED <<stored, audit, inserted>>

AddRead(r) ==
    /\ req[r].pc = "new" /\ "add" \in Operations
    /\ \E x \in Active, n \in Names :
           LET seen == stored[x].content
           IN /\ n \notin DOMAIN seen
              /\ req' = [req EXCEPT ![r] = [pc |-> "replace", op |-> "add", ref |-> x,
                     content |-> [k \in DOMAIN seen \union {n} |->
                                     IF k = n THEN r ELSE seen[k]]]]
    /\ UNCHANGED <<stored, audit, inserted>>

DeleteRead(r) ==
    /\ req[r].pc = "new" /\ "delete" \in Operations
    /\ \E x \in Active :
           req' = [req EXCEPT ![r] = [@ EXCEPT !.pc = "delete", !.op = "delete", !.ref = x]]
    /\ UNCHANGED <<stored, audit, inserted>>

RestoreRead(r) ==
    /\ req[r].pc = "new" /\ "restore" \in Operations
    /\ \E x \in {y \in References : stored[y].status = "deleted"} :
           req' = [req EXCEPT ![r] = [@ EXCEPT !.pc = "restore", !.op = "restore", !.ref = x]]
    /\ UNCHANGED <<stored, audit, inserted>>

DeleteRow(r) ==
    /\ req[r].pc = "delete"
    /\ stored' = [stored EXCEPT ![req[r].ref].status = "deleted"]
    /\ Goto(r, "audit")
    /\ UNCHANGED <<audit, inserted>>

RestoreRow(r) ==
    LET x == req[r].ref
    IN /\ req[r].pc = "restore"
       /\ IF Active \ {x} = {}
          THEN stored' = [stored EXCEPT ![x].status = "active"] /\ Goto(r, "audit")
          ELSE UNCHANGED stored /\ Goto(r, "refused")
       /\ UNCHANGED <<audit, inserted>>

(* The process or its connection dies between two statements.               *)
Cut(r) ==
    /\ req[r].pc \notin {"new", "ok", "refused", "dead"}
    /\ Goto(r, "dead")
    /\ UNCHANGED <<stored, audit, inserted>>

Call(r) ==
    \/ StoreFind(r) \/ CaptureFind(r) \/ RotateRead(r) \/ AddRead(r) \/ DeleteRead(r)
    \/ RestoreRead(r)

Continue(r) ==
    \/ Insert(r) \/ StoreWinner(r) \/ Replace(r) \/ Audit(r)
    \/ CaptureSlot(r) \/ CaptureWinner(r) \/ Receipt(r)
    \/ DeleteRow(r) \/ RestoreRow(r) \/ Cut(r)

StoreNext == \E r \in Requests : Call(r) \/ Continue(r)

StoreSpec == StoreInit /\ [][StoreNext]_storeVars

-----------------------------------------------------------------------------
Captured ==
    {w \in Captures : \E r \in Requests :
        req[r].op = "capture" /\ req[r].ref = w /\ req[r].pc = "ok"}

(* However often a capture is retried, raced or cut off, it was inserted    *)
(* before it is answered, and audited once.                                 *)
CaptureIsAuditedOnce ==
    \A w \in Captures : audit[w] <= 1 /\ (w \in Captured => audit[w] = 1 /\ w \in inserted)

(* A capture changes no credential that is there: neither one of the slot   *)
(* it raced with, nor its own, rotated since.                               *)
CaptureNeverRotates ==
    [][\A r \in Requests : req'[r] # req[r] /\ req[r].op = "capture" =>
           \A x \in References : stored'[x] # stored[x] => stored[x].status = "absent"]_storeVars

(* Retries of a capture leave one row with one audit row, and a capture      *)
(* never replaces what the slot held.                                       *)
CapturesSafe == [](StoreTypeOK /\ CaptureIsAuditedOnce) /\ CaptureNeverRotates

(* vault/src/credential-vault.ts says that "adding is additive; changing an *)
(* existing field's value is the rotate/replaceFields path": an added field *)
(* leaves the others as they are.                                           *)
AddingIsAdditive ==
    [][\A r \in Requests : req[r].op = "add" /\ req[r].pc = "replace" /\ req'[r].pc = "audit" =>
           LET before == stored[req[r].ref].content  after == stored'[req[r].ref].content
           IN \A n \in DOMAIN before : n \in DOMAIN after /\ after[n] = before[n]]_storeVars

(* The vault's test "stores a concurrent capture once and reconciles        *)
(* without rotation": no attempt of a capture is refused on account of      *)
(* another one's row.                                                       *)
RetriesReconcile ==
    [][\A r \in Requests : \A w \in Captures :
           /\ req[r].op = "capture" /\ req[r].ref = w
           /\ req[r].pc # "refused" /\ req'[r].pc = "refused"
           => stored[w] # [status |-> "active", content |-> CaptureOf(w)]]_storeVars
=============================================================================
