------------------------- MODULE MasterKeyRotation -------------------------
(***************************************************************************)
(* Rotation of the master key that wraps the key (kek) of every stored     *)
(* credential, while the vault keeps writing: deploy both keys, run the    *)
(* re-wrap script, run the decrypt check, drop the old key.                *)
(***************************************************************************)
EXTENDS Integers, FiniteSets

CONSTANTS
    Rows,      \* credentials
    Machines,  \* API machines, each with the keyring it was deployed with
    MaxKek     \* bound: writes of credentials

RotationAssumption == MaxKek \in Nat

VARIABLES
    ring,    \* keyring of each machine
    row,     \* Credential rows
    writer,  \* a vault write in flight on each machine
    job,     \* the re-wrap script
    kek,     \* number of keys generated so far
    raced,   \* rows the vault wrote between the script's read and its write
    missed   \* rows that were soft-deleted when the script listed

rotationVars == <<ring, row, writer, job, kek, raced, missed>>

Rings == {"old", "both", "new"}

(* Mutated forms, named Operator_Fault, precede the operator they distort;
   nothing refers to them but the mutation runs of PROJECT.json. *)
EncryptsWith(r) == IF r = "old" THEN "old" ELSE "new"
Decrypts(r) == CASE r = "old" -> {"old"} [] r = "both" -> {"old", "new"} [] r = "new" -> {"new"}

(* The secret is encrypted (through its dek) under the kek secret; the blob *)
(* holds the kek blob, wrapped with one of the master keys.                 *)
Absent == [status |-> "absent", secret |-> 0, blob |-> 0, wrap |-> "old"]
RowStates == [status : {"absent", "active", "deleted"}, secret : Nat, blob : Nat,
              wrap : {"old", "new"}]
NoWrite == [pc |-> "idle", row |-> "none", secret |-> 0, wrap |-> "old"]
NoJob == [pc |-> "off", todo |-> [r \in {} |-> 0]]

RotationTypeOK ==
    /\ ring \in [Machines -> Rings]
    /\ row \in [Rows -> RowStates]
    /\ writer \in [Machines -> [pc : {"idle", "insert", "replace"}, row : Rows \union {"none"},
                                secret : Nat, wrap : {"old", "new"}]]
    /\ job = [pc |-> job.pc, todo |-> job.todo]
    /\ job.pc \in {"off", "rows", "done", "checked"}
    /\ DOMAIN job.todo \subseteq Rows /\ job.todo \in [DOMAIN job.todo -> Nat]
    /\ kek \in 0..MaxKek
    /\ raced \in SUBSET Rows /\ missed \in SUBSET Rows

RotationInit ==
    /\ ring = [m \in Machines |-> "old"]
    /\ row = [r \in Rows |-> Absent]
    /\ writer = [m \in Machines |-> NoWrite]
    /\ job = NoJob
    /\ kek = 0 /\ raced = {} /\ missed = {}

ReadableWith(r, keyring) == row[r].blob = row[r].secret /\ row[r].wrap \in Decrypts(keyring)

-----------------------------------------------------------------------------
(* The vault: a store or a rotation makes a new kek, wraps it with the      *)
(* current master key, and writes the row later, whatever has become of it. *)

Encrypt(m) ==
    /\ writer[m] = NoWrite /\ kek < MaxKek
    /\ kek' = kek + 1
    /\ \E r \in Rows :
           /\ row[r].status # "deleted"
           /\ writer' = [writer EXCEPT ![m] =
                  [pc |-> IF row[r].status = "absent" THEN "insert" ELSE "replace",
                   row |-> r, secret |-> kek + 1, wrap |-> EncryptsWith(ring[m])]]
    /\ UNCHANGED <<ring, row, job, raced, missed>>

Write(m) ==
    LET w == writer[m]  r == w.row
    IN /\ w.pc \in {"insert", "replace"}
       /\ w.pc = "insert" => row[r].status = "absent"
       /\ row' = [row EXCEPT ![r] =
              [status |-> IF w.pc = "insert" THEN "active" ELSE @.status,
               secret |-> w.secret, blob |-> w.secret, wrap |-> w.wrap]]
       /\ writer' = [writer EXCEPT ![m] = NoWrite]
       /\ raced' = IF r \in DOMAIN job.todo THEN raced \union {r} ELSE raced
       /\ UNCHANGED <<ring, job, kek, missed>>

WriteFails(m) ==
    /\ writer[m] # NoWrite
    /\ writer' = [writer EXCEPT ![m] = NoWrite]
    /\ UNCHANGED <<ring, row, job, kek, raced, missed>>

SoftDelete(r) ==
    /\ row[r].status = "active"
    /\ row' = [row EXCEPT ![r].status = "deleted"]
    /\ UNCHANGED <<ring, writer, job, kek, raced, missed>>

Restore(r) ==
    /\ row[r].status = "deleted"
    /\ row' = [row EXCEPT ![r].status = "active"]
    /\ UNCHANGED <<ring, writer, job, kek, raced, missed>>

-----------------------------------------------------------------------------
(* The operator's procedure.  A machine is replaced by one with the new     *)
(* keyring; what it had in flight is gone.                                  *)

Deploy(m, from, to) ==
    /\ ring[m] = from
    /\ ring' = [ring EXCEPT ![m] = to]
    /\ writer' = [writer EXCEPT ![m] = NoWrite]
    /\ UNCHANGED <<row, job, kek, raced, missed>>

AddNewKey(m) == Deploy(m, "old", "both")

(* The script reads the active rows, ...                                    *)
RewrapList ==
    /\ job.pc = "off" /\ \A m \in Machines : ring[m] = "both"
    /\ job' = [pc |-> "rows", todo |-> [r \in {q \in Rows : row[q].status = "active"} |->
                                            row[r].blob]]
    /\ missed' = {r \in Rows : row[r].status = "deleted"}
    /\ UNCHANGED <<ring, row, writer, kek, raced>>

Remaining(r) == [q \in DOMAIN job.todo \ {r} |-> job.todo[q]]

(* ... and writes back, one by one and by reference, the key it read.       *)
RewrapRow(r) ==
    /\ job.pc = "rows" /\ r \in DOMAIN job.todo
    /\ row' = [row EXCEPT ![r].blob = job.todo[r], ![r].wrap = "new"]
    /\ job' = [job EXCEPT !.todo = Remaining(r)]
    /\ UNCHANGED <<ring, writer, kek, raced, missed>>

RewrapEnd_Dry ==
    /\ job.pc = "rows"
    /\ job' = [NoJob EXCEPT !.pc = "done"]
    /\ UNCHANGED <<ring, row, writer, kek, raced, missed>>

RewrapEnd ==
    /\ job.pc = "rows" /\ DOMAIN job.todo = {}
    /\ job' = [job EXCEPT !.pc = "done"]
    /\ UNCHANGED <<ring, row, writer, kek, raced, missed>>

(* It dies, and is run again from the start.                                *)
RewrapDies ==
    /\ job.pc = "rows"
    /\ job' = NoJob
    /\ UNCHANGED <<ring, row, writer, kek, raced, missed>>

(* The check decrypts every active row, with both keys.                     *)
CheckPasses ==
    /\ job.pc = "done"
    /\ \A r \in Rows : row[r].status = "active" => ReadableWith(r, "both")
    /\ job' = [job EXCEPT !.pc = "checked"]
    /\ UNCHANGED <<ring, row, writer, kek, raced, missed>>

DropOldKey(m) == job.pc = "checked" /\ Deploy(m, "both", "new")

RotationNext ==
    \/ \E m \in Machines : Encrypt(m) \/ Write(m) \/ WriteFails(m)
    \/ \E m \in Machines : AddNewKey(m) \/ DropOldKey(m)
    \/ \E r \in Rows : SoftDelete(r) \/ Restore(r) \/ RewrapRow(r)
    \/ RewrapList \/ RewrapEnd \/ RewrapDies \/ CheckPasses

RotationSpec == RotationInit /\ [][RotationNext]_rotationVars

-----------------------------------------------------------------------------
(* A live row that a machine holding the new key cannot read.               *)
Lost(r) ==
    /\ row[r].status = "active"
    /\ \E m \in Machines : ring[m] # "old" /\ ~ReadableWith(r, ring[m])

(* Through both deployments, and a re-wrap that may die half way, no        *)
(* machine with the new key meets a live row it cannot read, but for rows   *)
(* written or deleted around the re-wrap.                                   *)
RotationIsSeamless == \A r \in Rows : Lost(r) => r \in raced \union missed

(* A row's two halves only come apart by a write that met the re-wrap.      *)
OnlyRacesTear == \A r \in Rows \ raced : row[r].blob = row[r].secret

(* What the procedure promises.                                             *)
RotationSafe == RotationTypeOK /\ RotationIsSeamless /\ OnlyRacesTear

(* vault/src/kms-client.ts promises "zero-downtime master-key rotation":    *)
(* a credential written during the re-wrap stays readable.                  *)
WritesSurviveRewrap == \A r \in raced : ~Lost(r)

(* routes/vault.ts says "Soft-deletes are recoverable until a GDPR purge":  *)
(* also when the master key was rotated in between.                         *)
RestoredIsReadable == \A r \in missed \ raced : ~Lost(r)
=============================================================================
