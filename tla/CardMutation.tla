---------------------------- MODULE CardMutation ----------------------------
(***************************************************************************)
(* Approvals to edit one stored card.  The card's values are sealed in a   *)
(* blob the server cannot open, so the approval page edits the blob it     *)
(* loaded and signs the result; the server compares only the card's face,  *)
(* the label, brand and last four digits it keeps beside the blob.         *)
(***************************************************************************)
EXTENDS Integers, FiniteSets

CONSTANTS
    CardApprovals,  \* ids of approvals of this card
    Pages,          \* approval pages; each makes one edit of its own to the blob
    Faces,          \* values of the metadata
    EditTtl,        \* 10 minutes, in ticks
    LastTick        \* bound: last tick of the clock

EditAssumption == "none" \notin CardApprovals /\ EditTtl \in Nat \ {0} /\ LastTick \in Nat

VARIABLES
    clock,
    card,     \* the E2ECredential row: face, content of the blob, deleted or not
    approval, \* CardMutationApproval rows
    page,     \* approval pages and the POST each has in flight
    deny,     \* a deny in flight
    applied,  \* mandates a commit has applied
    logged,   \* audit rows of committed edits, per approval
    answered, \* mandates answered with approved
    denied    \* approvals answered with denied

editVars == <<clock, card, approval, page, deny, applied, logged, answered, denied>>
edits == <<applied, logged, answered, denied>>

EditStatuses == {"none", "read", "pending", "approved", "failed", "denied"}
Mandates == [ap : CardApprovals, face : Faces, content : SUBSET Pages]
NoMandate == [ap |-> "none", face |-> "none", content |-> {}]
Closed == [pc |-> "closed", ap |-> "none", base |-> {}, mandate |-> NoMandate]
NoDeny == [pc |-> "idle", ap |-> "none", t |-> 0, won |-> FALSE]
PagePCs == {"closed", "editing", "approve_read", "commit_read", "commit_write", "answer"}

EditTypeOK ==
    /\ clock \in 0..LastTick
    /\ card \in [face : Faces, content : SUBSET Pages, deleted : BOOLEAN]
    /\ approval \in [CardApprovals -> [status : EditStatuses, before : Faces \union {"none"},
                                       until : Nat]]
    /\ page \in [Pages -> [pc : PagePCs, ap : CardApprovals \union {"none"}, base : SUBSET Pages,
                           mandate : Mandates \union {NoMandate}]]
    /\ deny \in [pc : {"idle", "write", "answer"}, ap : CardApprovals \union {"none"}, t : Nat,
                 won : BOOLEAN]
    /\ applied \in SUBSET Mandates
    /\ logged \in [CardApprovals -> Nat]
    /\ answered \in SUBSET Mandates
    /\ denied \in SUBSET CardApprovals

EditInit ==
    /\ clock = 0
    /\ card \in [face : Faces, content : {{}}, deleted : {FALSE}]
    /\ approval = [a \in CardApprovals |-> [status |-> "none", before |-> "none", until |-> 0]]
    /\ page = [p \in Pages |-> Closed]
    /\ deny = NoDeny
    /\ applied = {} /\ answered = {} /\ denied = {}
    /\ logged = [a \in CardApprovals |-> 0]

(* Mutated forms, named Operator_Fault, precede the operator they distort;
   nothing refers to them but the mutation runs of PROJECT.json. *)
EditExpiry(t) == t + EditTtl
EditLapsed(a, t) == approval[a].until <= t
Turn(p, pc) == page' = [page EXCEPT ![p].pc = pc]
Reopen(p) == page' = [page EXCEPT ![p].pc = "editing", ![p].mandate = NoMandate]

(* The transaction of a commit locks the approval's row.                    *)
Locked(a) == \E p \in Pages : page[p].pc = "commit_write" /\ page[p].mandate.ap = a

-----------------------------------------------------------------------------
(* POST /v1/vault/card-mutation-approvals reads the card and, looking at it *)
(* no more, inserts; the page then loads the approval and the blob, and     *)
(* opens it.                                                                *)
ReadFace(a) ==
    /\ approval[a].status = "none" /\ ~card.deleted
    /\ approval' = [approval EXCEPT ![a] = [status |-> "read", before |-> card.face,
                                    until |-> EditExpiry(clock)]]
    /\ UNCHANGED <<clock, card, page, deny, edits>>

Create(a) ==
    /\ approval[a].status = "read"
    /\ approval' = [approval EXCEPT ![a].status = "pending"]
    /\ UNCHANGED <<clock, card, page, deny, edits>>

Load(p) ==
    /\ page[p].pc = "closed" /\ ~card.deleted
    /\ \E a \in CardApprovals :
           /\ approval[a].status = "pending" /\ ~EditLapsed(a, clock)
           /\ page' = [page EXCEPT ![p] = [Closed EXCEPT !.pc = "editing", !.ap = a,
                                                         !.base = card.content]]
    /\ UNCHANGED <<clock, card, approval, deny, edits>>

(* The owner edits, the page seals the result and the passkey signs it with *)
(* the approval.                                                            *)
Save(p) ==
    /\ page[p].pc = "editing"
    /\ \E face \in Faces :
           page' = [page EXCEPT ![p].pc = "approve_read", ![p].mandate =
                        [ap |-> page[p].ap, face |-> face, content |-> page[p].base \union {p}]]
    /\ UNCHANGED <<clock, card, approval, deny, edits>>

-----------------------------------------------------------------------------
(* POST /:id/approve; a refusal leaves the page open for another try.       *)

EditApproveRead(p) ==
    LET a == page[p].mandate.ap
    IN /\ page[p].pc = "approve_read"
       /\ CASE approval[a].status = "approved" -> Turn(p, "answer")
            [] approval[a].status = "pending" /\ ~EditLapsed(a, clock) -> Turn(p, "commit_read")
            [] OTHER -> Reopen(p)
       /\ UNCHANGED <<clock, card, approval, deny, edits>>

EditCommitRead(p) ==
    LET a == page[p].mandate.ap
    IN /\ page[p].pc = "commit_read" /\ ~Locked(a)
       /\ CASE approval[a].status = "approved" -> Turn(p, "answer") /\ UNCHANGED approval
            [] approval[a].status # "approved"
               /\ (approval[a].status # "pending" \/ EditLapsed(a, clock)) ->
                   Reopen(p) /\ UNCHANGED approval
            [] approval[a].status = "pending" /\ ~EditLapsed(a, clock) ->
                   IF card.deleted \/ card.face # approval[a].before
                   THEN approval' = [approval EXCEPT ![a].status = "failed"] /\ Reopen(p)
                   ELSE Turn(p, "commit_write") /\ UNCHANGED approval
       /\ UNCHANGED <<clock, card, deny, edits>>

EditCommitWrite_ByIdOnly(p) ==
    LET m == page[p].mandate  a == m.ap
    IN /\ page[p].pc = "commit_write" /\ ~card.deleted
       /\ card' = [card EXCEPT !.face = m.face, !.content = m.content]
       /\ approval' = [approval EXCEPT ![a].status = "approved"]
       /\ applied' = applied \union {m}
       /\ logged' = [logged EXCEPT ![a] = @ + 1]
       /\ Turn(p, "answer")
       /\ UNCHANGED <<clock, deny, answered, denied>>

(* The update holds the card to the face that was read, and replaces the    *)
(* blob whatever it is.                                                     *)
EditCommitWrite(p) ==
    LET m == page[p].mandate  a == m.ap
    IN /\ page[p].pc = "commit_write"
       /\ IF card.deleted \/ card.face # approval[a].before
          THEN /\ approval' = [approval EXCEPT ![a].status = "failed"]
               /\ Reopen(p)
               /\ UNCHANGED <<card, applied, logged>>
          ELSE /\ card' = [card EXCEPT !.face = m.face, !.content = m.content]
               /\ approval' = [approval EXCEPT ![a].status = "approved"]
               /\ applied' = applied \union {m}
               /\ logged' = [logged EXCEPT ![a] = @ + 1]
               /\ Turn(p, "answer")
       /\ UNCHANGED <<clock, deny, answered, denied>>

Answer(p) ==
    /\ page[p].pc = "answer"
    /\ answered' = answered \union {page[p].mandate}
    /\ page' = [page EXCEPT ![p] = Closed]
    /\ UNCHANGED <<clock, card, approval, deny, applied, logged, denied>>

(* The answer, or the process, is lost: the page reports an error and stays *)
(* open.  Or the owner closes it.                                           *)
Lose(p) ==
    /\ page[p].pc \in {"approve_read", "commit_read", "commit_write", "answer"}
    /\ Reopen(p)
    /\ UNCHANGED <<clock, card, approval, deny, edits>>

Close(p) ==
    /\ page[p].pc = "editing"
    /\ page' = [page EXCEPT ![p] = Closed]
    /\ UNCHANGED <<clock, card, approval, deny, edits>>

-----------------------------------------------------------------------------
(* POST /v1/approvals/:id/deny                                              *)

EditDenyRead ==
    /\ deny = NoDeny
    /\ \E a \in CardApprovals :
           /\ approval[a].status \notin {"none", "read"}
           /\ deny' = [NoDeny EXCEPT !.pc = "write", !.ap = a, !.t = clock]
    /\ UNCHANGED <<clock, card, approval, page, edits>>

EditDenyWrite ==
    LET a == deny.ap
        won == approval[a].status = "pending" /\ ~EditLapsed(a, deny.t)
    IN /\ deny.pc = "write" /\ ~Locked(a)
       /\ approval' = IF won THEN [approval EXCEPT ![a].status = "denied"] ELSE approval
       /\ deny' = [deny EXCEPT !.pc = "answer", !.t = 0, !.won = won]
       /\ UNCHANGED <<clock, card, page, edits>>

EditDenyAnswer ==
    /\ deny.pc = "answer"
    /\ denied' = IF deny.won \/ approval[deny.ap].status = "denied"
                 THEN denied \union {deny.ap} ELSE denied
    /\ deny' = NoDeny
    /\ UNCHANGED <<clock, card, approval, page, applied, logged, answered>>

(* The owner renames or deletes the card in the wallet.                     *)
Rename ==
    /\ ~card.deleted
    /\ \E face \in Faces \ {card.face} : card' = [card EXCEPT !.face = face]
    /\ UNCHANGED <<clock, approval, page, deny, edits>>

Delete ==
    /\ ~card.deleted
    /\ card' = [card EXCEPT !.deleted = TRUE]
    /\ UNCHANGED <<clock, approval, page, deny, edits>>

TimePasses ==
    /\ clock < LastTick
    /\ clock' = clock + 1
    /\ UNCHANGED <<card, approval, page, deny, edits>>

EditNext ==
    \/ \E a \in CardApprovals : ReadFace(a) \/ Create(a)
    \/ \E p \in Pages : \/ Load(p) \/ Save(p) \/ EditApproveRead(p) \/ EditCommitRead(p)
                        \/ EditCommitWrite(p) \/ Answer(p) \/ Lose(p) \/ Close(p)
    \/ EditDenyRead \/ EditDenyWrite \/ EditDenyAnswer
    \/ Rename \/ Delete \/ TimePasses

EditSpec == EditInit /\ [][EditNext]_editVars

-----------------------------------------------------------------------------
(* A commit applies the one edit its approval is for, and a card whose face *)
(* changed or that was deleted since the approval was made is left alone.   *)
AppliesToFaceSeen ==
    [][applied' # applied =>
           \E m \in applied' :
               /\ applied' = applied \union {m}
               /\ \A n \in applied : n.ap # m.ap
               /\ card.face = approval[m.ap].before /\ ~card.deleted]_editVars

(* Lost answers and second tabs do not apply or audit an approval twice,    *)
(* and one answered as approved was.                                        *)
EditedOnce ==
    \A a \in CardApprovals : logged[a] <= 1 /\ (logged[a] = 0 => \A m \in answered : m.ap # a)

(* An answered denial is final.                                             *)
DenialStands == \A a \in denied : logged[a] = 0

(* An approved edit of a card is applied once, over the face the approval   *)
(* page showed, and never after a denial was answered.                      *)
EditsSafe ==
    /\ [](EditTypeOK /\ EditedOnce /\ DenialStands)
    /\ AppliesToFaceSeen

(* The test of routes/card-mutations.ts says of an approval whose card has  *)
(* changed that "the stale approval must not overwrite it": every committed *)
(* edit stays in the card.                                                  *)
EditsAreKept == \A m \in applied : m.content \subseteq card.content

(* routes/card-mutations.ts answers approved to "idempotent retries": the   *)
(* edit that was answered as approved is the one that was applied.          *)
AnsweredIsApplied == answered \subseteq applied
=============================================================================
