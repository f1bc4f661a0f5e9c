-------------------------- MODULE ApprovalDecision --------------------------
(***************************************************************************)
(* What one payment approval promises to the owner and to the agents of    *)
(* the account, without HTTP, clocks or rows: a card is bound once, one    *)
(* signed offer over that card is accepted, the offer is shown only to its *)
(* recipient, and the decision is taken at most once.  PaymentApproval     *)
(* implements it.                                                          *)
(***************************************************************************)
CONSTANTS
    Sessions,    \* agent sessions of the account
    NoSession,
    Cards,       \* stored cards of the account
    NoCard,
    Candidates,  \* pairs (signed mandate, sealed card), named by fingerprint
    NoCand,
    CardOf       \* the card a candidate's mandate was signed for

VARIABLES
    decision,    \* "open", "approved", "denied" or "forgotten"
    card,        \* the bound card, written once
    recipient,   \* the only session that may receive the offer, if named
    offer,       \* the accepted candidate, written once
    holders      \* the sessions that have received the offer

vars == <<decision, card, recipient, offer, holders>>

Init ==
    /\ decision = "open"
    /\ card = NoCard
    /\ recipient = NoSession
    /\ offer = NoCand
    /\ holders = {}

(* A card may come with the request or be bound later, never replaced. *)
Bind(k) ==
    /\ decision = "open" /\ card = NoCard
    /\ card' = k
    /\ UNCHANGED <<decision, recipient, offer, holders>>

(* An app names itself the only recipient before anyone can sign. *)
Address(s) ==
    /\ recipient = NoSession /\ offer = NoCand /\ holders = {}
    /\ recipient' = s
    /\ UNCHANGED <<decision, card, offer, holders>>

Offer(c) ==
    /\ decision = "open" /\ offer = NoCand
    /\ card # NoCard /\ CardOf[c] = card
    /\ offer' = c
    /\ UNCHANGED <<decision, card, recipient, holders>>

Deliver(s) ==
    /\ offer # NoCand
    /\ recipient \in {NoSession, s}
    /\ holders' = holders \union {s}
    /\ UNCHANGED <<decision, card, recipient, offer>>

(* Only someone who received the offer can spend it. *)
Approve ==
    /\ decision = "open" /\ holders # {}
    /\ decision' = "approved"
    /\ UNCHANGED <<card, recipient, offer, holders>>

Deny ==
    /\ decision = "open"
    /\ decision' = "denied"
    /\ UNCHANGED <<card, recipient, offer, holders>>

(* Retention removes the record; nothing is decided afterwards. *)
Forget ==
    /\ decision # "forgotten"
    /\ decision' = "forgotten"
    /\ UNCHANGED <<card, recipient, offer, holders>>

Next ==
    \/ \E k \in Cards : Bind(k)
    \/ \E s \in Sessions : Address(s) \/ Deliver(s)
    \/ \E c \in Candidates : Offer(c)
    \/ Approve \/ Deny \/ Forget

Spec == Init /\ [][Next]_vars
=============================================================================
