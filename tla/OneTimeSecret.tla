---------------------------- MODULE OneTimeSecret ----------------------------
(***************************************************************************)
(* What an approval promises about a secret: it leaves only under a right  *)
(* that one grant of the owner yields once, and which may get lost, but is *)
(* never renewed.  CredentialFetch implements it.                          *)
(***************************************************************************)
VARIABLES
    decision,  \* "open", "granted", "spent", "closed" or "forgotten"
    right      \* to hand the secret out: "none", "held" or "used"

vars == <<decision, right>>

Init == decision = "open" /\ right = "none"

Grant ==
    /\ decision = "open" /\ decision' = "granted"
    /\ UNCHANGED right

(* Refused by the owner, or lapsed before it was spent. *)
Close ==
    /\ decision \in {"open", "granted"} /\ decision' = "closed"
    /\ UNCHANGED right

Spend ==
    /\ decision = "granted" /\ decision' = "spent"
    /\ right = "none" /\ right' = "held"

HandOut ==
    /\ right = "held" /\ right' = "used"
    /\ UNCHANGED decision

(* The holder fails before it hands the secret out. *)
Lose ==
    /\ right = "held" /\ right' = "none"
    /\ UNCHANGED decision

(* An undecided or granted secret is closed before it is forgotten; one     *)
(* that is being handed out is not called back.                             *)
Forget ==
    /\ decision \in {"spent", "closed"} /\ decision' = "forgotten"
    /\ UNCHANGED right

Next == Grant \/ Close \/ Spend \/ HandOut \/ Lose \/ Forget

Spec == Init /\ [][Next]_vars
=============================================================================
