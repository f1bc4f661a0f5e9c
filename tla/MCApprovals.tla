---------------------------- MODULE MCApprovals -----------------------------
(* The approvals of the account besides payments that keep a secret: fetches of
   a credential and edits of a card, which the server cannot read. They share
   no state, so one run puts them side by side: part names the one that moves. *)
EXTENDS CredentialFetch, CardMutation, TLC

CONSTANTS
    n1, a1, f1, f2, x1, x2, Parts

VARIABLE part   \* the component this behaviour is of

ASSUME FetchAssumption
ASSUME EditAssumption

(* One component moves; the others rest where they start.                   *)
all == <<part, vars, editVars>>

ComposedInit ==
    /\ part \in Parts
    /\ Init
    /\ part # "fetch" => ~wantsSeal
    /\ EditInit
    /\ part # "card" => card.face = f1

ComposedNext ==
    /\ UNCHANGED part
    /\ \/ /\ part = "fetch" /\ Next
          /\ UNCHANGED <<editVars>>
       \/ /\ part = "card" /\ EditNext
          /\ UNCHANGED <<vars>>

Composed == ComposedInit /\ [][ComposedNext]_all

(* Ids of one kind are interchangeable.                                     *)
Interchangeable ==
    Permutations({x1, x2})

=============================================================================
