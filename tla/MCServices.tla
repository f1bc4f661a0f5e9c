---------------------------- MODULE MCServices ------------------------------
(* What keeps credentials and lets them out, and what announces decisions:
   egress grants, the rotation of the master key, the ceiling of the vault's
   retrievals and its store under their own names, and beside them the webhooks
   of approvals. The components share no state, so one run puts them side by
   side: part names the one that moves. *)
EXTENDS EgressGrant, MasterKeyRotation, RetrievalLimit, VaultStore, Webhooks, TLC

CONSTANTS
    c1, p1, e1, q3, w1, w2, x1, x2, y1, y2, Parts

VARIABLE part   \* the component this behaviour is of

ASSUME RotationAssumption
ASSUME LimitAssumption
ASSUME StoreAssumption
ASSUME WebhookAssumption
ASSUME DeliveryAssumption

(* One component moves; the others rest where they start.                   *)
all == <<part, vars, rotationVars, limitVars, storeVars, syncVars, deliveryVars>>

ComposedInit ==
    /\ part \in Parts
    /\ Init
    /\ RotationInit
    /\ LimitInit
    /\ StoreInit
    /\ SyncInit
    /\ DeliveryInit

ComposedNext ==
    /\ UNCHANGED part
    /\ \/ /\ part = "egress" /\ Next
          /\ UNCHANGED <<rotationVars, limitVars, storeVars, syncVars, deliveryVars>>
       \/ /\ part = "rewrap" /\ RotationNext
          /\ UNCHANGED <<vars, limitVars, storeVars, syncVars, deliveryVars>>
       \/ /\ part = "limit" /\ LimitNext
          /\ UNCHANGED <<vars, rotationVars, storeVars, syncVars, deliveryVars>>
       \/ /\ part = "store" /\ StoreNext
          /\ UNCHANGED <<vars, rotationVars, limitVars, syncVars, deliveryVars>>
       \/ /\ part = "sync" /\ SyncNext
          /\ UNCHANGED <<vars, rotationVars, limitVars, storeVars, deliveryVars>>
       \/ /\ part = "delivery" /\ DeliveryNext
          /\ UNCHANGED <<vars, rotationVars, limitVars, storeVars, syncVars>>

Composed == ComposedInit /\ [][ComposedNext]_all

(* Ids of one kind are interchangeable.                                     *)
Interchangeable ==
    Permutations({x1, x2}) \union Permutations({y1, y2})

=============================================================================
