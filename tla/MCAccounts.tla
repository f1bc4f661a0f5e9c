---------------------------- MODULE MCAccounts ------------------------------
(* Accounts and what machines do for them: the pairing of a machine, sign-in of
   the web application, billing, and the registry of skills. The components
   share no state, so one run puts them side by side: part names the one that
   moves. *)
EXTENDS Pairing, SignIn, Billing, SkillRegistry, TLC

CONSTANTS
    a1, a2, c1, c2, g1, g2, p1, s1, s2, s3, t1, t2, Parts

MCEmailOf == g1 :> a1 @@ g2 :> a2
MCEntry == s1 :> "a" @@ s2 :> "a" @@ s3 :> "b"

VARIABLE part   \* the component this behaviour is of

ASSUME PairingAssumption
ASSUME SignInAssumption
ASSUME BillingAssumption
ASSUME RegistryConstants

(* One component moves; the others rest where they start.                   *)
all == <<part, vars, signInVars, billingVars, registryVars>>

ComposedInit ==
    /\ part \in Parts
    /\ Init
    /\ SignInInit
    /\ BillingInit
    /\ RegistryInit

ComposedNext ==
    /\ UNCHANGED part
    /\ \/ /\ part = "pairing" /\ Next
          /\ UNCHANGED <<signInVars, billingVars, registryVars>>
       \/ /\ part = "signIn" /\ SignInNext
          /\ UNCHANGED <<vars, billingVars, registryVars>>
       \/ /\ part = "billing" /\ BillingNext
          /\ UNCHANGED <<vars, signInVars, registryVars>>
       \/ /\ part = "registry" /\ RegistryNext
          /\ UNCHANGED <<vars, signInVars, billingVars>>

Composed == ComposedInit /\ [][ComposedNext]_all

=============================================================================
