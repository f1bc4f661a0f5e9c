----------------------------- MODULE MCBrowser ------------------------------
(* The agent's work on a page: the drive loop on four kinds of sites, a sign-in
   with a provider and the lease that serialises it, the release of a card into
   a page, and a click. The components share no state, so one run puts them
   side by side: part names the one that moves. *)
EXTENDS CardRelease, OperateClick, OAuthSignIn, OperateDrive, TLC

CONSTANTS
    p1, p2, p3, k1, k2, t1, t2, Parts

MCControls ==
    {[via |-> v, is |-> "button", humanized |-> h, active |-> TRUE, modal |-> v # "locator", prompt |-> TRUE]
            : v \in {"ref", "frame", "locator", "drive"}, h \in BOOLEAN}
    \cup {[via |-> "ref", is |-> i, humanized |-> TRUE, active |-> TRUE, modal |-> TRUE, prompt |-> TRUE]
            : i \in {"switch", "keyed", "item"}}
    \cup {[via |-> "drive", is |-> "option", humanized |-> TRUE, active |-> TRUE, modal |-> FALSE, prompt |-> p]
            : p \in BOOLEAN}
    \cup {[via |-> v, is |-> "button", humanized |-> TRUE, active |-> FALSE, modal |-> FALSE, prompt |-> TRUE]
            : v \in {"ref", "locator"}}

(* A form to fill in; a consent gate, a page that is busy and one with a box to
   tick; a checkout; and pages that load, lack what is sought, or are plain.  *)
FormSite ==
    [pages |-> {p1, p2}, kind |-> p1 :> "fill" @@ p2 :> "plain",
     keys |-> {k1}, sections |-> {}, submits |-> {k1}]
GateSite ==
    [pages |-> {p1, p2, p3}, kind |-> p1 :> "gate" @@ p2 :> "busy" @@ p3 :> "checkbox",
     keys |-> {k1}, sections |-> {}, submits |-> {k1}]
ShopSite ==
    [pages |-> {p1, p2, p3}, kind |-> p1 :> "checkout" @@ p2 :> "wallet" @@ p3 :> "dialog",
     keys |-> {k1}, sections |-> {}, submits |-> {}]
RestSite ==
    [pages |-> {p1, p2, p3}, kind |-> p1 :> "loading" @@ p2 :> "missing" @@ p3 :> "plain",
     keys |-> {k1, k2}, sections |-> {k2}, submits |-> {k1}]
MCSites == {FormSite, GateSite, ShopSite, RestSite}

VARIABLE part   \* the component this behaviour is of

ASSUME ReleaseConstants
ASSUME ClickConstants
ASSUME LoginConstants
ASSUME NoActionAssumption
ASSUME DriveConstants

(* One component moves; the others rest where they start.                   *)
all == <<part, vars, clickVars, loginVars, leaseVars, driveVars>>

ComposedInit ==
    /\ part \in Parts
    /\ Init
    /\ ClickInit
    /\ part # "click" => control.is = "item" /\ seen = p1 /\ fit[p1] = "ready"
    /\ LoginInit
    /\ LeaseInit
    /\ DriveInit
    /\ part # "drive" => site = FormSite /\ pageNow = p1

ComposedNext ==
    /\ UNCHANGED part
    /\ \/ /\ part = "release" /\ Next
          /\ UNCHANGED <<clickVars, loginVars, leaseVars, driveVars>>
       \/ /\ part = "click" /\ ClickNext
          /\ UNCHANGED <<vars, loginVars, leaseVars, driveVars>>
       \/ /\ part = "login" /\ LoginNext
          /\ UNCHANGED <<vars, clickVars, leaseVars, driveVars>>
       \/ /\ part = "lease" /\ LeaseNext
          /\ UNCHANGED <<vars, clickVars, loginVars, driveVars>>
       \/ /\ part = "drive" /\ DriveNext
          /\ UNCHANGED <<vars, clickVars, loginVars, leaseVars>>

Composed == ComposedInit /\ [][ComposedNext]_all

=============================================================================
