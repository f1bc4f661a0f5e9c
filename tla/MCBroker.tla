----------------------------- MODULE MCBroker -------------------------------
(* The broker of a profile: who is elected to own the browser, who has custody
   of its Chrome, the process of that Chrome, the sessions of one connection
   and the live share of one, and the client process that forwards calls to it.
   Each abstracts the others to what it sees of them and shares no state with
   them, so one run puts them side by side: part names the one that moves. *)
EXTENDS BrokerElection, BrokerCustody, BrowserProcess, BrokerForward, OperatorSession, TLC

CONSTANTS
    k1, k2, k3, bare, proxied, c1, c3, f1, f2, drop, d1, s1, s2, Parts

MCWants == [k \in Calls |-> IF k = k3 THEN proxied ELSE bare]
MCHosts == {h \in [scoped : BOOLEAN, linux : BOOLEAN, spawns : BOOLEAN, held : {FALSE}] : h.scoped => h.linux}

VARIABLE part   \* the component this behaviour is of

ASSUME ElectionConstants
ASSUME CustodyAssumption
ASSUME ProcessConstants
ASSUME ForwardAssumption
ASSUME SessionsAssumption
ASSUME ShareAssumption

(* One component moves; the others rest where they start.                   *)
all == <<part, vars, custodyVars, processVars, forwardVars, sessionVars, shareVars>>

ComposedInit ==
    /\ part \in Parts
    /\ Init
    /\ part # "takeover" => path = 0
    /\ CustodyInit
    /\ ProcessInit
    /\ part # "process" => ~host.scoped /\ ~host.linux /\ host.spawns /\ ~host.held
    /\ ForwardInit
    /\ SessionInit
    /\ ShareInit
    /\ part # "live" => page = s1

ComposedNext ==
    /\ UNCHANGED part
    /\ \/ /\ part = "takeover" /\ Next
          /\ UNCHANGED <<custodyVars, processVars, forwardVars, sessionVars, shareVars>>
       \/ /\ part = "custody" /\ CustodyNext
          /\ UNCHANGED <<vars, processVars, forwardVars, sessionVars, shareVars>>
       \/ /\ part = "process" /\ ProcessNext
          /\ UNCHANGED <<vars, custodyVars, forwardVars, sessionVars, shareVars>>
       \/ /\ part = "forward" /\ ForwardNext
          /\ UNCHANGED <<vars, custodyVars, processVars, sessionVars, shareVars>>
       \/ /\ part = "sessions" /\ SessionNext
          /\ UNCHANGED <<vars, custodyVars, processVars, forwardVars, shareVars>>
       \/ /\ part = "live" /\ ShareNext
          /\ UNCHANGED <<vars, custodyVars, processVars, forwardVars, sessionVars>>

Composed == ComposedInit /\ [][ComposedNext]_all

=============================================================================
