----------------------------- MODULE OAuthLease -----------------------------
(* The lease that lets one OAuth action drive a browser at a time             *)
(* (withOAuthActionLease) and the deadline its caller waits with              *)
(* (withinOAuthActionDeadline). Each call chains itself to the tail and waits *)
(* for its predecessor. A caller whose deadline passes is answered at once;   *)
(* its operation goes on, and only its end and a cooldown free the lease.     *)
EXTENDS Naturals, FiniteSets

CONSTANTS Actions,   \* OAuth actions asked of one browser
          NoAction   \* the tail before any of them

NoActionAssumption == NoAction \notin Actions

VARIABLES stage,        \* "idle", "queued", "running", "left" (gave up waiting), "ended"
          working,   \* the operations in flight
          ahead,     \* the predecessor each call waits for
          tail,      \* oauthActionLeaseTail
          released,  \* the turns that were given back
          answer     \* what each caller was told

leaseVars == <<stage, working, ahead, tail, released, answer>>

LeaseTypeOK ==
  /\ stage \in [Actions -> {"idle", "queued", "running", "left", "ended"}]
  /\ working \subseteq {c \in Actions : stage[c] \in {"running", "ended"}}
  /\ released \subseteq {c \in Actions : stage[c] \in {"left", "ended"}}
  /\ ahead \in [Actions -> Actions \cup {NoAction}] /\ tail \in Actions \cup {NoAction}
  /\ answer \in [Actions -> {"none", "not_attempted", "awaiting", "ok", "error"}]

LeaseInit ==
  /\ stage = [c \in Actions |-> "idle"] /\ working = {} /\ released = {}
  /\ ahead = [c \in Actions |-> NoAction] /\ tail = NoAction
  /\ answer = [c \in Actions |-> "none"]

Free(c) == c = NoAction \/ c \in released

-----------------------------------------------------------------------------
Enter(c) ==
  /\ stage[c] = "idle"
  /\ stage' = [stage EXCEPT ![c] = "queued"]
  /\ ahead' = [ahead EXCEPT ![c] = tail] /\ tail' = c
  /\ UNCHANGED <<working, released, answer>>

Acquire(c) ==
  /\ stage[c] = "queued" /\ Free(ahead[c])
  /\ stage' = [stage EXCEPT ![c] = "running"]
  /\ working' = working \cup {c}
  /\ UNCHANGED <<ahead, tail, released, answer>>

\* The deadline passes while the call is still behind another.
GivesUp(c) ==
  /\ stage[c] = "queued"
  /\ stage' = [stage EXCEPT ![c] = "left"]
  /\ answer' = [answer EXCEPT ![c] = "not_attempted"]
  /\ UNCHANGED <<working, ahead, tail, released>>

\* The operation settles: its caller, if it still waits, gets the result.
OperationEnds(c) ==
  /\ c \in working
  /\ working' = working \ {c}
  /\ IF stage[c] = "running"
       THEN /\ stage' = [stage EXCEPT ![c] = "ended"]
            /\ \E r \in {"ok", "error", "awaiting"} : answer' = [answer EXCEPT ![c] = r]
       ELSE UNCHANGED <<stage, answer>>
  /\ UNCHANGED <<ahead, tail, released>>

\* The deadline passes while the operation runs: the recorded evidence of a
\* completion answers the caller, else it is told to observe.
Overruns(c) ==
  /\ stage[c] = "running" /\ c \in working
  /\ stage' = [stage EXCEPT ![c] = "ended"]
  /\ \E r \in {"ok", "awaiting"} : answer' = [answer EXCEPT ![c] = r]
  /\ UNCHANGED <<working, ahead, tail, released>>

\* The turn goes back after quiescence and the cooldown; a call that gave up
\* passes its predecessor's turn on.
Returnable(c) == \/ stage[c] = "ended" /\ c \notin working
                 \/ stage[c] = "left" /\ Free(ahead[c])

Release(c) ==
  /\ Returnable(c) /\ c \notin released
  /\ released' = released \cup {c}
  /\ UNCHANGED <<stage, working, ahead, tail, answer>>

LeaseNext == \E c \in Actions : Enter(c) \/ Acquire(c) \/ GivesUp(c) \/ OperationEnds(c) \/ Overruns(c) \/ Release(c)
LeaseSpec == LeaseInit /\ [][LeaseNext]_leaseVars

\* Promise reactions run, timers fire, and an operation's own budget ends it.
LeaseLiveSpec == LeaseSpec /\ \A c \in Actions : WF_leaseVars(Acquire(c)) /\ WF_leaseVars(OperationEnds(c)) /\ WF_leaseVars(Release(c))

-----------------------------------------------------------------------------
\* Never two operations on the browser at once, also when the caller of the
\* first was answered at its deadline while it went on.
OneAtATime == Cardinality(working) <= 1

\* Every call that was asked for is answered, whatever the calls before it did.
CallsAnswered == \A c \in Actions : stage[c] = "queued" ~> answer[c] # "none"
=============================================================================
