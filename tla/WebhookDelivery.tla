-------------------------- MODULE WebhookDelivery --------------------------
(***************************************************************************)
(* Delivering webhook events: every API process lists the due deliveries,  *)
(* takes one attempt of each at a time, posts the event and marks the      *)
(* result, retrying with a backoff.                                        *)
(*                                                                         *)
(* nextAttemptAt is kept as "due or not": a lease or a wait elapses at any *)
(* moment, which covers every length of either and every stall.            *)
(***************************************************************************)
EXTENDS Integers, FiniteSets

CONSTANTS
    Events,      \* events an approval's changes queue
    Senders,     \* deliverDue calls: a tick or background job of some process
    Waits,       \* entries of APPROVAL_WEBHOOK_BACKOFF_MS
    MaxAttempts, \* bound: attempts at one event
    MaxCrashes   \* bound: crashes, which is also how a throwing store call ends

DeliveryAssumption == Waits \in Nat /\ MaxAttempts \in Nat /\ MaxCrashes \in Nat

VARIABLES
    reachable,  \* the events' endpoint is still registered
    delivery,  \* delivery rows
    att,       \* each sender's attempt at each event
    wire,      \* posts that reached the receiver, per event
    crashes

deliveryVars == <<reachable, delivery, att, wire, crashes>>

Idle == [pc |-> "idle", n |-> 0]
AttemptPCs == {"idle", "claim", "send", "post", "ok", "error"}

DeliveryTypeOK ==
    /\ reachable \in BOOLEAN
    /\ delivery \in [Events -> [queued : BOOLEAN, attempts : 0..MaxAttempts, due : BOOLEAN,
                                delivered : BOOLEAN, abandoned : {"no", "exhausted", "removed"}]]
    /\ att \in [Senders -> [Events -> [pc : AttemptPCs, n : 0..MaxAttempts]]]
    /\ wire \in [Events -> 0..MaxAttempts]
    /\ crashes \in 0..MaxCrashes

DeliveryInit ==
    /\ reachable = TRUE
    /\ delivery = [e \in Events |-> [queued |-> FALSE, attempts |-> 0, due |-> FALSE,
                                     delivered |-> FALSE, abandoned |-> "no"]]
    /\ att = [s \in Senders |-> [e \in Events |-> Idle]]
    /\ wire = [e \in Events |-> 0]
    /\ crashes = 0

Unsettled(e) == delivery[e].queued /\ ~delivery[e].delivered /\ delivery[e].abandoned = "no"
Due == {e \in Events : Unsettled(e) /\ delivery[e].due}
Step(s, e, pc) == att' = [att EXCEPT ![s][e].pc = pc]
Ends(s, e) == att' = [att EXCEPT ![s][e] = Idle]

(* The change of an approval's status queues its event, due at once.        *)
Queue(e) ==
    /\ ~delivery[e].queued
    /\ delivery' = [delivery EXCEPT ![e].queued = TRUE, ![e].due = TRUE]
    /\ UNCHANGED <<reachable, att, wire, crashes>>

RemoveEndpoint ==
    /\ reachable
    /\ reachable' = FALSE
    /\ UNCHANGED <<delivery, att, wire, crashes>>

(* A job that awaits its attempts starts no other.                          *)
ListDue(s) ==
    /\ Due # {}
    /\ \A e \in Events : att[s][e].pc = "idle"
    /\ att' = [att EXCEPT ![s] = [e \in Events |-> IF e \in Due
                 THEN [pc |-> "claim", n |-> delivery[e].attempts] ELSE Idle]]
    /\ UNCHANGED <<reachable, delivery, wire, crashes>>

Claimable(e, n) == Unsettled(e) /\ delivery[e].attempts = n

(* Attempts past the bound are not taken.                                   *)
Claim(s, e) ==
    LET n == att[s][e].n IN
    /\ att[s][e].pc = "claim" /\ n < MaxAttempts
    /\ IF Claimable(e, n)
       THEN /\ delivery' = [delivery EXCEPT ![e].attempts = n + 1, ![e].due = FALSE]
            /\ att' = [att EXCEPT ![s][e] = [pc |-> "send", n |-> n + 1]]
       ELSE /\ Ends(s, e)
            /\ UNCHANGED delivery
    /\ UNCHANGED <<reachable, wire, crashes>>

Send(s, e) ==
    /\ att[s][e].pc = "send" /\ reachable
    /\ Step(s, e, "post")
    /\ UNCHANGED <<reachable, delivery, wire, crashes>>

(* The receiver gets the post or not, and the response comes back or not.   *)
Post(s, e) ==
    /\ att[s][e].pc = "post"
    /\ \E arrives, accepted \in BOOLEAN :
          /\ accepted => arrives
          /\ wire' = [wire EXCEPT ![e] = IF arrives THEN @ + 1 ELSE @]
          /\ Step(s, e, IF accepted THEN "ok" ELSE "error")
    /\ UNCHANGED <<reachable, delivery, crashes>>

MarkDelivered(s, e) ==
    /\ att[s][e].pc = "ok"
    /\ delivery' = [delivery EXCEPT ![e].delivered = TRUE]
    /\ Ends(s, e)
    /\ UNCHANGED <<reachable, wire, crashes>>

HasWait(n) == n <= Waits

(* markFailed writes by id alone; the wait is left to elapse.               *)
MarkFailed(s, e) ==
    /\ att[s][e].pc = "error"
    /\ delivery' = IF HasWait(att[s][e].n) THEN [delivery EXCEPT ![e].due = FALSE]
                   ELSE [delivery EXCEPT ![e].abandoned = "exhausted"]
    /\ Ends(s, e)
    /\ UNCHANGED <<reachable, wire, crashes>>

MarkRemoved(s, e) ==
    /\ att[s][e].pc = "send" /\ ~reachable
    /\ delivery' = [delivery EXCEPT ![e].abandoned = "removed"]
    /\ Ends(s, e)
    /\ UNCHANGED <<reachable, wire, crashes>>

Elapse(e) ==
    /\ Unsettled(e) /\ ~delivery[e].due
    /\ delivery' = [delivery EXCEPT ![e].due = TRUE]
    /\ UNCHANGED <<reachable, att, wire, crashes>>

(* A process dies and restarts: its attempts are gone, their leases remain.  *)
SenderCrash(s) ==
    /\ crashes < MaxCrashes /\ crashes' = crashes + 1
    /\ att' = [att EXCEPT ![s] = [e \in Events |-> Idle]]
    /\ att' # att
    /\ UNCHANGED <<reachable, delivery, wire>>

Attempt(s, e) ==
    Claim(s, e) \/ Send(s, e) \/ Post(s, e) \/ MarkDelivered(s, e) \/ MarkFailed(s, e) \/ MarkRemoved(s, e)

DeliveryNext ==
    \/ \E e \in Events : Queue(e) \/ Elapse(e)
    \/ RemoveEndpoint
    \/ \E s \in Senders : ListDue(s) \/ SenderCrash(s)
    \/ \E s \in Senders, e \in Events : Attempt(s, e)

DeliverySpec == DeliveryInit /\ [][DeliveryNext]_deliveryVars

(* Every process's timer ticks, its attempts end and leases run out.        *)
DeliveryLiveSpec ==
    /\ DeliverySpec
    /\ \A s \in Senders : WF_deliveryVars(ListDue(s))
    /\ \A s \in Senders, e \in Events : WF_deliveryVars(Attempt(s, e))
    /\ \A e \in Events : WF_deliveryVars(Elapse(e))

-----------------------------------------------------------------------------
(* Properties.                                                             *)

Attempting(s, e) == att[s][e].pc \in {"send", "post", "ok", "error"}

(* Several processes list the same due events, stall, and outlive their     *)
(* leases; still no two attempts of one event share a number, so that each  *)
(* step of its backoff is taken once and it is posted at most once for each. *)
AttemptsAreNumbered ==
    \A e \in Events :
        /\ \A s, t \in Senders : s # t /\ Attempting(s, e) /\ Attempting(t, e) => att[s][e].n # att[t][e].n
        /\ wire[e] <= delivery[e].attempts

(* An event nobody accepted is given up only after an attempt for every     *)
(* wait of the backoff and one more, or because its endpoint is gone.        *)
GivenUpAfterBackoff ==
    \A e \in Events :
        /\ delivery[e].abandoned = "exhausted" => delivery[e].attempts > Waits
        /\ delivery[e].abandoned = "removed" => ~reachable

(* A finished delivery is not taken up again: later posts of the event are  *)
(* only those of attempts already taken.                                    *)
FinishedStaysFinished ==
    [][\A e \in Events : delivery[e].queued /\ ~Unsettled(e) => delivery'[e].attempts = delivery[e].attempts]_deliveryVars

(* Every queued event is delivered or given up.                             *)
EventsSettle == \A e \in Events : delivery[e].queued ~> ~Unsettled(e)
=============================================================================
