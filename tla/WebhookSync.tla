---------------------------- MODULE WebhookSync ----------------------------
(***************************************************************************)
(* Announcing decisions: an approval is watched for the webhook endpoint   *)
(* of the session that requested it, and each change of its card's status  *)
(* queues one event.  One approval is followed; the delivery of an event   *)
(* is the module WebhookDelivery, of which a task here only waits the end. *)
(***************************************************************************)
EXTENDS Integers, Sequences, FiniteSets

CONSTANTS
    Procs,      \* API processes
    Kind,       \* "payment", or "mutation" for the kinds that apply when decided
    MaxEndpoint,\* bound: registrations of the session's endpoint
    MaxFaults   \* bound: crashes and failed store calls

WebhookAssumption ==
    /\ Kind \in {"payment", "mutation"}
    /\ MaxEndpoint \in Nat /\ MaxFaults \in Nat

Terminal == {"completed", "failed", "denied", "expired"}
Statuses == Terminal \cup {"pending", "approved", "processing"}
Records == {"absent", "pending", "signed", "delivered", "approved",
            "completed", "failed", "denied", "swept"}
Tasks == Procs \X {"tick", "background"}
MaxEvents == IF Kind = "payment" THEN 4 ELSE 2

VARIABLES
    record,     \* the approval row, with the ledger's outcome
    lapsed,     \* its expiresAt has passed
    decision,   \* a request that read the clock in time and has yet to write
    endpoint,   \* id of the session's endpoint, 0 when it has none
    registered, \* endpoints registered so far
    sub,        \* the approval's subscription
    queue,      \* statuses of the events queued, oldest first
    task,        \* background jobs and tick of each process
    faults

syncVars == <<record, lapsed, decision, endpoint, registered, sub, queue, task, faults>>
approvalVars == <<record, lapsed, decision>>
endpointVars == <<endpoint, registered>>

NoSub == [last |-> "unset", open |-> FALSE, endpoint |-> 0]
IdleTask == [pc |-> "idle", last |-> "unset", card |-> "unset", endpoint |-> 0]
TaskPCs == {"idle", "track", "subscribe", "sync", "card", "endpoint", "advance", "close", "deliver"}

SyncTypeOK ==
    /\ record \in Records
    /\ lapsed \in BOOLEAN
    /\ decision \in Records
    /\ endpoint \in 0..MaxEndpoint /\ registered \in 0..MaxEndpoint
    /\ sub \in [last : Statuses \cup {"unset"}, open : BOOLEAN, endpoint : 0..MaxEndpoint]
    /\ queue \in Seq(Statuses) /\ Len(queue) <= MaxEvents
    /\ task \in [Tasks -> [pc : TaskPCs, last : Statuses \cup {"unset"},
                         card : Statuses \cup {"unset", "none"}, endpoint : 0..MaxEndpoint]]
    /\ faults \in 0..MaxFaults

SyncInit ==
    /\ record = "absent" /\ lapsed = FALSE /\ decision = "absent"
    /\ endpoint = 0 /\ registered = 0
    /\ sub = NoSub /\ queue = <<>>
    /\ task = [j \in Tasks |-> IdleTask]
    /\ faults = 0

-----------------------------------------------------------------------------
(* The approval, as its card shows it.                                     *)

CardStatus ==
    CASE record \in {"absent", "swept"} -> "none"
      [] record \in {"denied", "completed", "failed"} -> record
      [] record = "approved" -> "processing"
      [] record = "delivered" -> IF lapsed THEN "failed" ELSE "processing"
      [] record = "signed" -> IF lapsed THEN "failed" ELSE "approved"
      [] record = "pending" -> IF lapsed THEN "expired" ELSE "pending"

(* A decision checks expiry against a clock read before its write.          *)
Decisions ==
    IF Kind = "payment"
    THEN [pending |-> {"signed", "denied"}, signed |-> {"delivered", "denied"},
          delivered |-> {"approved", "denied"}]
    ELSE [pending |-> {"completed", "failed", "denied"}]

Decide ==
    /\ decision = "absent" /\ ~lapsed
    /\ record \in DOMAIN Decisions
    /\ decision' \in Decisions[record]
    /\ UNCHANGED <<record, lapsed, endpointVars, sub, queue, task, faults>>

WriteDecision ==
    /\ decision # "absent"
    /\ record' = IF record \in DOMAIN Decisions /\ decision \in Decisions[record]
                 THEN decision ELSE record
    /\ decision' = "absent"
    /\ UNCHANGED <<lapsed, endpointVars, sub, queue, task, faults>>

(* The ledger records the merchant's answer.                                *)
Outcome ==
    /\ record = "approved"
    /\ record' \in {"completed", "failed"}
    /\ UNCHANGED <<lapsed, decision, endpointVars, sub, queue, task, faults>>

Lapse ==
    /\ record # "absent" /\ ~lapsed
    /\ lapsed' = TRUE
    /\ UNCHANGED <<record, decision, endpointVars, sub, queue, task, faults>>

Sweep ==
    /\ lapsed /\ record # "swept"
    /\ record' = "swept"
    /\ UNCHANGED <<lapsed, decision, endpointVars, sub, queue, task, faults>>

-----------------------------------------------------------------------------
(* Registration: a session has at most one endpoint; replacing it keeps its *)
(* id, removing it and registering again gives a new one.                   *)

Register ==
    /\ endpoint = 0 /\ registered < MaxEndpoint
    /\ registered' = registered + 1
    /\ endpoint' = registered'
    /\ UNCHANGED <<approvalVars, sub, queue, task, faults>>

Unregister ==
    /\ endpoint # 0
    /\ endpoint' = 0
    /\ UNCHANGED <<approvalVars, registered, sub, queue, task, faults>>

-----------------------------------------------------------------------------
(* Sync: the requesting route tracks, a deciding route notifies, and each   *)
(* process ticks once its background jobs have drained.                     *)

TaskTo(j, pc) == task' = [task EXCEPT ![j].pc = pc]
Turn(j, pc) == task' = [task EXCEPT ![j] = [IdleTask EXCEPT !.pc = pc]]

Request(p) ==
    LET j == <<p, "background">> IN
    /\ record = "absent" /\ task[j].pc = "idle"
    /\ record' = "pending"
    /\ TaskTo(j, "track")
    /\ UNCHANGED <<lapsed, decision, endpointVars, sub, queue, faults>>

Track(j) ==
    /\ task[j].pc = "track"
    /\ task' = [task EXCEPT ![j] = [IdleTask EXCEPT !.pc = IF endpoint = 0 THEN "idle" ELSE "subscribe",
                                                  !.endpoint = endpoint]]
    /\ UNCHANGED <<approvalVars, endpointVars, sub, queue, faults>>

Subscribe(j) ==
    /\ task[j].pc = "subscribe"
    /\ sub' = IF sub = NoSub THEN [last |-> "unset", open |-> TRUE, endpoint |-> task[j].endpoint]
              ELSE sub
    /\ Turn(j, "sync")
    /\ UNCHANGED <<approvalVars, endpointVars, queue, faults>>

Notify(p) ==
    /\ task[<<p, "background">>].pc = "idle" /\ record # "absent"
    /\ TaskTo(<<p, "background">>, "sync")
    /\ UNCHANGED <<approvalVars, endpointVars, sub, queue, faults>>

SyncTick(p) ==
    /\ task[<<p, "tick">>].pc = "idle" /\ task[<<p, "background">>].pc = "idle"
    /\ TaskTo(<<p, "tick">>, "sync")
    /\ UNCHANGED <<approvalVars, endpointVars, sub, queue, faults>>

ReadSubscription(j) ==
    /\ task[j].pc = "sync"
    /\ task' = [task EXCEPT ![j] = IF sub.open
                 THEN [@ EXCEPT !.pc = "card", !.last = sub.last, !.endpoint = sub.endpoint]
                 ELSE [IdleTask EXCEPT !.pc = "deliver"]]
    /\ UNCHANGED <<approvalVars, endpointVars, sub, queue, faults>>

ReadCard(j) ==
    /\ task[j].pc = "card"
    /\ task' = [task EXCEPT ![j].card = CardStatus,
                          ![j].pc = IF CardStatus = "none" THEN "close" ELSE "endpoint"]
    /\ UNCHANGED <<approvalVars, endpointVars, sub, queue, faults>>

ReadEndpoint(j) ==
    /\ task[j].pc = "endpoint"
    /\ CASE endpoint # task[j].endpoint -> TaskTo(j, "close")
         [] endpoint = task[j].endpoint /\ task[j].card = task[j].last -> Turn(j, "deliver")
         [] OTHER -> TaskTo(j, "advance")
    /\ UNCHANGED <<approvalVars, endpointVars, sub, queue, faults>>

(* Mutated forms, named Operator_Fault, precede the operator they distort;
   nothing refers to them but the mutation runs of PROJECT.json. *)
Unmoved_Blind(last) == sub.open /\ last = last

(* advanceSubscription moves the status only if nobody moved it first.      *)
Unmoved(last) == sub.open /\ sub.last = last

Advance(j) ==
    /\ task[j].pc = "advance"
    /\ IF Unmoved(task[j].last)
       THEN /\ sub' = [sub EXCEPT !.last = task[j].card, !.open = task[j].card \notin Terminal]
            /\ queue' = Append(queue, task[j].card)
       ELSE UNCHANGED <<sub, queue>>
    /\ Turn(j, "deliver")
    /\ UNCHANGED <<approvalVars, endpointVars, faults>>

(* The approval was swept or the endpoint removed: closed without an event. *)
CloseQuietly(j) ==
    /\ task[j].pc = "close"
    /\ sub' = IF Unmoved(task[j].last)
              THEN [sub EXCEPT !.open = FALSE,
                               !.last = IF @ = "unset" THEN "expired" ELSE @]
              ELSE sub
    /\ Turn(j, "deliver")
    /\ UNCHANGED <<approvalVars, endpointVars, queue, faults>>

(* A store call of the sync throws: a background task ends, a tick goes on   *)
(* to what is due.                                                          *)
SyncFails(j) ==
    /\ task[j].pc \in {"track", "subscribe", "sync", "card", "endpoint", "advance", "close"}
    /\ faults < MaxFaults /\ faults' = faults + 1
    /\ Turn(j, IF j[2] = "tick" THEN "deliver" ELSE "idle")
    /\ UNCHANGED <<approvalVars, endpointVars, sub, queue>>

(* deliverDue: the task waits until every receiver has ended its response   *)
(* or timed out.                                                            *)
NothingDue(j) ==
    /\ task[j].pc = "deliver" /\ queue = <<>>
    /\ Turn(j, "idle")
    /\ UNCHANGED <<approvalVars, endpointVars, sub, queue, faults>>

ReceiversEnd(j) ==
    /\ task[j].pc = "deliver" /\ queue # <<>>
    /\ Turn(j, "idle")
    /\ UNCHANGED <<approvalVars, endpointVars, sub, queue, faults>>

(* A process dies and restarts: its jobs are gone.                          *)
ProcessDies(p) ==
    /\ faults < MaxFaults /\ faults' = faults + 1
    /\ \E k \in {"tick", "background"} : task[<<p, k>>].pc # "idle"
    /\ task' = [j \in Tasks |-> IF j[1] = p THEN IdleTask ELSE task[j]]
    /\ UNCHANGED <<approvalVars, endpointVars, sub, queue>>

-----------------------------------------------------------------------------
SyncStep(j) ==
    \/ Track(j) \/ Subscribe(j) \/ ReadSubscription(j) \/ ReadCard(j) \/ ReadEndpoint(j)
    \/ Advance(j) \/ CloseQuietly(j) \/ NothingDue(j)

SyncNext ==
    \/ Decide \/ WriteDecision \/ Outcome \/ Lapse \/ Sweep \/ Register \/ Unregister
    \/ \E p \in Procs : Request(p) \/ Notify(p) \/ SyncTick(p) \/ ProcessDies(p)
    \/ \E j \in Tasks : SyncStep(j) \/ SyncFails(j) \/ ReceiversEnd(j)

SyncSpec == SyncInit /\ [][SyncNext]_syncVars

(* The timer of each process ticks and its jobs go on.  Receivers are not   *)
(* ours: SyncLiveSpec assumes that each ends its response.                      *)
UnansweredSpec ==
    SyncSpec /\ (\A p \in Procs : SF_syncVars(SyncTick(p))) /\ (\A j \in Tasks : WF_syncVars(SyncStep(j)))
SyncLiveSpec == UnansweredSpec /\ \A j \in Tasks : WF_syncVars(ReceiversEnd(j))

-----------------------------------------------------------------------------
(* Properties.                                                             *)

Rank(s) == CASE s = "pending" -> 0 [] s = "approved" -> 1 [] s = "processing" -> 2
             [] s \in Terminal -> 3

(* Whatever the processes read before whichever of them wrote, one change   *)
(* yields one event and the events tell the approval's progress: their      *)
(* statuses only move forward, and the last is the one announced.           *)
EventsFollowProgress ==
    /\ \A e, f \in DOMAIN queue : e < f => Rank(queue[e]) < Rank(queue[f])
    /\ sub.open /\ sub.last # "unset" => queue # <<>> /\ queue[Len(queue)] = sub.last

(* A subscription does not stay open for ever over an approval that has     *)
(* been decided or swept: some sync announces the end, or closes quietly.   *)
SubscriptionsClose == []<>(sub.open => CardStatus \notin Terminal \cup {"none"})

(* "Each time its status changes Squire POSTs a signed event": once nobody  *)
(* watches an approval that lives, what it shows is what was last announced. *)
FinalEventIsTrue ==
    (sub # NoSub /\ ~sub.open /\ endpoint = sub.endpoint /\ decision = "absent"
     /\ CardStatus # "none") => CardStatus = sub.last
=============================================================================
