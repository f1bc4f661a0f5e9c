---------------------------- MODULE MCProgress ------------------------------
(* What the API must get done in the end: lapsed approvals settled and removed,
   their ends announced and delivered. The components share no state, so one
   run puts them side by side: part names the one that moves. *)
EXTENDS CredentialMutation, Integers, Sequences, FiniteSets, TLC

CONSTANTS
    s1, k1, ca, NoSession, NoCard, NoCand, n1, a1, c1, c2, l1, l2, p1, e1, x1, x2, Parts

VARIABLES
    part,   \* the component this behaviour is of
    paymentNow, paymentRow, paymentExpiresAt, paymentSealed, paymentSurfaced, paymentLedger,
    paymentExpiryAudited, paymentReq, paymentHeld, paymentTold, paymentReported, paymentLost,
    fetchNow, fetchWantsSeal, fetchRow, fetchBound, fetchSurfaced, fetchFields, fetchSigned,
    fetchAudited, fetchReq, fetchTold, fetchDisclosed, fetchMishap,
    syncRecord, syncLapsed, syncDecision, syncEndpoint, syncRegistered, syncSub, syncQueue,
    syncTask, syncFaults,
    deliveryReachable, deliveryDelivery, deliveryAtt, deliveryWire, deliveryCrashes

Payment == INSTANCE PaymentApproval WITH
    Sessions <- {s1}, NoSession <- NoSession, Cards <- {k1}, NoCard <- NoCard,
    Candidates <- {ca}, NoCand <- NoCand, CardOf <- [x \in {ca} |-> k1], Signed <- {ca},
    Requests <- {x1, x2}, TtlCard <- 1, TtlCardless <- 1, MaxTime <- 2, MaxLedger <- 1,
    now <- paymentNow, row <- paymentRow, expiresAt <- paymentExpiresAt,
    sealed <- paymentSealed, surfaced <- paymentSurfaced, ledger <- paymentLedger,
    expiryAudited <- paymentExpiryAudited, req <- paymentReq, held <- paymentHeld,
    told <- paymentTold, reported <- paymentReported, lost <- paymentLost

Fetch == INSTANCE CredentialFetch WITH
    Requests <- {x1}, Fields <- {n1}, Ttl <- 1, MaxTime <- 2, now <- fetchNow,
    wantsSeal <- fetchWantsSeal, row <- fetchRow, bound <- fetchBound,
    surfaced <- fetchSurfaced, fields <- fetchFields, signed <- fetchSigned,
    audited <- fetchAudited, req <- fetchReq, told <- fetchTold, disclosed <- fetchDisclosed,
    mishap <- fetchMishap

Sync == INSTANCE WebhookSync WITH
    Procs <- {p1}, Kind <- "mutation", MaxEndpoint <- 1, MaxFaults <- 1,
    record <- syncRecord, lapsed <- syncLapsed, decision <- syncDecision,
    endpoint <- syncEndpoint, registered <- syncRegistered, sub <- syncSub,
    queue <- syncQueue, task <- syncTask, faults <- syncFaults

Delivery == INSTANCE WebhookDelivery WITH
    Senders <- {x1, x2}, Events <- {e1}, Waits <- 1, MaxAttempts <- 6, MaxCrashes <- 1,
    reachable <- deliveryReachable, delivery <- deliveryDelivery, att <- deliveryAtt,
    wire <- deliveryWire, crashes <- deliveryCrashes

ASSUME MutationAssumption

paymentVars == <<paymentNow, paymentRow, paymentExpiresAt, paymentSealed, paymentSurfaced,
                 paymentLedger, paymentExpiryAudited, paymentReq, paymentHeld, paymentTold,
                 paymentReported, paymentLost>>
fetchVars == <<fetchNow, fetchWantsSeal, fetchRow, fetchBound, fetchSurfaced, fetchFields,
               fetchSigned, fetchAudited, fetchReq, fetchTold, fetchDisclosed, fetchMishap>>
syncVars == <<syncRecord, syncLapsed, syncDecision, syncEndpoint, syncRegistered, syncSub,
              syncQueue, syncTask, syncFaults>>
deliveryVars == <<deliveryReachable, deliveryDelivery, deliveryAtt, deliveryWire,
                  deliveryCrashes>>

(* One component moves; the others rest where they start.                   *)
all == <<part, vars, paymentVars, fetchVars, syncVars, deliveryVars>>

ComposedInit ==
    /\ part \in Parts
    /\ Init
    /\ part # "mutation" => cred[c1].label = l1
    /\ Payment!Init
    /\ Fetch!Init
    /\ part # "fetch" => ~fetchWantsSeal
    /\ Sync!SyncInit
    /\ Delivery!DeliveryInit

ComposedNext ==
    /\ UNCHANGED part
    /\ \/ /\ part = "mutation" /\ Next
          /\ UNCHANGED <<paymentVars, fetchVars, syncVars, deliveryVars>>
       \/ /\ part = "payment" /\ Payment!Next
          /\ UNCHANGED <<vars, fetchVars, syncVars, deliveryVars>>
       \/ /\ part = "fetch" /\ Fetch!Next
          /\ UNCHANGED <<vars, paymentVars, syncVars, deliveryVars>>
       \/ /\ part = "sync" /\ Sync!SyncNext
          /\ UNCHANGED <<vars, paymentVars, fetchVars, deliveryVars>>
       \/ /\ part = "delivery" /\ Delivery!DeliveryNext
          /\ UNCHANGED <<vars, paymentVars, fetchVars, syncVars>>

Composed == ComposedInit /\ [][ComposedNext]_all

moving == CASE part = "payment" -> paymentVars
            [] part = "fetch" -> fetchVars
            [] part = "mutation" -> vars
            [] part = "sync" -> syncVars
            [] part = "delivery" -> deliveryVars

(* Each obligation is stated for the component that moves.  The clock goes on
   and backoffs elapse.                                                       *)
ClockRuns ==
    /\ UNCHANGED part
    /\ \/ part = "payment" /\ Payment!Tick
       \/ part = "fetch" /\ Fetch!Tick
       \/ part = "mutation" /\ Tick
       \/ part = "sync" /\ Sync!SyncStep(<<p1, "tick">>)
       \/ part = "delivery" /\ Delivery!Elapse(e1)

(* A handler that runs, a job or a listing of due deliveries goes on.         *)
HandlerRuns(r) ==
    /\ UNCHANGED part
    /\ \/ part = "payment" /\ Payment!ContinueRequest(r)
       \/ part = "fetch" /\ r = x1 /\ Fetch!Continue(r)
       \/ part = "mutation" /\ (Continue(r) \/ Crash(r))
       \/ part = "sync" /\ r = x1 /\ Sync!SyncStep(<<p1, "background">>)
       \/ part = "delivery" /\ Delivery!ListDue(r)

(* Receivers end their responses, and attempts at an event end.               *)
ReceiverEnds(r) ==
    /\ UNCHANGED part
    /\ \/ part = "sync" /\ Sync!ReceiversEnd(<<p1, IF r = x1 THEN "tick" ELSE "background">>)
       \/ part = "delivery" /\ Delivery!Attempt(r, e1)

(* The sweep, or the tick of the webhooks, starts again and again and is not
   always killed at the same step.                                            *)
SweepStarts ==
    /\ UNCHANGED part
    /\ \/ part = "payment" /\ \E r \in {x1, x2} : Payment!SweepScan(r)
       \/ part = "fetch" /\ Fetch!SweepScan(x1)
       \/ part = "mutation" /\ Sweep(a1)
       \/ part = "sync" /\ Sync!SyncTick(p1)

SweepSettles ==
    /\ UNCHANGED part
    /\ \/ part = "payment" /\ Payment!SweepAudit(x1, TRUE)
       \/ part = "fetch" /\ Fetch!SweepSettle(x1)

SweepAudits ==
    /\ UNCHANGED part
    /\ \/ part = "payment" /\ Payment!SweepAudit(x2, TRUE)
       \/ part = "fetch" /\ Fetch!AuditLands(x1) /\ fetchReq[x1].sweeps

SweepClears ==
    /\ UNCHANGED part
    /\ \/ part = "payment" /\ Payment!SweepDelete(x1)
       \/ part = "fetch" /\ Fetch!SweepClear(x1)

SweepDeletes ==
    /\ UNCHANGED part
    /\ \/ part = "payment" /\ Payment!SweepDelete(x2)
       \/ part = "fetch" /\ Fetch!SweepDelete(x1)

FairlyComposed ==
    /\ Composed
    /\ WF_moving(ClockRuns)
    /\ \A r \in {x1, x2} : WF_moving(HandlerRuns(r)) /\ WF_moving(ReceiverEnds(r))
    /\ SF_moving(SweepStarts) /\ SF_moving(SweepSettles) /\ SF_moving(SweepAudits)
    /\ SF_moving(SweepClears) /\ SF_moving(SweepDeletes)

Due ==
    \/ part = "payment" /\ paymentRow.status = "pending" /\ paymentExpiresAt < paymentNow
    \/ part = "fetch" /\ Fetch!Exists /\ fetchRow.until < 2
    \/ part = "mutation" /\ Exists(a1) /\ appr[a1].until < 2
    \/ part = "sync" /\ syncSub.open
    \/ part = "delivery" /\ deliveryDelivery[e1].queued

Settled ==
    \/ part = "payment" /\ paymentRow.status = "swept" /\ paymentExpiryAudited
    \/ part = "fetch" /\ fetchRow.status = "swept"
    \/ part = "mutation" /\ appr[a1].status = "swept"
    \/ part = "sync" /\ (syncSub.open => Sync!CardStatus \notin Sync!Terminal \union {"none"})
    \/ part = "delivery" /\ ~Delivery!Unsettled(e1)

(* A lapsed payment approval is audited as expired and removed, a lapsed fetch
   or mutation removed, whatever crashed or failed to be audited; of a watched
   approval the end is announced or its subscription closed; and a queued
   event is delivered or given up.                                            *)
LapsedIsSettled == Due ~> Settled
=============================================================================
