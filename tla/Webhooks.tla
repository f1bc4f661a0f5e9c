------------------------------ MODULE Webhooks ------------------------------
(***************************************************************************)
(* The two halves of an approval's webhooks, and what is asked of both:    *)
(* WebhookSync queues the events of the changes, WebhookDelivery sends     *)
(* them.  They meet in the queue only, so neither moves the other's state. *)
(***************************************************************************)
EXTENDS WebhookSync, WebhookDelivery

(* Events follow the approval's progress, whichever of the tasks that read  *)
(* it announces them.  Senders that overlap number their attempts, give up  *)
(* only when the backoff is used up, and never reopen what is finished.     *)
WebhooksSafe ==
    /\ [](SyncTypeOK /\ EventsFollowProgress)
    /\ [](DeliveryTypeOK /\ AttemptsAreNumbered /\ GivenUpAfterBackoff)
    /\ FinishedStaysFinished
=============================================================================
