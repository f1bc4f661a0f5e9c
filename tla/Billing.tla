------------------------------- MODULE Billing -------------------------------
(***************************************************************************)
(* The paid tier of one account (apps/api/src/routes/billing.ts and         *)
(* stripe-webhook.ts): checkouts opened from browser tabs, and the webhook  *)
(* that is the only writer of the billing state.                           *)
(*                                                                         *)
(* Stripe is external: it bills the subscription of each completed          *)
(* checkout, and reports every change as an event that carries the state    *)
(* of that moment, delivered at least once and in any order.               *)
(* The webhook reads the account an event is about and writes it, two       *)
(* statements between which another delivery may run.                       *)
(***************************************************************************)
EXTENDS Naturals, Sequences, SequencesExt

CONSTANTS
    Checkouts,    \* checkouts; each makes a subscription of its own
    Hooks,        \* webhook requests that can be under way at once
    NoCheckout,
    MaxEvents     \* bound: events Stripe ever emits

BillingAssumption == NoCheckout \notin Checkouts /\ MaxEvents \in Nat

VARIABLES
    acct,     \* the account's billing columns
    checkout, \* the checkouts' pages
    stripe,   \* the subscription of each checkout, at Stripe
    queue,    \* events Stripe still has to deliver
    emitted,  \* how many it emitted
    hook,     \* the webhook requests
    unsure,   \* history: subscriptions with an event received out of turn, or
              \* written after the account had changed customers
    careful   \* history: no checkout began while another was unsettled

billingVars == <<acct, checkout, stripe, queue, emitted, hook, unsure, careful>>

Statuses == {"free", "active", "past_due", "canceled"}

\* A customer is named by the checkout that made it.
Events == [kind: {"completed", "updated", "deleted"}, sub: Checkouts,
           cust: Checkouts, st: Statuses, sched: BOOLEAN]

BillingTypeOK ==
    /\ acct \in [st: Statuses, cust: Checkouts \cup {NoCheckout},
                 sub: Checkouts \cup {NoCheckout}, sched: BOOLEAN]
    /\ checkout \in [Checkouts -> [at: {"idle", "read", "open", "done", "refused"},
                                   cust: Checkouts \cup {NoCheckout}]]
    /\ stripe \in [Checkouts -> [st: Statuses, cust: Checkouts \cup {NoCheckout},
                                 sched: BOOLEAN]]
    /\ queue \in Seq(Events)
    /\ emitted \in 0 .. MaxEvents
    /\ hook \in [Hooks -> {<<"idle">>} \cup {<<"write", e>> : e \in Events}]
    /\ unsure \subseteq Checkouts /\ careful \in BOOLEAN

BillingInit ==
    /\ acct = [st |-> "free", cust |-> NoCheckout, sub |-> NoCheckout, sched |-> FALSE]
    /\ checkout = [c \in Checkouts |-> [at |-> "idle", cust |-> NoCheckout]]
    /\ stripe = [c \in Checkouts |-> [st |-> "free", cust |-> NoCheckout, sched |-> FALSE]]
    /\ queue = <<>> /\ emitted = 0
    /\ hook = [h \in Hooks |-> <<"idle">>]
    /\ unsure = {} /\ careful = TRUE

IdleHooks == {h \in Hooks : hook[h] = <<"idle">>}

Quiet == queue = <<>> /\ IdleHooks = Hooks

(* Mutated forms, named Operator_Fault, precede the operator they distort;   *)
(* nothing refers to them but the mutation runs of PROJECT.json.             *)

(* ---- the browser ---------------------------------------------------------- *)

\* POST /checkout reads the account: a subscribed one is sent to the portal.
Subscribed(a) == a.st = "active"

\* No other page is open, all is delivered and no payment is overdue.
Unhurried ==
    /\ Quiet
    /\ \A d \in Checkouts : checkout[d].at \notin {"read", "open"} /\ stripe[d].st # "past_due"

Checkout(c) ==
    /\ checkout[c].at = "idle"
    /\ checkout' = [checkout EXCEPT ![c] =
                 [at |-> IF Subscribed(acct) THEN "refused" ELSE "read",
                  cust |-> acct.cust]]
    /\ careful' = (careful /\ (Subscribed(acct) \/ Unhurried))
    /\ UNCHANGED <<acct, stripe, queue, emitted, hook, unsure>>

Opens(c) ==
    /\ checkout[c].at = "read"
    /\ checkout' = [checkout EXCEPT ![c].at = "open"]
    /\ UNCHANGED <<acct, stripe, queue, emitted, hook, unsure, careful>>

(* ---- Stripe --------------------------------------------------------------- *)

Event(kind, c, s) == [kind |-> kind, sub |-> c, cust |-> s.cust, st |-> s.st,
                      sched |-> s.sched]

Emit(kind, c, s) ==
    /\ emitted < MaxEvents
    /\ emitted' = emitted + 1
    /\ stripe' = [stripe EXCEPT ![c] = s]
    /\ queue' = Append(queue, Event(kind, c, s))
    /\ UNCHANGED <<acct, hook, unsure, careful>>

\* The person pays; a checkout without a customer makes one.
Pays(c) ==
    /\ checkout[c].at = "open"
    /\ Emit("completed", c,
            [st |-> "active", sched |-> FALSE,
             cust |-> IF checkout[c].cust = NoCheckout THEN c ELSE checkout[c].cust])
    /\ checkout' = [checkout EXCEPT ![c].at = "done"]

\* A charge fails or succeeds, a cancellation is scheduled or undone.
Changes(c, st, sched) ==
    /\ stripe[c].st \in {"active", "past_due"}
    /\ st # stripe[c].st \/ sched # stripe[c].sched
    /\ Emit("updated", c, [stripe[c] EXCEPT !.st = st, !.sched = sched])
    /\ UNCHANGED checkout

\* The subscription ends; the event carries the last status it had.
Ends(c) ==
    /\ stripe[c].st \in {"active", "past_due"}
    /\ emitted < MaxEvents /\ emitted' = emitted + 1
    /\ stripe' = [stripe EXCEPT ![c].st = "canceled"]
    /\ queue' = Append(queue, Event("deleted", c, stripe[c]))
    /\ UNCHANGED <<acct, checkout, hook, unsure, careful>>

(* ---- the webhook ----------------------------------------------------------- *)

\* Whether an event finds its account: a checkout names it, a subscription
\* names the customer.
Found(a, e) == e.kind = "completed" \/ e.cust = a.cust

\* The event is the oldest of its subscription and no request is about that one.
InTurn(k) ==
    /\ \A j \in DOMAIN queue : j < k => queue[j].sub # queue[k].sub
    /\ \A h \in Hooks \ IdleHooks : hook[h][2].sub # queue[k].sub

\* An event of an unknown customer is acknowledged and dropped.  The event
\* stays queued until its request answers, and may then be sent again.
Receive(h, k) ==
    LET e == queue[k] IN
    /\ h \in IdleHooks
    /\ unsure' = IF InTurn(k) THEN unsure ELSE unsure \cup {e.sub}
    /\ IF Found(acct, e)
       THEN hook' = [hook EXCEPT ![h] = <<"write", e>>] /\ UNCHANGED queue
       ELSE queue' = RemoveAt(queue, k) /\ UNCHANGED hook
    /\ UNCHANGED <<acct, checkout, stripe, emitted, careful>>

Patched_KeepsSchedule(a, e) ==
    CASE e.kind = "completed" ->
           [st |-> "active", cust |-> e.cust, sub |-> e.sub, sched |-> a.sched]
      [] e.kind = "updated" ->
           [a EXCEPT !.st = e.st, !.sub = e.sub, !.sched = @ \/ e.sched]
      [] OTHER -> [a EXCEPT !.st = "canceled", !.sub = e.sub, !.sched = FALSE]

Patched(a, e) ==
    CASE e.kind = "completed" ->
           [st |-> "active", cust |-> e.cust, sub |-> e.sub, sched |-> FALSE]
      [] e.kind = "updated" -> [a EXCEPT !.st = e.st, !.sub = e.sub, !.sched = e.sched]
      [] OTHER -> [a EXCEPT !.st = "canceled", !.sub = e.sub, !.sched = FALSE]

\* The write, and the 200: the event leaves the queue, or the answer is lost
\* and Stripe will send it again.
Write(h, again) ==
    LET e == hook[h][2] IN
    /\ hook[h] # <<"idle">>
    /\ acct' = Patched(acct, e)
    /\ hook' = [hook EXCEPT ![h] = <<"idle">>]
    /\ queue' = IF again \/ ~Contains(queue, e) THEN queue
                ELSE RemoveFirst(queue, e)
    /\ unsure' = IF Found(acct, e) THEN unsure ELSE unsure \cup {e.sub}
    /\ UNCHANGED <<checkout, stripe, emitted, careful>>

\* The database fails: 500, and Stripe retries.
Fails(h) ==
    /\ hook[h] # <<"idle">>
    /\ hook' = [hook EXCEPT ![h] = <<"idle">>]
    /\ UNCHANGED <<acct, checkout, stripe, queue, emitted, unsure, careful>>

BillingNext ==
    \/ \E c \in Checkouts : Checkout(c) \/ Opens(c) \/ Pays(c) \/ Ends(c)
    \/ \E c \in Checkouts, st \in {"active", "past_due"}, sched \in BOOLEAN :
           Changes(c, st, sched)
    \/ \E h \in Hooks : \/ \E k \in DOMAIN queue : Receive(h, k)
                        \/ \E again \in BOOLEAN : Write(h, again)
                        \/ Fails(h)

BillingSpec == BillingInit /\ [][BillingNext]_billingVars

(* ---- what must hold -------------------------------------------------------- *)

Paying == {c \in Checkouts : stripe[c].st \in {"active", "past_due"}}

\* Once Stripe has nothing more to say, the account shows the state of its
\* latest subscription, the status and whether it will be cancelled: with any
\* number of tabs, subscriptions, requests and redeliveries, unless the events
\* of that very subscription were taken out of turn.
Settled ==
    Quiet /\ acct.sub # NoCheckout /\ acct.sub \notin unsure =>
        /\ acct.st = stripe[acct.sub].st
        /\ stripe[acct.sub].st # "canceled" => acct.sched = stripe[acct.sub].sched

\* Whoever has paid can reach the portal once all is delivered, in whatever
\* order it came: the account has a customer.
PaidCanManage ==
    Quiet /\ (\E c \in Checkouts : checkout[c].at = "done") => acct.cust # NoCheckout

\* The account never pays for two subscriptions.
OneSubscription == \A c, d \in Paying : c = d

\* An account with a subscription that is paid is not shown as without one.
PaidIsServed ==
    Quiet => ((\E c \in Checkouts : stripe[c].st = "active") => acct.st = "active")

\* The account follows the subscription it is on and can always be managed;
\* and as long as no event came out of turn and no checkout began while another
\* was unsettled, it pays one subscription and has the tier it pays.
BillingSafe ==
    /\ BillingTypeOK
    /\ Settled
    /\ PaidCanManage
    /\ careful /\ unsure = {} => OneSubscription /\ PaidIsServed
=============================================================================
