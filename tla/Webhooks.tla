------------------------------ MODULE Webhooks ------------------------------
(***************************************************************************)
(* Delivery of integration events to a webhook (apps/api/src/modules/      *)
(* integration): an event and its deliveries are rows written with the     *)
(* audit record; a timer starts a worker every few seconds, whether or not *)
(* the one before has finished, and "Send test event" delivers in the      *)
(* request itself.  A worker goes through the list it loaded at its start. *)
(***************************************************************************)
EXTENDS Naturals

CONSTANTS
    Delivery,     \* the deliveries there may be
    Worker,       \* runs of the timer and test requests that may overlap
    MaxAttempts,  \* WEBHOOK_MAX_ATTEMPTS
    MaxWebhookFaults  \* bound on crashes and on changes of the webhook

ASSUME WebhookAssumption == MaxAttempts \in Nat \ {0} /\ MaxWebhookFaults \in Nat

VARIABLES
    webhookActive,  \* webhook and application are ACTIVE
    deliveries,     \* IntegrationWebhookDelivery of each delivery
    workers,        \* the list each worker has left, and the delivery it attempts
    sends,          \* requests sent for each delivery
    webhookFaults

webhookVars == <<webhookActive, deliveries, workers, sends, webhookFaults>>

\* "due" stands for nextRetryAt, or for lastAttemptAt of a row in DELIVERING:
\* in the past, in the future, or in the year 9999.
NoDelivery == [status |-> "none", attempts |-> 0, due |-> "later"]

NoWork == [step |-> "idle", list |-> {}, active |-> FALSE]

WebhookInit ==
    /\ webhookActive = TRUE
    /\ deliveries = [d \in Delivery |-> NoDelivery]
    /\ workers = [w \in Worker |-> NoWork]
    /\ sends = [d \in Delivery |-> 0]
    /\ webhookFaults = 0

NewDelivery == [status |-> "PENDING", attempts |-> 0, due |-> "now"]

\* recordIntegrationEvent, in the transaction of the audit record: an active
\* webhook that subscribed to the event gets a delivery.
RecordIntegrationEvent(d) ==
    /\ webhookActive /\ deliveries[d].status = "none"
    /\ deliveries' = [deliveries EXCEPT ![d] = NewDelivery]
    /\ UNCHANGED <<webhookActive, workers, sends, webhookFaults>>

\* testWebhook: the event is recorded and delivered at once.
TestWebhook(w, d) ==
    /\ workers[w] = NoWork
    /\ webhookActive /\ deliveries[d].status = "none"
    /\ deliveries' = [deliveries EXCEPT ![d] = NewDelivery]
    /\ workers' = [workers EXCEPT ![w] = [step |-> "next", list |-> {d}, active |-> TRUE]]
    /\ UNCHANGED <<webhookActive, sends, webhookFaults>>

\* Mutant: a delivery whose worker stopped is never taken up.
DueUnlessDelivering == {d \in Delivery : deliveries[d].status \in {"PENDING", "FAILED"} /\ deliveries[d].due = "now"}

\* PENDING and FAILED past their time, DELIVERING for more than two minutes.
DueDeliveries ==
    {d \in Delivery : deliveries[d].status \in {"PENDING", "FAILED", "DELIVERING"} /\ deliveries[d].due = "now"}

\* processDueWebhookDeliveries loads its list, with the webhook in it.
LoadDue(w) ==
    /\ workers[w] = NoWork /\ DueDeliveries # {}
    /\ workers' = [workers EXCEPT ![w] = [step |-> "next", list |-> DueDeliveries, active |-> webhookActive]]
    /\ UNCHANGED <<webhookActive, deliveries, sends, webhookFaults>>

\* What worker w does next with d of its list.
Take(w, d) == workers[w].step = "next" /\ d \in workers[w].list

\* The worker is done with d.
Rest(w, d) ==
    LET left == workers[w].list \ {d}
    IN  IF left = {} THEN NoWork ELSE [step |-> "next", list |-> left, active |-> workers[w].active]

DisableDelivery(w, d) ==
    /\ Take(w, d) /\ ~workers[w].active
    /\ deliveries' = [deliveries EXCEPT ![d].status = "DISABLED"]
    /\ workers' = [workers EXCEPT ![w] = Rest(w, d)]
    /\ UNCHANGED <<webhookActive, sends, webhookFaults>>

\* attemptDelivery claims the row, unless it is DELIVERED or DISABLED by now.
Claim(w, d) ==
    /\ Take(w, d) /\ workers[w].active
    /\ IF deliveries[d].status \in {"PENDING", "FAILED", "DELIVERING"}
       THEN /\ deliveries' = [deliveries EXCEPT ![d].status = "DELIVERING", ![d].due = "later"]
            /\ workers' = [workers EXCEPT ![w] =
                              [step |-> "claimed", list |-> @.list, active |-> TRUE, current |-> d]]
       ELSE /\ workers' = [workers EXCEPT ![w] = Rest(w, d)]
            /\ UNCHANGED deliveries
    /\ UNCHANGED <<webhookActive, sends, webhookFaults>>

\* It reads the row again, for the number of the attempt, and sends.
Send(w) ==
    /\ workers[w].step = "claimed"
    /\ LET d == workers[w].current IN
       /\ workers' = [workers EXCEPT ![w] =
             [step |-> "sent", list |-> @.list, active |-> TRUE, current |-> d,
              attempt |-> deliveries[d].attempts + 1]]
       /\ sends' = [sends EXCEPT ![d] = @ + 1]
    /\ UNCHANGED <<webhookActive, deliveries, webhookFaults>>

Delivered(w) ==
    /\ workers[w].step = "sent"
    /\ deliveries' = [deliveries EXCEPT ![workers[w].current] =
                         [@ EXCEPT !.status = "DELIVERED", !.attempts = workers[w].attempt]]
    /\ workers' = [workers EXCEPT ![w] = Rest(w, workers[w].current)]
    /\ UNCHANGED <<webhookActive, sends, webhookFaults>>

\* Mutant: the attempt that is counted is the one after.
MarkFailureTwice(w) ==
    /\ workers[w].step = "sent"
    /\ deliveries' = [deliveries EXCEPT ![workers[w].current] =
                         [status |-> "FAILED", attempts |-> workers[w].attempt + 1,
                          due |-> IF workers[w].attempt + 1 >= MaxAttempts THEN "never" ELSE "later"]]
    /\ workers' = [workers EXCEPT ![w] = Rest(w, workers[w].current)]
    /\ UNCHANGED <<webhookActive, sends, webhookFaults>>

\* markFailure: another status than 2xx, or no answer in time.
MarkFailure(w) ==
    /\ workers[w].step = "sent"
    /\ deliveries' = [deliveries EXCEPT ![workers[w].current] =
                         [status |-> "FAILED", attempts |-> workers[w].attempt,
                          due |-> IF workers[w].attempt >= MaxAttempts THEN "never" ELSE "later"]]
    /\ workers' = [workers EXCEPT ![w] = Rest(w, workers[w].current)]
    /\ UNCHANGED <<webhookActive, sends, webhookFaults>>

\* Time: the delay of a retry passes, or the two minutes after a claim.  An
\* attempt is over by then, its request has a timeout of ten seconds.
DeliveryDue(d) ==
    /\ deliveries[d].status \in {"FAILED", "DELIVERING"} /\ deliveries[d].due = "later"
    /\ deliveries[d].status = "DELIVERING" =>
          \A w \in Worker : workers[w].step \in {"claimed", "sent"} => workers[w].current # d
    /\ deliveries' = [deliveries EXCEPT ![d].due = "now"]
    /\ UNCHANGED <<webhookActive, workers, sends, webhookFaults>>

WebhookFault == webhookFaults < MaxWebhookFaults /\ webhookFaults' = webhookFaults + 1

\* updateWebhook and updateApplication set any status.
UpdateWebhook ==
    /\ WebhookFault
    /\ webhookActive' = ~webhookActive
    /\ UNCHANGED <<deliveries, workers, sends>>

\* The API stops: rows stay as they are.
WebhookCrash ==
    /\ WebhookFault
    /\ workers' = [w \in Worker |-> NoWork]
    /\ UNCHANGED <<webhookActive, deliveries, sends>>

WorkerSteps(w) ==
    \/ LoadDue(w)
    \/ \E d \in Delivery : DisableDelivery(w, d) \/ Claim(w, d)
    \/ Send(w) \/ Delivered(w) \/ MarkFailure(w)

WebhookNext ==
    \/ \E d \in Delivery : RecordIntegrationEvent(d) \/ DeliveryDue(d)
    \/ \E w \in Worker : WorkerSteps(w) \/ (\E d \in Delivery : TestWebhook(w, d))
    \/ UpdateWebhook \/ WebhookCrash

\* The timer fires, a worker goes on, an attempt comes to an end, time passes.
WebhookFairness ==
    /\ \A w \in Worker : WF_webhookVars(WorkerSteps(w))
    /\ \A d \in Delivery : WF_webhookVars(DeliveryDue(d))

WebhookSpec == WebhookInit /\ [][WebhookNext]_webhookVars /\ WebhookFairness

-----------------------------------------------------------------------------
(* Properties                                                              *)

WebhookTypeOK ==
    /\ webhookActive \in BOOLEAN
    /\ \A d \in Delivery :
          /\ deliveries[d].status \in {"none", "PENDING", "DELIVERING", "DELIVERED", "FAILED", "DISABLED"}
          /\ deliveries[d].due \in {"now", "later", "never"}
    /\ \A w \in Worker : workers[w].step \in {"idle", "next", "claimed", "sent"}

\* docs/webhooks.md, six attempts before the dead letter: none is given up
\* earlier, although workers that overlap count the same attempt twice or
\* write over each other's count, and a crash may come at any point.
NotGivenUpEarly ==
    \A d \in Delivery : deliveries[d].due = "never" => sends[d] >= MaxAttempts

Decided(d) == deliveries[d].status \in {"DELIVERED", "DISABLED"} \/ deliveries[d].due = "never"

\* No delivery is forgotten in PENDING, FAILED or DELIVERING, a stop of the API
\* between claim and answer included.
EveryDeliveryIsDecided ==
    \A d \in Delivery : (deliveries[d].status # "none") ~> Decided(d)
=============================================================================
