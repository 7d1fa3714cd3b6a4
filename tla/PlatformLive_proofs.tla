------------------------ MODULE PlatformLive_proofs ------------------------
(***************************************************************************)
(* Proofs about the components of MCPlatformLive: Connectivity, for every  *)
(* threshold; Webhooks, for every number of deliveries, of workers that    *)
(* overlap, of attempts and of stops; OperationalAlerts, for every number  *)
(* of scans, of requests, of days and of alerts; WeighbridgeConnection,    *)
(* for every number of requests and of devices; SyncedFiles, for every     *)
(* number of captures and of requests.                                     *)
(***************************************************************************)
EXTENDS MCPlatformLive, WellFoundedInduction, TLAPS

-----------------------------------------------------------------------------
(* Webhooks                                                                *)

DeliveryRow == [status : {"none", "PENDING", "DELIVERING", "DELIVERED", "FAILED", "DISABLED"},
        attempts : Nat, due : {"now", "later", "never"}]
Listing == [step : {"idle", "next"}, list : SUBSET Delivery, active : BOOLEAN]
Claiming == [step : {"claimed"}, list : SUBSET Delivery, active : BOOLEAN, current : Delivery]
Sending == [step : {"sent"}, list : SUBSET Delivery, active : BOOLEAN, current : Delivery,
            attempt : Nat]
Work == Listing \cup Claiming \cup Sending

\* No count runs ahead of the requests that were sent: neither the one in the
\* row nor the one a worker will write there.
CountsOK ==
    /\ \A d \in Delivery : deliveries[d].attempts <= sends[d]
    /\ \A w \in Worker :
          workers[w].step = "sent" => workers[w].attempt <= sends[workers[w].current]

WebhookInv ==
    /\ deliveries \in [Delivery -> DeliveryRow]
    /\ sends \in [Delivery -> Nat]
    /\ workers \in [Worker -> Work]
    /\ CountsOK
    /\ NotGivenUpEarly
-----------------------------------------------------------------------------
\* What a worker at each step carries.
LEMMA WorkKinds ==
    ASSUME NEW work \in Work
    PROVE  /\ work.step = "claimed" => work \in Claiming
           /\ work.step = "sent" => work \in Sending
           /\ work.list \in SUBSET Delivery /\ work.active \in BOOLEAN
<1>1. CASE work \in Listing
  <2>1. work.step \in {"idle", "next"} BY <1>1 DEF Listing
  <2>2. work.list \in SUBSET Delivery /\ work.active \in BOOLEAN BY <1>1 DEF Listing
  <2> QED BY <2>1, <2>2
<1>2. CASE work \in Claiming
  <2>1. work.step = "claimed" BY <1>2 DEF Claiming
  <2>2. work.list \in SUBSET Delivery /\ work.active \in BOOLEAN BY <1>2 DEF Claiming
  <2> QED BY <1>2, <2>1, <2>2
<1>3. CASE work \in Sending
  <2>1. work.step = "sent" BY <1>3 DEF Sending
  <2>2. work.list \in SUBSET Delivery /\ work.active \in BOOLEAN BY <1>3 DEF Sending
  <2> QED BY <1>3, <2>1, <2>2
<1> QED BY <1>1, <1>2, <1>3 DEF Work

\* A worker that goes on with a list, or rests.
LEMMA ListingIsWork ==
    /\ NoWork \in Work /\ NoWork.step # "sent"
    /\ \A list \in SUBSET Delivery, active \in BOOLEAN :
          [step |-> "next", list |-> list, active |-> active] \in Work
BY DEF NoWork, Work, Listing

\* A worker that is done with a delivery goes on in order.
LEMMA RestIsWork ==
    ASSUME NEW w, NEW d, workers[w] \in Work
    PROVE  Rest(w, d) \in Work /\ Rest(w, d).step # "sent"
<1>1. workers[w].list \ {d} \in SUBSET Delivery /\ workers[w].active \in BOOLEAN
  BY WorkKinds
<1> QED BY <1>1, ListingIsWork DEF Rest

\* A change of one worker that is not about to write a count.
LEMMA WorkerMoves ==
    ASSUME WebhookInv, NEW w \in Worker, NEW work \in Work, work.step # "sent",
           workers' = [workers EXCEPT ![w] = work]
    PROVE  /\ workers' \in [Worker -> Work]
           /\ \A v \in Worker : workers'[v].step = "sent" => workers'[v] = workers[v]
BY DEF WebhookInv

\* A change of rows that leaves their counts, and does not give up, is harmless.
LEMMA RowsMove ==
    ASSUME WebhookInv, deliveries' \in [Delivery -> DeliveryRow], workers' \in [Worker -> Work],
           \A v \in Worker : workers'[v].step = "sent" => workers'[v] = workers[v],
           \A d \in Delivery : /\ deliveries'[d].attempts \in {0, deliveries[d].attempts}
                               /\ deliveries'[d].due = "never" => deliveries[d].due = "never",
           UNCHANGED sends
    PROVE  WebhookInv'
<1>1. \A d \in Delivery : deliveries'[d].attempts <= sends[d]
  BY DEF WebhookInv, CountsOK
<1>2. CountsOK' BY <1>1 DEF WebhookInv, CountsOK
<1>3. NotGivenUpEarly' BY DEF WebhookInv, NotGivenUpEarly
<1> QED BY <1>2, <1>3 DEF WebhookInv

\* The two ends of an attempt write the count the worker has.
LEMMA AttemptEnds ==
    ASSUME WebhookInv, NEW w \in Worker, Delivered(w) \/ MarkFailure(w)
    PROVE  WebhookInv'
<1> DEFINE d == workers[w].current
           n == workers[w].attempt
<1>1. workers[w] \in Sending BY WorkKinds DEF WebhookInv, Delivered, MarkFailure
<1>2. d \in Delivery /\ n \in Nat /\ workers[w].list \in SUBSET Delivery
  BY <1>1 DEF Sending
<1>3. n <= sends[d] BY DEF Delivered, MarkFailure, WebhookInv, CountsOK
<1>4. PICK row \in DeliveryRow :
         /\ deliveries' = [deliveries EXCEPT ![d] = row]
         /\ row.attempts = n
         /\ row.due = "never" => deliveries[d].due = "never" \/ n >= MaxAttempts
  <2>1. deliveries[d] \in DeliveryRow BY <1>2 DEF WebhookInv
  <2>2. CASE Delivered(w)
    <3> DEFINE row == [deliveries[d] EXCEPT !.status = "DELIVERED", !.attempts = n]
    <3>1. row \in DeliveryRow /\ row.attempts = n /\ row.due = deliveries[d].due
      BY <1>2, <2>1 DEF DeliveryRow
    <3>2. deliveries' = [deliveries EXCEPT ![d] = row] BY <2>2 DEF Delivered
    <3> QED BY <3>1, <3>2
  <2>3. CASE MarkFailure(w)
    <3> DEFINE row == [status |-> "FAILED", attempts |-> n,
                       due |-> IF n >= MaxAttempts THEN "never" ELSE "later"]
    <3>1. row \in DeliveryRow /\ row.attempts = n /\ (row.due = "never" => n >= MaxAttempts)
      BY <1>2 DEF DeliveryRow
    <3>2. deliveries' = [deliveries EXCEPT ![d] = row] BY <2>3 DEF MarkFailure
    <3> QED BY <3>1, <3>2
  <2> QED BY <2>2, <2>3
<1>5. workers' = [workers EXCEPT ![w] = Rest(w, d)] /\ UNCHANGED sends
  BY DEF Delivered, MarkFailure
<1>6. Rest(w, d) \in Work /\ Rest(w, d).step # "sent" BY RestIsWork DEF WebhookInv
<1>7. /\ workers' \in [Worker -> Work]
      /\ \A v \in Worker : workers'[v].step = "sent" => workers'[v] = workers[v]
  BY <1>5, <1>6, WorkerMoves
<1>8. deliveries' \in [Delivery -> DeliveryRow] BY <1>2, <1>4 DEF WebhookInv
<1>9. CountsOK'
  <2>1. \A e \in Delivery : deliveries'[e].attempts <= sends[e]
    BY <1>2, <1>3, <1>4 DEF WebhookInv, CountsOK
  <2> QED BY <1>5, <1>7, <2>1 DEF WebhookInv, CountsOK
<1>10. NotGivenUpEarly'
  <2>1. n >= MaxAttempts => sends[d] >= MaxAttempts
    BY <1>2, <1>3, WebhookAssumption DEF WebhookInv
  <2> QED BY <1>2, <1>4, <1>5, <2>1 DEF WebhookInv, NotGivenUpEarly
<1> QED BY <1>5, <1>7, <1>8, <1>9, <1>10 DEF WebhookInv

\* A request that is sent is counted by its worker, from the row it reads.
LEMMA SendInv ==
    ASSUME WebhookInv, NEW w \in Worker, Send(w)
    PROVE  WebhookInv'
<1> DEFINE d == workers[w].current
           work == [step |-> "sent", list |-> workers[w].list, active |-> TRUE, current |-> d,
                    attempt |-> deliveries[d].attempts + 1]
<1>1. workers[w] \in Claiming BY WorkKinds DEF WebhookInv, Send
<1>2. d \in Delivery /\ workers[w].list \in SUBSET Delivery BY <1>1 DEF Claiming
<1>3. deliveries[d].attempts \in Nat /\ deliveries[d].attempts <= sends[d] /\ sends[d] \in Nat
  BY <1>2 DEF WebhookInv, CountsOK, DeliveryRow
<1>4. work \in Work BY <1>2, <1>3 DEF Work, Sending
<1>5. /\ workers' = [workers EXCEPT ![w] = work] /\ sends' = [sends EXCEPT ![d] = @ + 1]
      /\ UNCHANGED deliveries
  BY DEF Send
<1>6. work.current = d /\ work.attempt = deliveries[d].attempts + 1 OBVIOUS
<1> HIDE DEF work
<1>7. workers' \in [Worker -> Work] /\ sends' \in [Delivery -> Nat]
  BY <1>2, <1>3, <1>4, <1>5 DEF WebhookInv
<1>8. \A e \in Delivery : sends[e] \in Nat /\ sends'[e] \in Nat /\ sends[e] <= sends'[e]
  BY <1>2, <1>5 DEF WebhookInv
<1>9. CountsOK'
  <2>1. \A e \in Delivery : deliveries'[e].attempts <= sends'[e]
    BY <1>5, <1>8 DEF WebhookInv, CountsOK, DeliveryRow
  <2>2. ASSUME NEW v \in Worker, workers'[v].step = "sent"
        PROVE  workers'[v].attempt <= sends'[workers'[v].current]
    <3>1. CASE v = w
      <4>1. workers'[v] = work BY <1>5, <3>1 DEF WebhookInv
      <4>2. sends'[d] = sends[d] + 1 BY <1>2, <1>5 DEF WebhookInv
      <4> QED BY <1>3, <1>6, <4>1, <4>2
    <3>2. CASE v # w
      <4>1. workers'[v] = workers[v] BY <1>5, <3>2 DEF WebhookInv
      <4>2. workers[v] \in Sending BY <2>2, <4>1, WorkKinds DEF WebhookInv
      <4>3. workers[v].current \in Delivery /\ workers[v].attempt \in Nat BY <4>2 DEF Sending
      <4>4. workers[v].attempt <= sends[workers[v].current]
        BY <2>2, <4>1 DEF WebhookInv, CountsOK
      <4> QED BY <1>8, <4>1, <4>3, <4>4
    <3> QED BY <3>1, <3>2
  <2> QED BY <2>1, <2>2 DEF CountsOK
<1>10. NotGivenUpEarly'
  BY <1>5, <1>8, WebhookAssumption DEF WebhookInv, NotGivenUpEarly
<1> QED BY <1>5, <1>7, <1>9, <1>10 DEF WebhookInv

\* Every other step of a worker, and everything around the workers, leaves the
\* counts alone or starts them at zero.
LEMMA RestInv ==
    ASSUME WebhookInv, webhookActive \in BOOLEAN,
           \/ \E d \in Delivery : RecordIntegrationEvent(d) \/ DeliveryDue(d)
           \/ \E w \in Worker : LoadDue(w)
           \/ \E w \in Worker, d \in Delivery :
                 DisableDelivery(w, d) \/ Claim(w, d) \/ TestWebhook(w, d)
           \/ UpdateWebhook \/ WebhookCrash
    PROVE  WebhookInv'
<1> DEFINE Harmless ==
      /\ deliveries' \in [Delivery -> DeliveryRow]
      /\ \A d \in Delivery : /\ deliveries'[d].attempts \in {0, deliveries[d].attempts}
                             /\ deliveries'[d].due = "never" => deliveries[d].due = "never"
    Moves == /\ workers' \in [Worker -> Work]
             /\ \A v \in Worker : workers'[v].step = "sent" => workers'[v] = workers[v]
<1>1. UNCHANGED deliveries => Harmless BY DEF WebhookInv
<1>2. UNCHANGED workers => Moves BY DEF WebhookInv
<1>3. ASSUME NEW d \in Delivery, deliveries' = [deliveries EXCEPT ![d] = NewDelivery]
      PROVE  Harmless
  <2>1. NewDelivery \in DeliveryRow /\ NewDelivery.attempts = 0 /\ NewDelivery.due = "now"
    BY DEF NewDelivery, DeliveryRow
  <2> QED BY <1>3, <2>1 DEF WebhookInv
<1>4. ASSUME NEW d \in Delivery, RecordIntegrationEvent(d) \/ DeliveryDue(d) PROVE WebhookInv'
  <2>1. UNCHANGED <<workers, sends>> BY <1>4 DEF RecordIntegrationEvent, DeliveryDue
  <2>2. Harmless
    <3>1. CASE RecordIntegrationEvent(d) BY <1>3, <3>1 DEF RecordIntegrationEvent
    <3>2. CASE DeliveryDue(d)
      <4>1. deliveries' = [deliveries EXCEPT ![d] = [deliveries[d] EXCEPT !.due = "now"]]
        BY <3>2 DEF DeliveryDue
      <4> QED BY <4>1 DEF WebhookInv, DeliveryRow
    <3> QED BY <1>4, <3>1, <3>2
  <2> QED BY <1>2, <2>1, <2>2, RowsMove
<1>5. ASSUME NEW w \in Worker, LoadDue(w) PROVE WebhookInv'
  <2> DEFINE work == [step |-> "next", list |-> DueDeliveries, active |-> webhookActive]
  <2>1. DueDeliveries \in SUBSET Delivery BY DEF DueDeliveries
  <2>2. work \in Work /\ work.step # "sent" BY <2>1, ListingIsWork DEF WebhookInv
  <2> HIDE DEF work
  <2>3. workers' = [workers EXCEPT ![w] = work] /\ UNCHANGED <<deliveries, sends>>
    BY <1>5 DEF LoadDue, work
  <2>4. Moves BY <2>2, <2>3, WorkerMoves
  <2> QED BY <1>1, <2>3, <2>4, RowsMove
<1>6. ASSUME NEW w \in Worker, NEW d \in Delivery
      PROVE  Rest(w, d) \in Work /\ Rest(w, d).step # "sent"
  BY RestIsWork DEF WebhookInv
<1>7. ASSUME NEW w \in Worker, NEW d \in Delivery, DisableDelivery(w, d) PROVE WebhookInv'
  <2>1. deliveries' = [deliveries EXCEPT ![d] = [deliveries[d] EXCEPT !.status = "DISABLED"]]
        /\ workers' = [workers EXCEPT ![w] = Rest(w, d)] /\ UNCHANGED sends
    BY <1>7 DEF DisableDelivery
  <2>2. Harmless BY <2>1 DEF WebhookInv, DeliveryRow
  <2>3. Rest(w, d).step # "sent" BY <1>6, <1>7 DEF DisableDelivery, Take
  <2>4. Moves BY <1>6, <2>1, <2>3, WorkerMoves
  <2> QED BY <2>1, <2>2, <2>4, RowsMove
<1>8. ASSUME NEW w \in Worker, NEW d \in Delivery, Claim(w, d) PROVE WebhookInv'
  <2>1. UNCHANGED sends BY <1>8 DEF Claim
  <2>2. CASE deliveries[d].status \in {"PENDING", "FAILED", "DELIVERING"}
    <3> DEFINE work == [step |-> "claimed", list |-> workers[w].list, active |-> TRUE, current |-> d]
    <3>1. workers[w].list \in SUBSET Delivery BY WorkKinds DEF WebhookInv
    <3>2. work \in Work /\ work.step # "sent" BY <3>1 DEF Work, Claiming
    <3> HIDE DEF work
    <3>3. workers' = [workers EXCEPT ![w] = work]
          /\ deliveries' = [deliveries EXCEPT ![d] =
                [[deliveries[d] EXCEPT !.status = "DELIVERING"] EXCEPT !.due = "later"]]
      BY <1>8, <2>2 DEF Claim, work
    <3>4. Harmless BY <3>3 DEF WebhookInv, DeliveryRow
    <3>5. Moves BY <3>2, <3>3, WorkerMoves
    <3> QED BY <2>1, <3>4, <3>5, RowsMove
  <2>3. CASE deliveries[d].status \notin {"PENDING", "FAILED", "DELIVERING"}
    <3>1. workers' = [workers EXCEPT ![w] = Rest(w, d)] /\ UNCHANGED deliveries
      BY <1>8, <2>3 DEF Claim
    <3>2. Rest(w, d).step # "sent" BY <1>6, <1>8 DEF Claim, Take
    <3>3. Moves BY <1>6, <3>1, <3>2, WorkerMoves
    <3> QED BY <1>1, <2>1, <3>1, <3>3, RowsMove
  <2> QED BY <2>2, <2>3
<1>9. ASSUME NEW w \in Worker, NEW d \in Delivery, TestWebhook(w, d) PROVE WebhookInv'
  <2> DEFINE work == [step |-> "next", list |-> {d}, active |-> TRUE]
  <2>1. work \in Work /\ work.step # "sent" BY ListingIsWork
  <2> HIDE DEF work
  <2>2. workers' = [workers EXCEPT ![w] = work]
        /\ deliveries' = [deliveries EXCEPT ![d] = NewDelivery] /\ UNCHANGED sends
    BY <1>9 DEF TestWebhook, work
  <2>3. Moves BY <2>1, <2>2, WorkerMoves
  <2> QED BY <1>3, <2>2, <2>3, RowsMove
<1>10. CASE UpdateWebhook
  <2>1. UNCHANGED <<deliveries, workers, sends>> BY <1>10 DEF UpdateWebhook
  <2> QED BY <1>1, <1>2, <2>1, RowsMove
<1>11. CASE WebhookCrash
  <2>1. UNCHANGED <<deliveries, sends>> /\ workers' = [w \in Worker |-> NoWork]
    BY <1>11 DEF WebhookCrash
  <2>2. Moves BY <2>1, ListingIsWork
  <2> QED BY <1>1, <2>1, <2>2, RowsMove
<1> QED BY <1>4, <1>5, <1>7, <1>8, <1>9, <1>10, <1>11

\* Nothing was sent and nothing is recorded at the start.
LEMMA WebhookInitInv == WebhookInit => WebhookInv
<1> SUFFICES ASSUME WebhookInit PROVE WebhookInv OBVIOUS
<1>1. NoDelivery \in DeliveryRow /\ NoDelivery.attempts = 0 /\ NoDelivery.due = "later"
  BY DEF NoDelivery, DeliveryRow
<1>2. deliveries \in [Delivery -> DeliveryRow] /\ sends \in [Delivery -> Nat]
  BY <1>1 DEF WebhookInit
<1>3. workers \in [Worker -> Work] /\ \A w \in Worker : workers[w].step # "sent"
  BY ListingIsWork DEF WebhookInit
<1>4. CountsOK BY <1>1, <1>3 DEF WebhookInit, CountsOK
<1>5. NotGivenUpEarly BY <1>1 DEF WebhookInit, NotGivenUpEarly
<1> QED BY <1>2, <1>3, <1>4, <1>5 DEF WebhookInv

\* The switch of the webhook is on or off.
LEMMA SwitchTyped ==
    ASSUME webhookActive \in BOOLEAN, [WebhookNext]_webhookVars
    PROVE  webhookActive' \in BOOLEAN
<1>1. webhookActive' = webhookActive \/ webhookActive' = ~webhookActive
  BY DEF WebhookNext, WorkerSteps, RecordIntegrationEvent, DeliveryDue, LoadDue, DisableDelivery,
         Claim, Send, Delivered, MarkFailure, TestWebhook, UpdateWebhook, WebhookCrash, webhookVars
<1>2. CASE webhookActive' = webhookActive BY <1>2
<1>3. CASE webhookActive' = ~webhookActive BY <1>3
<1> QED BY <1>1, <1>2, <1>3

\* Every step keeps the invariant.
LEMMA WebhookStepInv ==
    WebhookInv /\ webhookActive \in BOOLEAN /\ [WebhookNext]_webhookVars => WebhookInv'
<1> SUFFICES ASSUME WebhookInv, webhookActive \in BOOLEAN, [WebhookNext]_webhookVars
             PROVE  WebhookInv'
  OBVIOUS
<1>1. CASE UNCHANGED webhookVars
  BY <1>1 DEF webhookVars, WebhookInv, CountsOK, NotGivenUpEarly
<1>2. CASE WebhookNext
  BY <1>2, AttemptEnds, SendInv, RestInv DEF WebhookNext, WorkerSteps
<1> QED BY <1>1, <1>2

WebhookSafe == WebhookInv /\ webhookActive \in BOOLEAN

LEMMA WebhookSafeInit == WebhookInit => WebhookSafe
BY WebhookInitInv DEF WebhookInit, WebhookSafe

LEMMA WebhookSafeStep == WebhookSafe /\ [WebhookNext]_webhookVars => WebhookSafe'
BY WebhookStepInv, SwitchTyped DEF WebhookSafe

\* Rows have the statuses and workers the steps the code gives them.
LEMMA WebhookSafeTypes == WebhookSafe => WebhookTypeOK
<1> SUFFICES ASSUME WebhookSafe PROVE WebhookTypeOK OBVIOUS
<1>1. ASSUME NEW w \in Worker PROVE workers[w].step \in {"idle", "next", "claimed", "sent"}
  <2>1. workers[w] \in Work BY DEF WebhookSafe, WebhookInv
  <2>2. CASE workers[w] \in Listing BY <2>2 DEF Listing
  <2>3. CASE workers[w] \in Claiming BY <2>3 DEF Claiming
  <2>4. CASE workers[w] \in Sending BY <2>4 DEF Sending
  <2> QED BY <2>1, <2>2, <2>3, <2>4 DEF Work
<1>2. ASSUME NEW d \in Delivery
      PROVE  /\ deliveries[d].status
                  \in {"none", "PENDING", "DELIVERING", "DELIVERED", "FAILED", "DISABLED"}
             /\ deliveries[d].due \in {"now", "later", "never"}
  BY DEF WebhookSafe, WebhookInv, DeliveryRow
<1> QED BY <1>1, <1>2 DEF WebhookSafe, WebhookTypeOK

\* No delivery is given up before as many requests as MaxAttempts were sent for
\* it: NotGivenUpEarly, however many workers attempt it at the same time.
THEOREM WebhooksAreTriedEnough == WebhookSpec => []NotGivenUpEarly
<1>1. WebhookSafe => NotGivenUpEarly BY DEF WebhookSafe, WebhookInv
<1> QED BY <1>1, WebhookSafeInit, WebhookSafeStep, PTL DEF WebhookSpec

\* The deliveries and the workers keep to their types: WebhookTypeOK, however
\* many workers overlap.
THEOREM WebhooksTyped == WebhookSpec => []WebhookTypeOK
BY WebhookSafeInit, WebhookSafeStep, WebhookSafeTypes, PTL DEF WebhookSpec

-----------------------------------------------------------------------------
(* OperationalAlerts                                                       *)

AlertStatus == {"none", "OPEN", "ACKNOWLEDGED", "RESOLVED"}

AlertsTyped == alerts \in [AlertKey -> AlertStatus]

\* What one step may do to the alerts.
KeepsResolved == \A k \in AlertKey : alerts[k] = "RESOLVED" => alerts'[k] = "RESOLVED"

\* An event creates its alert only where there is none.
LEMMA UpsertKeepsResolved ==
    ASSUME AlertsTyped, NEW e, UpsertOperationalAlert(e)
    PROVE  AlertsTyped' /\ KeepsResolved
<1>1. CASE e.alert # NoKey /\ alerts[e.alert] = "none"
  <2>1. alerts' = [alerts EXCEPT ![e.alert] = "OPEN"] BY <1>1 DEF UpsertOperationalAlert
  <2> QED BY <1>1, <2>1 DEF AlertsTyped, AlertStatus, KeepsResolved
<1>2. CASE ~(e.alert # NoKey /\ alerts[e.alert] = "none")
  <2>1. alerts' = alerts BY <1>2 DEF UpsertOperationalAlert
  <2> QED BY <2>1 DEF AlertsTyped, KeepsResolved
<1> QED BY <1>1, <1>2

\* A recovery writes a row whatever it is by now, but only to resolve it.
LEMMA CloseKeepsResolved ==
    ASSUME AlertsTyped, NEW e, ResolveRelatedAlert(e)
    PROVE  AlertsTyped' /\ KeepsResolved
<1>1. PICK k \in e.related : alerts' = [alerts EXCEPT ![k] = "RESOLVED"] BY DEF ResolveRelatedAlert
<1> QED BY <1>1 DEF AlertsTyped, AlertStatus, KeepsResolved

\* A user's request writes a row that still is in a status it may leave.
LEMMA ClaimKeepsResolved ==
    ASSUME AlertsTyped, NEW u, NEW from, "RESOLVED" \notin from, NEW to \in AlertStatus,
           ClaimAlert(u, from, to)
    PROVE  AlertsTyped' /\ KeepsResolved
<1> DEFINE k == alertReads[u].key
<1>1. CASE alerts[k] \in from
  <2>1. alerts' = [alerts EXCEPT ![k] = to] BY <1>1 DEF ClaimAlert
  <2>2. alerts[k] # "RESOLVED" BY <1>1
  <2> HIDE DEF k
  <2> QED BY <2>1, <2>2 DEF AlertsTyped, KeepsResolved
<1>2. CASE alerts[k] \notin from
  <2>1. alerts' = alerts BY <1>2 DEF ClaimAlert
  <2> QED BY <2>1 DEF AlertsTyped, KeepsResolved
<1> QED BY <1>1, <1>2

\* Everything else leaves the alerts as they are.
LEMMA AlertStep ==
    ASSUME AlertsTyped, [AlertNext]_alertVars
    PROVE  AlertsTyped' /\ KeepsResolved
<1>1. ASSUME UNCHANGED alerts PROVE AlertsTyped' /\ KeepsResolved
    BY <1>1 DEF AlertsTyped, KeepsResolved
<1>2. CASE \E s \in Scan : ScanStep(s)
    BY <1>1, <1>2 DEF ScanStep, StartScan, ScanStaleTransaction, EndScan, ScanSource, ScanSystem
<1>3. CASE \E e \in emissions : EmissionStep(e) \/ EmitFails(e)
    BY <1>1, <1>3, UpsertKeepsResolved, CloseKeepsResolved
    DEF EmissionStep, MatchingOpenAlerts, EmitFails
<1>4. CASE EmitPendingApprovalRequired \/ EmitApprovalDecision \/ EmitTransactionCompleted
    BY <1>1, <1>4 DEF EmitPendingApprovalRequired, EmitApprovalDecision, EmitTransactionCompleted
<1>5. ASSUME NEW u \in AlertUser,
             LoadAlert(u) \/ AcknowledgeOperationalAlert(u) \/ ResolveOperationalAlert(u) \/ RefuseAlert(u)
      PROVE  AlertsTyped' /\ KeepsResolved
  <2>1. CASE LoadAlert(u) \/ RefuseAlert(u) BY <1>1, <2>1 DEF LoadAlert, RefuseAlert
  <2>2. CASE AcknowledgeOperationalAlert(u)
      BY <2>2, ClaimKeepsResolved DEF AcknowledgeOperationalAlert, AlertStatus
  <2>3. CASE ResolveOperationalAlert(u)
      BY <2>3, ClaimKeepsResolved DEF ResolveOperationalAlert, AlertStatus
  <2> QED BY <1>5, <2>1, <2>2, <2>3
<1>6. CASE \E src \in Source : ConditionChanges(src) BY <1>1, <1>6 DEF ConditionChanges
<1>7. CASE NextDay BY <1>1, <1>7 DEF NextDay
<1>8. CASE UNCHANGED alertVars BY <1>1, <1>8 DEF alertVars
<1> QED BY <1>2, <1>3, <1>4, <1>5, <1>6, <1>7, <1>8 DEF AlertNext

\* A resolved alert stays resolved, whichever scans, recoveries and users have
\* loaded it before.
THEOREM ResolvedStaysResolved == AlertSpec => ResolvedIsFinal
<1>1. AlertInit => AlertsTyped BY DEF AlertInit, AlertsTyped, AlertStatus
<1>2. AlertsTyped /\ [AlertNext]_alertVars => AlertsTyped' BY AlertStep
<1>3. AlertsTyped /\ [AlertNext]_alertVars =>
         [\A k \in AlertKey : (alerts[k] = "RESOLVED") => (alerts'[k] = "RESOLVED")]_alertVars
    BY AlertStep DEF KeepsResolved
<1> QED BY <1>1, <1>2, <1>3, PTL DEF AlertSpec, ResolvedIsFinal

EventRow == [by : Scan \cup {"background", "request", "decision", "completion"},
             step : {"upsert", "match", "close"}, alert : AlertKey \cup {NoKey},
             related : SUBSET AlertKey, next : AlertKey \cup {NoKey}]
ScanRow == [step : {"idle", "sources"}, left : SUBSET Source,
            seen : {"ONLINE", "STALE", "OFFLINE"}, stale : BOOLEAN]
ReadRow == [key : AlertKey \cup {NoKey}, seen : AlertStatus]

ConditionOK ==
    /\ condition \in [Source -> {"ONLINE", "STALE", "OFFLINE", "good", "bad"}]
    /\ \A src \in Source : condition[src] \in Bad(src) \cup {Good(src)}

\* What is under way names alerts there are, of sources there are.
AlertInv ==
    /\ ConditionOK
    /\ today \in Day
    /\ visit \in {"arrived", "PENDING", "APPROVED", "REJECTED", "COMPLETED"}
    /\ AlertsTyped
    /\ emissions \subseteq EventRow
    /\ scans \in [Scan -> ScanRow]
    /\ alertReads \in [AlertUser -> ReadRow]

\* The alerts of the visit, and those of a source for each way to be bad.
LEMMA KeysExist ==
    /\ VisitKeys \subseteq AlertKey
    /\ \A src \in Source : SourceKeys(src) \subseteq AlertKey
    /\ \A src \in Source : \A b \in Bad(src), d \in Day : <<src, b, d>> \in SourceKeys(src)
BY DEF AlertKey, SourceKeys

\* A call is followed by none or by one that only creates its alert.
LEMMA AfterEventTyped ==
    ASSUME NEW e \in EventRow
    PROVE  AfterEvent(e) \subseteq EventRow
<1>1. e.by \in Scan \cup {"background", "request", "decision", "completion"}
      /\ e.next \in AlertKey \cup {NoKey}
  BY DEF EventRow
<1> QED BY <1>1 DEF AfterEvent, Event, EventRow

\* A step of a call leaves it with keys it had.
LEMMA EmissionTyped ==
    ASSUME AlertInv, NEW e \in emissions, EmissionStep(e) \/ EmitFails(e)
    PROVE  AlertInv'
<1> USE DEF Replace
<1>1. e \in EventRow /\ AfterEvent(e) \subseteq EventRow BY AfterEventTyped DEF AlertInv
<1>2. UNCHANGED <<condition, today, visit, scans, alertReads>>
  BY DEF EmissionStep, UpsertOperationalAlert, MatchingOpenAlerts, ResolveRelatedAlert, EmitFails
<1>3. AlertsTyped'
  <2>1. CASE UNCHANGED alerts BY <2>1 DEF AlertInv, AlertsTyped
  <2>2. CASE ~UNCHANGED alerts
    <3>1. UpsertOperationalAlert(e) \/ ResolveRelatedAlert(e)
      BY <2>2 DEF EmissionStep, MatchingOpenAlerts, EmitFails
    <3> QED BY <3>1, UpsertKeepsResolved, CloseKeepsResolved DEF AlertInv
  <2> QED BY <2>1, <2>2
<1>4. ASSUME NEW step \in {"match", "close"}, NEW related \in SUBSET e.related
      PROVE  [[e EXCEPT !.step = step] EXCEPT !.related = related] \in EventRow
  BY <1>1 DEF EventRow
<1>5. emissions' \subseteq EventRow
  <2>1. CASE UpsertOperationalAlert(e)
    <3>1. [e EXCEPT !.step = "match"] \in EventRow BY <1>1 DEF EventRow
    <3> QED BY <1>1, <2>1, <3>1 DEF UpsertOperationalAlert, AlertInv
  <2>2. CASE MatchingOpenAlerts(e)
    <3> DEFINE found == {k \in e.related : Unresolved(k)}
    <3>1. [e EXCEPT !.step = "close", !.related = found] \in EventRow
      BY <1>1 DEF EventRow
    <3> HIDE DEF found
    <3>2. emissions' = (emissions \ {e}) \cup (IF found = {} THEN AfterEvent(e)
                             ELSE {[e EXCEPT !.step = "close", !.related = found]})
      BY <2>2 DEF MatchingOpenAlerts, found
    <3> QED BY <1>1, <3>1, <3>2 DEF AlertInv
  <2>3. CASE ResolveRelatedAlert(e)
    <3>1. PICK k \in e.related :
             Replace(e, IF e.related = {k} THEN AfterEvent(e)
                        ELSE {[e EXCEPT !.related = @ \ {k}]})
      BY <2>3 DEF ResolveRelatedAlert
    <3>2. [e EXCEPT !.related = @ \ {k}] \in EventRow BY <1>1 DEF EventRow
    <3> QED BY <1>1, <3>1, <3>2 DEF AlertInv
  <2>4. CASE EmitFails(e) BY <1>1, <2>4 DEF EmitFails, AlertInv
  <2> QED BY <2>1, <2>2, <2>3, <2>4 DEF EmissionStep
<1> QED BY <1>2, <1>3, <1>5 DEF AlertInv, ConditionOK

\* What a scan emits it emits for a source it has.
LEMMA ScanTyped ==
    ASSUME AlertInv, NEW s \in Scan, ScanStep(s)
    PROVE  AlertInv'
<1>1. UNCHANGED <<condition, today, visit, alerts, alertReads>>
  BY DEF ScanStep, StartScan, ScanStaleTransaction, EndScan, ScanSource, ScanSystem
<1>2. scans[s] \in ScanRow /\ scans \in [Scan -> ScanRow] BY DEF AlertInv
<1>3. ASSUME NEW k \in AlertKey \cup {NoKey}, NEW related \in SUBSET AlertKey,
             NEW by \in Scan \cup {"background"}
      PROVE  Event(by, k, related, NoKey) \in EventRow
  BY DEF Event, EventRow
<1>4. CASE StartScan(s)
  <2> DEFINE seen == IF "gateway" \in Source THEN condition["gateway"] ELSE "ONLINE"
  <2>1. seen \in {"ONLINE", "STALE", "OFFLINE"} BY DEF AlertInv, ConditionOK, Good, Bad
  <2> HIDE DEF seen
  <2>2. PICK stale \in BOOLEAN :
           scans' = [scans EXCEPT ![s] =
              [step |-> "sources", left |-> Source, stale |-> stale, seen |-> seen]]
    BY <1>4 DEF StartScan, seen
  <2>3. scans' \in [Scan -> ScanRow] BY <1>2, <2>1, <2>2 DEF ScanRow
  <2>4. UNCHANGED emissions BY <1>4 DEF StartScan
  <2> QED BY <1>1, <2>3, <2>4 DEF AlertInv, ConditionOK, AlertsTyped
<1>5. CASE ScanStaleTransaction(s)
  <2>1. scans' = [scans EXCEPT ![s] = [scans[s] EXCEPT !.stale = FALSE]]
        /\ emissions' = emissions \cup {Event(s, <<"stale", 0>>, {}, NoKey)}
    BY <1>5 DEF ScanStaleTransaction
  <2>2. scans' \in [Scan -> ScanRow] BY <1>2, <2>1 DEF ScanRow
  <2>3. Event(s, <<"stale", 0>>, {}, NoKey) \in EventRow BY <1>3, KeysExist DEF VisitKeys
  <2> QED BY <1>1, <2>1, <2>2, <2>3 DEF AlertInv, ConditionOK, AlertsTyped
<1>6. ASSUME NEW src \in Source, ScanSource(s, src) PROVE AlertInv'
  <2> DEFINE now == IF src = "gateway" THEN scans[s].seen ELSE condition[src]
             by  == IF now = "OFFLINE" THEN "background" ELSE s
  <2>1. scans' = [scans EXCEPT ![s] = [scans[s] EXCEPT !.left = scans[s].left \ {src}]]
    BY <1>6 DEF ScanSource
  <2>2. scans' \in [Scan -> ScanRow] BY <1>2, <2>1 DEF ScanRow
  <2>3. \/ now \in Bad(src) /\ emissions' = emissions \cup {Event(by, <<src, now, today>>, {}, NoKey)}
        \/ emissions' = emissions \cup {Event(by, NoKey, Recovered(src), NoKey)}
        \/ emissions' = emissions
    BY <1>6 DEF ScanSource
  <2>4. by \in Scan \cup {"background"} OBVIOUS
  <2>5. now \in Bad(src) => <<src, now, today>> \in AlertKey BY KeysExist DEF AlertInv
  <2>6. Recovered(src) \in SUBSET AlertKey BY KeysExist DEF Recovered
  <2> HIDE DEF now, by
  <2>7. emissions' \subseteq EventRow
    <3>1. now \in Bad(src) => Event(by, <<src, now, today>>, {}, NoKey) \in EventRow
      BY <1>3, <2>4, <2>5
    <3>2. Event(by, NoKey, Recovered(src), NoKey) \in EventRow BY <1>3, <2>4, <2>6
    <3> QED BY <2>3, <3>1, <3>2 DEF AlertInv
  <2> QED BY <1>1, <2>2, <2>7 DEF AlertInv, ConditionOK, AlertsTyped
<1>7. CASE ScanSystem(s)
  <2>1. "system" \in Source BY <1>2, <1>7 DEF ScanSystem, ScanRow
  <2>2. scans' = [scans EXCEPT ![s] = [scans[s] EXCEPT !.left = scans[s].left \ {"system"}]]
    BY <1>7 DEF ScanSystem
  <2>3. scans' \in [Scan -> ScanRow] BY <1>2, <2>2 DEF ScanRow
  <2>4. SourceKeys("system") \subseteq AlertKey /\ <<"system", "bad", today>> \in AlertKey
    BY <2>1, KeysExist DEF Bad, AlertInv
  <2>5. CASE condition["system"] = "bad"
    <3>1. emissions' = emissions \cup {Event(s, <<"system", "bad", today>>, {}, NoKey)}
      BY <1>7, <2>5 DEF ScanSystem
    <3>2. Event(s, <<"system", "bad", today>>, {}, NoKey) \in EventRow BY <1>3, <2>4
    <3>3. emissions' \subseteq EventRow BY <3>1, <3>2 DEF AlertInv
    <3> QED BY <1>1, <2>3, <3>3 DEF AlertInv, ConditionOK, AlertsTyped
  <2>6. CASE condition["system"] # "bad"
    <3>1. \/ UNCHANGED emissions
          \/ \E k \in SourceKeys("system") : emissions' =
                emissions \cup {[Event(s, NoKey, {k}, NoKey) EXCEPT !.step = "close"]}
      BY <1>7, <2>6 DEF ScanSystem
    <3>2. ASSUME NEW k \in SourceKeys("system")
          PROVE  [Event(s, NoKey, {k}, NoKey) EXCEPT !.step = "close"] \in EventRow
      <4>1. Event(s, NoKey, {k}, NoKey) \in EventRow BY <1>3, <2>4
      <4> QED BY <4>1 DEF EventRow
    <3>3. emissions' \subseteq EventRow BY <3>1, <3>2 DEF AlertInv
    <3> QED BY <1>1, <2>3, <3>3 DEF AlertInv, ConditionOK, AlertsTyped
  <2> QED BY <2>5, <2>6
<1>8. CASE EndScan(s)
  <2>1. scans' = [scans EXCEPT ![s] = IdleScan] /\ UNCHANGED emissions BY <1>8 DEF EndScan
  <2>2. scans' \in [Scan -> ScanRow] BY <1>2, <2>1 DEF ScanRow, IdleScan
  <2> QED BY <1>1, <2>1, <2>2 DEF AlertInv, ConditionOK, AlertsTyped
<1> QED BY <1>4, <1>5, <1>6, <1>7, <1>8 DEF ScanStep

\* The visit's requests emit events of the visit.
LEMMA VisitTyped ==
    ASSUME AlertInv, EmitPendingApprovalRequired \/ EmitApprovalDecision \/ EmitTransactionCompleted
    PROVE  AlertInv'
<1>1. UNCHANGED <<condition, today, alerts, scans, alertReads>>
  BY DEF EmitPendingApprovalRequired, EmitApprovalDecision, EmitTransactionCompleted
<1>2. visit' \in {"PENDING", "APPROVED", "REJECTED", "COMPLETED"}
  BY DEF EmitPendingApprovalRequired, EmitApprovalDecision, EmitTransactionCompleted
<1>3. {<<"approval", 0>>, <<"exception", 0>>, <<"stale", 0>>} \subseteq AlertKey
  BY DEF AlertKey, VisitKeys
<1>4. PICK e \in EventRow : emissions' = emissions \cup {e}
  <2>1. CASE EmitPendingApprovalRequired
    <3>1. Event("request", <<"approval", 0>>, {}, NoKey) \in EventRow BY <1>3 DEF Event, EventRow
    <3> QED BY <2>1, <3>1 DEF EmitPendingApprovalRequired
  <2>2. CASE EmitApprovalDecision
    <3> DEFINE next == IF visit' = "REJECTED" THEN <<"exception", 0>> ELSE NoKey
    <3>1. next \in AlertKey \cup {NoKey} BY <1>3
    <3> HIDE DEF next
    <3>2. Event("decision", NoKey, {<<"approval", 0>>}, next) \in EventRow
      BY <1>3, <3>1 DEF Event, EventRow
    <3> QED BY <2>2, <3>2 DEF EmitApprovalDecision, next
  <2>3. CASE EmitTransactionCompleted
    <3>1. Event("completion", NoKey, {<<"stale", 0>>}, NoKey) \in EventRow
      BY <1>3 DEF Event, EventRow
    <3> QED BY <2>3, <3>1 DEF EmitTransactionCompleted
  <2> QED BY <2>1, <2>2, <2>3
<1>5. emissions' \subseteq EventRow BY <1>4 DEF AlertInv
<1> QED BY <1>1, <1>2, <1>5 DEF AlertInv, ConditionOK, AlertsTyped

\* A user's request reads an alert there is.
LEMMA AlertUserTyped ==
    ASSUME AlertInv, NEW u \in AlertUser,
           LoadAlert(u) \/ AcknowledgeOperationalAlert(u) \/ ResolveOperationalAlert(u) \/ RefuseAlert(u)
    PROVE  AlertInv'
<1>1. UNCHANGED <<condition, today, visit, scans, emissions>>
  BY DEF LoadAlert, AcknowledgeOperationalAlert, ResolveOperationalAlert, ClaimAlert, RefuseAlert
<1>2. AlertsTyped'
  <2>1. CASE LoadAlert(u) \/ RefuseAlert(u)
    BY <2>1 DEF LoadAlert, RefuseAlert, AlertInv, AlertsTyped
  <2>2. CASE AcknowledgeOperationalAlert(u)
    BY <2>2, ClaimKeepsResolved DEF AcknowledgeOperationalAlert, AlertStatus, AlertInv
  <2>3. CASE ResolveOperationalAlert(u)
    BY <2>3, ClaimKeepsResolved DEF ResolveOperationalAlert, AlertStatus, AlertInv
  <2> QED BY <2>1, <2>2, <2>3
<1>3. alertReads' \in [AlertUser -> ReadRow]
  <2>1. NoRead \in ReadRow BY DEF NoRead, ReadRow, AlertStatus
  <2>2. CASE LoadAlert(u)
    <3>1. PICK k \in AlertKey : alertReads' = [alertReads EXCEPT ![u] = [key |-> k, seen |-> alerts[k]]]
      BY <2>2 DEF LoadAlert
    <3>2. [key |-> k, seen |-> alerts[k]] \in ReadRow BY DEF ReadRow, AlertInv, AlertsTyped
    <3> QED BY <3>1, <3>2 DEF AlertInv
  <2>3. CASE ~LoadAlert(u)
    <3>1. alertReads' = [alertReads EXCEPT ![u] = NoRead]
      BY <2>3 DEF AcknowledgeOperationalAlert, ResolveOperationalAlert, ClaimAlert, RefuseAlert
    <3> QED BY <2>1, <3>1 DEF AlertInv
  <2> QED BY <2>2, <2>3
<1> QED BY <1>1, <1>2, <1>3 DEF AlertInv, ConditionOK

LEMMA AlertInvStep == AlertInv /\ [AlertNext]_alertVars => AlertInv'
<1> SUFFICES ASSUME AlertInv, [AlertNext]_alertVars PROVE AlertInv' OBVIOUS
<1>1. ASSUME NEW src \in Source, ConditionChanges(src) PROVE AlertInv'
  <2>1. PICK c \in Bad(src) \cup {Good(src)} : condition' = [condition EXCEPT ![src] = c]
    BY <1>1 DEF ConditionChanges
  <2>2. Bad(src) \cup {Good(src)} \subseteq {"ONLINE", "STALE", "OFFLINE", "good", "bad"}
    BY DEF Bad, Good
  <2>3. ConditionOK' BY <2>1, <2>2 DEF AlertInv, ConditionOK
  <2>4. UNCHANGED <<today, visit, alerts, scans, emissions, alertReads>> BY <1>1 DEF ConditionChanges
  <2> QED BY <2>3, <2>4 DEF AlertInv, AlertsTyped
<1>2. CASE NextDay
  <2>1. today' \in Day
    BY <1>2, AlertAssumption DEF NextDay, AlertInv, Day
  <2> QED BY <1>2, <2>1 DEF NextDay, AlertInv, ConditionOK, AlertsTyped
<1>3. CASE UNCHANGED alertVars
  BY <1>3 DEF alertVars, AlertInv, ConditionOK, AlertsTyped
<1> QED BY <1>1, <1>2, <1>3, EmissionTyped, ScanTyped, VisitTyped, AlertUserTyped DEF AlertNext

LEMMA AlertInvInit == AlertInit => AlertInv
<1> SUFFICES ASSUME AlertInit PROVE AlertInv OBVIOUS
<1>1. ConditionOK BY DEF AlertInit, ConditionOK, Good, Bad
<1>2. AlertsTyped BY DEF AlertInit, AlertsTyped, AlertStatus
<1>3. scans \in [Scan -> ScanRow] /\ alertReads \in [AlertUser -> ReadRow]
  BY DEF AlertInit, ScanRow, ReadRow, IdleScan, NoRead, AlertStatus
<1> QED BY <1>1, <1>2, <1>3, AlertAssumption DEF AlertInit, AlertInv, Day

LEMMA AlertInvTypes == AlertInv => AlertTypeOK
BY DEF AlertInv, AlertTypeOK, ConditionOK, AlertsTyped, AlertStatus, EventRow, ReadRow

\* Every call under way and every request names alerts there are: AlertTypeOK,
\* for every number of scans, of users, of days and of sources.
THEOREM AlertsAreTyped == AlertSpec => []AlertTypeOK
BY AlertInvInit, AlertInvStep, AlertInvTypes, PTL DEF AlertSpec

-----------------------------------------------------------------------------
(* Connectivity                                                            *)

\* While a gateway counts as online, the manager has counted no more failures
\* than requests have failed in a row; heartbeats that are not sent only count
\* once it is not online, and being paused is being offline.
ManagerInv ==
    /\ failures \in 0..FailThreshold /\ failedRequests \in 0..FailThreshold
    /\ conn \in Up => failures <= failedRequests
    /\ paused => conn \in {"OFFLINE", "ERROR"} /\ failures = FailThreshold

\* What one step may do to the state of the connection.
Earned == (conn \in Up /\ conn' = "OFFLINE" /\ ~paused') => failedRequests' = FailThreshold
-----------------------------------------------------------------------------
\* Every reachable backend counts from zero again, nothing turns a failure
\* into being online, and going offline takes all the failures.
LEMMA ObserveOK ==
    ASSUME ManagerInv, NEW seen \in BOOLEAN, NEW authFailed \in BOOLEAN, NEW syncing \in BOOLEAN,
           NEW pending, Observe(seen, authFailed, syncing, pending)
    PROVE  /\ failures' \in 0..FailThreshold
           /\ \/ failures' = 0 /\ conn' # "OFFLINE" /\ ~paused /\ seen
              \/ /\ failures' = LeastOf(failures + 1, FailThreshold)
                 /\ conn' \in Up => conn \in Up
                 /\ conn \in Up /\ conn' = "OFFLINE" => failures' = FailThreshold
                 /\ paused => conn' \in {"OFFLINE", "ERROR"}
<1> DEFINE up == seen /\ ~paused /\ ~authFailed
<1>1. failures \in Nat /\ FailThreshold \in Nat \ {0}
  BY ConnectivityAssumption DEF ManagerInv
<1>2. LeastOf(failures + 1, FailThreshold) \in 0..FailThreshold BY <1>1 DEF LeastOf
<1>3. CASE up
  <2>1. failures' = 0 BY <1>3 DEF Observe
  <2>2. conn' # "OFFLINE" BY <1>3 DEF Observe
  <2> QED BY <1>1, <1>3, <2>1, <2>2
<1>4. CASE ~up
  <2>1. failures' = LeastOf(failures + 1, FailThreshold) BY <1>4 DEF Observe
  <2>2. conn' = IF authFailed THEN "ERROR"
                ELSE IF failures' = FailThreshold \/ conn = "OFFLINE" THEN "OFFLINE"
                ELSE IF conn = "ONLINE" THEN "DEGRADED" ELSE conn
    BY <1>4 DEF Observe
  <2>3. conn' \in Up => conn \in Up BY <2>2 DEF Up
  <2>4. conn \in Up /\ conn' = "OFFLINE" => failures' = FailThreshold BY <2>2 DEF Up
  <2>5. paused => conn' \in {"OFFLINE", "ERROR"}
    <3>1. paused => failures' = FailThreshold BY <1>1, <2>1 DEF ManagerInv, LeastOf
    <3> QED BY <2>2, <3>1
  <2> QED BY <1>2, <2>1, <2>3, <2>4, <2>5
<1> QED BY <1>3, <1>4

\* A step that reports what it saw, and counts it if it was the answer to a
\* request or the lack of one.
LEMMA ReportInv ==
    ASSUME ManagerInv, UNCHANGED paused, NEW seen \in BOOLEAN, NEW authFailed \in BOOLEAN,
           NEW syncing \in BOOLEAN, NEW pending, Observe(seen, authFailed, syncing, pending),
           \/ Answered /\ seen
           \/ Failed
           \/ UNCHANGED failedRequests /\ seen
           \/ UNCHANGED failedRequests /\ ~IsBackendOnline,
           seen => ~authFailed
    PROVE  ManagerInv' /\ Earned
<1>1. failures \in Nat /\ failedRequests \in Nat /\ FailThreshold \in Nat \ {0}
  BY ConnectivityAssumption DEF ManagerInv
<1>2. failedRequests' \in 0..FailThreshold BY <1>1 DEF Answered, Failed, LeastOf, ManagerInv
<1>3. CASE failures' = 0 /\ conn' # "OFFLINE" /\ ~paused /\ seen
  BY <1>1, <1>2, <1>3 DEF ManagerInv, Earned
<1>4. CASE ~(failures' = 0 /\ conn' # "OFFLINE" /\ ~paused /\ seen)
  <2>1. /\ failures' = LeastOf(failures + 1, FailThreshold) /\ failures' \in 0..FailThreshold
        /\ conn' \in Up => conn \in Up
        /\ conn \in Up /\ conn' = "OFFLINE" => failures' = FailThreshold
        /\ paused => conn' \in {"OFFLINE", "ERROR"}
    BY <1>4, ObserveOK
  <2>2. conn \in Up => Failed
    <3>1. conn \in Up => ~paused BY DEF ManagerInv, Up
    <3>2. seen /\ ~paused => failures' = 0 /\ conn' # "OFFLINE"
      BY DEF Observe
    <3>3. conn \in Up /\ ~paused => IsBackendOnline BY DEF Up, IsBackendOnline
    <3> QED BY <1>4, <3>1, <3>2, <3>3
  <2>3. conn \in Up => failures' <= failedRequests'
    BY <1>1, <2>1, <2>2 DEF Failed, LeastOf, ManagerInv
  <2>4. paused => failures' = FailThreshold BY <1>1, <2>1 DEF ManagerInv, LeastOf
  <2>5. Earned BY <1>1, <1>2, <2>1, <2>3 DEF Earned
  <2> QED BY <1>2, <2>1, <2>3, <2>4, <2>5 DEF ManagerInv
<1> QED BY <1>3, <1>4

\* A step that leaves the manager, the switch and the count alone.
LEMMA AsideInv ==
    ASSUME ManagerInv, UNCHANGED <<conn, failures, paused, failedRequests>>
    PROVE  ManagerInv' /\ Earned
BY DEF ManagerInv, Earned, Up

\* Every step keeps the invariant and goes offline only for its failures.
LEMMA ManagerStepInv ==
    ASSUME ManagerInv, [ConnectivityNext]_connectivityVars
    PROVE  ManagerInv' /\ Earned
<1>1. CASE TickBegins \/ DocumentAnswered \/ DocumentFails \/ Capture \/ RetryDue \/ NetworkChanges
  BY <1>1, AsideInv DEF TickBegins, DocumentAnswered, DocumentFails, Capture, RetryDue,
                        NetworkChanges, manager
<1>2. CASE Select
  <2>1. CASE due /\ unsent > 0
    <3>1. Observe(TRUE, FALSE, TRUE, unsent) /\ UNCHANGED <<paused, failedRequests>>
      BY <1>2, <2>1 DEF Select
    <3> QED BY <3>1, ReportInv
  <2>2. CASE ~(due /\ unsent > 0) BY <1>2, <2>2, AsideInv DEF Select, manager
  <2> QED BY <2>1, <2>2
<1>3. CASE HealthAnswered
  <2>1. \/ Failed /\ Observe(FALSE, FALSE, FALSE, 1)
        \/ Answered /\ Observe(TRUE, FALSE, FALSE, 0)
    BY <1>3 DEF HealthAnswered
  <2>2. UNCHANGED paused BY <1>3 DEF HealthAnswered
  <2> QED BY <2>1, <2>2, ReportInv
<1>4. CASE BatchAnswered
  <2>1. Answered /\ Observe(TRUE, FALSE, FALSE, unsent') /\ UNCHANGED paused
    BY <1>4 DEF BatchAnswered
  <2> QED BY <2>1, ReportInv
<1>5. CASE BatchFails
  <2>1. Failed /\ Observe(FALSE, network = "auth", FALSE, 1) /\ UNCHANGED paused
    BY <1>5 DEF BatchFails
  <2>2. (network = "auth") \in BOOLEAN OBVIOUS
  <2> QED BY <2>1, <2>2, ReportInv
<1>6. CASE BeatBegins
  <2>1. CASE IsBackendOnline BY <1>6, <2>1, AsideInv DEF BeatBegins, manager
  <2>2. CASE ~IsBackendOnline
    <3>1. Observe(FALSE, FALSE, FALSE, 1) /\ UNCHANGED <<paused, failedRequests>>
      BY <1>6, <2>2 DEF BeatBegins
    <3> QED BY <2>2, <3>1, ReportInv
  <2> QED BY <2>1, <2>2
<1>7. CASE BeatAnswered
  <2>1. \/ Answered /\ Observe(TRUE, FALSE, FALSE, unsent)
        \/ Failed /\ Observe(FALSE, TRUE, FALSE, 1)
        \/ Failed /\ Observe(FALSE, FALSE, FALSE, 1)
    BY <1>7 DEF BeatAnswered
  <2>2. UNCHANGED paused BY <1>7 DEF BeatAnswered
  <2> QED BY <2>1, <2>2, ReportInv
<1>8. CASE SetPaused
  <2>1. FailThreshold \in 0..FailThreshold BY ConnectivityAssumption
  <2>2. CASE paused'
    <3>1. conn' = "OFFLINE" /\ failures' = FailThreshold /\ UNCHANGED failedRequests
      BY <1>8, <2>2 DEF SetPaused
    <3> QED BY <2>1, <2>2, <3>1 DEF ManagerInv, Earned, Up
  <2>3. CASE ~paused'
    <3>1. UNCHANGED <<conn, failures, failedRequests>> BY <1>8, <2>3 DEF SetPaused, manager
    <3> QED BY <2>3, <3>1 DEF ManagerInv, Earned, Up
  <2> QED BY <2>2, <2>3
<1>9. CASE UNCHANGED connectivityVars
  BY <1>9, AsideInv DEF connectivityVars, manager
<1> QED BY <1>1, <1>2, <1>3, <1>4, <1>5, <1>6, <1>7, <1>8, <1>9 DEF ConnectivityNext

\* A gateway that is online goes offline only after as many failures in a row
\* as the threshold: OfflineIsEarned for every threshold, however ticks and
\* heartbeats interleave.
THEOREM GoingOfflineIsEarned == ConnectivitySpec => OfflineIsEarned
<1>1. ConnectivityInit => ManagerInv
  BY ConnectivityAssumption DEF ConnectivityInit, ManagerInv
<1>2. ManagerInv /\ [ConnectivityNext]_connectivityVars => ManagerInv' BY ManagerStepInv
<1>3. ManagerInv /\ [ConnectivityNext]_connectivityVars
         => [(conn \in Up /\ conn' = "OFFLINE" /\ ~paused')
               => failedRequests' = FailThreshold]_connectivityVars
  BY ManagerStepInv DEF Earned
<1> QED BY <1>1, <1>2, <1>3, PTL DEF ConnectivitySpec, OfflineIsEarned

\* No more is left to send than was captured.
ConnectivityInv == ConnectivityTypeOK /\ captures \in 0..MaxCaptures /\ unsent <= captures

\* Whatever is observed, the manager is in one of its states and its counts stop
\* at their thresholds.
LEMMA ObserveTyped ==
    ASSUME ConnectivityTypeOK, NEW seen \in BOOLEAN, NEW authFailed \in BOOLEAN, NEW syncing \in BOOLEAN,
           NEW pending, Observe(seen, authFailed, syncing, pending)
    PROVE  /\ conn' \in {"ONLINE", "DEGRADED", "OFFLINE", "RECOVERING", "SYNCING", "ERROR"}
           /\ failures' \in 0..FailThreshold /\ successes' \in 0..RecoverThreshold
<1> DEFINE up == seen /\ ~paused /\ ~authFailed
<1>1. failures' \in 0..FailThreshold /\ successes' \in 0..RecoverThreshold
  <2>1. failures \in Nat /\ successes \in Nat /\ FailThreshold \in Nat \ {0} /\ RecoverThreshold \in Nat \ {0}
    BY ConnectivityAssumption DEF ConnectivityTypeOK
  <2>2. /\ failures' = IF up THEN 0 ELSE LeastOf(failures + 1, FailThreshold)
        /\ successes' = IF up THEN LeastOf(successes + 1, RecoverThreshold) ELSE 0
    BY DEF Observe
  <2> HIDE DEF up
  <2> QED BY <2>1, <2>2 DEF LeastOf
<1>2. CASE authFailed BY <1>1, <1>2 DEF Observe
<1>3. CASE up /\ syncing BY <1>1, <1>3 DEF Observe
<1>4. CASE up /\ ~syncing BY <1>1, <1>4 DEF Observe
<1>5. CASE ~up /\ ~authFailed
  <2>1. conn' = IF failures' = FailThreshold \/ conn = "OFFLINE" THEN "OFFLINE"
                ELSE IF conn = "ONLINE" THEN "DEGRADED" ELSE conn
    BY <1>5 DEF Observe
  <2> QED BY <1>1, <2>1 DEF ConnectivityTypeOK
<1> QED BY <1>2, <1>3, <1>4, <1>5

\* A step that reports what it saw and leaves the events as they are.
LEMMA ReportTyped ==
    ASSUME ConnectivityInv, NEW seen \in BOOLEAN, NEW authFailed \in BOOLEAN, NEW syncing \in BOOLEAN,
           NEW pending, Observe(seen, authFailed, syncing, pending),
           tick' \in {"idle", "files", "select", "health", "batch"}, beat' \in {"idle", "asked"},
           unsent' \in {0, unsent}, attempts' \in 0..(MaxRetries - 1), UNCHANGED captures
    PROVE  ConnectivityInv'
<1>1. unsent' \in 0..MaxCaptures /\ unsent' <= captures
  BY ConnectivityAssumption DEF ConnectivityInv, ConnectivityTypeOK
<1> QED BY <1>1, ObserveTyped DEF ConnectivityInv, ConnectivityTypeOK

\* A step that leaves the manager alone and captures nothing.
LEMMA AsideTyped ==
    ASSUME ConnectivityInv, UNCHANGED <<manager, unsent, attempts, captures>>,
           tick' \in {"idle", "files", "select", "health", "batch"}, beat' \in {"idle", "asked"}
    PROVE  ConnectivityInv'
BY DEF ConnectivityInv, ConnectivityTypeOK, manager

LEMMA ConnectivityStepTyped == ConnectivityInv /\ [ConnectivityNext]_connectivityVars => ConnectivityInv'
<1> SUFFICES ASSUME ConnectivityInv, [ConnectivityNext]_connectivityVars PROVE ConnectivityInv'
  OBVIOUS
<1>t. tick \in {"idle", "files", "select", "health", "batch"} /\ beat \in {"idle", "asked"}
      /\ attempts \in 0..(MaxRetries - 1) /\ MaxRetries \in Nat \ {0}
  BY ConnectivityAssumption DEF ConnectivityInv, ConnectivityTypeOK
<1>1. CASE TickBegins \/ DocumentAnswered \/ DocumentFails \/ RetryDue \/ NetworkChanges
  <2>1. UNCHANGED <<manager, unsent, attempts, captures, beat>>
    BY <1>1 DEF TickBegins, DocumentAnswered, DocumentFails, RetryDue, NetworkChanges, toSend, bounds
  <2>2. tick' \in {"files", "select", tick}
    BY <1>1 DEF TickBegins, DocumentAnswered, DocumentFails, RetryDue, NetworkChanges
  <2> QED BY <1>t, <2>1, <2>2, AsideTyped
<1>2. CASE Select
  <2>1. UNCHANGED <<unsent, attempts, captures, beat>> /\ tick' \in {"batch", "health"}
    BY <1>2 DEF Select, toSend, bounds
  <2>2. Observe(TRUE, FALSE, TRUE, unsent) \/ UNCHANGED manager BY <1>2 DEF Select
  <2> QED BY <1>t, <2>1, <2>2, AsideTyped, ReportTyped
<1>3. CASE HealthAnswered
  <2>1. UNCHANGED <<unsent, attempts, captures, beat>> /\ tick' = "idle"
    BY <1>3 DEF HealthAnswered, TickEnds, toSend, bounds
  <2>2. Observe(FALSE, FALSE, FALSE, 1) \/ Observe(TRUE, FALSE, FALSE, 0) BY <1>3 DEF HealthAnswered
  <2> QED BY <1>t, <2>1, <2>2, ReportTyped
<1>4. CASE BatchAnswered
  <2>1. /\ unsent' = 0 /\ attempts' = 0 /\ UNCHANGED <<captures, beat>> /\ tick' = "idle"
        /\ Observe(TRUE, FALSE, FALSE, unsent')
    BY <1>4 DEF BatchAnswered, TickEnds, bounds
  <2>2. attempts' \in 0..(MaxRetries - 1) /\ unsent' \in {0, unsent} BY <1>t, <2>1
  <2> QED BY <1>t, <2>1, <2>2, ReportTyped
<1>5. CASE BatchFails
  <2>1. /\ UNCHANGED <<captures, beat>> /\ tick' = "idle"
        /\ Observe(FALSE, network = "auth", FALSE, 1)
    BY <1>5 DEF BatchFails, TickEnds, bounds
  <2>2. unsent' \in {0, unsent} /\ attempts' \in 0..(MaxRetries - 1) BY <1>5, <1>t DEF BatchFails
  <2>3. (network = "auth") \in BOOLEAN OBVIOUS
  <2> QED BY <1>t, <2>1, <2>2, <2>3, ReportTyped
<1>6. CASE BeatBegins
  <2>1. UNCHANGED <<unsent, attempts, captures, tick>> /\ beat' \in {"asked", "idle"}
    BY <1>6 DEF BeatBegins, toSend, bounds
  <2>2. Observe(FALSE, FALSE, FALSE, 1) \/ UNCHANGED manager BY <1>6 DEF BeatBegins
  <2> QED BY <1>t, <2>1, <2>2, AsideTyped, ReportTyped
<1>7. CASE BeatAnswered
  <2>1. UNCHANGED <<unsent, attempts, captures, tick>> /\ beat' = "idle"
    BY <1>7 DEF BeatAnswered, toSend, bounds
  <2>2. \/ Observe(TRUE, FALSE, FALSE, unsent) \/ Observe(FALSE, TRUE, FALSE, 1)
        \/ Observe(FALSE, FALSE, FALSE, 1)
    BY <1>7 DEF BeatAnswered
  <2> QED BY <1>t, <2>1, <2>2, ReportTyped
<1>8. CASE Capture
  <2>1. captures' = captures + 1 /\ captures < MaxCaptures /\ unsent' \in {unsent, unsent + 1}
    BY <1>8 DEF Capture
  <2>2. UNCHANGED <<conn, failures, successes, tick, beat, attempts>> BY <1>8 DEF Capture, manager
  <2> QED BY <2>1, <2>2, ConnectivityAssumption DEF ConnectivityInv, ConnectivityTypeOK
<1>9. CASE SetPaused
  <2>1. UNCHANGED <<successes, tick, beat, unsent, attempts, captures>>
    BY <1>9 DEF SetPaused, manager, toSend
  <2>2. conn' \in {conn, "OFFLINE"} /\ failures' \in {failures, FailThreshold}
    BY <1>9 DEF SetPaused, manager
  <2> QED BY <2>1, <2>2, ConnectivityAssumption DEF ConnectivityInv, ConnectivityTypeOK
<1>10. CASE UNCHANGED connectivityVars
  BY <1>t, <1>10, AsideTyped DEF connectivityVars, toSend, bounds
<1> QED BY <1>1, <1>2, <1>3, <1>4, <1>5, <1>6, <1>7, <1>8, <1>9, <1>10 DEF ConnectivityNext

LEMMA ConnectivityInitTyped == ConnectivityInit => ConnectivityInv
BY ConnectivityAssumption DEF ConnectivityInit, ConnectivityInv, ConnectivityTypeOK

\* An event is never tried more often than maxRetries allows, and the counts of
\* the manager stop at their thresholds: ConnectivityTypeOK for every one of them.
THEOREM ConnectivityTyped == ConnectivitySpec => []ConnectivityTypeOK
<1>1. ConnectivityInv => ConnectivityTypeOK BY DEF ConnectivityInv
<1> QED BY <1>1, ConnectivityInitTyped, ConnectivityStepTyped, PTL DEF ConnectivitySpec

-----------------------------------------------------------------------------
(* WeighbridgeConnection                                                   *)

DeviceRow == [made : BOOLEAN, enabled : BOOLEAN, status : Statuses,
              provider : Statuses, socket : BOOLEAN, attempts : 0..MaxReconnects,
              polling : BOOLEAN, reconnect : BOOLEAN, quietTicks : 0..HealthTicks]
FlowRow == [pc : {"idle", "restart", "stop", "remove", "announced", "opening", "connected",
                  "failed", "again", "finish"},
            kind : {"none", "enable", "disable", "test"}, dev : Device \cup {NoDevice}, round : 0..2]

Placed(job) == job.dev = NoDevice => job.pc \in {"idle", "restart", "stop", "remove"}

\* A reconnection is only scheduled while the attempts are not used up, and
\* until its timer fires nothing uses them up.
Owed(dev) == dev.reconnect => dev.attempts < MaxReconnects

DevicesOK == device \in [Device -> DeviceRow] /\ \A d \in Device : Owed(device[d])
FlowsOK == /\ flow \in [Request \cup Device -> FlowRow]
           /\ \A f \in Request \cup Device : Placed(flow[f])

ConnectionInv ==
    /\ profileEnabled \in BOOLEAN
    /\ managed \in Device \cup {NoDevice}
    /\ DevicesOK /\ FlowsOK
    /\ line \in {"up", "down", "silent"}
-----------------------------------------------------------------------------
\* One device or one flow changes.
LEMMA DeviceChanges ==
    ASSUME DevicesOK, NEW d \in Device, NEW row \in DeviceRow, Owed(row),
           device' = [device EXCEPT ![d] = row]
    PROVE  DevicesOK'
BY DEF DevicesOK, Owed

LEMMA FlowChanges ==
    ASSUME FlowsOK, NEW f \in Request \cup Device, NEW job \in FlowRow, Placed(job),
           flow' = [flow EXCEPT ![f] = job]
    PROVE  FlowsOK'
BY DEF FlowsOK, Placed

LEMMA IdleIsFlow == IdleFlow \in FlowRow /\ Placed(IdleFlow)
BY DEF IdleFlow, FlowRow, Placed

\* A flow that has a device keeps it, or is done.
LEMMA AfterConnectIsFlow ==
    ASSUME NEW job \in FlowRow, job.dev # NoDevice
    PROVE  AfterConnect(job) \in FlowRow /\ Placed(AfterConnect(job))
<1>1. CASE job.kind # "test" BY <1>1, IdleIsFlow DEF AfterConnect
<1>2. CASE job.kind = "test" BY <1>2 DEF AfterConnect, FlowRow, Placed
<1> QED BY <1>1, <1>2

\* start() makes a device and gives it to the request.
LEMMA EnterTyped ==
    ASSUME ConnectionInv, NEW r \in Request, NEW job \in FlowRow, NEW d \in Device,
           NEW devices, devices \in [Device -> DeviceRow], \A e \in Device : Owed(devices[e]),
           Enter(r, job, d, devices)
    PROVE  managed' \in Device /\ DevicesOK' /\ FlowsOK'
<1> DEFINE row == [NewDevice EXCEPT !.made = TRUE, !.enabled = TRUE, !.status = "CONNECTING"]
<1>1. row \in DeviceRow /\ Owed(row)
  <2>1. row.reconnect = FALSE BY DEF NewDevice
  <2>2. 0 \in 0..MaxReconnects /\ 0 \in 0..HealthTicks BY ConnectionAssumption
  <2>3. row \in DeviceRow BY <2>2 DEF NewDevice, DeviceRow, Statuses
  <2> QED BY <2>1, <2>3 DEF Owed
<1> HIDE DEF row
<1>2. device' = [devices EXCEPT ![d] = row] BY DEF Enter, row
<1>3. DevicesOK' BY <1>1, <1>2 DEF DevicesOK, Owed
<1>4. [job EXCEPT !.pc = "announced", !.dev = d] \in FlowRow
      /\ Placed([job EXCEPT !.pc = "announced", !.dev = d])
  BY ConnectionAssumption DEF FlowRow, Placed
<1>5. FlowsOK' BY <1>4, FlowChanges DEF Enter, ConnectionInv
<1> QED BY <1>3, <1>5 DEF Enter

\* The end of stop(), or of restart().
LEMMA StopTyped ==
    ASSUME ConnectionInv, NEW r \in Request,
           NEW devices, devices \in [Device -> DeviceRow], \A e \in Device : Owed(devices[e]),
           Stop(r, devices)
    PROVE  managed' \in Device \cup {NoDevice} /\ DevicesOK' /\ FlowsOK'
<1>1. CASE \E d \in Device : Enter(r, flow[r], d, devices)
  BY <1>1, EnterTyped DEF ConnectionInv, FlowsOK
<1>2. CASE managed' = NoDevice /\ device' = devices /\ flow' = [flow EXCEPT ![r] = IdleFlow]
  BY <1>2, IdleIsFlow, FlowChanges DEF ConnectionInv, DevicesOK, Owed
<1> QED BY <1>1, <1>2 DEF Stop

\* connectDevice has the status its provider has, and goes on or is done.
LEMMA SettleTyped ==
    ASSUME ConnectionInv, NEW f \in Request \cup Device, flow[f].dev \in Device,
           NEW provider \in Statuses, NEW socket \in BOOLEAN,
           Settle(f, flow[f].dev, provider, socket)
    PROVE  DevicesOK' /\ FlowsOK'
<1> DEFINE d == flow[f].dev
           row == [device[d] EXCEPT !.provider = provider, !.socket = socket, !.status = provider,
                                    !.attempts = IF provider = "CONNECTED" THEN 0 ELSE device[d].attempts]
<1>1. device[d] \in DeviceRow /\ Owed(device[d]) BY DEF ConnectionInv, DevicesOK
<1>2. row \in DeviceRow /\ Owed(row)
  <2>1. 0 \in 0..MaxReconnects BY ConnectionAssumption
  <2>2. row \in DeviceRow BY <1>1, <2>1 DEF DeviceRow
  <2>3. row.reconnect = device[d].reconnect /\ row.attempts \in {0, device[d].attempts}
    BY <1>1 DEF DeviceRow
  <2>4. device[d].attempts < MaxReconnects => 0 < MaxReconnects
    BY <1>1, ConnectionAssumption DEF DeviceRow
  <2> QED BY <1>1, <2>2, <2>3, <2>4 DEF Owed
<1>3. device' = [device EXCEPT ![d] = row] BY DEF Settle
<1> HIDE DEF row
<1>4. DevicesOK' BY <1>2, <1>3, DeviceChanges DEF ConnectionInv
<1>5. flow[f] \in FlowRow /\ d # NoDevice BY ConnectionAssumption DEF ConnectionInv, FlowsOK
<1>6. ASSUME NEW pc \in {"connected", "failed"}
      PROVE  [flow[f] EXCEPT !.pc = pc] \in FlowRow /\ Placed([flow[f] EXCEPT !.pc = pc])
  BY <1>5 DEF FlowRow, Placed
<1>7. PICK job \in FlowRow : Placed(job) /\ flow' = [flow EXCEPT ![f] = job]
  <2>1. CASE provider = "CONNECTED"
    <3>1. flow' = [flow EXCEPT ![f] = [flow[f] EXCEPT !.pc = "connected"]] BY <2>1 DEF Settle
    <3> QED BY <1>6, <3>1
  <2>2. CASE provider \in {"ERROR", "DISCONNECTED"}
    <3>1. flow' = [flow EXCEPT ![f] = [flow[f] EXCEPT !.pc = "failed"]] BY <2>2 DEF Settle
    <3> QED BY <1>6, <3>1
  <2>3. CASE provider \notin {"CONNECTED", "ERROR", "DISCONNECTED"}
    <3>1. flow' = [flow EXCEPT ![f] = AfterConnect(flow[f])] BY <2>3 DEF Settle
    <3> QED BY <1>5, <3>1, AfterConnectIsFlow
  <2> QED BY <2>1, <2>2, <2>3
<1>8. FlowsOK' BY <1>7, FlowChanges DEF ConnectionInv
<1> QED BY <1>4, <1>8

\* A step of connectDevice works on the device the flow was given.
LEMMA ConnectTyped ==
    ASSUME ConnectionInv, NEW f \in Request \cup Device, ConnectStep(f)
    PROVE  ConnectionInv'
<1> DEFINE d == flow[f].dev
<1>1. flow[f] \in FlowRow /\ Placed(flow[f]) /\ d \in Device \cup {NoDevice}
  BY DEF ConnectionInv, FlowsOK, FlowRow
<1>2. d \in Device /\ d # NoDevice
  <2>1. flow[f].pc \in {"announced", "opening", "connected", "failed"}
    BY DEF ConnectStep, CallConnect, AlreadyOpen, SocketOpens, SocketFails, StartPolling,
           ScheduleReconnect, At
  <2> QED BY <1>1, <2>1, ConnectionAssumption DEF Placed
<1>3. device[d] \in DeviceRow /\ Owed(device[d]) BY <1>2 DEF ConnectionInv, DevicesOK
<1>4. UNCHANGED <<profileEnabled, managed, line>>
  BY DEF ConnectStep, CallConnect, AlreadyOpen, SocketOpens, SocketFails, StartPolling,
         ScheduleReconnect
<1>5. DevicesOK' /\ FlowsOK'
  <2>1. CASE CallConnect(f)
    <3> DEFINE row == [device[d] EXCEPT !.provider = "CONNECTING"]
    <3>1. row \in DeviceRow /\ Owed(row) BY <1>3 DEF DeviceRow, Statuses, Owed
    <3>2. device' = [device EXCEPT ![d] = row] BY <2>1 DEF CallConnect
    <3>3. DevicesOK' BY <1>2, <3>1, <3>2, DeviceChanges DEF ConnectionInv
    <3>4. [flow[f] EXCEPT !.pc = "opening"] \in FlowRow /\ Placed([flow[f] EXCEPT !.pc = "opening"])
      BY <1>1, <1>2 DEF FlowRow, Placed
    <3>5. flow' = [flow EXCEPT ![f] = [flow[f] EXCEPT !.pc = "opening"]] BY <2>1 DEF CallConnect, Move
    <3> QED BY <3>3, <3>4, <3>5, FlowChanges DEF ConnectionInv
  <2>2. CASE AlreadyOpen(f) \/ SocketOpens(f) \/ SocketFails(f)
    <3>1. device[d].provider \in Statuses BY <1>3 DEF DeviceRow
    <3>2. "CONNECTED" \in Statuses /\ "ERROR" \in Statuses BY DEF Statuses
    <3> QED BY <1>2, <2>2, <3>1, <3>2, SettleTyped DEF AlreadyOpen, SocketOpens, SocketFails
  <2>3. CASE StartPolling(f)
    <3> DEFINE row == [device[d] EXCEPT !.polling = TRUE, !.quietTicks = 0, !.status = device[d].provider]
    <3>1. row \in DeviceRow /\ Owed(row)
      <4>1. 0 \in 0..HealthTicks BY ConnectionAssumption
      <4>2. row \in DeviceRow BY <1>3, <4>1 DEF DeviceRow
      <4>3. row.reconnect = device[d].reconnect /\ row.attempts = device[d].attempts
        BY <1>3 DEF DeviceRow
      <4> QED BY <1>3, <4>2, <4>3 DEF Owed
    <3>2. device' = [device EXCEPT ![d] = row] BY <2>3 DEF StartPolling
    <3>3. DevicesOK' BY <1>2, <3>1, <3>2, DeviceChanges DEF ConnectionInv
    <3>4. flow' = [flow EXCEPT ![f] = AfterConnect(flow[f])] BY <2>3 DEF StartPolling
    <3> QED BY <1>1, <1>2, <3>3, <3>4, AfterConnectIsFlow, FlowChanges DEF ConnectionInv
  <2>4. CASE ScheduleReconnect(f)
    <3> DEFINE row == [device[d] EXCEPT !.reconnect = device[d].reconnect \/ MayReconnect(device[d])]
    <3>1. row \in DeviceRow /\ Owed(row)
      BY <1>3 DEF DeviceRow, Owed, MayReconnect
    <3>2. device' = [device EXCEPT ![d] = row] BY <2>4 DEF ScheduleReconnect
    <3>3. DevicesOK' BY <1>2, <3>1, <3>2, DeviceChanges DEF ConnectionInv
    <3>4. flow' = [flow EXCEPT ![f] = AfterConnect(flow[f])] BY <2>4 DEF ScheduleReconnect
    <3> QED BY <1>1, <1>2, <3>3, <3>4, AfterConnectIsFlow, FlowChanges DEF ConnectionInv
  <2> QED BY <2>1, <2>2, <2>3, <2>4 DEF ConnectStep
<1> QED BY <1>4, <1>5 DEF ConnectionInv

\* The timers use up attempts that are owed, and schedule more while there are.
LEMMA TimerTyped ==
    ASSUME ConnectionInv, NEW d \in Device, FireReconnect(d) \/ PollTick(d)
    PROVE  ConnectionInv'
<1>1. device[d] \in DeviceRow /\ Owed(device[d]) BY DEF ConnectionInv, DevicesOK
<1>2. CASE FireReconnect(d)
  <2> DEFINE row == [device[d] EXCEPT !.reconnect = FALSE, !.attempts = device[d].attempts + 1,
                                      !.status = "CONNECTING"]
             job == [IdleFlow EXCEPT !.pc = "announced", !.dev = d]
  <2>1. device[d].attempts < MaxReconnects /\ device[d].attempts \in 0..MaxReconnects
    BY <1>1, <1>2 DEF FireReconnect, Owed, DeviceRow
  <2>2. row \in DeviceRow /\ Owed(row)
    <3>1. device[d].attempts + 1 \in 0..MaxReconnects BY <2>1, ConnectionAssumption
    <3>2. row \in DeviceRow BY <1>1, <3>1 DEF DeviceRow, Statuses
    <3>3. row.reconnect = FALSE BY <1>1 DEF DeviceRow
    <3> QED BY <3>2, <3>3 DEF Owed
  <2>3. job \in FlowRow /\ Placed(job)
    <3>1. 0 \in 0..2 OBVIOUS
    <3>2. job \in FlowRow BY <3>1 DEF IdleFlow, FlowRow
    <3>3. job.dev # NoDevice BY ConnectionAssumption DEF IdleFlow
    <3> QED BY <3>2, <3>3 DEF Placed
  <2>4. device' = [device EXCEPT ![d] = row] /\ flow' = [flow EXCEPT ![d] = job]
        /\ UNCHANGED <<profileEnabled, managed, line>>
    BY <1>2 DEF FireReconnect
  <2> HIDE DEF row, job
  <2>5. DevicesOK' /\ FlowsOK' BY <2>2, <2>3, <2>4, DeviceChanges, FlowChanges DEF ConnectionInv
  <2> QED BY <2>4, <2>5 DEF ConnectionInv
<1>3. CASE PollTick(d)
  <2>1. PICK status \in Statuses, owed \in BOOLEAN :
           /\ device' = [device EXCEPT ![d] =
                 [[[device[d] EXCEPT !.quietTicks = 0] EXCEPT !.reconnect = owed] EXCEPT !.status = status]]
           /\ owed => device[d].reconnect \/ MayReconnect(device[d])
    <3> DEFINE late == device[d].status = "CONNECTED" /\ device[d].quietTicks + 1 > HealthTicks
               owed == device[d].reconnect \/ (late /\ MayReconnect(device[d]))
    <3>1. device[d].provider \in Statuses /\ device[d].reconnect \in BOOLEAN BY <1>1 DEF DeviceRow
    <3>2. device' = [device EXCEPT ![d] =
             [[[device[d] EXCEPT !.quietTicks = 0] EXCEPT !.reconnect = owed]
                                 EXCEPT !.status = device[d].provider]]
      BY <1>3 DEF PollTick, QuietTicksAfterPoll
    <3>3. owed \in BOOLEAN BY <3>1 DEF MayReconnect
    <3> QED BY <3>1, <3>2, <3>3
  <2> DEFINE row == [[[device[d] EXCEPT !.quietTicks = 0] EXCEPT !.reconnect = owed] EXCEPT !.status = status]
  <2>2. row \in DeviceRow /\ Owed(row)
    <3>1. 0 \in 0..HealthTicks BY ConnectionAssumption
    <3>2. row \in DeviceRow BY <1>1, <3>1 DEF DeviceRow
    <3>3. row.reconnect = owed /\ row.attempts = device[d].attempts BY <1>1 DEF DeviceRow
    <3> QED BY <1>1, <2>1, <3>2, <3>3 DEF Owed, MayReconnect
  <2>3. device' = [device EXCEPT ![d] = row] BY <2>1
  <2> HIDE DEF row
  <2>4. DevicesOK' BY <2>2, <2>3, DeviceChanges DEF ConnectionInv
  <2>5. UNCHANGED <<profileEnabled, managed, flow, line>> BY <1>3 DEF PollTick
  <2> QED BY <2>4, <2>5 DEF ConnectionInv, FlowsOK
<1> QED BY <1>2, <1>3

\* Whoever reads a device takes its provider's status over.
LEMMA StatusTyped ==
    ASSUME ConnectionInv, NEW d \in Device, NEW status \in Statuses,
           device' = [device EXCEPT ![d].status = status]
    PROVE  DevicesOK'
<1>1. [device[d] EXCEPT !.status = status] \in DeviceRow /\ Owed([device[d] EXCEPT !.status = status])
  BY DEF ConnectionInv, DevicesOK, DeviceRow, Owed
<1>2. device' = [device EXCEPT ![d] = [device[d] EXCEPT !.status = status]] OBVIOUS
<1> QED BY <1>1, <1>2, DeviceChanges DEF ConnectionInv

\* The steps of a request.
LEMMA RequestTyped ==
    ASSUME ConnectionInv, NEW r \in Request,
           BeginEnable(r) \/ BeginDisable(r) \/ BeginTest(r) \/ RequestStep(r)
    PROVE  ConnectionInv'
<1>1. flow[r] \in FlowRow /\ Placed(flow[r]) BY DEF ConnectionInv, FlowsOK
<1>2. CASE BeginEnable(r) \/ BeginDisable(r)
  <2>1. PICK kind \in {"enable", "disable"}, pc \in {"restart", "stop"} :
           flow' = [flow EXCEPT ![r] = [[IdleFlow EXCEPT !.pc = pc] EXCEPT !.kind = kind]]
    BY <1>2 DEF BeginEnable, BeginDisable
  <2> DEFINE job == [[IdleFlow EXCEPT !.pc = pc] EXCEPT !.kind = kind]
  <2>2. job \in FlowRow /\ Placed(job)
    <3>1. 0 \in 0..2 OBVIOUS
    <3>2. job \in FlowRow BY <3>1 DEF IdleFlow, FlowRow
    <3>3. job.pc \in {"restart", "stop"} BY DEF IdleFlow
    <3> QED BY <3>2, <3>3 DEF Placed
  <2>3. FlowsOK' BY <2>1, <2>2, FlowChanges DEF ConnectionInv
  <2>4. profileEnabled' \in BOOLEAN /\ UNCHANGED <<managed, device, line>>
    BY <1>2 DEF BeginEnable, BeginDisable
  <2> QED BY <2>3, <2>4 DEF ConnectionInv, DevicesOK
<1>3. CASE BeginTest(r)
  <2> DEFINE job == [IdleFlow EXCEPT !.kind = "test", !.round = 1]
  <2>1. job \in FlowRow
    <3>1. 1 \in 0..2 OBVIOUS
    <3> QED BY <3>1 DEF IdleFlow, FlowRow
  <2>2. PICK d \in Device : Enter(r, job, d, device) BY <1>3 DEF BeginTest
  <2> HIDE DEF job
  <2>3. managed' \in Device /\ DevicesOK' /\ FlowsOK'
    BY <2>1, <2>2, EnterTyped DEF ConnectionInv, DevicesOK
  <2>4. UNCHANGED <<profileEnabled, line>> BY <1>3 DEF BeginTest
  <2> QED BY <2>3, <2>4 DEF ConnectionInv
<1>4. CASE TestAgain(r)
  <2>1. UNCHANGED <<profileEnabled, managed, line>> BY <1>4 DEF TestAgain
  <2>2. CASE managed = NoDevice
    <3>1. flow' = [flow EXCEPT ![r] = IdleFlow] /\ device' = device BY <1>4, <2>2 DEF TestAgain
    <3>2. FlowsOK' BY <3>1, IdleIsFlow, FlowChanges DEF ConnectionInv
    <3> QED BY <2>1, <3>1, <3>2 DEF ConnectionInv, DevicesOK
  <2>3. CASE managed # NoDevice
    <3> DEFINE job == [flow[r] EXCEPT !.pc = "announced", !.dev = managed, !.round = 2]
    <3>1. managed \in Device BY <2>3 DEF ConnectionInv
    <3>2. job \in FlowRow /\ Placed(job)
      <4>1. 2 \in 0..2 OBVIOUS
      <4>2. job \in FlowRow BY <1>1, <3>1, <4>1 DEF FlowRow
      <4>3. job.dev = managed BY <1>1 DEF FlowRow
      <4> QED BY <2>3, <4>2, <4>3 DEF Placed
    <3>3. flow' = [flow EXCEPT ![r] = job] BY <1>4, <2>3 DEF TestAgain
    <3>4. device' = [device EXCEPT ![managed].status = "CONNECTING"] BY <1>4, <2>3 DEF TestAgain
    <3> HIDE DEF job
    <3>5. FlowsOK' BY <3>2, <3>3, FlowChanges DEF ConnectionInv
    <3>6. DevicesOK' BY <3>1, <3>4, StatusTyped DEF Statuses
    <3> QED BY <2>1, <3>5, <3>6 DEF ConnectionInv
  <2> QED BY <2>2, <2>3
<1>5. CASE TestReads(r)
  <2> DEFINE d == flow[r].dev
             job == [flow[r] EXCEPT !.pc = "stop"]
  <2>1. d \in Device BY <1>1, <1>5 DEF TestReads, At, Placed, FlowRow
  <2>2. device[d].provider \in Statuses BY <2>1 DEF ConnectionInv, DevicesOK, DeviceRow
  <2>3. device' = [device EXCEPT ![d].status = device[d].provider] /\ flow' = [flow EXCEPT ![r] = job]
        /\ UNCHANGED <<profileEnabled, managed, line>>
    BY <1>5 DEF TestReads, Move
  <2>4. job \in FlowRow /\ Placed(job) BY <1>1 DEF FlowRow, Placed
  <2> HIDE DEF job, d
  <2>5. DevicesOK' BY <2>1, <2>2, <2>3, StatusTyped
  <2>6. FlowsOK' BY <2>3, <2>4, FlowChanges DEF ConnectionInv
  <2> QED BY <2>3, <2>5, <2>6 DEF ConnectionInv
<1>6. CASE StopDevice(r)
  <2>1. UNCHANGED <<profileEnabled, line>> BY <1>6 DEF StopDevice
  <2>2. managed' \in Device \cup {NoDevice} /\ DevicesOK' /\ FlowsOK'
    <3>1. CASE managed = NoDevice
      <4>1. Stop(r, device) BY <1>6, <3>1 DEF StopDevice
      <4> QED BY <4>1, StopTyped DEF ConnectionInv, DevicesOK
    <3>2. CASE managed # NoDevice
      <4> DEFINE devices == [device EXCEPT ![managed] = Stopped(device[managed])]
      <4>1. managed \in Device BY <3>2 DEF ConnectionInv
      <4>2. Stopped(device[managed]) \in DeviceRow /\ Owed(Stopped(device[managed]))
        BY <4>1 DEF ConnectionInv, DevicesOK, DeviceRow, Stopped, Statuses, Owed
      <4>3. devices \in [Device -> DeviceRow] /\ \A e \in Device : Owed(devices[e])
        BY <4>1, <4>2 DEF ConnectionInv, DevicesOK, Owed
      <4>4. \/ Stop(r, devices)
            \/ device' = devices /\ Move(r, "remove") /\ managed' = managed
        BY <1>6, <3>2 DEF StopDevice
      <4> HIDE DEF devices
      <4>5. ASSUME device' = devices, Move(r, "remove"), managed' = managed
            PROVE  managed' \in Device \cup {NoDevice} /\ DevicesOK' /\ FlowsOK'
        <5>1. [flow[r] EXCEPT !.pc = "remove"] \in FlowRow /\ Placed([flow[r] EXCEPT !.pc = "remove"])
          BY <1>1 DEF FlowRow, Placed
        <5>2. flow' = [flow EXCEPT ![r] = [flow[r] EXCEPT !.pc = "remove"]] BY <4>5 DEF Move
        <5>3. FlowsOK' BY <5>1, <5>2, FlowChanges DEF ConnectionInv
        <5> QED BY <4>1, <4>3, <4>5, <5>3 DEF DevicesOK, Owed
      <4> QED BY <4>3, <4>4, <4>5, StopTyped
    <3> QED BY <3>1, <3>2
  <2> QED BY <2>1, <2>2 DEF ConnectionInv
<1>7. CASE RemoveDevice(r)
  <2>1. Stop(r, device) /\ UNCHANGED <<profileEnabled, line>> BY <1>7 DEF RemoveDevice
  <2>2. managed' \in Device \cup {NoDevice} /\ DevicesOK' /\ FlowsOK'
    BY <2>1, StopTyped DEF ConnectionInv, DevicesOK
  <2> QED BY <2>1, <2>2 DEF ConnectionInv
<1> QED BY <1>2, <1>3, <1>4, <1>5, <1>6, <1>7 DEF RequestStep

LEMMA ConnectionInvStep == ConnectionInv /\ [ConnectionNext]_connectionVars => ConnectionInv'
<1> SUFFICES ASSUME ConnectionInv, [ConnectionNext]_connectionVars PROVE ConnectionInv' OBVIOUS
<1>1. CASE ReadNow
  <2>1. managed \in Device BY <1>1 DEF ReadNow, ConnectionInv
  <2>2. device[managed].provider \in Statuses BY <2>1 DEF ConnectionInv, DevicesOK, DeviceRow
  <2>3. device' = [device EXCEPT ![managed].status = device[managed].provider]
        /\ UNCHANGED <<profileEnabled, managed, flow, line>>
    BY <1>1 DEF ReadNow
  <2>4. DevicesOK' BY <2>1, <2>2, <2>3, StatusTyped
  <2> QED BY <2>3, <2>4 DEF ConnectionInv, FlowsOK
<1>2. ASSUME NEW l \in {"up", "down", "silent"}, ChangeLine(l) PROVE ConnectionInv'
  <2> DEFINE closed == [d \in Device |->
                          IF device[d].socket
                          THEN [device[d] EXCEPT !.socket = FALSE, !.provider = "DISCONNECTED"]
                          ELSE device[d]]
  <2>1. device' \in {device, closed} BY <1>2 DEF ChangeLine
  <2>2. ASSUME NEW d \in Device PROVE closed[d] \in DeviceRow /\ Owed(closed[d])
    <3>1. device[d] \in DeviceRow /\ Owed(device[d]) BY DEF ConnectionInv, DevicesOK
    <3> QED BY <3>1 DEF DeviceRow, Owed, Statuses
  <2>3. closed \in [Device -> DeviceRow] BY <2>2
  <2> HIDE DEF closed
  <2>4. DevicesOK' BY <2>1, <2>2, <2>3 DEF ConnectionInv, DevicesOK, Owed
  <2>5. line' = l /\ UNCHANGED <<profileEnabled, managed, flow>> BY <1>2 DEF ChangeLine
  <2> QED BY <2>4, <2>5 DEF ConnectionInv, FlowsOK
<1>3. CASE UNCHANGED connectionVars
  BY <1>3 DEF connectionVars, ConnectionInv, DevicesOK, FlowsOK
<1> QED BY <1>1, <1>2, <1>3, ConnectTyped, TimerTyped, RequestTyped DEF ConnectionNext

LEMMA ConnectionInvInit == ConnectionInit => ConnectionInv
<1> SUFFICES ASSUME ConnectionInit PROVE ConnectionInv OBVIOUS
<1>1. NewDevice \in DeviceRow /\ Owed(NewDevice)
  BY ConnectionAssumption DEF NewDevice, DeviceRow, Statuses, Owed
<1>2. DevicesOK BY <1>1 DEF ConnectionInit, DevicesOK
<1>3. FlowsOK BY IdleIsFlow DEF ConnectionInit, FlowsOK
<1> QED BY <1>2, <1>3 DEF ConnectionInit, ConnectionInv

LEMMA ConnectionInvTypes == ConnectionInv => ConnectionTypeOK
BY DEF ConnectionInv, ConnectionTypeOK, DevicesOK, FlowsOK, DeviceRow, Placed

\* No device is connected again more often than its profile allows, and nothing
\* is done on a device that is not there: ConnectionTypeOK, for every number of
\* requests that overlap and of devices they make.
THEOREM ConnectionTyped == ConnectionSpec => []ConnectionTypeOK
BY ConnectionInvInit, ConnectionInvStep, ConnectionInvTypes, PTL DEF ConnectionSpec

-----------------------------------------------------------------------------
(* SyncedFiles                                                             *)

HasBytes(content) == \E f \in syncedFiles : f.content = content

\* A name stands for the bytes it was given to: of a capture that took over the
\* record of another, of a record, of a request and of a file at the backend.
BytesOK ==
    /\ \A c \in ScanCall : ContentOf[capturing[c].file] = ContentOf[c]
    /\ \A n \in 1..Len(fileRows) : fileRows[n].content = ContentOf[fileRows[n].file]
    /\ \A p \in Post :
          posts[p] \in FileRequest => posts[p].row.content = ContentOf[posts[p].row.file]
    /\ \A f \in syncedFiles : f.content = ContentOf[f.file]

\* What a request will report, or work with, is there.
PostOK(post) ==
    /\ post.step = "stored" => HasBytes(post.row.content)
    /\ post.step = "document" => HasBytes(ContentOf[post.scan])
    /\ post \in EventRequest \cup ScanRequest => \A c \in post.done : scanRow[c] = "PROCESSED"

\* The tick waits for the request it sent: about the first record it has left, or
\* about the events.
TickOK ==
    /\ uploader.step = "upload" =>
          /\ uploader.files # {} /\ posts[uploader.post] \in FileRequest
          /\ posts[uploader.post].row.file = fileRows[Min(uploader.files)].file
    /\ uploader.step = "batch" => posts[uploader.post] \in EventRequest \cup ScanRequest

FilesInv == FilesTypeOK /\ FilesAreKept /\ BytesOK /\ (\A p \in Post : PostOK(posts[p])) /\ TickOK

Requests == {NoPost} \cup FileRequest \cup EventRequest \cup ScanRequest
-----------------------------------------------------------------------------
\* The first record a tick has left is one it has.
LEMMA FirstIsLeft ==
    ASSUME NEW files \in SUBSET Nat, files # {}
    PROVE  Min(files) \in files
<1>1. PICK n \in files : \A m \in files : ~(<<m, n>> \in OpToRel(<, Nat))
  BY NatLessThanWellFounded, WFMin, Zenon
<1>2. \A m \in files : ~(m < n) BY <1>1, Zenon DEF OpToRel
<1>3. \A m \in files : n <= m BY <1>2
<1> QED BY <1>3 DEF Min

\* What a request at each step carries.
LEMMA RequestKinds ==
    ASSUME NEW post \in Requests
    PROVE  /\ post.step \in {"find", "create", "stored", "refused"} => post \in FileRequest
           /\ post.step = "next" => post \in EventRequest
           /\ post.step \in {"resolve", "document", "mark"} => post \in ScanRequest
BY DEF Requests, NoPost, FileRequest, EventRequest, ScanRequest

LEMMA FileRequestSteps ==
    /\ \A row \in FileRecord, step \in {"find", "create", "stored", "refused"} :
          [step |-> step, row |-> row] \in FileRequest
    /\ \A post \in FileRequest : /\ post.step \in {"find", "create", "stored", "refused"}
                                 /\ post.row \in FileRecord
                                 /\ post \notin EventRequest \cup ScanRequest
    /\ \A post \in FileRequest, step \in {"find", "create", "stored", "refused"} :
          /\ [post EXCEPT !.step = step] \in FileRequest
          /\ [post EXCEPT !.step = step].row = post.row
BY DEF FileRequest, EventRequest, ScanRequest

LEMMA EventRequestSteps ==
    /\ \A left, done \in SUBSET ScanCall :
          /\ Batch(left, done) \in EventRequest /\ Batch(left, done) \notin FileRequest
          /\ Batch(left, done).done = done /\ Batch(left, done).step = "next"
    /\ \A post \in EventRequest \cup ScanRequest :
          post.left \in SUBSET ScanCall /\ post.done \in SUBSET ScanCall /\ post \notin FileRequest
    /\ \A post \in ScanRequest : post.scan \in ScanCall
    /\ \A post \in ScanRequest, step \in {"resolve", "document", "mark"} :
          /\ [post EXCEPT !.step = step] \in ScanRequest
          /\ [post EXCEPT !.step = step].done = post.done
          /\ [post EXCEPT !.step = step].scan = post.scan
          /\ [post EXCEPT !.step = step].step = step
BY DEF Batch, FileRequest, EventRequest, ScanRequest

LEMMA NoPostIsRequest ==
    NoPost \in Requests /\ NoPost.step = "none" /\ NoPost \notin FileRequest \cup EventRequest \cup ScanRequest
BY DEF NoPost, Requests, FileRequest, EventRequest, ScanRequest

-----------------------------------------------------------------------------
\* A capture comes one step further: no record, request or file is touched.
LEMMA CaptureKeeps ==
    ASSUME FilesInv, UNCHANGED <<uploader, posts, apiFiles>>,
           NEW row \in FileRecord, row.content = ContentOf[row.file], row.synced = FALSE,
           fileRows' \in {fileRows, Append(fileRows, row)},
           capturing' \in [ScanCall -> [step : {"none", "written", "recorded", "queued", "lost"},
                                        file : ScanCall]],
           \A c \in ScanCall : ContentOf[capturing'[c].file] = ContentOf[c],
           scanEvent' \in [ScanCall -> {"none", "PENDING", "SYNCED"}],
           \A c \in ScanCall : scanEvent'[c] = "SYNCED" => scanEvent[c] = "SYNCED",
           fileFaults' \in 0..MaxFileFaults
    PROVE  FilesInv'
<1>1. fileRows \in Seq(FileRecord) BY DEF FilesInv, FilesTypeOK
<1>2. /\ fileRows' \in Seq(FileRecord) /\ Len(fileRows) <= Len(fileRows')
      /\ \A n \in 1..Len(fileRows) : fileRows'[n] = fileRows[n]
      /\ \A n \in 1..Len(fileRows') : n \in 1..Len(fileRows) \/ fileRows'[n] = row
  <2>1. CASE fileRows' = fileRows BY <1>1, <2>1
  <2>2. CASE fileRows' = Append(fileRows, row) BY <1>1, <2>2
  <2> QED BY <2>1, <2>2
<1>3. uploader.files \in SUBSET (1..Len(fileRows)) /\ Len(fileRows) \in Nat
  BY <1>1 DEF FilesInv, FilesTypeOK
<1>4. FilesTypeOK'
  <2>1. uploader.files \subseteq 1..Len(fileRows')
    BY <1>1, <1>2, <1>3
  <2> QED BY <1>2, <2>1 DEF FilesInv, FilesTypeOK, apiFiles
<1>5. FilesAreKept' BY <1>2 DEF FilesInv, FilesAreKept, apiFiles
<1>6. BytesOK' BY <1>2 DEF FilesInv, BytesOK, apiFiles
<1>7. \A p \in Post : PostOK(posts[p])' BY DEF FilesInv, PostOK, HasBytes, apiFiles
<1>8. TickOK'
  <2>1. CASE uploader.files # {}
    <3>1. Min(uploader.files) \in 1..Len(fileRows) BY <1>3, <2>1, FirstIsLeft
    <3>2. fileRows'[Min(uploader.files)] = fileRows[Min(uploader.files)] BY <1>2, <3>1
    <3> QED BY <3>2 DEF FilesInv, TickOK
  <2>2. CASE uploader.files = {} BY <2>2 DEF FilesInv, TickOK
  <2> QED BY <2>1, <2>2
<1> QED BY <1>4, <1>5, <1>6, <1>7, <1>8 DEF FilesInv

LEMMA CaptureRow ==
    ASSUME NEW c \in ScanCall
    PROVE  [file |-> c, content |-> ContentOf[c], synced |-> FALSE] \in FileRecord
BY DEF FileRecord, Contents

LEMMA CaptureInv ==
    ASSUME FilesInv, NEW c \in ScanCall, WriteFile(c) \/ AddFile(c) \/ EnqueueScan(c)
    PROVE  FilesInv'
<1> DEFINE row == [file |-> c, content |-> ContentOf[c], synced |-> FALSE]
           Captures == [step : {"none", "written", "recorded", "queued", "lost"}, file : ScanCall]
<1>1. row \in FileRecord /\ row.content = ContentOf[row.file] /\ row.synced = FALSE
  BY CaptureRow
<1>2. /\ capturing \in [ScanCall -> Captures] /\ fileRows \in Seq(FileRecord)
      /\ scanEvent \in [ScanCall -> {"none", "PENDING", "SYNCED"}]
      /\ fileFaults \in 0..MaxFileFaults
  BY DEF FilesInv, FilesTypeOK
<1>3. /\ \A k \in ScanCall : ContentOf[capturing[k].file] = ContentOf[k]
      /\ \A n \in 1..Len(fileRows) : fileRows[n].content = ContentOf[fileRows[n].file]
  BY DEF FilesInv, BytesOK
<1>4. PICK step \in {"written", "recorded", "queued"}, file \in ScanCall :
         CaptureStep(c, step, file) /\ ContentOf[file] = ContentOf[c]
  <2>1. CASE WriteFile(c) BY <2>1 DEF WriteFile
  <2>2. CASE AddFile(c)
    <3> DEFINE same == {n \in 1..Len(fileRows) : fileRows[n].content = ContentOf[c]}
               first == fileRows[CHOOSE n \in same : TRUE]
    <3>1. CASE same = {} BY <2>2, <3>1 DEF AddFile
    <3>2. CASE same # {}
      <4>1. (CHOOSE n \in same : TRUE) \in same BY <3>2
      <4>2. first \in FileRecord /\ first.content = ContentOf[c] /\ first.content = ContentOf[first.file]
        BY <1>2, <1>3, <4>1
      <4>3. first.file \in ScanCall BY <4>2 DEF FileRecord
      <4>4. CaptureStep(c, "recorded", first.file) BY <2>2, <3>2 DEF AddFile
      <4> QED BY <4>2, <4>3, <4>4
    <3> QED BY <3>1, <3>2
  <2>3. CASE EnqueueScan(c)
    <3>1. capturing[c].file \in ScanCall BY <1>2
    <3> QED BY <1>3, <2>3, <3>1 DEF EnqueueScan
  <2> QED BY <2>1, <2>2, <2>3
<1>5. /\ capturing' \in [ScanCall -> Captures]
      /\ \A k \in ScanCall : ContentOf[capturing'[k].file] = ContentOf[k]
  <2>1. capturing' = [capturing EXCEPT ![c] = [step |-> step, file |-> file]]
    BY <1>4 DEF CaptureStep
  <2>2. [step |-> step, file |-> file] \in Captures BY <1>4
  <2> QED BY <1>2, <1>3, <1>4, <2>1, <2>2
<1>6. /\ scanEvent' \in {scanEvent, [scanEvent EXCEPT ![c] = "PENDING"]}
      /\ fileRows' \in {fileRows, Append(fileRows, row)}
      /\ UNCHANGED <<uploader, posts, apiFiles, fileFaults>>
  BY DEF WriteFile, AddFile, EnqueueScan
<1>7. /\ scanEvent' \in [ScanCall -> {"none", "PENDING", "SYNCED"}]
      /\ \A k \in ScanCall : scanEvent'[k] = "SYNCED" => scanEvent[k] = "SYNCED"
  BY <1>2, <1>6
<1> HIDE DEF row
<1> QED BY <1>1, <1>2, <1>5, <1>6, <1>7, CaptureKeeps

\* A request comes one step further at the backend: it stays what it was, what it
\* will report is there, and no file, event or document is taken back.
LEMMA BackendKeeps ==
    ASSUME FilesInv, UNCHANGED <<edgeFiles, uploader, visitMapped, fileFaults>>,
           NEW p \in Post, NEW post \in Requests, posts' = [posts EXCEPT ![p] = post],
           \/ posts[p] \in FileRequest /\ post \in FileRequest /\ post.row = posts[p].row
           \/ posts[p] \in EventRequest \cup ScanRequest /\ post \in EventRequest \cup ScanRequest,
           PostOK(posts[p])',
           syncedFiles \subseteq syncedFiles', syncedFiles' \subseteq [file : ScanCall, content : Contents],
           \A f \in syncedFiles' : f.content = ContentOf[f.file],
           scanRow' \in [ScanCall -> {"none", "RECEIVED", "PROCESSED"}],
           \A c \in ScanCall : scanRow[c] = "PROCESSED" => scanRow'[c] = "PROCESSED",
           documents' \in [ScanCall -> Seq(Contents)],
           \A c \in ScanCall : \A n \in 1..Len(documents'[c]) : documents'[c][n] = ContentOf[c]
    PROVE  FilesInv'
<1> USE DEF edgeFiles
<1>1. posts \in [Post -> Requests] BY DEF FilesInv, FilesTypeOK, Requests
<1>2. posts' \in [Post -> Requests] /\ posts'[p] = post /\ \A q \in Post \ {p} : posts'[q] = posts[q]
  BY <1>1
<1>3. FilesTypeOK' BY <1>2 DEF FilesInv, FilesTypeOK, Requests
<1>4. FilesAreKept' BY DEF FilesInv, FilesAreKept
<1>5. BytesOK'
  <2>1. post \in FileRequest => post.row.content = ContentOf[post.row.file]
    <3>1. \A r \in FileRequest : r \notin EventRequest \cup ScanRequest BY FileRequestSteps
    <3> QED BY <3>1 DEF FilesInv, BytesOK
  <2>2. \A q \in Post :
           posts'[q] \in FileRequest => posts'[q].row.content = ContentOf[posts'[q].row.file]
    BY <1>2, <2>1 DEF FilesInv, BytesOK
  <2> QED BY <2>2 DEF FilesInv, BytesOK
<1>6. ASSUME NEW q \in Post PROVE PostOK(posts[q])'
  <2>1. CASE q = p BY <2>1
  <2>2. CASE q # p
    <3>1. PostOK(posts[q]) /\ posts'[q] = posts[q] BY <1>2, <2>2 DEF FilesInv
    <3>2. posts[q] \in EventRequest \cup ScanRequest => posts[q].done \in SUBSET ScanCall
      BY EventRequestSteps
    <3> QED BY <3>1, <3>2 DEF PostOK, HasBytes
  <2> QED BY <2>1, <2>2
<1>7. TickOK'
  <2>1. \A r \in FileRequest : r \notin EventRequest \cup ScanRequest BY FileRequestSteps
  <2>2. uploader.step \in {"upload", "batch"} => uploader.post \in Post
    BY DEF FilesInv, FilesTypeOK, Resting, Waiting
  <2> QED BY <1>2, <2>1, <2>2 DEF FilesInv, TickOK
<1> QED BY <1>3, <1>4, <1>5, <1>6, <1>7 DEF FilesInv

\* A file that is known by its id or by its content is known by its content.
LEMMA KnownHasBytes ==
    ASSUME FilesInv, NEW file \in ScanCall, Known(file, ContentOf[file])
    PROVE  HasBytes(ContentOf[file])
BY DEF FilesInv, BytesOK, Known, HasBytes

LEMMA FileStored ==
    ASSUME FilesInv, NEW p \in Post, FindFile(p) \/ CreateFile(p)
    PROVE  FilesInv'
<1>1. posts \in [Post -> Requests] BY DEF FilesInv, FilesTypeOK, Requests
<1>2. posts[p] \in FileRequest BY <1>1, RequestKinds DEF FindFile, CreateFile
<1> DEFINE row == posts[p].row
<1>3. row \in FileRecord /\ row.content = ContentOf[row.file]
  BY <1>2, FileRequestSteps DEF FilesInv, BytesOK
<1>4. row.file \in ScanCall /\ row.content \in Contents BY <1>3 DEF FileRecord
<1>5. /\ syncedFiles \subseteq [file : ScanCall, content : Contents]
      /\ \A f \in syncedFiles : f.content = ContentOf[f.file]
      /\ scanRow \in [ScanCall -> {"none", "RECEIVED", "PROCESSED"}]
      /\ documents \in [ScanCall -> Seq(Contents)]
      /\ \A c \in ScanCall : \A n \in 1..Len(documents[c]) : documents[c][n] = ContentOf[c]
  BY DEF FilesInv, FilesTypeOK, BytesOK, FilesAreKept
<1>6. /\ UNCHANGED <<edgeFiles, uploader, visitMapped, fileFaults, scanRow, documents>>
      /\ \/ UNCHANGED syncedFiles
         \/ syncedFiles' = syncedFiles \cup {[file |-> row.file, content |-> row.content]}
  BY DEF FindFile, CreateFile, apiFiles
<1>7. PICK step \in {"create", "stored", "refused"} :
         /\ posts' = [posts EXCEPT ![p].step = step]
         /\ step = "stored" => \E f \in syncedFiles' : f.content = row.content
  <2>1. CASE FindFile(p)
    <3>1. Known(row.file, row.content) => HasBytes(row.content)
      BY <1>3, <1>4, KnownHasBytes
    <3>2. UNCHANGED syncedFiles BY <2>1 DEF FindFile, apiFiles
    <3> QED BY <2>1, <3>1, <3>2 DEF FindFile, HasBytes
  <2>2. CASE CreateFile(p)
    <3>1. CASE Known(row.file, row.content) BY <2>2, <3>1 DEF CreateFile
    <3>2. CASE ~Known(row.file, row.content)
      <4>1. syncedFiles' = syncedFiles \cup {[file |-> row.file, content |-> row.content]}
            /\ posts' = [posts EXCEPT ![p].step = "stored"]
        BY <2>2, <3>2 DEF CreateFile
      <4>2. [file |-> row.file, content |-> row.content] \in syncedFiles' BY <4>1
      <4> QED BY <4>1, <4>2
    <3> QED BY <3>1, <3>2
  <2> QED BY <2>1, <2>2
<1> DEFINE post == [posts[p] EXCEPT !.step = step]
<1>8. post \in FileRequest /\ post.row = row BY <1>2, FileRequestSteps
<1>9. post.step = step BY <1>2 DEF FileRequest
<1>10. posts' = [posts EXCEPT ![p] = post] /\ posts'[p] = post BY <1>1, <1>7
<1> HIDE DEF row, post
<1>11. PostOK(posts[p])'
  <2>1. post \notin EventRequest \cup ScanRequest BY <1>8, FileRequestSteps
  <2> QED BY <1>7, <1>8, <1>9, <1>10, <2>1 DEF PostOK, HasBytes
<1>12. /\ syncedFiles \subseteq syncedFiles'
       /\ syncedFiles' \subseteq [file : ScanCall, content : Contents]
       /\ \A f \in syncedFiles' : f.content = ContentOf[f.file]
  BY <1>3, <1>4, <1>5, <1>6
<1>13. post \in Requests BY <1>8 DEF Requests
<1> QED BY <1>2, <1>5, <1>6, <1>8, <1>10, <1>11, <1>12, <1>13, BackendKeeps DEF row

\* A file that answers to the id or to the content of a scan has its bytes.
LEMMA AnswersToScan ==
    ASSUME FilesInv, NEW c \in ScanCall, NEW f \in syncedFiles,
           f.file = capturing[c].file \/ f.content = ContentOf[c]
    PROVE  f.content = ContentOf[c]
BY DEF FilesInv, BytesOK

LEMMA ScanTreated ==
    ASSUME FilesInv, NEW p \in Post, NEW k \in ScanCall,
           NextScan(p, k) \/ ResolveScan(p) \/ MakeDocument(p) \/ MarkProcessed(p)
    PROVE  FilesInv'
<1>1. posts \in [Post -> Requests] BY DEF FilesInv, FilesTypeOK, Requests
<1>2. /\ syncedFiles \subseteq [file : ScanCall, content : Contents]
      /\ \A f \in syncedFiles : f.content = ContentOf[f.file]
      /\ scanRow \in [ScanCall -> {"none", "RECEIVED", "PROCESSED"}]
      /\ documents \in [ScanCall -> Seq(Contents)]
      /\ \A c \in ScanCall : \A n \in 1..Len(documents[c]) : documents[c][n] = ContentOf[c]
  BY DEF FilesInv, FilesTypeOK, BytesOK, FilesAreKept
<1>3. UNCHANGED <<edgeFiles, uploader, visitMapped, fileFaults, syncedFiles>>
  BY DEF NextScan, ResolveScan, MakeDocument, MarkProcessed, apiFiles
<1> DEFINE Treats(post) == /\ posts' = [posts EXCEPT ![p] = post]
                           /\ post \in EventRequest \cup ScanRequest
                           /\ post.step = "document" => HasBytes(ContentOf[post.scan])
                           /\ \A c \in post.done : scanRow'[c] = "PROCESSED"
           Kept == /\ scanRow' \in [ScanCall -> {"none", "RECEIVED", "PROCESSED"}]
                   /\ \A c \in ScanCall : scanRow[c] = "PROCESSED" => scanRow'[c] = "PROCESSED"
                   /\ documents' \in [ScanCall -> Seq(Contents)]
                   /\ \A c \in ScanCall : \A n \in 1..Len(documents'[c]) : documents'[c][n] = ContentOf[c]
<1>4. ASSUME NEW post, Treats(post), Kept, posts[p] \in EventRequest \cup ScanRequest
      PROVE  FilesInv'
  <2>1. post \in Requests BY <1>4 DEF Requests
  <2>2. posts'[p] = post BY <1>1, <1>4
  <2>3. post.step # "stored"
    BY <1>4 DEF EventRequest, ScanRequest
  <2>4. PostOK(posts[p])' BY <1>3, <1>4, <2>2, <2>3 DEF PostOK, HasBytes
  <2> QED BY <1>2, <1>3, <1>4, <2>1, <2>4, BackendKeeps
<1>5. posts[p] \in EventRequest \cup ScanRequest => \A c \in posts[p].done : scanRow[c] = "PROCESSED"
  BY DEF FilesInv, PostOK
<1>6. CASE NextScan(p, k)
  <2>1. posts[p] \in EventRequest /\ posts[p].left \in SUBSET ScanCall /\ posts[p].done \in SUBSET ScanCall
    BY <1>1, <1>6, RequestKinds, EventRequestSteps DEF NextScan
  <2>2. CASE scanRow[k] = "PROCESSED"
    <3> DEFINE post == Batch(posts[p].left \ {k}, posts[p].done \cup {k})
    <3>1. posts' = [posts EXCEPT ![p] = post] /\ UNCHANGED <<scanRow, documents>>
      BY <1>1, <1>6, <2>2 DEF NextScan
    <3>2. post \in EventRequest /\ post.done = posts[p].done \cup {k} /\ post.step = "next"
      BY <2>1, EventRequestSteps
    <3> HIDE DEF post
    <3>3. Treats(post) BY <1>5, <2>1, <2>2, <3>1, <3>2
    <3> QED BY <1>2, <1>4, <2>1, <3>1, <3>3
  <2>3. CASE scanRow[k] # "PROCESSED"
    <3> DEFINE post == [step |-> "resolve", left |-> posts[p].left, done |-> posts[p].done, scan |-> k]
    <3>1. posts' = [posts EXCEPT ![p] = post] /\ scanRow' = [scanRow EXCEPT ![k] = "RECEIVED"]
          /\ UNCHANGED documents
      BY <1>1, <1>6, <2>3 DEF NextScan
    <3>2. post \in ScanRequest /\ post.done = posts[p].done /\ post.step = "resolve"
      BY <2>1 DEF ScanRequest
    <3> HIDE DEF post
    <3>3. \A c \in ScanCall : scanRow[c] = "PROCESSED" => scanRow'[c] = "PROCESSED"
      BY <1>2, <2>3, <3>1
    <3>4. scanRow' \in [ScanCall -> {"none", "RECEIVED", "PROCESSED"}] BY <1>2, <3>1
    <3>5. Treats(post) BY <1>5, <2>1, <3>1, <3>2, <3>3
    <3> QED BY <1>2, <1>4, <2>1, <3>1, <3>3, <3>4, <3>5
  <2> QED BY <2>2, <2>3
<1>7. CASE ResolveScan(p) \/ MakeDocument(p) \/ MarkProcessed(p)
  <2>1. posts[p] \in ScanRequest
    BY <1>1, <1>7, RequestKinds DEF ResolveScan, MakeDocument, MarkProcessed
  <2>2. /\ posts[p].left \in SUBSET ScanCall /\ posts[p].done \in SUBSET ScanCall
        /\ posts[p].scan \in ScanCall
    BY <2>1, EventRequestSteps
  <2> DEFINE c == posts[p].scan
             marked == [posts[p] EXCEPT !.step = "mark"]
             found == [posts[p] EXCEPT !.step = "document"]
             dropped == Batch(posts[p].left \ {c}, posts[p].done)
             settled == Batch(posts[p].left \ {c}, posts[p].done \cup {c})
  <2>3. /\ marked \in ScanRequest /\ marked.step = "mark" /\ marked.done = posts[p].done
        /\ found \in ScanRequest /\ found.scan = c /\ found.done = posts[p].done
    BY <2>1, EventRequestSteps
  <2>4. /\ dropped \in EventRequest /\ dropped.step = "next" /\ dropped.done = posts[p].done
        /\ settled \in EventRequest /\ settled.step = "next" /\ settled.done = posts[p].done \cup {c}
    BY <2>2, EventRequestSteps
  <2>5. CASE ResolveScan(p)
    <3>1. UNCHANGED <<scanRow, documents>> /\ Kept
      <4>1. UNCHANGED <<scanRow, documents>> BY <2>5 DEF ResolveScan, apiFiles
      <4> QED BY <1>2, <4>1
    <3>2. \/ posts' = [posts EXCEPT ![p] = marked]
          \/ posts' = [posts EXCEPT ![p] = found] /\ Known(capturing[c].file, ContentOf[c])
          \/ posts' = [posts EXCEPT ![p] = dropped]
      BY <1>1, <2>5 DEF ResolveScan
    <3>3. Known(capturing[c].file, ContentOf[c]) => HasBytes(ContentOf[c])
      BY <2>2, AnswersToScan DEF Known, HasBytes
    <3> HIDE DEF marked, found, dropped
    <3>4. Treats(marked) \/ Treats(found) \/ Treats(dropped)
      BY <1>5, <2>1, <2>3, <2>4, <3>1, <3>2, <3>3
    <3> HIDE DEF Kept, Treats
    <3> QED BY <1>4, <2>1, <3>1, <3>4
  <2>6. CASE MakeDocument(p)
    <3>1. posts' = [posts EXCEPT ![p] = marked] /\ UNCHANGED scanRow
      BY <1>1, <2>6 DEF MakeDocument
    <3>2. PICK f \in syncedFiles : /\ f.file = capturing[c].file \/ f.content = ContentOf[c]
                                   /\ documents' = [documents EXCEPT ![c] = Append(@, f.content)]
      BY <2>6 DEF MakeDocument
    <3>3. f.content = ContentOf[c] /\ f.content \in Contents
      BY <2>2, <3>2, AnswersToScan DEF Contents
    <3> DEFINE more == Append(documents[c], f.content)
    <3>4. more \in Seq(Contents) /\ \A n \in 1..Len(more) : more[n] = ContentOf[c]
      <4> DEFINE old == documents[c]
      <4>1. old \in Seq(Contents) BY <1>2, <2>2
      <4>2. \A n \in 1..Len(old) : old[n] = ContentOf[c] BY <1>2, <2>2
      <4> HIDE DEF old
      <4>3. Append(old, f.content) \in Seq(Contents) BY <3>3, <4>1
      <4>4. ASSUME NEW n \in 1..Len(Append(old, f.content))
            PROVE  Append(old, f.content)[n] = ContentOf[c]
        <5>1. n \in 1..Len(old) \/ n = Len(old) + 1 BY <4>1
        <5> QED BY <3>3, <4>1, <4>2, <5>1
      <4> QED BY <4>3, <4>4 DEF old
    <3>5. documents' = [documents EXCEPT ![c] = more] BY <1>2, <2>2, <3>2
    <3> HIDE DEF more, marked
    <3>6. Kept BY <1>2, <2>2, <3>1, <3>4, <3>5
    <3>7. Treats(marked) BY <1>5, <2>1, <2>3, <3>1
    <3> HIDE DEF Kept, Treats
    <3> QED BY <1>4, <2>1, <3>6, <3>7
  <2>7. CASE MarkProcessed(p)
    <3>1. /\ posts' = [posts EXCEPT ![p] = settled]
          /\ scanRow' = [scanRow EXCEPT ![c] = "PROCESSED"] /\ UNCHANGED documents
      BY <1>1, <2>7 DEF MarkProcessed
    <3> HIDE DEF settled
    <3>2. Kept BY <1>2, <2>2, <3>1
    <3>3. Treats(settled) BY <1>2, <1>5, <2>1, <2>2, <2>4, <3>1
    <3> HIDE DEF Kept, Treats
    <3> QED BY <1>4, <2>1, <3>2, <3>3
  <2> QED BY <1>7, <2>5, <2>6, <2>7
<1> QED BY <1>6, <1>7

\* A request that is not there yet, or was just sent.
NewRequest(post) ==
    \/ post = NoPost
    \/ post \in EventRequest /\ post.done = {}
    \/ post \in FileRequest /\ post.step = "find" /\ post.row.content = ContentOf[post.row.file]

\* Records and events are marked as synchronized only when they are.
RowsMarked ==
    /\ fileRows' \in Seq(FileRecord) /\ Len(fileRows') = Len(fileRows)
    /\ \A n \in 1..Len(fileRows) :
          /\ fileRows'[n].file = fileRows[n].file /\ fileRows'[n].content = fileRows[n].content
          /\ fileRows'[n].synced => HasBytes(fileRows[n].content)

EventsMarked ==
    /\ scanEvent' \in [ScanCall -> {"none", "PENDING", "SYNCED"}]
    /\ \A c \in ScanCall : scanEvent'[c] = "SYNCED" => scanRow[c] = "PROCESSED"

\* Requests are sent, answered and given up; the backend keeps what it has.
LEMMA RequestsKeep ==
    ASSUME FilesInv, UNCHANGED apiFiles, fileFaults' \in 0..MaxFileFaults,
           UNCHANGED fileRows \/ RowsMarked, UNCHANGED scanEvent \/ EventsMarked,
           posts' \in [Post -> Requests],
           \A p \in Post : posts'[p] = posts[p] \/ NewRequest(posts'[p]),
           uploader' \in Resting \cup Waiting, uploader'.files \subseteq 1..Len(fileRows),
           TickOK', UNCHANGED capturing \/ StopCaptures
    PROVE  FilesInv'
<1>0. /\ capturing' \in [ScanCall -> [step : {"none", "written", "recorded", "queued", "lost"},
                                        file : ScanCall]]
      /\ \A c \in ScanCall : capturing'[c].file = capturing[c].file
  <2> DEFINE Captures == [step : {"none", "written", "recorded", "queued", "lost"}, file : ScanCall]
  <2>1. capturing \in [ScanCall -> Captures] BY DEF FilesInv, FilesTypeOK
  <2>2. ASSUME NEW c \in ScanCall, StopCaptures
        PROVE  capturing'[c] \in Captures /\ capturing'[c].file = capturing[c].file
    <3>1. capturing'[c] \in {capturing[c], [capturing[c] EXCEPT !.step = "lost"]}
      BY <2>2 DEF StopCaptures
    <3> QED BY <2>1, <3>1
  <2>3. ASSUME StopCaptures PROVE capturing' \in [ScanCall -> Captures]
    <3>1. capturing' = [c \in ScanCall |-> capturing'[c]] BY <2>3 DEF StopCaptures
    <3> QED BY <2>2, <2>3, <3>1
  <2> QED BY <2>1, <2>2, <2>3
<1>5. RowsMarked BY DEF RowsMarked, FilesInv, FilesTypeOK, FilesAreKept, HasBytes
<1>6. EventsMarked BY DEF EventsMarked, FilesInv, FilesTypeOK, FilesAreKept
<1>1. FilesTypeOK' BY <1>0, <1>5, <1>6 DEF FilesInv, FilesTypeOK, Requests, RowsMarked, EventsMarked, apiFiles
<1>2. FilesAreKept'
  BY <1>5, <1>6 DEF FilesInv, FilesAreKept, RowsMarked, EventsMarked, HasBytes, apiFiles
<1>3. ASSUME NEW p \in Post PROVE PostOK(posts[p])'
  <2>1. CASE posts'[p] = posts[p]
    <3>1. PostOK(posts[p]) BY DEF FilesInv
    <3> QED BY <2>1, <3>1 DEF PostOK, HasBytes, apiFiles
  <2>2. CASE posts'[p] = NoPost BY <2>2, NoPostIsRequest DEF PostOK
  <2>3. CASE posts'[p] \in EventRequest /\ posts'[p].done = {}
    <3>1. posts'[p].step = "next" BY <2>3 DEF EventRequest
    <3> QED BY <2>3, <3>1 DEF PostOK
  <2>4. CASE posts'[p] \in FileRequest /\ posts'[p].step = "find"
    BY <2>4, FileRequestSteps DEF PostOK
  <2> QED BY <2>1, <2>2, <2>3, <2>4 DEF NewRequest
<1>4. BytesOK'
  <2>1. ASSUME NEW p \in Post, posts'[p] \in FileRequest
        PROVE  posts'[p].row.content = ContentOf[posts'[p].row.file]
    <3>1. posts'[p] # NoPost /\ posts'[p] \notin EventRequest
      BY <2>1, NoPostIsRequest, FileRequestSteps
    <3> QED BY <2>1, <3>1 DEF FilesInv, BytesOK, NewRequest
  <2> QED BY <1>0, <1>5, <2>1 DEF FilesInv, BytesOK, RowsMarked, apiFiles
<1> QED BY <1>1, <1>2, <1>3, <1>4 DEF FilesInv

\* The facts about the tick and the requests that its steps start from.
LEMMA TickFacts ==
    ASSUME FilesInv
    PROVE  /\ posts \in [Post -> Requests]
           /\ uploader \in Resting \cup Waiting
           /\ uploader.files \in SUBSET Nat /\ uploader.files \subseteq 1..Len(fileRows)
           /\ uploader.step \in {"upload", "batch"} => uploader.post \in Post
           /\ fileRows \in Seq(FileRecord)
           /\ \A n \in 1..Len(fileRows) : fileRows[n].content = ContentOf[fileRows[n].file]
           /\ fileFaults \in 0..MaxFileFaults
BY DEF FilesInv, FilesTypeOK, BytesOK, Requests, Resting, Waiting

\* Ticks between two requests, and one that waits for the request p.
LEMMA TickKinds ==
    /\ \A files \in SUBSET Nat, step \in {"idle", "off", "files"} :
          [step |-> step, files |-> files] \in Resting
    /\ \A files \in SUBSET Nat, p \in Post, step \in {"upload", "batch"} :
          [step |-> step, files |-> files, post |-> p] \in Waiting
    /\ IdleTick \in Resting /\ NoTick \in Resting
    /\ IdleTick.files = {} /\ NoTick.files = {}
    /\ \A t \in Resting : t.step \notin {"upload", "batch"}
BY DEF Resting, Waiting, IdleTick, NoTick

LEMMA TickStartsInv == FilesInv /\ TickStarts => FilesInv'
<1> SUFFICES ASSUME FilesInv, TickStarts PROVE FilesInv' OBVIOUS
<1>1. PICK files \in SUBSET (1..Len(fileRows)) :
         uploader' = [step |-> "files", files |-> files]
  <2>1. Oldest(PendingFiles, UploadLimit) \in SUBSET (1..Len(fileRows))
    BY DEF Oldest, PendingFiles
  <2> QED BY <2>1 DEF TickStarts
<1>2. files \in SUBSET Nat BY <1>1, TickFacts
<1>3. uploader' \in Resting /\ uploader'.files \subseteq 1..Len(fileRows) BY <1>1, <1>2, TickKinds
<1>4. TickOK' BY <1>3, TickKinds DEF TickOK
<1>5. UNCHANGED <<edgeFiles, posts, apiFiles, fileFaults>> BY DEF TickStarts
<1>6. fileFaults \in 0..MaxFileFaults /\ posts \in [Post -> Requests] BY TickFacts
<1> QED BY <1>3, <1>4, <1>5, <1>6, RequestsKeep DEF edgeFiles

LEMMA SendFileInv ==
    ASSUME FilesInv, NEW p \in Post, SendFile(p)
    PROVE  FilesInv'
<1> DEFINE files == uploader.files
           row == fileRows[Min(files)]
           post == [step |-> "find", row |-> row]
<1>1. Min(files) \in 1..Len(fileRows) /\ files # {}
  BY TickFacts, FirstIsLeft DEF SendFile
<1>2. row \in FileRecord /\ row.content = ContentOf[row.file] BY <1>1, TickFacts
<1>3. post \in FileRequest /\ post.step = "find" /\ post.row = row BY <1>2, FileRequestSteps
<1>4. UNCHANGED <<edgeFiles, apiFiles, fileFaults>> BY DEF SendFile
<1>7. fileFaults \in 0..MaxFileFaults /\ posts \in [Post -> Requests] BY TickFacts
<1>5. CASE row.content \in Refused
  <2>1. UNCHANGED posts /\ uploader' = [uploader EXCEPT !.files = WithoutFirst(@)]
    BY <1>5 DEF SendFile
  <2>2. uploader.step = "files" BY DEF SendFile
  <2>3. uploader \in Resting BY <2>2, TickFacts DEF Waiting
  <2>4. uploader' \in Resting /\ uploader'.files \subseteq 1..Len(fileRows)
    BY <2>1, <2>3, TickFacts DEF Resting, WithoutFirst
  <2>5. TickOK' BY <2>4, TickKinds DEF TickOK
  <2> QED BY <1>4, <1>7, <2>1, <2>4, <2>5, RequestsKeep DEF edgeFiles
<1>6. CASE row.content \notin Refused
  <2>1. posts' = [posts EXCEPT ![p] = post]
        /\ uploader' = [step |-> "upload", files |-> files, post |-> p]
    BY <1>6 DEF SendFile
  <2> HIDE DEF post
  <2>2. posts' \in [Post -> Requests] /\ posts'[p] = post /\ \A q \in Post \ {p} : posts'[q] = posts[q]
    BY <1>3, <2>1, TickFacts DEF Requests
  <2>3. uploader' \in Waiting /\ uploader'.files = files BY <2>1, TickFacts, TickKinds
  <2>4. TickOK' BY <1>1, <1>3, <1>4, <2>1, <2>2 DEF TickOK, edgeFiles
  <2>5. NewRequest(post) BY <1>2, <1>3 DEF NewRequest
  <2>6. \A q \in Post : posts'[q] = posts[q] \/ NewRequest(posts'[q]) BY <2>2, <2>5
  <2>7. files \subseteq 1..Len(fileRows) BY TickFacts
  <2> HIDE DEF row
  <2> QED BY <1>4, <1>7, <2>2, <2>3, <2>4, <2>6, <2>7, RequestsKeep DEF edgeFiles
<1> QED BY <1>5, <1>6

LEMMA SendBatchInv ==
    ASSUME FilesInv, NEW p \in Post, SendBatch(p)
    PROVE  FilesInv'
<1>1. UNCHANGED <<edgeFiles, apiFiles, fileFaults>> BY DEF SendBatch
<1>4. fileFaults \in 0..MaxFileFaults /\ posts \in [Post -> Requests] BY TickFacts
<1>2. CASE PendingScans = {}
  <2>1. uploader' = IdleTick /\ UNCHANGED posts BY <1>2 DEF SendBatch
  <2>2. TickOK' BY <2>1, TickKinds DEF TickOK
  <2>3. uploader' \in Resting /\ uploader'.files \subseteq 1..Len(fileRows) BY <2>1, TickKinds
  <2> QED BY <1>1, <1>4, <2>1, <2>2, <2>3, RequestsKeep DEF edgeFiles
<1>3. CASE PendingScans # {}
  <2> DEFINE post == Batch(PendingScans, {})
  <2>1. posts' = [posts EXCEPT ![p] = post]
        /\ uploader' = [step |-> "batch", files |-> {}, post |-> p]
    BY <1>3 DEF SendBatch
  <2>2. post \in EventRequest /\ post.done = {}
    <3>1. PendingScans \in SUBSET ScanCall BY DEF PendingScans
    <3> QED BY <3>1, EventRequestSteps
  <2> HIDE DEF post
  <2>3. posts' \in [Post -> Requests] /\ posts'[p] = post /\ \A q \in Post \ {p} : posts'[q] = posts[q]
    BY <2>1, <2>2, TickFacts DEF Requests
  <2>4. uploader' \in Waiting /\ uploader'.files = {} BY <2>1, TickKinds
  <2>5. TickOK' BY <2>1, <2>2, <2>3 DEF TickOK
  <2>6. \A q \in Post : posts'[q] = posts[q] \/ NewRequest(posts'[q]) BY <2>2, <2>3 DEF NewRequest
  <2> QED BY <1>1, <1>4, <2>3, <2>4, <2>5, <2>6, RequestsKeep DEF edgeFiles
<1> QED BY <1>2, <1>3

LEMMA FileAnsweredInv == FilesInv /\ FileAnswered => FilesInv'
<1> SUFFICES ASSUME FilesInv, FileAnswered PROVE FilesInv' OBVIOUS
<1> DEFINE row == fileRows[Min(uploader.files)]
           post == posts[uploader.post]
<1>1. uploader.post \in Post /\ uploader.files \in SUBSET Nat /\ uploader.files # {}
      /\ uploader.files \subseteq 1..Len(fileRows) /\ Min(uploader.files) \in uploader.files
  <2>1. uploader.files # {} BY DEF FileAnswered, FilesInv, TickOK
  <2> QED BY <2>1, TickFacts, FirstIsLeft DEF FileAnswered
<1>2. post \in FileRequest /\ post.row.file = row.file BY DEF FileAnswered, FilesInv, TickOK
<1>3. post.row.content = ContentOf[row.file] BY <1>1, <1>2 DEF FilesInv, BytesOK
<1>4. post.step = "stored" => HasBytes(ContentOf[row.file]) BY <1>1, <1>3 DEF FilesInv, PostOK
<1>5. /\ fileRows \in Seq(FileRecord)
      /\ \A n \in 1..Len(fileRows) : /\ fileRows[n].content = ContentOf[fileRows[n].file]
                                     /\ fileRows[n].synced => HasBytes(fileRows[n].content)
  BY TickFacts DEF FilesInv, FilesAreKept, HasBytes
<1>6. RowsMarked
  <2> DEFINE marked(n) == IF post.step = "stored" /\ fileRows[n].file = row.file
                          THEN [fileRows[n] EXCEPT !.synced = TRUE] ELSE fileRows[n]
  <2>1. fileRows' = [n \in 1..Len(fileRows) |-> marked(n)] BY DEF FileAnswered
  <2>2. ASSUME NEW n \in 1..Len(fileRows)
        PROVE  /\ marked(n) \in FileRecord
               /\ marked(n).file = fileRows[n].file /\ marked(n).content = fileRows[n].content
               /\ marked(n).synced => HasBytes(fileRows[n].content)
    <3>1. fileRows[n] \in FileRecord BY <1>5
    <3>2. CASE post.step = "stored" /\ fileRows[n].file = row.file
      <4>1. HasBytes(fileRows[n].content) BY <1>4, <1>5, <3>2
      <4>2. marked(n) = [fileRows[n] EXCEPT !.synced = TRUE] BY <3>2
      <4> QED BY <3>1, <4>1, <4>2 DEF FileRecord
    <3>3. CASE ~(post.step = "stored" /\ fileRows[n].file = row.file)
      <4>1. marked(n) = fileRows[n] BY <3>3
      <4> QED BY <1>5, <3>1, <4>1
    <3> QED BY <3>2, <3>3
  <2> HIDE DEF marked
  <2>3. fileRows' \in Seq(FileRecord) /\ Len(fileRows') = Len(fileRows) BY <1>5, <2>1, <2>2
  <2> QED BY <2>1, <2>2, <2>3 DEF RowsMarked
<1>7. posts' = [posts EXCEPT ![uploader.post] = NoPost]
      /\ uploader' = [step |-> "files", files |-> WithoutFirst(uploader.files)]
      /\ UNCHANGED <<capturing, scanEvent, apiFiles, fileFaults>>
  BY DEF FileAnswered
<1>8. posts' \in [Post -> Requests] /\ \A q \in Post : posts'[q] = posts[q] \/ NewRequest(posts'[q])
  BY <1>1, <1>7, TickFacts, NoPostIsRequest DEF NewRequest
<1>9. uploader' \in Resting /\ uploader'.files \subseteq 1..Len(fileRows)
  <2>1. WithoutFirst(uploader.files) \in SUBSET Nat
        /\ WithoutFirst(uploader.files) \subseteq 1..Len(fileRows)
    BY <1>1 DEF WithoutFirst
  <2> QED BY <1>7, <2>1, TickKinds
<1>10. TickOK' BY <1>9, TickKinds DEF TickOK
<1>11. fileFaults' \in 0..MaxFileFaults BY <1>7, TickFacts
<1> HIDE DEF row, post
<1> QED BY <1>6, <1>7, <1>8, <1>9, <1>10, <1>11, RequestsKeep

LEMMA ScansAnsweredInv == FilesInv /\ ScansAnswered => FilesInv'
<1> SUFFICES ASSUME FilesInv, ScansAnswered PROVE FilesInv' OBVIOUS
<1> DEFINE post == posts[uploader.post]
<1>1. uploader.post \in Post /\ post \in EventRequest \cup ScanRequest
  BY TickFacts DEF ScansAnswered, FilesInv, TickOK
<1>2. post.done \in SUBSET ScanCall /\ \A c \in post.done : scanRow[c] = "PROCESSED"
  BY <1>1, EventRequestSteps DEF FilesInv, PostOK
<1>3. /\ scanEvent \in [ScanCall -> {"none", "PENDING", "SYNCED"}]
      /\ \A c \in ScanCall : scanEvent[c] = "SYNCED" => scanRow[c] = "PROCESSED"
  BY DEF FilesInv, FilesTypeOK, FilesAreKept
<1>4. /\ scanEvent' = [c \in ScanCall |-> IF c \in post.done THEN "SYNCED" ELSE scanEvent[c]]
      /\ posts' = [posts EXCEPT ![uploader.post] = NoPost] /\ uploader' = IdleTick
      /\ UNCHANGED <<capturing, fileRows, apiFiles, fileFaults>>
  BY DEF ScansAnswered
<1>5. EventsMarked BY <1>2, <1>3, <1>4 DEF EventsMarked
<1>6. posts' \in [Post -> Requests] /\ \A q \in Post : posts'[q] = posts[q] \/ NewRequest(posts'[q])
  BY <1>1, <1>4, TickFacts, NoPostIsRequest DEF NewRequest
<1>7. uploader' \in Resting /\ uploader'.files \subseteq 1..Len(fileRows) BY <1>4, TickKinds
<1>8. TickOK' BY <1>7, TickKinds DEF TickOK
<1>9. fileFaults' \in 0..MaxFileFaults BY <1>4, TickFacts
<1> HIDE DEF post
<1> QED BY <1>4, <1>5, <1>6, <1>7, <1>8, <1>9, RequestsKeep

\* A request ends, or is given up by the tick that waited for it or not.
LEMMA PostEndsInv ==
    ASSUME FilesInv, NEW p \in Post, PostEnds(p)
    PROVE  FilesInv'
<1>1. posts' = [posts EXCEPT ![p] = NoPost] /\ UNCHANGED <<edgeFiles, uploader, apiFiles, fileFaults>>
      /\ (uploader.step \in {"upload", "batch"} => uploader.post # p)
  BY DEF PostEnds
<1>2. posts' \in [Post -> Requests] /\ \A q \in Post : posts'[q] = posts[q] \/ NewRequest(posts'[q])
  BY <1>1, TickFacts, NoPostIsRequest DEF NewRequest
<1>3. \A q \in Post \ {p} : posts'[q] = posts[q] BY <1>1, TickFacts
<1>4. uploader.step \in {"upload", "batch"} => uploader.post \in Post \ {p} BY <1>1, TickFacts
<1>5. TickOK' BY <1>1, <1>3, <1>4 DEF TickOK, FilesInv, edgeFiles
<1>6. fileFaults' \in 0..MaxFileFaults /\ uploader' \in Resting \cup Waiting
      /\ uploader'.files \subseteq 1..Len(fileRows)
  BY <1>1, TickFacts
<1> QED BY <1>1, <1>2, <1>5, <1>6, RequestsKeep DEF edgeFiles

LEMMA StopsInv ==
    ASSUME FilesInv, GatewayStops \/ GatewayStarts \/ \E goesOn \in BOOLEAN : PostFails(goesOn)
    PROVE  FilesInv'
<1>1. uploader' \in {IdleTick, NoTick} /\ UNCHANGED <<fileRows, scanEvent, apiFiles>>
      /\ (UNCHANGED capturing \/ StopCaptures)
  BY DEF GatewayStops, GatewayStarts, PostFails, edgeFiles
<1>2. fileFaults' \in 0..MaxFileFaults
  <2>1. UNCHANGED fileFaults \/ FileFault BY DEF GatewayStops, GatewayStarts, PostFails
  <2>2. fileFaults \in 0..MaxFileFaults BY TickFacts
  <2> QED BY <2>1, <2>2, FilesAssumption DEF FileFault
<1>3. UNCHANGED posts \/ posts' = [posts EXCEPT ![uploader.post] = NoPost]
  BY DEF GatewayStops, GatewayStarts, PostFails
<1>4. posts' \in [Post -> Requests] /\ \A q \in Post : posts'[q] = posts[q] \/ NewRequest(posts'[q])
  BY <1>3, TickFacts, NoPostIsRequest DEF NewRequest
<1>5. uploader' \in Resting /\ uploader'.files \subseteq 1..Len(fileRows) BY <1>1, TickKinds
<1>6. TickOK' BY <1>5, TickKinds DEF TickOK
<1> QED BY <1>1, <1>2, <1>4, <1>5, <1>6, RequestsKeep

LEMMA MapVisitInv == FilesInv /\ MapVisit => FilesInv'
<1> SUFFICES ASSUME FilesInv, MapVisit PROVE FilesInv' OBVIOUS
<1> USE DEF MapVisit, FilesInv, edgeFiles
<1>1. FilesTypeOK' BY DEF FilesTypeOK
<1>2. FilesAreKept' /\ BytesOK' /\ TickOK' BY DEF FilesAreKept, BytesOK, TickOK
<1>3. \A p \in Post : PostOK(posts[p])' BY DEF PostOK, HasBytes
<1> QED BY <1>1, <1>2, <1>3

LEMMA FilesInvStep == FilesInv /\ [FilesNext]_fileVars => FilesInv'
<1> SUFFICES ASSUME FilesInv, [FilesNext]_fileVars PROVE FilesInv' OBVIOUS
<1>1. CASE UNCHANGED fileVars
  <2> USE <1>1 DEF fileVars, edgeFiles, apiFiles, FilesInv
  <2>1. FilesTypeOK' BY DEF FilesTypeOK
  <2>2. FilesAreKept' /\ BytesOK' /\ TickOK' BY DEF FilesAreKept, BytesOK, TickOK
  <2>3. \A p \in Post : PostOK(posts[p])' BY DEF PostOK, HasBytes
  <2> QED BY <2>1, <2>2, <2>3
<1>2. ASSUME NEW p \in Post, PostSteps(p) PROVE FilesInv'
  <2>1. CASE FindFile(p) \/ CreateFile(p) BY <2>1, FileStored
  <2>2. CASE PostEnds(p) BY <2>2, PostEndsInv
  <2>3. CASE \E c \in ScanCall : NextScan(p, c) BY <2>3, ScanTreated
  <2>4. CASE ResolveScan(p) \/ MakeDocument(p) \/ MarkProcessed(p)
    <3>1. posts[p] \in Requests /\ posts[p].step \in {"resolve", "document", "mark"}
      BY <2>4, TickFacts DEF ResolveScan, MakeDocument, MarkProcessed
    <3>2. posts[p].scan \in ScanCall BY <3>1, RequestKinds, EventRequestSteps
    <3> QED BY <2>4, <3>2, ScanTreated
  <2> QED BY <1>2, <2>1, <2>2, <2>3, <2>4 DEF PostSteps
<1> QED BY <1>1, <1>2, CaptureInv, TickStartsInv, FileAnsweredInv, ScansAnsweredInv, SendFileInv,
           SendBatchInv, MapVisitInv, StopsInv
        DEF FilesNext, TickSteps

LEMMA FilesInvInit == FilesInit => FilesInv
<1> SUFFICES ASSUME FilesInit PROVE FilesInv OBVIOUS
<1> USE DEF FilesInit
<1>1. FilesTypeOK
  <2>1. uploader \in Resting /\ uploader.files = {} BY TickKinds
  <2>2. capturing \in [ScanCall -> [step : {"none", "written", "recorded", "queued", "lost"},
                                   file : ScanCall]]
    OBVIOUS
  <2>3. posts \in [Post -> {NoPost} \cup FileRequest \cup EventRequest \cup ScanRequest] OBVIOUS
  <2>4. fileRows \in Seq(FileRecord) /\ documents \in [ScanCall -> Seq(Contents)] OBVIOUS
  <2>5. scanEvent \in [ScanCall -> {"none", "PENDING", "SYNCED"}]
        /\ scanRow \in [ScanCall -> {"none", "RECEIVED", "PROCESSED"}]
    OBVIOUS
  <2>6. fileFaults \in 0..MaxFileFaults BY FilesAssumption
  <2>7. uploader.files \subseteq 1..Len(fileRows) /\ syncedFiles = {} /\ visitMapped = FALSE BY <2>1
  <2> QED BY <2>1, <2>2, <2>3, <2>4, <2>5, <2>6, <2>7 DEF FilesTypeOK
<1>2. FilesAreKept /\ BytesOK
  <2>1. \A p \in Post : posts[p] \notin FileRequest BY NoPostIsRequest
  <2> QED BY <2>1 DEF FilesAreKept, BytesOK
<1>3. \A p \in Post : PostOK(posts[p]) BY NoPostIsRequest DEF PostOK
<1>4. TickOK BY TickKinds DEF TickOK
<1> QED BY <1>1, <1>2, <1>3, <1>4 DEF FilesInv

\* A file is uploaded before it counts as synchronized, a scan processed before
\* it does, and a document has the bytes scanned for it, for every number of
\* captures, of contents they share, of requests that overlap and of failures.
THEOREM FilesAreKeptAlways == FilesSpec => [](FilesTypeOK /\ FilesAreKept)
BY FilesInvInit, FilesInvStep, PTL DEF FilesSpec, FilesInv

\* What the events that go before a scan should have done when it is worked on.
VisitComesFirst == \A p \in Post : posts[p].step = "resolve" => visitMapped

\* A scan that was processed, or is about to be marked so, has its document.
DocumentsMade ==
    /\ \A c \in ScanCall : scanRow[c] = "PROCESSED" => documents[c] # <<>>
    /\ \A p \in Post : posts[p] \in ScanRequest /\ posts[p].step = "mark" => documents[posts[p].scan] # <<>>

LEMMA DocumentsMadeStep ==
    FilesInv /\ VisitComesFirst /\ DocumentsMade /\ [FilesNext]_fileVars => DocumentsMade'
<1> SUFFICES ASSUME FilesInv, VisitComesFirst, DocumentsMade, [FilesNext]_fileVars
             PROVE  DocumentsMade'
    OBVIOUS
<1>1. /\ posts \in [Post -> Requests] /\ documents \in [ScanCall -> Seq(Contents)]
      /\ scanRow \in [ScanCall -> {"none", "RECEIVED", "PROCESSED"}]
  BY DEF FilesInv, FilesTypeOK, Requests
<1>2. \A post \in FileRequest \cup EventRequest \cup {NoPost} : ~(post \in ScanRequest /\ post.step = "mark")
  BY DEF FileRequest, EventRequest, NoPost
\* Whatever marks no request and no scan.
<1>3. ASSUME UNCHANGED <<scanRow, documents>>,
             \A p \in Post : posts'[p] = posts[p] \/ posts'[p] \notin ScanRequest \/ posts'[p].step # "mark"
      PROVE  DocumentsMade'
  BY <1>3 DEF DocumentsMade
<1>4. CASE UNCHANGED posts /\ UNCHANGED <<scanRow, documents>> BY <1>3, <1>4
<1>5. ASSUME NEW p \in Post, NEW post \in FileRequest \cup EventRequest \cup {NoPost},
             posts' = [posts EXCEPT ![p] = post], UNCHANGED <<scanRow, documents>>
      PROVE  DocumentsMade'
  BY <1>1, <1>2, <1>3, <1>5
<1>6. ASSUME NEW p \in Post, PostSteps(p) PROVE DocumentsMade'
  <2>1. CASE FindFile(p) \/ CreateFile(p)
    <3>1. posts[p] \in FileRequest BY <1>1, <2>1, RequestKinds DEF FindFile, CreateFile
    <3>2. PICK step \in {"create", "stored", "refused"} : posts' = [posts EXCEPT ![p].step = step]
      BY <2>1 DEF FindFile, CreateFile
    <3>3. posts' = [posts EXCEPT ![p] = [posts[p] EXCEPT !.step = step]] BY <1>1, <3>2
    <3>4. [posts[p] EXCEPT !.step = step] \in FileRequest BY <3>1, FileRequestSteps
    <3>5. UNCHANGED <<scanRow, documents>> BY <2>1 DEF FindFile, CreateFile, apiFiles
    <3> QED BY <1>5, <3>3, <3>4, <3>5
  <2>2. CASE PostEnds(p) BY <1>5, <2>2 DEF PostEnds, apiFiles
  <2>3. ASSUME NEW c \in ScanCall, NextScan(p, c) PROVE DocumentsMade'
    <3>1. posts[p].left \in SUBSET ScanCall /\ posts[p].done \in SUBSET ScanCall
      BY <1>1, <2>3, RequestKinds, EventRequestSteps DEF NextScan
    <3>2. CASE scanRow[c] = "PROCESSED"
      <4> DEFINE post == Batch(posts[p].left \ {c}, posts[p].done \cup {c})
      <4>1. posts' = [posts EXCEPT ![p] = post] /\ UNCHANGED <<scanRow, documents>>
        BY <1>1, <2>3, <3>2 DEF NextScan
      <4>2. post \in EventRequest BY <3>1, EventRequestSteps
      <4> HIDE DEF post
      <4> QED BY <1>5, <4>1, <4>2
    <3>3. CASE scanRow[c] # "PROCESSED"
      <4>1. \A q \in Post : posts'[q] = posts[q] \/ posts'[q].step = "resolve"
        BY <1>1, <2>3, <3>3 DEF NextScan
      <4>2. scanRow' = [scanRow EXCEPT ![c] = "RECEIVED"] /\ UNCHANGED documents
        BY <2>3, <3>3 DEF NextScan
      <4>3. \A k \in ScanCall : scanRow'[k] = "PROCESSED" => scanRow[k] = "PROCESSED" BY <1>1, <4>2
      <4> QED BY <4>1, <4>2, <4>3 DEF DocumentsMade
    <3> QED BY <3>2, <3>3
  <2>4. CASE ResolveScan(p)
    <3>1. posts[p] \in ScanRequest BY <1>1, <2>4, RequestKinds DEF ResolveScan
    <3>2. visitMapped BY <2>4 DEF ResolveScan, VisitComesFirst
    <3>3. /\ posts'[p] \in EventRequest \/ posts'[p].step = "document"
          /\ \A q \in Post \ {p} : posts'[q] = posts[q]
      <4> DEFINE c == posts[p].scan
                 found == [posts[p] EXCEPT !.step = "document"]
                 dropped == Batch(posts[p].left \ {c}, posts[p].done)
      <4>1. posts' = [posts EXCEPT ![p] = found] \/ posts' = [posts EXCEPT ![p] = dropped]
        BY <1>1, <2>4, <3>2 DEF ResolveScan
      <4>2. found.step = "document" BY <3>1, EventRequestSteps
      <4>3. dropped \in EventRequest BY <3>1, EventRequestSteps
      <4> HIDE DEF found, dropped
      <4> QED BY <1>1, <4>1, <4>2, <4>3
    <3>4. UNCHANGED <<scanRow, documents>> BY <2>4 DEF ResolveScan, apiFiles
    <3> QED BY <1>2, <1>3, <3>3, <3>4
  <2>5. CASE MakeDocument(p)
    <3>1. posts[p] \in ScanRequest /\ posts[p].scan \in ScanCall
      BY <1>1, <2>5, RequestKinds, EventRequestSteps DEF MakeDocument
    <3> DEFINE c == posts[p].scan
    <3>2. PICK f \in syncedFiles : documents' = [documents EXCEPT ![c] = Append(@, f.content)]
      BY <2>5 DEF MakeDocument
    <3>3. f.content \in Contents BY DEF FilesInv, FilesTypeOK
    <3>4. Append(documents[c], f.content) # <<>>
      <4>1. documents[c] \in Seq(Contents) BY <1>1, <3>1
      <4> HIDE DEF c
      <4>2. Len(Append(documents[c], f.content)) = Len(documents[c]) + 1 BY <3>3, <4>1
      <4>3. Len(documents[c]) \in Nat BY <4>1
      <4>4. Len(<<>>) = 0 OBVIOUS
      <4> QED BY <4>2, <4>3, <4>4
    <3>5. documents'[c] # <<>> /\ \A k \in ScanCall : documents[k] # <<>> => documents'[k] # <<>>
      BY <1>1, <3>1, <3>2, <3>4
    <3>6. posts' = [posts EXCEPT ![p].step = "mark"] /\ UNCHANGED scanRow BY <2>5 DEF MakeDocument
    <3>7. \A q \in Post \ {p} : posts'[q] = posts[q] BY <1>1, <3>6
    <3>8. posts'[p].scan = c
      <4>1. posts'[p] = [posts[p] EXCEPT !.step = "mark"] BY <1>1, <3>6
      <4> QED BY <3>1, <4>1, EventRequestSteps
    <3>9. \A q \in Post : posts[q] \in ScanRequest => posts[q].scan \in ScanCall BY EventRequestSteps
    <3> QED BY <3>5, <3>6, <3>7, <3>8, <3>9 DEF DocumentsMade
  <2>6. CASE MarkProcessed(p)
    <3>1. posts[p] \in ScanRequest /\ posts[p].step = "mark" /\ posts[p].scan \in ScanCall
      BY <1>1, <2>6, RequestKinds, EventRequestSteps DEF MarkProcessed
    <3> DEFINE c == posts[p].scan
               settled == Batch(posts[p].left \ {c}, posts[p].done \cup {c})
    <3>2. documents[c] # <<>> BY <3>1 DEF DocumentsMade
    <3>3. settled \in EventRequest BY <3>1, EventRequestSteps
    <3>4. /\ posts' = [posts EXCEPT ![p] = settled] /\ UNCHANGED documents
          /\ scanRow' = [scanRow EXCEPT ![c] = "PROCESSED"]
      BY <1>1, <2>6 DEF MarkProcessed
    <3> HIDE DEF settled
    <3>5. \A q \in Post : posts'[q] = posts[q] \/ posts'[q] \in EventRequest BY <1>1, <3>3, <3>4
    <3>6. \A k \in ScanCall : scanRow'[k] = "PROCESSED" => scanRow[k] = "PROCESSED" \/ k = c
      BY <1>1, <3>4
    <3> QED BY <1>2, <3>2, <3>4, <3>5, <3>6 DEF DocumentsMade
  <2> QED BY <1>6, <2>1, <2>2, <2>3, <2>4, <2>5, <2>6 DEF PostSteps
<1>7. ASSUME NEW p \in Post, SendFile(p) \/ SendBatch(p) PROVE DocumentsMade'
  <2>1. UNCHANGED <<scanRow, documents>> BY <1>7 DEF SendFile, SendBatch, apiFiles
  <2>2. CASE UNCHANGED posts BY <1>3, <2>1, <2>2
  <2>3. CASE SendFile(p) /\ ~UNCHANGED posts
    <3>1. \A q \in Post : posts'[q] = posts[q] \/ posts'[q].step = "find"
      BY <1>1, <2>3 DEF SendFile
    <3> QED BY <1>3, <2>1, <3>1
  <2>4. CASE SendBatch(p) /\ ~UNCHANGED posts
    <3>1. Batch(PendingScans, {}) \in EventRequest BY EventRequestSteps DEF PendingScans
    <3>2. posts' = [posts EXCEPT ![p] = Batch(PendingScans, {})] BY <2>4 DEF SendBatch
    <3> QED BY <1>5, <2>1, <3>1, <3>2
  <2> QED BY <1>7, <2>2, <2>3, <2>4
<1>8. CASE FileAnswered \/ ScansAnswered
  <2>1. uploader.post \in Post BY <1>8, TickFacts DEF FileAnswered, ScansAnswered
  <2> QED BY <1>5, <1>8, <2>1 DEF FileAnswered, ScansAnswered, apiFiles
<1>9. ASSUME NEW goesOn \in BOOLEAN, PostFails(goesOn) PROVE DocumentsMade'
  <2>1. uploader.post \in Post BY <1>9, TickFacts DEF PostFails
  <2>2. UNCHANGED <<scanRow, documents>> BY <1>9 DEF PostFails, apiFiles
  <2>3. CASE goesOn BY <1>3, <1>9, <2>2, <2>3 DEF PostFails
  <2>4. CASE ~goesOn BY <1>5, <1>9, <2>1, <2>2, <2>4 DEF PostFails
  <2> QED BY <2>3, <2>4
<1>10. CASE UNCHANGED fileVars BY <1>4, <1>10 DEF fileVars, apiFiles
<1>11. ASSUME NEW c \in ScanCall, WriteFile(c) \/ AddFile(c) \/ EnqueueScan(c) PROVE DocumentsMade'
  BY <1>4, <1>11 DEF WriteFile, AddFile, EnqueueScan, apiFiles
<1>12. CASE TickStarts \/ MapVisit \/ GatewayStops \/ GatewayStarts
  BY <1>4, <1>12 DEF TickStarts, MapVisit, GatewayStops, GatewayStarts, apiFiles
<1> QED BY <1>6, <1>7, <1>8, <1>9, <1>10, <1>11, <1>12 DEF FilesNext, TickSteps

\* ScanIsNotDiscarded, which a run shows violated, can be violated in one way
\* only: if a scan is worked on before its visit is there.  As long as none is,
\* no scan counts as synchronized without its document.
THEOREM ScanStandsIfVisitFirst == FilesSpec /\ []VisitComesFirst => []ScanIsNotDiscarded
<1>1. FilesInit => DocumentsMade BY NoPostIsRequest DEF FilesInit, DocumentsMade
<1>2. FilesInv /\ DocumentsMade => ScanIsNotDiscarded
  BY DEF FilesInv, FilesAreKept, DocumentsMade, ScanIsNotDiscarded
<1> QED BY <1>1, <1>2, FilesInvInit, FilesInvStep, DocumentsMadeStep, PTL DEF FilesSpec

-----------------------------------------------------------------------------
(* The instance that checks them                                           *)

LiveInv == ConnectivityInv /\ FilesInv /\ WebhookSafe /\ AlertInv /\ ConnectionInv

\* A scenario lets one component move, by a step of its own, and no other.
LEMMA ScenarioSteps ==
    ASSUME LiveNext
    PROVE  /\ [ConnectivityNext]_connectivityVars /\ [FilesNext]_fileVars
           /\ [WebhookNext]_webhookVars /\ [AlertNext]_alertVars
           /\ [ConnectionNext]_connectionVars
<1>1. \/ ConnectivityNext /\ UNCHANGED <<fileVars, webhookVars, alertVars, connectionVars>>
      \/ FilesNext /\ UNCHANGED <<connectivityVars, webhookVars, alertVars, connectionVars>>
      \/ WebhookNext /\ UNCHANGED <<connectivityVars, fileVars, alertVars, connectionVars>>
      \/ AlertNext /\ UNCHANGED <<connectivityVars, fileVars, webhookVars, connectionVars>>
      \/ WeightNext /\ UNCHANGED <<connectivityVars, fileVars, webhookVars, alertVars, connectionVars>>
      \/ ConnectionNext /\ UNCHANGED <<connectivityVars, fileVars, webhookVars, alertVars>>
  BY DEF LiveNext, ScansNext, VisitsNext
<1> QED BY <1>1

LEMMA LiveInvStep == LiveInv /\ [LiveNext]_liveVars => LiveInv'
<1> SUFFICES ASSUME LiveInv, [LiveNext]_liveVars PROVE LiveInv' OBVIOUS
<1>1. /\ [ConnectivityNext]_connectivityVars /\ [FilesNext]_fileVars /\ [WebhookNext]_webhookVars
      /\ [AlertNext]_alertVars /\ [ConnectionNext]_connectionVars
  <2>1. CASE LiveNext BY <2>1, ScenarioSteps
  <2>2. CASE UNCHANGED liveVars BY <2>2 DEF liveVars
  <2> QED BY <2>1, <2>2
<1> QED BY <1>1, ConnectivityStepTyped, FilesInvStep, WebhookSafeStep, AlertInvStep, ConnectionInvStep DEF LiveInv

\* The types of the components hold in the instance as well: LiveTypeOK, for
\* every value of its constants, whichever scenario it takes.
THEOREM LiveTyped == LiveSpec => []LiveTypeOK
<1>1. LiveInit => LiveInv
  BY ConnectivityInitTyped, FilesInvInit, WebhookSafeInit, AlertInvInit, ConnectionInvInit DEF LiveInit, LiveInv
<1>2. LiveInv => LiveTypeOK
  BY WebhookSafeTypes, AlertInvTypes, ConnectionInvTypes
     DEF LiveInv, LiveTypeOK, ConnectivityInv, FilesInv
<1> QED BY <1>1, <1>2, LiveInvStep, PTL DEF LiveSpec
=============================================================================
