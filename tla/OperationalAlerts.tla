------------------------- MODULE OperationalAlerts -------------------------
(***************************************************************************)
(* Operational alerts (apps/api/src/modules/notifications and the scanner  *)
(* of modules/reliability).  An alert is a row per event key; the keys of  *)
(* the scanner carry the day.  An event first creates the alert of its own *)
(* key and then closes the alerts it is the end of, in separate statements *)
(* of no transaction; scans, requests and users do so at the same time.    *)
(***************************************************************************)
EXTENDS Naturals, FiniteSets

CONSTANTS
    Scan,        \* runs of the scanner that may overlap: timer and manual
    Source,      \* what a scan looks at, a subset of Sources
    AlertUser,   \* requests to acknowledge or resolve
    LastDay,     \* bound on the days
    MaxChanges   \* bound on changes of a source's condition

Sources == {"gateway", "backup", "sync", "system"}

ASSUME AlertAssumption == Source \subseteq Sources /\ LastDay \in Nat \ {0} /\ MaxChanges \in Nat

VARIABLES
    condition,  \* of each source: for a gateway the age of its last heartbeat
    today,
    visit,      \* a visit whose approval is asked for, decided, and its end
    alerts,     \* OperationalAlert.status by event key
    scans,      \* what each scan has loaded and has still to do
    emissions,  \* calls of emitOperationalEvent under way
    alertReads, \* the alert a user's request has loaded
    changes

alertVars == <<condition, today, visit, alerts, scans, emissions, alertReads, changes>>

Good(src) == IF src = "gateway" THEN "ONLINE" ELSE "good"
Bad(src)  == IF src = "gateway" THEN {"STALE", "OFFLINE"} ELSE {"bad"}

Day == 1..LastDay
NoKey == <<"none", 0>>
VisitKeys == {<<"approval", 0>>, <<"stale", 0>>, <<"exception", 0>>}

\* EVENT_KEYS: the alerts a source has, one a day for each way to be bad.
SourceKeys(src) == {<<src, b, d>> : b \in Bad(src), d \in Day}
AlertKey == VisitKeys \cup UNION {SourceKeys(src) : src \in Source}

Unresolved(k) == alerts[k] \in {"OPEN", "ACKNOWLEDGED"}

\* A call that creates "alert", closes "related", and is followed by an event
\* that only creates "next".
Event(by, alert, related, next) ==
    [by |-> by, step |-> "upsert", alert |-> alert, related |-> related, next |-> next]

IdleScan == [step |-> "idle", left |-> {}, seen |-> "ONLINE", stale |-> FALSE]
NoRead == [key |-> NoKey, seen |-> "none"]

AlertInit ==
    /\ condition = [src \in Source |-> Good(src)]
    /\ today = 1
    /\ visit = "arrived"
    /\ alerts = [k \in AlertKey |-> "none"]
    /\ scans = [s \in Scan |-> IdleScan]
    /\ emissions = {}
    /\ alertReads = [u \in AlertUser |-> NoRead]
    /\ changes = 0

-----------------------------------------------------------------------------
(* emitOperationalEvent                                                    *)

Replace(e, new) == emissions' = (emissions \ {e}) \cup new

AfterEvent(e) == IF e.next = NoKey THEN {} ELSE {Event(e.by, e.next, {}, NoKey)}

\* upsertOperationalAlert: a row of that key is left as it is, resolved or not.
UpsertOperationalAlert(e) ==
    /\ e.step = "upsert"
    /\ alerts' = IF e.alert # NoKey /\ alerts[e.alert] = "none"
                 THEN [alerts EXCEPT ![e.alert] = "OPEN"] ELSE alerts
    /\ Replace(e, IF e.related = {} THEN AfterEvent(e) ELSE {[e EXCEPT !.step = "match"]})
    /\ UNCHANGED <<condition, today, visit, scans, alertReads, changes>>

\* matchingOpenAlerts.
MatchingOpenAlerts(e) ==
    /\ e.step = "match"
    /\ LET found == {k \in e.related : Unresolved(k)}
       IN  Replace(e, IF found = {} THEN AfterEvent(e)
                      ELSE {[e EXCEPT !.step = "close", !.related = found]})
    /\ UNCHANGED <<condition, today, visit, alerts, scans, alertReads, changes>>

\* resolveRelatedAlerts writes each row by its id, whatever it is by now.
ResolveRelatedAlert(e) ==
    /\ e.step = "close"
    /\ \E k \in e.related :
          /\ alerts' = [alerts EXCEPT ![k] = "RESOLVED"]
          /\ Replace(e, IF e.related = {k} THEN AfterEvent(e) ELSE {[e EXCEPT !.related = @ \ {k}]})
    /\ UNCHANGED <<condition, today, visit, scans, alertReads, changes>>

\* safeEmitOperationalEvent logs an error and forgets the rest of the event.
EmitFails(e) ==
    /\ changes < MaxChanges /\ changes' = changes + 1
    /\ Replace(e, AfterEvent(e))
    /\ UNCHANGED <<condition, today, visit, alerts, scans, alertReads>>

EmissionStep(e) == UpsertOperationalAlert(e) \/ MatchingOpenAlerts(e) \/ ResolveRelatedAlert(e)

-----------------------------------------------------------------------------
(* runReliabilityScan                                                      *)

\* listStaleTransactions and listStaleGateways are loaded at the start.  A
\* visit is stale when it has not moved for hours: any that is not over may be.
StartScan(s) ==
    /\ scans[s] = IdleScan
    /\ \E stale \in {FALSE, visit # "COMPLETED"} :
          scans' = [scans EXCEPT ![s] =
              [step |-> "sources", left |-> Source, stale |-> stale,
               seen |-> IF "gateway" \in Source THEN condition["gateway"] ELSE "ONLINE"]]
    /\ UNCHANGED <<condition, today, visit, alerts, emissions, alertReads, changes>>

\* A scan waits for its own events, one after the other.
Free(s) == scans[s].step = "sources" /\ \A e \in emissions : e.by # s

ScanStaleTransaction(s) ==
    /\ Free(s) /\ scans[s].stale
    /\ scans' = [scans EXCEPT ![s].stale = FALSE]
    /\ emissions' = emissions \cup {Event(s, <<"stale", 0>>, {}, NoKey)}
    /\ UNCHANGED <<condition, today, visit, alerts, alertReads, changes>>

\* Mutant: the recovery closes the alerts of the day only.
RecoveredToday(src) == {k \in SourceKeys(src) : k[3] = today}

\* relatedAlertKeys and the prefixes of matchingOpenAlerts: of every day.
Recovered(src) == SourceKeys(src)

\* A gateway is as it was loaded, the rest is read now; emitGatewayOffline is
\* not awaited, the other events are.
ScanSource(s, src) ==
    /\ Free(s) /\ ~scans[s].stale /\ src \in scans[s].left
    /\ LET now == IF src = "gateway" THEN scans[s].seen ELSE condition[src]
           by  == IF now = "OFFLINE" THEN "background" ELSE s
           open == \E k \in SourceKeys(src) : Unresolved(k)
       IN  emissions' = emissions \cup
               (CASE now \in Bad(src) -> {Event(by, <<src, now, today>>, {}, NoKey)}
                  [] now = Good(src) /\ (open \/ src = "backup") ->
                        {Event(by, NoKey, Recovered(src), NoKey)}
                  [] OTHER -> {})
    /\ scans' = [scans EXCEPT ![s].left = @ \ {src}]
    /\ UNCHANGED <<condition, today, visit, alerts, alertReads, changes>>

\* emitSystemDegraded closes one row it has found, without an event.
ScanSystem(s) ==
    /\ Free(s) /\ ~scans[s].stale /\ "system" \in scans[s].left
    /\ scans' = [scans EXCEPT ![s].left = @ \ {"system"}]
    /\ IF condition["system"] = "bad"
       THEN emissions' = emissions \cup {Event(s, <<"system", "bad", today>>, {}, NoKey)}
       ELSE LET open == {k \in SourceKeys("system") : Unresolved(k)}
            IN  IF open = {} THEN UNCHANGED emissions
                ELSE \E k \in open : emissions' =
                        emissions \cup {[Event(s, NoKey, {k}, NoKey) EXCEPT !.step = "close"]}
    /\ UNCHANGED <<condition, today, visit, alerts, alertReads, changes>>

EndScan(s) ==
    /\ Free(s) /\ ~scans[s].stale /\ scans[s].left = {}
    /\ scans' = [scans EXCEPT ![s] = IdleScan]
    /\ UNCHANGED <<condition, today, visit, alerts, emissions, alertReads, changes>>

ScanStep(s) ==
    \/ StartScan(s) \/ ScanStaleTransaction(s) \/ EndScan(s)
    \/ \E src \in Source \ {"system"} : ScanSource(s, src)
    \/ ScanSystem(s)

-----------------------------------------------------------------------------
(* The visit's requests                                                    *)

\* getTransaction and every change of a visit: ensureRequiredApproval, then
\* emitPendingApprovalRequired, which reads the approval that is PENDING.
EmitPendingApprovalRequired ==
    /\ visit \in {"arrived", "PENDING"}
    /\ visit' = "PENDING"
    /\ emissions' = emissions \cup {Event("request", <<"approval", 0>>, {}, NoKey)}
    /\ UNCHANGED <<condition, today, alerts, scans, alertReads, changes>>

\* approveRequest and rejectRequest with emitApprovalDecision.
EmitApprovalDecision ==
    /\ visit = "PENDING"
    /\ visit' \in {"APPROVED", "REJECTED"}
    /\ emissions' = emissions \cup
          {Event("decision", NoKey, {<<"approval", 0>>},
                 IF visit' = "REJECTED" THEN <<"exception", 0>> ELSE NoKey)}
    /\ UNCHANGED <<condition, today, alerts, scans, alertReads, changes>>

\* completeTransaction with emitTransactionCompleted.
EmitTransactionCompleted ==
    /\ visit = "APPROVED"
    /\ visit' = "COMPLETED"
    /\ emissions' = emissions \cup {Event("completion", NoKey, {<<"stale", 0>>}, NoKey)}
    /\ UNCHANGED <<condition, today, alerts, scans, alertReads, changes>>

-----------------------------------------------------------------------------
(* Users                                                                   *)

LoadAlert(u) ==
    /\ alertReads[u] = NoRead
    /\ \E k \in AlertKey :
          /\ alerts[k] # "none"
          /\ alertReads' = [alertReads EXCEPT ![u] = [key |-> k, seen |-> alerts[k]]]
    /\ UNCHANGED <<condition, today, visit, alerts, scans, emissions, changes>>

\* The row is claimed in a status of "from" and set to "to"; 409 otherwise.
ClaimAlert(u, from, to) ==
    /\ alertReads[u].seen \in from
    /\ alertReads' = [alertReads EXCEPT ![u] = NoRead]
    /\ alerts' = IF alerts[alertReads[u].key] \in from
                 THEN [alerts EXCEPT ![alertReads[u].key] = to] ELSE alerts
    /\ UNCHANGED <<condition, today, visit, scans, emissions, changes>>

\* Mutant: the row is written by its id once the loaded status allows it.
AcknowledgeById(u) ==
    /\ alertReads[u].seen = "OPEN"
    /\ alertReads' = [alertReads EXCEPT ![u] = NoRead]
    /\ alerts' = [alerts EXCEPT ![alertReads[u].key] = "ACKNOWLEDGED"]
    /\ UNCHANGED <<condition, today, visit, scans, emissions, changes>>

AcknowledgeOperationalAlert(u) == ClaimAlert(u, {"OPEN"}, "ACKNOWLEDGED")
ResolveOperationalAlert(u) == ClaimAlert(u, {"OPEN", "ACKNOWLEDGED"}, "RESOLVED")

\* canAcknowledgeAlert, canResolveAlert: nothing to do for the loaded status.
RefuseAlert(u) ==
    /\ alertReads[u].seen \in {"ACKNOWLEDGED", "RESOLVED"}
    /\ alertReads' = [alertReads EXCEPT ![u] = NoRead]
    /\ UNCHANGED <<condition, today, visit, alerts, scans, emissions, changes>>

-----------------------------------------------------------------------------

\* classifyGatewayLiveness by the time since the last heartbeat; the state of
\* backups, synchronization and dependencies.
ConditionChanges(src) ==
    /\ changes < MaxChanges /\ changes' = changes + 1
    /\ \E c \in (Bad(src) \cup {Good(src)}) \ {condition[src]} :
          condition' = [condition EXCEPT ![src] = c]
    /\ UNCHANGED <<today, visit, alerts, scans, emissions, alertReads>>

NextDay ==
    /\ today < LastDay
    /\ today' = today + 1
    /\ UNCHANGED <<condition, visit, alerts, scans, emissions, alertReads, changes>>

AlertNext ==
    \/ \E s \in Scan : ScanStep(s)
    \/ \E e \in emissions : EmissionStep(e) \/ EmitFails(e)
    \/ EmitPendingApprovalRequired \/ EmitApprovalDecision \/ EmitTransactionCompleted
    \/ \E u \in AlertUser :
          LoadAlert(u) \/ AcknowledgeOperationalAlert(u) \/ ResolveOperationalAlert(u) \/ RefuseAlert(u)
    \/ \E src \in Source : ConditionChanges(src)
    \/ NextDay

\* The timer fires again and again: some scan gets on, one may hang; and what
\* was emitted is dealt with.
AlertFairness ==
    /\ WF_alertVars(\E s \in Scan : ScanStep(s))
    /\ \A by \in Scan \cup {"background", "request", "decision", "completion"} :
          WF_alertVars(\E e \in emissions : e.by = by /\ EmissionStep(e))

AlertSpec == AlertInit /\ [][AlertNext]_alertVars /\ AlertFairness

-----------------------------------------------------------------------------
(* Properties                                                              *)

AlertTypeOK ==
    /\ \A src \in Source : condition[src] \in Bad(src) \cup {Good(src)}
    /\ today \in Day
    /\ visit \in {"arrived", "PENDING", "APPROVED", "REJECTED", "COMPLETED"}
    /\ alerts \in [AlertKey -> {"none", "OPEN", "ACKNOWLEDGED", "RESOLVED"}]
    /\ \A e \in emissions : e.related \subseteq AlertKey /\ e.alert \in AlertKey \cup {NoKey}
    /\ \A u \in AlertUser : alertReads[u].key \in AlertKey \cup {NoKey}

\* A resolved alert is closed for good, although a request that loaded it OPEN
\* acknowledges it after another request or a recovery resolved it.
ResolvedIsFinal ==
    [][\A k \in AlertKey : (alerts[k] = "RESOLVED") => (alerts'[k] = "RESOLVED")]_alertVars

\* When a source is in order for good, its alerts of every day come to be
\* closed, those an event that was under way created after the recovery too.
RecoveryClosesAlerts ==
    \A src \in Source :
        (<>[](condition[src] = Good(src))) => (<>[](\A k \in SourceKeys(src) : ~Unresolved(k)))
=============================================================================
