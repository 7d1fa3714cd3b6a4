--------------------------- MODULE MCPlatformLive ---------------------------
(* Instances for TLC of the components that must come to an end of what     *)
(* they began.  They share nothing: a scenario lets one of them move, under *)
(* its own fairness, and leaves the rest where it starts.                   *)
EXTENDS Connectivity, MCSyncedFiles, Webhooks, OperationalAlerts, WeightAnomaly,
        WeighbridgeConnection

CONSTANTS w1, w2, dl, s1, s2, u1, i1, i2, q1, q2, d1, d2

VARIABLE scenario

Scenarios == {"connectivity", "files", "webhooks", "scans", "visits", "weight", "hardware"}

Of(w, q) == [weight |-> w, quality |-> q]
Readings == {Of(0, "STABLE"), Of(NullWeight, "INVALID")}

LiveInit ==
    /\ scenario \in Scenarios
    /\ ConnectivityInit /\ FilesInit /\ WebhookInit /\ AlertInit /\ WeightInit /\ ConnectionInit
    /\ scenario # "connectivity" => hardware

\* Sources go bad and recover while scans look at them, two at a time for a
\* gateway on the first day ...
ScansNext ==
    /\ AlertNext
    /\ visit' = visit /\ alertReads' = alertReads
    /\ \A s \in Scan : ~scans'[s].stale
    /\ (condition'["system"] = "bad" \/ today' = LastDay) => scans'[s2] = IdleScan

\* ... or a visit makes its way while a scan finds it stale and a user deals
\* with its alerts.
VisitsNext ==
    /\ AlertNext
    /\ condition' = condition /\ today' = today /\ changes' = changes
    /\ \A s \in Scan : (s = s1 /\ scans'[s].left = Source) \/ scans'[s] = scans[s]

LiveNext ==
    /\ UNCHANGED scenario
    /\ \/ /\ scenario = "connectivity" /\ ConnectivityNext
          /\ UNCHANGED <<fileVars, webhookVars, alertVars, weightVars, connectionVars>>
       \/ /\ scenario = "files" /\ FilesNext
          /\ UNCHANGED <<connectivityVars, webhookVars, alertVars, weightVars, connectionVars>>
       \/ /\ scenario = "webhooks" /\ WebhookNext
          /\ UNCHANGED <<connectivityVars, fileVars, alertVars, weightVars, connectionVars>>
       \/ /\ \/ scenario = "scans" /\ ScansNext
             \/ scenario = "visits" /\ VisitsNext
          /\ UNCHANGED <<connectivityVars, fileVars, webhookVars, weightVars, connectionVars>>
       \/ /\ scenario = "weight" /\ WeightNext
          /\ UNCHANGED <<connectivityVars, fileVars, webhookVars, alertVars, connectionVars>>
       \/ /\ scenario = "hardware" /\ ConnectionNext
          /\ UNCHANGED <<connectivityVars, fileVars, webhookVars, alertVars, weightVars>>

liveVars == <<scenario, connectivityVars, fileVars, webhookVars, alertVars, weightVars,
              connectionVars>>

LiveSpec ==
    /\ LiveInit /\ [][LiveNext]_liveVars
    /\ \/ scenario = "connectivity" /\ ConnectivityFairness
       \/ scenario = "files" /\ FilesFairness
       \/ scenario = "webhooks" /\ WebhookFairness
       \/ scenario = "scans" /\ AlertFairness
       \/ scenario = "visits"
       \/ scenario = "weight" /\ WeightFairness
       \/ scenario = "hardware" /\ ConnectionFairness

\* The variables of the components keep to their types: among others no event
\* is tried more often than maxRetries allows (gateway/client.ts), and a device
\* not reconnected more often than maxReconnectAttempts (connectionManager.ts);
\* and no file is lost between the gateway and the backend (FilesAreKept).
LiveTypeOK ==
    /\ ConnectivityTypeOK /\ WebhookTypeOK /\ AlertTypeOK /\ ConnectionTypeOK
    /\ FilesTypeOK /\ FilesAreKept
=============================================================================
