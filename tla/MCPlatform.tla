----------------------------- MODULE MCPlatform -----------------------------
(* Instances for TLC of the components whose safety is checked one beside   *)
(* the other: they share nothing, so a scenario lets one of them move and   *)
(* leaves the rest where it starts.                                         *)
EXTENDS LocalStore, OfflineOperator, SupportService, WeightAnomaly, VehicleIdentification,
        BackupRuns, Onboarding

CONSTANTS o1, o2, scan1, t1, t2, t3, t4, m1, m2, c1, c2, c3, i1, u1, u2, d1, p1, p2, e1, e2, q1, q2

VARIABLE scenario

edgeVars == <<storeVars, operatorVars>>
apiVars  == <<supportVars, weightVars, identificationVars, backupVars, onboardingVars>>

Scenarios == {"store", "offline", "numbers", "maintenance", "anomalies", "reviews",
              "identification", "backups", "onboarding"}

FullPolicy == {"READ_WEIGHT", "BASIC_TRANSACTION", "TRANSACTION_COMPLETION", "CONDITIONAL",
               "ANPR", "DOCUMENT_CAPTURE", "WEIGHT_ANOMALY"}
ReducedPolicy == {"BASIC_TRANSACTION", "ANPR", "DOCUMENT_CAPTURE"}
Policies == {FullPolicy, ReducedPolicy}

Of(w, q) == [weight |-> w, quality |-> q]
Empty   == Of(0, "STABLE")
Invalid == Of(NullWeight, "INVALID")
Readings == {Empty, Of(5, "STABLE"), Of(5, "UNSTABLE"), Invalid}

PlatformInit ==
    /\ scenario \in Scenarios
    /\ StoreInit /\ OperatorInit /\ SupportInit /\ WeightInit
    /\ IdentificationInit /\ BackupInit /\ OnboardingInit
    /\ scenario # "identification" => registered = {}
    /\ scenario # "onboarding" => findings = "PASS"
    /\ policy = FullPolicy /\ openStatus = "none"

\* One visit is followed to its end, or past a restart to its weighments; a
\* second visit, a plate, a scan or an anomaly come with one more event.
OfflineNext ==
    /\ OperatorNext
    /\ restarts' = 1 => Len(queue') <= 3
    /\ counter' = 2 \/ (Queued("ANPR") \cup Queued("SCAN") \cup Queued("ANOMALY"))' # {} => Len(queue') <= 2

\* One request is after the number of a ticket, another of three in turn ...
NumbersNext ==
    /\ SupportNext
    /\ clerk'[c1] = IdleClerk
    /\ clerk'[c2].pc \in {"number", "insert"} =>
          CASE clerk'[c2].item = t1 -> TRUE
            [] clerk'[c2].item = t2 -> number'[t1] # 0
            [] clerk'[c2].item = t3 -> number'[t2] # 0
            [] OTHER -> FALSE
    /\ clerk'[c3].pc \in {"number", "insert"} => clerk'[c3].item = t4
    /\ \A c \in Clerk : clerk'[c].pc \in {"idle", "number", "insert", "failed"}
    /\ \A m \in ServiceRecord : number'[m] = 0

\* ... or one user works on two records and a ticket, and may be cut off.
MaintenanceNext ==
    /\ SupportNext
    /\ clerk'[c1].pc = "transition" => clerk'[c1].to = "CANCELLED"
    /\ \A c \in Clerk \ {c1} : clerk'[c] = IdleClerk
    /\ \A t \in Ticket \ {t1} : number'[t] = 0

\* Weights without reviews, every fault ...
AnomaliesNext ==
    /\ WeightNext /\ reviews' = reviews
    /\ \A i \in Ingestion : ingestions'[i].step = "arrived" => ingestions'[i].reading # Invalid

\* ... or reviews of one event that comes and goes.
ReviewsNext ==
    /\ WeightNext
    /\ anomalyFaults' = anomalyFaults
    /\ \A i \in Ingestion : ingestions'[i].step = "arrived" => ingestions'[i].reading \in {Empty, Invalid}
    /\ Len(anomalies') <= 1

\* Vehicles are registered while nobody works; two visits only where two
\* confirmations make them.
ClerksNext ==
    /\ IdentificationNext
    /\ registered' = registered \/ operator = [c \in Operator |-> Waiting]
    /\ Len(arrivals') = 2 => arrivals'[1].made /\ arrivals'[2].made
    /\ detections'[d1] # NoDetection =>
          /\ detections'[d1].band \in {"HIGH", "LOW"} \/ detections'[d1].plate = NoPlate
          /\ detections'[d1].source = "ANPR" \/ registered = Plate
          /\ detections'[d1].candidates \subseteq {detections'[d1].plate}
          /\ registered' # {}

\* One request takes steps while another deals with the session as a whole.
SessionNext ==
    /\ OnboardingNext
    /\ "step" \notin DOMAIN requests'[q2]
    /\ "step" \in DOMAIN requests'[q1] =>
          requests'[q1].complete \/ requests'[q1].step = VALIDATION

Alone(name) ==
    /\ scenario = name
    /\ name \notin {"store"} => UNCHANGED storeVars
    /\ name \notin {"offline"} => UNCHANGED operatorVars
    /\ name \notin {"numbers", "maintenance"} => UNCHANGED supportVars
    /\ name \notin {"anomalies", "reviews"} => UNCHANGED weightVars
    /\ name \notin {"identification"} => UNCHANGED identificationVars
    /\ name \notin {"backups"} => UNCHANGED backupVars
    /\ name \notin {"onboarding"} => UNCHANGED onboardingVars

PlatformNext ==
    /\ UNCHANGED scenario
    /\ \/ Alone("store") /\ StoreNext
       \/ Alone("offline") /\ OfflineNext
       \/ Alone("numbers") /\ NumbersNext
       \/ Alone("maintenance") /\ MaintenanceNext
       \/ Alone("anomalies") /\ AnomaliesNext
       \/ Alone("reviews") /\ ReviewsNext
       \/ Alone("identification") /\ ClerksNext
       \/ Alone("backups") /\ BackupNext
       \/ Alone("onboarding") /\ SessionNext

PlatformSpec ==
    PlatformInit /\ [][PlatformNext]_<<scenario, edgeVars, apiVars>>

\* The variables of the components keep to their types: among others a
\* store file is never left half written under its own name (atomicWrite.ts).
PlatformTypeOK ==
    /\ StoreTypeOK /\ OperatorTypeOK /\ SupportTypeOK /\ WeightTypeOK
    /\ IdentificationTypeOK /\ BackupTypeOK /\ OnboardingTypeOK
=============================================================================
