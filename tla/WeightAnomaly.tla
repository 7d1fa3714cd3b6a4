---------------------------- MODULE WeightAnomaly ----------------------------
(***************************************************************************)
(* Weight anomaly detection for one weighbridge (apps/api: the rules of    *)
(* domain/weightAnomaly and modules/anomalies).  A reading is ingested by  *)
(* a call that nobody waits for, so calls overlap: the rules and the       *)
(* candidates are kept in memory and evaluated at once, the events are     *)
(* rows that are looked up and written in separate statements.             *)
(***************************************************************************)
EXTENDS Integers, Sequences, FiniteSets

CONSTANTS
    Reading,      \* readings the indicator may give, [weight, quality]
    NullWeight,   \* weightKg of a reading without data
    AnomalyType,  \* rules in force, of Rules
    OpenStatus,   \* statuses of the open transaction, "none" if there is none
    Ingestion,    \* calls of ingestNormalizedReading that may overlap
    Reviewer,     \* requests of users on the events
    EmptyLimit, RateLimit, JumpLimit, \* thresholds, for one reading interval
    Consecutive,  \* consecutiveAnomalyCount
    MinReadings,  \* minAnomalyDurationMs, in readings
    MaxUnstable,  \* maxInstabilityDurationMs, in readings
    MaxAnomalies, \* bound on the events
    MaxAnomalyFaults \* bound on restarts, resets and changes of maintenance

Rules == {"EMPTY_PLATFORM_WEIGHT", "SUDDEN_WEIGHT_CHANGE", "REPEATED_INSTABILITY",
          "WEIGHT_JUMP", "NEGATIVE_OR_INVALID_WEIGHT"}

\* There is no reading before the first; like one without data, it is not valid.
NoReading == [weight |-> NullWeight, quality |-> "NO_DATA"]

ASSUME WeightAssumption ==
    /\ AnomalyType \subseteq Rules
    /\ \A r \in Reading : r.weight = NullWeight \/ r.weight \in Int
    /\ Consecutive \in Nat \ {0} /\ MinReadings \in Nat \ {0} /\ MaxUnstable \in Nat
    /\ RateLimit < JumpLimit

VARIABLES
    maintenance,   \* there is an ACTIVE MaintenanceEvent
    openStatus,    \* status of the latest open transaction
    previous,      \* RuntimeState.window: its last reading
    unstable,      \*   and the number of UNSTABLE readings it ends with
    candidates,    \* RuntimeState.candidates: readings in a row each rule has hit
    context,       \* RuntimeState.context: the platform state, cached
    anomalies,     \* WeightAnomalyEvent, the last detected at the end
    ingestions,
    reviews,
    anomalyFaults

weightVars == <<maintenance, openStatus, previous, unstable, candidates, context,
                anomalies, ingestions, reviews, anomalyFaults>>

NoCandidates == [t \in AnomalyType |-> 0]
NoIngestion == [step |-> "idle"]
NoReview == [step |-> "idle"]

WeightInit ==
    /\ maintenance = FALSE
    /\ openStatus \in OpenStatus
    /\ previous = NoReading /\ unstable = 0
    /\ candidates = NoCandidates
    /\ context = "none"
    /\ anomalies = <<>>
    /\ ingestions = [i \in Ingestion |-> NoIngestion]
    /\ reviews = [u \in Reviewer |-> NoReview]
    /\ anomalyFaults = 0

-----------------------------------------------------------------------------
(* The rules                                                               *)

DerivePlatformState(inMaintenance, status) ==
    CASE inMaintenance -> "MAINTENANCE"
      [] ~inMaintenance /\ status \in {"none", "COMPLETED", "CANCELLED"} -> "EMPTY"
      [] ~inMaintenance /\ status = "UNLOADING" -> "UNLOADING"
      [] ~inMaintenance /\ status \in {"UNLOADED", "APPROVED"} -> "WAITING_FOR_TARE"
      [] ~inMaintenance /\ status \in {"ON_HOLD", "EXCEPTION", "REJECTED"} -> "VEHICLE_PRESENT"
      [] OTHER -> "WEIGHING"

PlatformExpectsMotion(platform) == platform \in {"WEIGHING", "UNLOADING", "VEHICLE_PRESENT"}

\* sampleFromNormalized and sampleFromWeight.
Valid(r) == r.quality \in {"STABLE", "UNSTABLE"} /\ r.weight # NullWeight /\ r.weight >= 0

Change(r, s) == IF r.weight >= s.weight THEN r.weight - s.weight ELSE s.weight - r.weight

BothValid(r) == Valid(previous) /\ Valid(r)

\* instabilityStats of the window that ends with r.
ConsecutiveUnstable(r) ==
    IF r.quality # "UNSTABLE" THEN 0
    ELSE IF unstable > MaxUnstable THEN unstable ELSE unstable + 1

InvalidWeight(r) == (r.weight # NullWeight /\ r.weight < 0) \/ r.quality \in {"INVALID", "DEVICE_ERROR"}

EmptyPlatform(r, platform) == platform = "EMPTY" /\ Valid(r) /\ r.weight > EmptyLimit

WeightJump(r) == BothValid(r) /\ Change(r, previous) >= JumpLimit

SuddenWeightChange(r, platform) ==
    /\ BothValid(r) /\ Change(r, previous) >= RateLimit
    /\ ~(PlatformExpectsMotion(platform) /\ previous.quality # "STABLE")

RepeatedInstability(r) ==
    LET n == ConsecutiveUnstable(r)
    IN  r.quality = "UNSTABLE" /\ (n - 1 >= MaxUnstable \/ (n >= Consecutive /\ n >= 3))

\* RULE_DETECTORS, with preferJumpOverSudden.
RuleHits(t, r, platform) ==
    CASE t = "NEGATIVE_OR_INVALID_WEIGHT" -> InvalidWeight(r)
      [] t = "EMPTY_PLATFORM_WEIGHT" -> EmptyPlatform(r, platform)
      [] t = "WEIGHT_JUMP" -> WeightJump(r)
      [] t = "SUDDEN_WEIGHT_CHANGE" -> SuddenWeightChange(r, platform) /\ ~WeightJump(r)
      [] t = "REPEATED_INSTABILITY" -> RepeatedInstability(r)

Hits(r, platform) == {t \in AnomalyType : RuleHits(t, r, platform)}

ConfirmedImmediately(t) == t \in {"WEIGHT_JUMP", "REPEATED_INSTABILITY", "NEGATIVE_OR_INVALID_WEIGHT"}

ConditionConfirmed(t, count) == ConfirmedImmediately(t) \/ count >= Consecutive \/ count > MinReadings

\* The counters of evaluateWeightAnomaly, kept up to where nothing changes.
NextCandidates(hits) ==
    [t \in AnomalyType |->
        IF t \notin hits THEN 0
        ELSE IF candidates[t] >= Consecutive THEN candidates[t] ELSE candidates[t] + 1]

-----------------------------------------------------------------------------
(* ingestNormalizedReading                                                 *)

Arrive(i, r) ==
    /\ ingestions[i] = NoIngestion
    /\ ingestions' = [ingestions EXCEPT ![i] = [step |-> "arrived", reading |-> r]]
    /\ UNCHANGED <<maintenance, openStatus, previous, unstable, candidates, context,
                   anomalies, reviews, anomalyFaults>>

\* loadContext reads the database when nothing is cached.
LoadContext(i) ==
    /\ ingestions[i].step = "arrived"
    /\ ingestions' = [ingestions EXCEPT ![i] =
          [step |-> "loaded", reading |-> @.reading, cached |-> context # "none",
           platform |-> IF context # "none" THEN context
                        ELSE DerivePlatformState(maintenance, openStatus)]]
    /\ UNCHANGED <<maintenance, openStatus, previous, unstable, candidates, context,
                   anomalies, reviews, anomalyFaults>>

Persisting(hits, recovered, platform) ==
    IF hits = {} /\ recovered = {} THEN NoIngestion
    ELSE [step |-> "persist", hits |-> hits, recovered |-> recovered, platform |-> platform]

\* What was loaded is cached, then evaluateWeightAnomaly, with no await between.
EvaluateWeightAnomaly(i) ==
    /\ ingestions[i].step = "loaded"
    /\ LET r == ingestions[i].reading
           platform == ingestions[i].platform
           hits == Hits(r, platform)
           next == NextCandidates(hits)
       IN  /\ context' = IF ingestions[i].cached THEN context ELSE platform
           /\ previous' = r /\ unstable' = ConsecutiveUnstable(r)
           /\ candidates' = next
           /\ ingestions' = [ingestions EXCEPT ![i] =
                 Persisting({t \in hits : ConditionConfirmed(t, next[t])}, AnomalyType \ hits, platform)]
    /\ UNCHANGED <<maintenance, openStatus, anomalies, reviews, anomalyFaults>>

Unclosed(a) == a.status \in {"OPEN", "ACKNOWLEDGED"}

\* findFirst of the events that pass the test, the last detected first; 0 if none.
LastOf(Test(_)) ==
    LET found == {n \in 1..Len(anomalies) : Test(anomalies[n])}
    IN  IF found = {} THEN 0 ELSE anomalies[CHOOSE n \in found : \A m \in found : m <= n].id

Row(id) == CHOOSE n \in 1..Len(anomalies) : anomalies[n].id = id

\* Event n is written as a: it is now the last detected.
DetectedLast(n, a) ==
    [k \in 1..Len(anomalies) |->
        IF k = Len(anomalies) THEN a ELSE anomalies[IF k < n THEN k ELSE k + 1]]

\* Mutant: an event is looked for in the platform state it was seen in.
FindForHitInState(i, t) ==
    /\ ingestions[i].step = "persist" /\ t \in ingestions[i].hits
    /\ LET found == LastOf(LAMBDA a : a.type = t /\ Unclosed(a) /\ a.seenIn = ingestions[i].platform)
       IN  ingestions' = [ingestions EXCEPT ![i] =
              [step |-> "hit", hits |-> @.hits \ {t}, recovered |-> @.recovered,
               platform |-> @.platform, type |-> t, found |-> found,
               cool |-> found # 0 /\ anomalies[Row(found)].recovered = "long ago"]]
    /\ UNCHANGED <<maintenance, openStatus, previous, unstable, candidates, context,
                   anomalies, reviews, anomalyFaults>>

\* persistHit looks for an event of the type that is not closed.
FindForHit(i, t) ==
    /\ ingestions[i].step = "persist" /\ t \in ingestions[i].hits
    /\ LET found == LastOf(LAMBDA a : a.type = t /\ Unclosed(a))
       IN  ingestions' = [ingestions EXCEPT ![i] =
              [step |-> "hit", hits |-> @.hits \ {t}, recovered |-> @.recovered,
               platform |-> @.platform, type |-> t, found |-> found,
               cool |-> found # 0 /\ anomalies[Row(found)].recovered = "long ago"]]
    /\ UNCHANGED <<maintenance, openStatus, previous, unstable, candidates, context,
                   anomalies, reviews, anomalyFaults>>

Persisted(i) == Persisting(ingestions[i].hits, ingestions[i].recovered, ingestions[i].platform)

\* createEvent: none is open, or the condition is back after the cooldown.
CreateEvent(i) ==
    /\ ingestions[i].step = "hit" /\ (ingestions[i].found = 0 \/ ingestions[i].cool)
    /\ Len(anomalies) < MaxAnomalies
    /\ anomalies' = Append(anomalies,
          [id |-> Len(anomalies) + 1, type |-> ingestions[i].type, status |-> "OPEN",
           security |-> "OPEN", recovered |-> "no", seenIn |-> ingestions[i].platform])
    /\ ingestions' = [ingestions EXCEPT ![i] = Persisted(i)]
    /\ UNCHANGED <<maintenance, openStatus, previous, unstable, candidates, context,
                   reviews, anomalyFaults>>

\* Mutant: an event that continues keeps the recovery recorded before.
UpdateButRecovery(i) ==
    /\ ingestions[i].step = "hit" /\ ingestions[i].found # 0 /\ ~ingestions[i].cool
    /\ LET n == Row(ingestions[i].found) IN
       anomalies' = DetectedLast(n, [anomalies[n] EXCEPT !.seenIn = ingestions[i].platform])
    /\ ingestions' = [ingestions EXCEPT ![i] = Persisted(i)]
    /\ UNCHANGED <<maintenance, openStatus, previous, unstable, candidates, context,
                   reviews, anomalyFaults>>

\* The condition continues: the event found is written, closed by now or not.
UpdateEvent(i) ==
    /\ ingestions[i].step = "hit" /\ ingestions[i].found # 0 /\ ~ingestions[i].cool
    /\ LET n == Row(ingestions[i].found) IN
       anomalies' = DetectedLast(n, [anomalies[n] EXCEPT !.recovered = "no", !.seenIn = ingestions[i].platform])
    /\ ingestions' = [ingestions EXCEPT ![i] = Persisted(i)]
    /\ UNCHANGED <<maintenance, openStatus, previous, unstable, candidates, context,
                   reviews, anomalyFaults>>

\* Mutant: the event that is looked up may have recovered before.
FindLastForRecovery(i, t) ==
    /\ ingestions[i].step = "persist" /\ ingestions[i].hits = {} /\ t \in ingestions[i].recovered
    /\ LET found == LastOf(LAMBDA a : a.type = t /\ Unclosed(a)) IN
       ingestions' = [ingestions EXCEPT ![i] =
          IF found = 0 THEN Persisting({}, @.recovered \ {t}, @.platform)
          ELSE [step |-> "recovery", hits |-> {}, recovered |-> @.recovered \ {t},
                platform |-> @.platform, found |-> found]]
    /\ UNCHANGED <<maintenance, openStatus, previous, unstable, candidates, context,
                   anomalies, reviews, anomalyFaults>>

\* persistRecovery, after the hits, for every rule that does not hit.
FindForRecovery(i, t) ==
    /\ ingestions[i].step = "persist" /\ ingestions[i].hits = {} /\ t \in ingestions[i].recovered
    /\ LET found == LastOf(LAMBDA a : a.type = t /\ Unclosed(a) /\ a.recovered = "no") IN
       ingestions' = [ingestions EXCEPT ![i] =
          IF found = 0 THEN Persisting({}, @.recovered \ {t}, @.platform)
          ELSE [step |-> "recovery", hits |-> {}, recovered |-> @.recovered \ {t},
                platform |-> @.platform, found |-> found]]
    /\ UNCHANGED <<maintenance, openStatus, previous, unstable, candidates, context,
                   anomalies, reviews, anomalyFaults>>

RecordRecovery(i) ==
    /\ ingestions[i].step = "recovery"
    /\ anomalies' = [anomalies EXCEPT ![Row(ingestions[i].found)].recovered = "just now"]
    /\ ingestions' = [ingestions EXCEPT ![i] = Persisted(i)]
    /\ UNCHANGED <<maintenance, openStatus, previous, unstable, candidates, context,
                   reviews, anomalyFaults>>

IngestionStep(i) ==
    \/ LoadContext(i) \/ EvaluateWeightAnomaly(i)
    \/ \E t \in AnomalyType : FindForHit(i, t) \/ FindForRecovery(i, t)
    \/ CreateEvent(i) \/ UpdateEvent(i) \/ RecordRecovery(i)

-----------------------------------------------------------------------------
(* Reviews: the event is claimed in one of the statuses "from", then its   *)
(* security event is written.                                              *)

LoadAccessibleEvent(u) ==
    /\ reviews[u] = NoReview
    /\ \E n \in 1..Len(anomalies) :
          reviews' = [reviews EXCEPT ![u] =
              [step |-> "loaded", id |-> anomalies[n].id, seen |-> anomalies[n].status]]
    /\ UNCHANGED <<maintenance, openStatus, previous, unstable, candidates, context,
                   anomalies, ingestions, anomalyFaults>>

\* updateMany with the statuses in its condition; 409 when it finds no row.
ClaimEvent(u, from, to) ==
    /\ reviews[u].step = "loaded" /\ reviews[u].seen \in from
    /\ LET n == Row(reviews[u].id) IN
       IF anomalies[n].status \in from
       THEN /\ anomalies' = [anomalies EXCEPT ![n].status = to]
            /\ reviews' = [reviews EXCEPT ![u] = [step |-> "claimed", id |-> @.id, to |-> to]]
       ELSE /\ reviews' = [reviews EXCEPT ![u] = NoReview]
            /\ UNCHANGED anomalies
    /\ UNCHANGED <<maintenance, openStatus, previous, unstable, candidates, context,
                   ingestions, anomalyFaults>>

AcknowledgeWeightAnomaly(u) == ClaimEvent(u, {"OPEN"}, "ACKNOWLEDGED")
ResolveWeightAnomaly(u) == ClaimEvent(u, {"OPEN", "ACKNOWLEDGED"}, "RESOLVED")
MarkFalsePositive(u) == ClaimEvent(u, {"OPEN", "ACKNOWLEDGED", "RESOLVED"}, "FALSE_POSITIVE")

RefuseReview(u) ==
    /\ reviews[u].step = "loaded" /\ reviews[u].seen # "OPEN"
    /\ reviews' = [reviews EXCEPT ![u] = NoReview]
    /\ UNCHANGED <<maintenance, openStatus, previous, unstable, candidates, context,
                   anomalies, ingestions, anomalyFaults>>

WriteSecurityEvent(u) ==
    /\ reviews[u].step = "claimed"
    /\ anomalies' = [anomalies EXCEPT ![Row(reviews[u].id)].security = reviews[u].to]
    /\ reviews' = [reviews EXCEPT ![u] = NoReview]
    /\ UNCHANGED <<maintenance, openStatus, previous, unstable, candidates, context,
                   ingestions, anomalyFaults>>

-----------------------------------------------------------------------------

AnomalyFault == anomalyFaults < MaxAnomalyFaults /\ anomalyFaults' = anomalyFaults + 1

\* startMaintenance and endMaintenance drop the cache.
ChangeMaintenance ==
    /\ AnomalyFault
    /\ maintenance' = ~maintenance
    /\ context' = "none"
    /\ UNCHANGED <<openStatus, previous, unstable, candidates, anomalies, ingestions, reviews>>

\* The cache lives for two seconds; transactions go on without telling it.
ContextExpires ==
    /\ context # "none" /\ context' = "none"
    /\ UNCHANGED <<maintenance, openStatus, previous, unstable, candidates,
                   anomalies, ingestions, reviews, anomalyFaults>>

TransactionMoves ==
    /\ AnomalyFault
    /\ openStatus' \in OpenStatus \ {openStatus}
    /\ UNCHANGED <<maintenance, previous, unstable, candidates, context,
                   anomalies, ingestions, reviews>>

\* cooldownMs after the recovery.
CooldownPasses ==
    /\ \E n \in 1..Len(anomalies) :
          /\ anomalies[n].recovered = "just now"
          /\ anomalies' = [anomalies EXCEPT ![n].recovered = "long ago"]
    /\ UNCHANGED <<maintenance, openStatus, previous, unstable, candidates, context,
                   ingestions, reviews, anomalyFaults>>

\* resetWeightAnomalyRuntime, before readings are fed to the weighbridge; with
\* the calls under way gone as well, a restart of the API.
ResetRuntime ==
    /\ AnomalyFault
    /\ previous' = NoReading /\ unstable' = 0 /\ candidates' = NoCandidates /\ context' = "none"
    /\ \/ UNCHANGED <<ingestions, reviews>>
       \/ /\ ingestions' = [i \in Ingestion |-> NoIngestion]
          /\ reviews' = [u \in Reviewer |-> NoReview]
    /\ UNCHANGED <<maintenance, openStatus, anomalies>>

WeightNext ==
    \/ \E i \in Ingestion : IngestionStep(i) \/ \E r \in Reading : Arrive(i, r)
    \/ \E u \in Reviewer :
          \/ LoadAccessibleEvent(u) \/ RefuseReview(u) \/ WriteSecurityEvent(u)
          \/ AcknowledgeWeightAnomaly(u) \/ ResolveWeightAnomaly(u) \/ MarkFalsePositive(u)
    \/ ChangeMaintenance \/ ContextExpires \/ TransactionMoves \/ CooldownPasses \/ ResetRuntime

\* Readings keep coming, each ingestion goes on, the cache expires.
WeightFairness ==
    /\ \A i \in Ingestion : WF_weightVars(IngestionStep(i) \/ \E r \in Reading : Arrive(i, r))
    /\ WF_weightVars(ContextExpires)

WeightSpec == WeightInit /\ [][WeightNext]_weightVars /\ WeightFairness

-----------------------------------------------------------------------------
(* Properties                                                              *)

WeightTypeOK ==
    /\ candidates \in [AnomalyType -> 0..Consecutive]
    /\ unstable \in 0..(MaxUnstable + 1)
    /\ context \in {"none", "MAINTENANCE", "EMPTY", "UNLOADING", "WAITING_FOR_TARE",
                    "VEHICLE_PRESENT", "WEIGHING"}
    /\ \A n \in 1..Len(anomalies) :
          /\ anomalies[n].type \in AnomalyType
          /\ anomalies[n].status \in {"OPEN", "ACKNOWLEDGED", "RESOLVED", "FALSE_POSITIVE"}
          /\ anomalies[n].recovered \in {"no", "just now", "long ago"}

Quiet == \A i \in Ingestion : ingestions[i].step \in {"idle", "arrived", "loaded"}

\* docs/weight-anomaly-detection.md, "Duplicate protection": a condition that
\* lasts has one event, across recoveries, cooldowns, reviews and restarts.
OneActiveEvent ==
    \A m, n \in 1..Len(anomalies) :
        ( /\ Unclosed(anomalies[m]) /\ anomalies[m].recovered = "no"
          /\ Unclosed(anomalies[n]) /\ anomalies[n].recovered = "no"
          /\ anomalies[m].type = anomalies[n].type) => (m = n)

\* A condition that is confirmed now has an event that is not recovered.
ConditionIsOnRecord ==
    Quiet => \A t \in AnomalyType :
        (candidates[t] > 0 /\ ConditionConfirmed(t, candidates[t])) =>
            \E n \in 1..Len(anomalies) : anomalies[n].type = t /\ anomalies[n].recovered = "no"

Carries(i, t) ==
    \/ ingestions[i].step \in {"persist", "hit"} /\ t \in ingestions[i].hits
    \/ ingestions[i].step = "hit" /\ ingestions[i].type = t

\* Once a rule has stopped hitting for good, every event of it that is open
\* comes to be recorded as recovered, also where overlapping readings left two.
RecoveryIsRecorded ==
    \A t \in AnomalyType :
        (<>[](candidates[t] = 0 /\ \A i \in Ingestion : ~Carries(i, t)))
        => (<>[](\A n \in 1..Len(anomalies) :
                    (anomalies[n].type = t /\ Unclosed(anomalies[n])) => anomalies[n].recovered # "no"))
=============================================================================
