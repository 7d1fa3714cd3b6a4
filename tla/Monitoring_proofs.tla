--------------------------- MODULE Monitoring_proofs ---------------------------
(***************************************************************************)
(* Proofs about the parts of the API that write the same rows from calls   *)
(* that overlap: the weight anomaly events of one weighbridge, for every   *)
(* set of rules, thresholds and reviewers and any number of restarts, and  *)
(* the maintenance windows of support, for every set of requests and       *)
(* records.  Their types hold whatever overlaps; each of the others is     *)
(* proved under the hypothesis, stated with it, that the calls which write *)
(* those rows do not overlap; the rest may.                                *)
(***************************************************************************)
EXTENDS WeightAnomaly, SupportService, SequenceTheorems, WellFoundedInduction, TLAPS

-----------------------------------------------------------------------------
(* WeightAnomaly                                                           *)

PlatformState == {"MAINTENANCE", "EMPTY", "UNLOADING", "WAITING_FOR_TARE", "VEHICLE_PRESENT", "WEIGHING"}
AnomalyStatus == {"OPEN", "ACKNOWLEDGED", "RESOLVED", "FALSE_POSITIVE"}
RecoveryState == {"no", "just now", "long ago"}
AnomalyRow == [id : Nat, type : AnomalyType, status : AnomalyStatus, security : AnomalyStatus,
               recovered : RecoveryState, seenIn : PlatformState]

\* What an ingestion keeps in memory, and what a review does.
Arriving   == [step : {"arrived"}, reading : Reading]
Evaluating == [step : {"loaded"}, reading : Reading, cached : BOOLEAN, platform : PlatformState]
Persistence == [step : {"persist"}, hits : SUBSET AnomalyType, recovered : SUBSET AnomalyType,
               platform : PlatformState]
Hitting    == [step : {"hit"}, hits : SUBSET AnomalyType, recovered : SUBSET AnomalyType,
               platform : PlatformState, type : AnomalyType, found : Nat, cool : BOOLEAN]
Recovering == [step : {"recovery"}, hits : SUBSET AnomalyType, recovered : SUBSET AnomalyType,
               platform : PlatformState, found : Nat]
IngestionOf == {NoIngestion} \cup Arriving \cup Evaluating \cup Persistence \cup Hitting \cup Recovering
ReviewOf == {NoReview} \cup [step : {"loaded"}, id : Nat, seen : AnomalyStatus]
                       \cup [step : {"claimed"}, id : Nat, to : AnomalyStatus]

AnomaliesTyped ==
    /\ candidates \in [AnomalyType -> Nat]
    /\ context \in {"none"} \cup PlatformState
    /\ anomalies \in Seq(AnomalyRow)
    /\ ingestions \in [Ingestion -> IngestionOf]
    /\ reviews \in [Reviewer -> ReviewOf]

\* The hypothesis: no two ingestions write their events at the same time.
WritesEvents(i) == ingestions[i].step \in {"persist", "hit", "recovery"}
OneWritesEvents == \A i, j \in Ingestion : WritesEvents(i) /\ WritesEvents(j) => i = j

\* The ids of the events are those up to their number, each is of one event.
IdsOK ==
    /\ \A n \in 1..Len(anomalies) : anomalies[n].id \in 1..Len(anomalies)
    /\ \A m, n \in 1..Len(anomalies) : anomalies[m].id = anomalies[n].id => m = n

\* An event that goes on.
Active(a) == Unclosed(a) /\ a.recovered = "no"

\* It is the one of its type that a query for an unclosed event finds.
ActiveIsLast ==
    \A m, n \in 1..Len(anomalies) :
        Active(anomalies[m]) /\ Unclosed(anomalies[n]) /\ anomalies[m].type = anomalies[n].type => n <= m

\* The condition of rule t is confirmed by readings that were counted so.
Holds(counts, t) == counts[t] > 0 /\ ConditionConfirmed(t, counts[t])
OnRecord(t) == \E n \in 1..Len(anomalies) : anomalies[n].type = t /\ anomalies[n].recovered = "no"

\* What an ingestion that writes events has found out.
KnowsEvents(i) ==
    /\ ingestions[i].step = "hit" =>
          /\ ingestions[i].found # 0 => \E n \in 1..Len(anomalies) :
                anomalies[n].id = ingestions[i].found /\ anomalies[n].type = ingestions[i].type
          /\ \A n \in 1..Len(anomalies) :
                Active(anomalies[n]) /\ anomalies[n].type = ingestions[i].type =>
                    anomalies[n].id = ingestions[i].found /\ ~ingestions[i].cool
    /\ ingestions[i].step = "recovery" => \E n \in 1..Len(anomalies) :
          anomalies[n].id = ingestions[i].found /\ ~Holds(candidates, anomalies[n].type)
    /\ WritesEvents(i) => \A t \in ingestions[i].recovered : ~Holds(candidates, t)

\* What is confirmed is on record, or about to be.
Recorded == \A t \in AnomalyType : Holds(candidates, t) => OnRecord(t) \/ \E i \in Ingestion : Carries(i, t)

WeightInv ==
    /\ AnomaliesTyped /\ IdsOK /\ ActiveIsLast
    /\ (\A i \in Ingestion : KnowsEvents(i)) /\ Recorded

-----------------------------------------------------------------------------
\* What an ingestion keeps is told by its step.
LEMMA IngestionKinds ==
    ASSUME NEW g \in IngestionOf
    PROVE  /\ g.step \in {"idle", "arrived", "loaded", "persist", "hit", "recovery"}
           /\ g.step = "arrived" => g \in Arriving
           /\ g.step = "loaded" => g \in Evaluating
           /\ g.step = "persist" => g \in Persistence
           /\ g.step = "hit" => g \in Hitting
           /\ g.step = "recovery" => g \in Recovering
BY DEF IngestionOf, NoIngestion, Arriving, Evaluating, Persistence, Hitting, Recovering

\* So is what a review keeps.
LEMMA ReviewKinds ==
    ASSUME NEW g \in ReviewOf
    PROVE  /\ g.step = "loaded" => g.id \in Nat /\ g.seen \in AnomalyStatus
           /\ g.step = "claimed" => g.id \in Nat /\ g.to \in AnomalyStatus
BY DEF ReviewOf, NoReview

\* What is left to write, if anything.
LEMMA PersistingKinds ==
    ASSUME NEW hits \in SUBSET AnomalyType, NEW recovered \in SUBSET AnomalyType,
           NEW platform \in PlatformState
    PROVE  /\ Persisting(hits, recovered, platform) \in IngestionOf
           /\ \/ /\ Persisting(hits, recovered, platform).step = "idle"
                 /\ hits = {} /\ recovered = {}
              \/ /\ Persisting(hits, recovered, platform).step = "persist"
                 /\ Persisting(hits, recovered, platform).hits = hits
                 /\ Persisting(hits, recovered, platform).recovered = recovered
BY DEF Persisting, IngestionOf, Persistence, NoIngestion

\* The platform is in a state it may be in.
LEMMA PlatformStates ==
    ASSUME NEW m \in BOOLEAN, NEW s
    PROVE  DerivePlatformState(m, s) \in PlatformState
BY DEF DerivePlatformState, PlatformState

\* A step of an ingestion.
LEMMA IngestionMoves ==
    ASSUME AnomaliesTyped, NEW i \in Ingestion, NEW g, ingestions' = [ingestions EXCEPT ![i] = g]
    PROVE  /\ ingestions'[i] = g /\ \A j \in Ingestion \ {i} : ingestions'[j] = ingestions[j]
           /\ g \in IngestionOf => ingestions' \in [Ingestion -> IngestionOf]
BY DEF AnomaliesTyped

-----------------------------------------------------------------------------
\* A set of numbers has a least one ...
LEMMA LeastNumber ==
    ASSUME NEW S \in SUBSET Nat, S # {}
    PROVE  \E n \in S : \A m \in S : n <= m
<1>1. PICK n \in S : \A m \in S : ~(<<m, n>> \in OpToRel(<, Nat))
   BY NatLessThanWellFounded, WFMin, Zenon
<1>2. \A m \in S : ~(m < n) BY <1>1, Zenon DEF OpToRel
<1> QED BY <1>2

\* ... and a set of rows a last one.
LEMMA LastRow ==
    ASSUME NEW N \in Nat, NEW S \in SUBSET (1..N), S # {}
    PROVE  \E n \in S : \A m \in S : m <= n
<1> DEFINE T == {k \in 0..N : N - k \in S}
<1>1. T \in SUBSET Nat OBVIOUS
<1>2. T # {}
  <2>1. PICK n \in S : TRUE OBVIOUS
  <2>2. N - n \in 0..N /\ N - (N - n) = n BY <2>1
  <2> QED BY <2>1, <2>2
<1>3. PICK x \in T : \A y \in T : x <= y
  <2> HIDE DEF T
  <2> QED BY <1>1, <1>2, LeastNumber
<1>4. N - x \in S BY <1>3
<1>5. ASSUME NEW m \in S PROVE m <= N - x
  <2>1. N - m \in T BY <1>5
  <2>2. x <= N - m /\ x \in Nat BY <1>3, <2>1
  <2> QED BY <2>2
<1> QED BY <1>4, <1>5

\* The last of some events.
LEMMA LastChosen ==
    ASSUME AnomaliesTyped, NEW S \in SUBSET (1..Len(anomalies)), S # {}
    PROVE  LET n == CHOOSE n \in S : \A m \in S : m <= n
           IN  n \in S /\ \A m \in S : m <= n
<1>1. Len(anomalies) \in Nat BY DEF AnomaliesTyped
<1>2. \E n \in S : \A m \in S : m <= n BY <1>1, LastRow
<1> QED BY <1>2

\* An event is found by its id.
LEMMA RowOfId ==
    ASSUME IdsOK, NEW n \in 1..Len(anomalies)
    PROVE  Row(anomalies[n].id) = n
BY DEF IdsOK, Row

-----------------------------------------------------------------------------
\* Events that stay where they are, and neither open nor go on again.
Weakens ==
    /\ Len(anomalies') = Len(anomalies)
    /\ \A n \in 1..Len(anomalies) :
          /\ anomalies'[n].id = anomalies[n].id /\ anomalies'[n].type = anomalies[n].type
          /\ Unclosed(anomalies'[n]) => Unclosed(anomalies[n])
          /\ anomalies'[n].recovered = "no" => anomalies[n].recovered = "no"

\* Rows that weaken keep their ids and their order.
LEMMA WeakensRows ==
    ASSUME IdsOK, ActiveIsLast, Weakens
    PROVE  IdsOK' /\ ActiveIsLast'
<1>1. IdsOK' BY DEF IdsOK, Weakens
<1>2. ActiveIsLast' BY DEF ActiveIsLast, Weakens, Active
<1> QED BY <1>1, <1>2

\* What an ingestion that does not move knows stays true.
LEMMA WeakensKnown ==
    ASSUME Weakens, NEW i \in Ingestion, KnowsEvents(i), ingestions'[i] = ingestions[i],
           UNCHANGED candidates
    PROVE  KnowsEvents(i)'
<1>1. candidates' = candidates OBVIOUS
<1>2. ASSUME ingestions[i].step = "hit"
      PROVE  /\ ingestions[i].found # 0 => \E n \in 1..Len(anomalies') :
                   anomalies'[n].id = ingestions[i].found /\ anomalies'[n].type = ingestions[i].type
             /\ \A n \in 1..Len(anomalies') :
                   Active(anomalies'[n]) /\ anomalies'[n].type = ingestions[i].type =>
                       anomalies'[n].id = ingestions[i].found /\ ~ingestions[i].cool
    BY <1>2 DEF Weakens, KnowsEvents, Active
<1>3. ASSUME ingestions[i].step = "recovery"
      PROVE  \E n \in 1..Len(anomalies') :
                anomalies'[n].id = ingestions[i].found /\ ~Holds(candidates', anomalies'[n].type)
  <2>1. PICK n \in 1..Len(anomalies) :
           anomalies[n].id = ingestions[i].found /\ ~Holds(candidates, anomalies[n].type)
      BY <1>3 DEF KnowsEvents
  <2>2. anomalies'[n].id = ingestions[i].found /\ anomalies'[n].type = anomalies[n].type
        /\ n \in 1..Len(anomalies')
      BY <2>1 DEF Weakens
  <2>3. ~Holds(candidates', anomalies'[n].type) BY <1>1, <2>1, <2>2
  <2> QED BY <2>2, <2>3
<1>4. WritesEvents(i)' => \A t \in ingestions[i].recovered : ~Holds(candidates', t)
    BY <1>1 DEF KnowsEvents, WritesEvents
<1> QED BY <1>2, <1>3, <1>4 DEF KnowsEvents

\* An ingestion that does not write events knows nothing about them.
LEMMA KnowsNothing ==
    ASSUME NEW i \in Ingestion
    PROVE  ingestions'[i].step \notin {"persist", "hit", "recovery"} => KnowsEvents(i)'
BY DEF KnowsEvents, WritesEvents

\* What it knows stays true as well when no condition is confirmed any more.
LEMMA NothingHolds ==
    ASSUME WeightInv, NEW j \in Ingestion, ingestions'[j] = ingestions[j], UNCHANGED anomalies,
           \A t \in AnomalyType : ~Holds(candidates', t)
    PROVE  KnowsEvents(j)'
<1>1. \A n \in 1..Len(anomalies) : anomalies[n].type \in AnomalyType
  <2>1. \A n \in 1..Len(anomalies) : anomalies[n] \in AnomalyRow BY DEF WeightInv, AnomaliesTyped
  <2> QED BY <2>1 DEF AnomalyRow
<1>2. KnowsEvents(j) BY DEF WeightInv
<1>3. ingestions[j].step = "recovery" => \E n \in 1..Len(anomalies) :
         anomalies[n].id = ingestions[j].found /\ ~Holds(candidates', anomalies[n].type)
    BY <1>1, <1>2 DEF KnowsEvents
<1>4. WritesEvents(j) => ingestions[j].recovered \in SUBSET AnomalyType
    BY IngestionKinds DEF WeightInv, AnomaliesTyped, Persistence, Hitting, Recovering, WritesEvents
<1>5. WritesEvents(j) => \A t \in ingestions[j].recovered : ~Holds(candidates', t) BY <1>4
<1>6. Len(anomalies') = Len(anomalies) OBVIOUS
<1>7. WritesEvents(j)' = WritesEvents(j) BY DEF WritesEvents
<1> QED BY <1>2, <1>3, <1>5, <1>6, <1>7 DEF KnowsEvents

\* A step of an ingestion that does not write to the database.
LEMMA QuietIngestion ==
    ASSUME WeightInv, NEW i \in Ingestion, NEW g \in IngestionOf,
           ingestions' = [ingestions EXCEPT ![i] = g],
           UNCHANGED <<candidates, context, anomalies, reviews>>,
           KnowsEvents(i)', \A t \in AnomalyType : Carries(i, t) => Carries(i, t)'
    PROVE  WeightInv'
<1>1. ingestions'[i] = g /\ (\A j \in Ingestion \ {i} : ingestions'[j] = ingestions[j])
      /\ ingestions' \in [Ingestion -> IngestionOf]
    BY IngestionMoves DEF WeightInv
<1>2. AnomaliesTyped' BY <1>1 DEF WeightInv, AnomaliesTyped
<1>3. Weakens BY DEF Weakens
<1>4. \A j \in Ingestion : KnowsEvents(j)' BY <1>1, <1>3, WeakensKnown DEF WeightInv
<1>5. Recorded'
  <2> SUFFICES ASSUME NEW t \in AnomalyType, Holds(candidates, t)
               PROVE  OnRecord(t)' \/ \E j \in Ingestion : Carries(j, t)'
      BY DEF Recorded, Holds
  <2>1. CASE OnRecord(t) BY <2>1 DEF OnRecord
  <2>2. CASE \E j \in Ingestion : Carries(j, t)
    <3>1. PICK j \in Ingestion : Carries(j, t) BY <2>2
    <3>2. Carries(j, t)' BY <1>1, <3>1 DEF Carries
    <3> QED BY <3>2
  <2> QED BY <2>1, <2>2 DEF WeightInv, Recorded
<1> QED BY <1>2, <1>3, <1>4, <1>5, WeakensRows DEF WeightInv

\* A reading arrives and its context is loaded.
LEMMA LoadContextStep ==
    ASSUME WeightInv, NEW i \in Ingestion, (\E r \in Reading : Arrive(i, r)) \/ LoadContext(i)
    PROVE  WeightInv'
<1>1. ingestions[i] \in IngestionOf /\ context \in {"none"} \cup PlatformState
    BY DEF WeightInv, AnomaliesTyped
<1>2. ASSUME NEW r \in Reading, Arrive(i, r) PROVE WeightInv'
  <2> DEFINE g == [step |-> "arrived", reading |-> r]
  <2>1. ingestions' = [ingestions EXCEPT ![i] = g] /\ UNCHANGED <<candidates, context, anomalies, reviews>>
        /\ ingestions[i].step = "idle"
      BY <1>2 DEF Arrive, NoIngestion
  <2>2. g \in IngestionOf /\ g.step = "arrived" BY DEF IngestionOf, Arriving
  <2> HIDE DEF g
  <2>3. KnowsEvents(i)' BY <2>1, <2>2, IngestionMoves, KnowsNothing DEF WeightInv
  <2>4. \A t : ~Carries(i, t) BY <2>1 DEF Carries
  <2> QED BY <2>1, <2>2, <2>3, <2>4, QuietIngestion
<1>3. CASE LoadContext(i)
  <2> DEFINE platform == IF context # "none" THEN context ELSE DerivePlatformState(maintenance, openStatus)
             g == [step |-> "loaded", reading |-> ingestions[i].reading, cached |-> context # "none",
                   platform |-> platform]
  <2>1. ingestions' = [ingestions EXCEPT ![i] = g] /\ UNCHANGED <<candidates, context, anomalies, reviews>>
        /\ ingestions[i].step = "arrived"
      BY <1>3 DEF LoadContext
  <2>2. ingestions[i].reading \in Reading BY <1>1, <2>1, IngestionKinds DEF Arriving
  <2>3. platform \in PlatformState BY <1>1 DEF DerivePlatformState, PlatformState
  <2>4. (context # "none") \in BOOLEAN OBVIOUS
  <2> HIDE DEF platform
  <2>5. g \in IngestionOf /\ g.step = "loaded" BY <2>2, <2>3, <2>4 DEF IngestionOf, Evaluating
  <2> HIDE DEF g
  <2>6. KnowsEvents(i)' BY <2>1, <2>5, IngestionMoves, KnowsNothing DEF WeightInv
  <2>7. \A t : ~Carries(i, t) BY <2>1 DEF Carries
  <2> QED BY <2>1, <2>5, <2>6, <2>7, QuietIngestion
<1> QED BY <1>2, <1>3

\* evaluateWeightAnomaly: what the new reading confirms is to be written, what
\* it does not hit has ended.  Another ingestion that writes could do neither.
LEMMA EvaluateStep ==
    ASSUME WeightInv, OneWritesEvents', NEW i \in Ingestion, EvaluateWeightAnomaly(i)
    PROVE  WeightInv'
<1> DEFINE platform == ingestions[i].platform
           hits == Hits(ingestions[i].reading, platform)
           next == NextCandidates(hits)
           confirmed == {t \in hits : ConditionConfirmed(t, next[t])}
           g == Persisting(confirmed, AnomalyType \ hits, platform)
<1>1. /\ ingestions[i].step = "loaded" /\ candidates' = next
      /\ context' = IF ingestions[i].cached THEN context ELSE platform
      /\ ingestions' = [ingestions EXCEPT ![i] = g] /\ UNCHANGED <<anomalies, reviews>>
    BY DEF EvaluateWeightAnomaly
<1>2. platform \in PlatformState BY <1>1, IngestionKinds DEF WeightInv, AnomaliesTyped, Evaluating
<1>3. hits \in SUBSET AnomalyType BY DEF Hits
<1>4. candidates \in [AnomalyType -> Nat] BY DEF WeightInv, AnomaliesTyped
<1> HIDE DEF hits
<1>5. next \in [AnomalyType -> Nat] /\ \A t \in AnomalyType \ hits : next[t] = 0
    BY <1>4 DEF NextCandidates
<1> HIDE DEF next
<1>6. confirmed \in SUBSET AnomalyType BY <1>3
<1>7. \A t \in AnomalyType : Holds(candidates', t) => t \in confirmed BY <1>1, <1>5 DEF Holds
<1>8. /\ g \in IngestionOf
      /\ \/ g.step = "idle" /\ confirmed = {}
         \/ g.step = "persist" /\ g.hits = confirmed /\ g.recovered = AnomalyType \ hits
  <2> DEFINE others == AnomalyType \ hits
  <2>1. others \in SUBSET AnomalyType OBVIOUS
  <2>2. g = Persisting(confirmed, others, platform) OBVIOUS
  <2> HIDE DEF confirmed, platform, others, g
  <2>3. /\ g \in IngestionOf
        /\ \/ g.step = "idle" /\ confirmed = {}
           \/ g.step = "persist" /\ g.hits = confirmed /\ g.recovered = others
      BY <1>2, <1>6, <2>1, <2>2, PersistingKinds
  <2> QED BY <2>3 DEF others
<1> HIDE DEF confirmed, g, platform
<1>9. ingestions'[i] = g /\ (\A j \in Ingestion \ {i} : ingestions'[j] = ingestions[j])
      /\ ingestions' \in [Ingestion -> IngestionOf]
    BY <1>1, <1>8, IngestionMoves DEF WeightInv
<1>10. AnomaliesTyped' BY <1>1, <1>2, <1>5, <1>9 DEF WeightInv, AnomaliesTyped
<1>11. IdsOK' /\ ActiveIsLast' BY <1>1, WeakensRows DEF Weakens, WeightInv
<1>12. KnowsEvents(i)'
  <2>1. \A t \in AnomalyType \ hits : ~Holds(candidates', t) BY <1>1, <1>5 DEF Holds
  <2> QED BY <1>8, <1>9, <2>1 DEF KnowsEvents, WritesEvents
<1>13. ASSUME NEW j \in Ingestion, j # i PROVE KnowsEvents(j)'
  <2>1. CASE ingestions[j].step \notin {"persist", "hit", "recovery"}
      BY <1>9, <1>13, <2>1, KnowsNothing
  <2>2. CASE ingestions[j].step \in {"persist", "hit", "recovery"}
    <3>1. WritesEvents(j)' /\ ~WritesEvents(i)'
        BY <1>9, <1>13, <2>2 DEF WritesEvents, OneWritesEvents
    <3>2. confirmed = {} BY <1>8, <1>9, <3>1 DEF WritesEvents
    <3>3. \A t \in AnomalyType : ~Holds(candidates', t) BY <1>7, <3>2
    <3> QED BY <1>1, <1>9, <1>13, <3>3, NothingHolds
  <2> QED BY <2>1, <2>2
<1>14. Recorded'
  <2>1. \A t \in AnomalyType : Holds(candidates', t) => Carries(i, t)' BY <1>7, <1>8, <1>9 DEF Carries
  <2> QED BY <2>1 DEF Recorded
<1> QED BY <1>10, <1>11, <1>12, <1>13, <1>14 DEF WeightInv

-----------------------------------------------------------------------------
\* persistHit finds the event that goes on, if there is one.
LEMMA FindForHitStep ==
    ASSUME WeightInv, NEW i \in Ingestion, NEW t \in AnomalyType, FindForHit(i, t)
    PROVE  WeightInv'
<1> DEFINE S == {n \in 1..Len(anomalies) : anomalies[n].type = t /\ Unclosed(anomalies[n])}
           last == CHOOSE n \in S : \A m \in S : m <= n
           found == IF S = {} THEN 0 ELSE anomalies[last].id
           cool == found # 0 /\ anomalies[Row(found)].recovered = "long ago"
           old == ingestions[i]
           g == [step |-> "hit", hits |-> old.hits \ {t}, recovered |-> old.recovered,
                 platform |-> old.platform, type |-> t, found |-> found, cool |-> cool]
<1>1. /\ old.step = "persist" /\ t \in old.hits
      /\ ingestions' = [ingestions EXCEPT ![i] = g]
      /\ UNCHANGED <<candidates, context, anomalies, reviews>>
    BY DEF FindForHit, LastOf
<1>2. old \in Persistence BY <1>1, IngestionKinds DEF WeightInv, AnomaliesTyped
<1>3. anomalies \in Seq(AnomalyRow) /\ IdsOK /\ ActiveIsLast BY DEF WeightInv, AnomaliesTyped
<1>4. S # {} => last \in S /\ \A m \in S : m <= last
  <2> HIDE DEF S
  <2>1. S \in SUBSET (1..Len(anomalies)) BY DEF S
  <2> QED BY <2>1, LastChosen DEF WeightInv
<1> HIDE DEF last
<1>5. found \in Nat /\ cool \in BOOLEAN
  <2>1. CASE S = {} BY <2>1
  <2>2. CASE S # {}
    <3>1. last \in 1..Len(anomalies) /\ anomalies[last].id \in 1..Len(anomalies)
        BY <1>3, <1>4, <2>2 DEF IdsOK
    <3> QED BY <1>3, <2>2, <3>1
  <2> QED BY <2>1, <2>2
<1>6. found # 0 => \E n \in 1..Len(anomalies) : anomalies[n].id = found /\ anomalies[n].type = t
    BY <1>4
<1>7. \A n \in 1..Len(anomalies) :
         Active(anomalies[n]) /\ anomalies[n].type = t => anomalies[n].id = found /\ ~cool
  <2> SUFFICES ASSUME NEW n \in 1..Len(anomalies), Active(anomalies[n]), anomalies[n].type = t
               PROVE  anomalies[n].id = found /\ ~cool
      OBVIOUS
  <2>1. n \in S BY DEF Active
  <2>2. last \in S /\ n <= last BY <1>4, <2>1
  <2>3. last \in 1..Len(anomalies) /\ Unclosed(anomalies[last]) /\ anomalies[last].type = t BY <2>2
  <2>4. last <= n BY <1>3, <2>3 DEF ActiveIsLast
  <2>5. n = last BY <2>2, <2>3, <2>4
  <2>6. found = anomalies[n].id BY <2>1, <2>5
  <2>7. Row(found) = n BY <1>3, <2>6, RowOfId
  <2> QED BY <2>6, <2>7 DEF Active
<1> HIDE DEF found, cool, S
<1>8. g \in IngestionOf BY <1>2, <1>5 DEF Persistence, IngestionOf, Hitting
<1>9. /\ g.step = "hit" /\ g.type = t /\ g.found = found /\ g.cool = cool
      /\ g.recovered = old.recovered /\ g.hits = old.hits \ {t}
    OBVIOUS
<1> HIDE DEF g
<1>10. ingestions'[i] = g BY <1>1, IngestionMoves DEF WeightInv
<1>11. KnowsEvents(i)'
  <2>1. \A x \in old.recovered : ~Holds(candidates, x) BY <1>1 DEF WeightInv, KnowsEvents, WritesEvents
  <2> QED BY <1>1, <1>6, <1>7, <1>9, <1>10, <2>1 DEF KnowsEvents
<1>12. \A x \in AnomalyType : Carries(i, x) => Carries(i, x)'
    BY <1>1, <1>9, <1>10 DEF Carries
<1> HIDE DEF old
<1> QED BY <1>1, <1>8, <1>11, <1>12, QuietIngestion

\* persistRecovery finds an event of a rule that does not hit.
LEMMA FindForRecoveryStep ==
    ASSUME WeightInv, NEW i \in Ingestion, NEW t \in AnomalyType, FindForRecovery(i, t)
    PROVE  WeightInv'
<1> DEFINE S == {n \in 1..Len(anomalies) :
                    anomalies[n].type = t /\ Unclosed(anomalies[n]) /\ anomalies[n].recovered = "no"}
           last == CHOOSE n \in S : \A m \in S : m <= n
           found == IF S = {} THEN 0 ELSE anomalies[last].id
           old == ingestions[i]
           left == old.recovered \ {t}
           g == IF found = 0 THEN Persisting({}, left, old.platform)
                ELSE [step |-> "recovery", hits |-> {}, recovered |-> left,
                      platform |-> old.platform, found |-> found]
<1>1. /\ old.step = "persist" /\ old.hits = {} /\ t \in old.recovered
      /\ ingestions' = [ingestions EXCEPT ![i] = g]
      /\ UNCHANGED <<candidates, context, anomalies, reviews>>
    BY DEF FindForRecovery, LastOf
<1>2. old \in Persistence BY <1>1, IngestionKinds DEF WeightInv, AnomaliesTyped
<1>3. anomalies \in Seq(AnomalyRow) /\ IdsOK BY DEF WeightInv, AnomaliesTyped
<1>4. S # {} => last \in S
  <2> HIDE DEF S
  <2>1. S \in SUBSET (1..Len(anomalies)) BY DEF S
  <2> QED BY <2>1, LastChosen DEF WeightInv
<1> HIDE DEF last
<1>5. found \in Nat
  <2>1. CASE S = {} BY <2>1
  <2>2. CASE S # {} BY <1>3, <1>4, <2>2 DEF IdsOK
  <2> QED BY <2>1, <2>2
<1>6. found # 0 => \E n \in 1..Len(anomalies) : anomalies[n].id = found /\ anomalies[n].type = t
    BY <1>4
<1> HIDE DEF found, S
<1>7. left \in SUBSET AnomalyType /\ {} \in SUBSET AnomalyType /\ old.platform \in PlatformState
    BY <1>2 DEF Persistence
<1>8. \A x \in old.recovered : ~Holds(candidates, x) BY <1>1 DEF WeightInv, KnowsEvents, WritesEvents
<1>9. \A x \in left : ~Holds(candidates, x) BY <1>8
<1> HIDE DEF left
<1>10. \A x \in AnomalyType : ~Carries(i, x) BY <1>1 DEF Carries
<1>11. CASE found = 0
  <2>1. g = Persisting({}, left, old.platform) BY <1>11
  <2> HIDE DEF g, old
  <2>2. g \in IngestionOf /\ (g.step = "idle" \/ (g.step = "persist" /\ g.recovered = left))
      BY <1>7, <2>1, PersistingKinds
  <2>3. ingestions'[i] = g BY <1>1, IngestionMoves DEF WeightInv
  <2>4. KnowsEvents(i)' BY <1>1, <1>9, <2>2, <2>3 DEF KnowsEvents, WritesEvents
  <2> QED BY <1>1, <1>10, <2>2, <2>4, QuietIngestion
<1>12. CASE found # 0
  <2>1. g = [step |-> "recovery", hits |-> {}, recovered |-> left,
             platform |-> old.platform, found |-> found]
      BY <1>12
  <2> HIDE DEF g, old
  <2>2. g \in IngestionOf /\ g.step = "recovery" /\ g.recovered = left /\ g.found = found
      BY <1>5, <1>7, <2>1 DEF IngestionOf, Recovering
  <2>3. ingestions'[i] = g BY <1>1, IngestionMoves DEF WeightInv
  <2>4. PICK n \in 1..Len(anomalies) : anomalies[n].id = found /\ anomalies[n].type = t BY <1>6, <1>12
  <2>5. ~Holds(candidates, anomalies[n].type) BY <1>1, <1>8, <2>4
  <2>6. KnowsEvents(i)' BY <1>1, <1>9, <2>2, <2>3, <2>4, <2>5 DEF KnowsEvents, WritesEvents
  <2> QED BY <1>1, <1>10, <2>2, <2>6, QuietIngestion
<1> QED BY <1>11, <1>12

-----------------------------------------------------------------------------
\* An ingestion that has written an event goes on with the rest; no other one
\* writes events.
LEMMA WritingMoves ==
    ASSUME WeightInv, OneWritesEvents, NEW i \in Ingestion, ingestions[i].step \in {"hit", "recovery"},
           ingestions' = [ingestions EXCEPT ![i] = Persisted(i)], UNCHANGED candidates
    PROVE  /\ ingestions' \in [Ingestion -> IngestionOf]
           /\ \A j \in Ingestion : KnowsEvents(j)'
           /\ \A t \in ingestions[i].hits : Carries(i, t)'
           /\ \A t \in AnomalyType, j \in Ingestion : Carries(j, t) => j = i
<1> DEFINE old == ingestions[i]
           g == Persisting(old.hits, old.recovered, old.platform)
<1>1. /\ old.hits \in SUBSET AnomalyType /\ old.recovered \in SUBSET AnomalyType
      /\ old.platform \in PlatformState
    BY IngestionKinds DEF WeightInv, AnomaliesTyped, Hitting, Recovering
<1>2. ingestions' = [ingestions EXCEPT ![i] = g] BY DEF Persisted
<1>3. \A x \in old.recovered : ~Holds(candidates, x) BY DEF WeightInv, KnowsEvents, WritesEvents
<1> HIDE DEF old
<1>4. /\ g \in IngestionOf
      /\ \/ g.step = "idle" /\ old.hits = {}
         \/ g.step = "persist" /\ g.hits = old.hits /\ g.recovered = old.recovered
    BY <1>1, PersistingKinds
<1> HIDE DEF g
<1>5. ingestions'[i] = g /\ (\A j \in Ingestion \ {i} : ingestions'[j] = ingestions[j])
      /\ ingestions' \in [Ingestion -> IngestionOf]
    BY <1>2, <1>4, IngestionMoves DEF WeightInv
<1>6. \A j \in Ingestion \ {i} : ~WritesEvents(j) BY DEF OneWritesEvents, WritesEvents
<1>7. \A j \in Ingestion \ {i} : KnowsEvents(j)' BY <1>5, <1>6, KnowsNothing DEF WritesEvents
<1>8. KnowsEvents(i)' BY <1>3, <1>4, <1>5 DEF KnowsEvents, WritesEvents
<1>9. \A t \in old.hits : Carries(i, t)' BY <1>4, <1>5 DEF Carries
<1>10. \A t \in AnomalyType, j \in Ingestion : Carries(j, t) => j = i
    BY <1>6 DEF Carries, WritesEvents
<1> QED BY <1>5, <1>7, <1>8, <1>9, <1>10 DEF old

\* createEvent: none of the type goes on.
LEMMA CreateEventStep ==
    ASSUME WeightInv, OneWritesEvents, NEW i \in Ingestion, CreateEvent(i)
    PROVE  WeightInv'
<1> DEFINE old == ingestions[i]
           N == Len(anomalies)
           r == [id |-> N + 1, type |-> old.type, status |-> "OPEN",
                 security |-> "OPEN", recovered |-> "no", seenIn |-> old.platform]
<1>1. /\ old.step = "hit" /\ (old.found = 0 \/ old.cool)
      /\ anomalies' = Append(anomalies, r)
      /\ ingestions' = [ingestions EXCEPT ![i] = Persisted(i)]
      /\ UNCHANGED <<candidates, context, reviews>>
    BY DEF CreateEvent
<1>2. old \in Hitting BY <1>1, IngestionKinds DEF WeightInv, AnomaliesTyped
<1>3. anomalies \in Seq(AnomalyRow) /\ N \in Nat BY DEF WeightInv, AnomaliesTyped
<1>4. r \in AnomalyRow /\ r.id = N + 1 /\ r.type = old.type /\ r.recovered = "no"
  <2>1. old.type \in AnomalyType /\ old.platform \in PlatformState /\ N + 1 \in Nat
      BY <1>2, <1>3 DEF Hitting
  <2> HIDE DEF old, N
  <2> QED BY <2>1 DEF AnomalyRow, AnomalyStatus, RecoveryState
<1>5. \A n \in 1..N : ~(Active(anomalies[n]) /\ anomalies[n].type = old.type)
  <2>1. \A n \in 1..N : anomalies[n].id # 0 BY <1>3 DEF WeightInv, IdsOK
  <2> QED BY <1>1, <2>1 DEF WeightInv, KnowsEvents
<1> HIDE DEF r
<1>6. /\ anomalies' \in Seq(AnomalyRow) /\ Len(anomalies') = N + 1 /\ anomalies'[N + 1] = r
      /\ \A n \in 1..N : anomalies'[n] = anomalies[n]
    BY <1>1, <1>3, <1>4
<1>7. \A n \in 1..Len(anomalies') : n \in 1..N \/ n = N + 1 BY <1>3, <1>6
<1> HIDE DEF N
<1>8. IdsOK'
  <2>1. \A n \in 1..N : anomalies'[n].id \in 1..N BY <1>6 DEF WeightInv, IdsOK, N
  <2>2. \A m, n \in 1..N : anomalies'[m].id = anomalies'[n].id => m = n
      BY <1>6 DEF WeightInv, IdsOK, N
  <2>3. \A n \in 1..Len(anomalies') : anomalies'[n].id \in 1..Len(anomalies')
      BY <1>3, <1>4, <1>6, <1>7, <2>1
  <2>4. \A m, n \in 1..Len(anomalies') : anomalies'[m].id = anomalies'[n].id => m = n
      BY <1>3, <1>4, <1>6, <1>7, <2>1, <2>2
  <2> QED BY <2>3, <2>4 DEF IdsOK
<1>9. ActiveIsLast'
  <2> SUFFICES ASSUME NEW m \in 1..Len(anomalies'), NEW n \in 1..Len(anomalies'),
                      Active(anomalies'[m]), Unclosed(anomalies'[n]),
                      anomalies'[m].type = anomalies'[n].type
               PROVE  n <= m
      BY DEF ActiveIsLast
  <2>1. CASE m = N + 1 BY <1>3, <1>6, <2>1
  <2>2. CASE m \in 1..N /\ n \in 1..N BY <1>6, <2>2 DEF WeightInv, ActiveIsLast, N
  <2>3. CASE m \in 1..N /\ n = N + 1 BY <1>4, <1>5, <1>6, <2>3
  <2> QED BY <1>7, <2>1, <2>2, <2>3
<1>10. /\ ingestions' \in [Ingestion -> IngestionOf]
       /\ \A j \in Ingestion : KnowsEvents(j)'
       /\ \A t \in old.hits : Carries(i, t)'
       /\ \A t \in AnomalyType, j \in Ingestion : Carries(j, t) => j = i
    BY <1>1, WritingMoves
<1>11. AnomaliesTyped' BY <1>1, <1>6, <1>10 DEF WeightInv, AnomaliesTyped
<1>12. Recorded'
  <2> SUFFICES ASSUME NEW t \in AnomalyType, Holds(candidates, t)
               PROVE  OnRecord(t)' \/ \E j \in Ingestion : Carries(j, t)'
      BY <1>1 DEF Recorded
  <2>1. CASE t = old.type
    <3>1. N + 1 \in 1..Len(anomalies') BY <1>3, <1>6
    <3> QED BY <1>4, <1>6, <2>1, <3>1 DEF OnRecord
  <2>2. CASE t \in old.hits BY <1>10, <2>2
  <2>3. CASE t # old.type /\ t \notin old.hits
    <3>1. ~Carries(i, t) BY <1>1, <2>3 DEF Carries
    <3>2. OnRecord(t) BY <1>10, <3>1 DEF WeightInv, Recorded
    <3>3. PICK n \in 1..N : anomalies[n].type = t /\ anomalies[n].recovered = "no"
        BY <3>2 DEF OnRecord, N
    <3>4. n \in 1..Len(anomalies') BY <1>3, <1>6
    <3> QED BY <1>6, <3>3, <3>4 DEF OnRecord
  <2> QED BY <2>1, <2>2, <2>3
<1> QED BY <1>8, <1>9, <1>10, <1>11, <1>12 DEF WeightInv

\* The event n is written as a: it is last now, the others keep their order.
LEMMA Moved ==
    ASSUME NEW N \in Nat, NEW n \in 1..N
    PROVE  LET p == [k \in 1..N |-> IF k = N THEN n ELSE IF k < n THEN k ELSE k + 1]
           IN  /\ \A k \in 1..N : p[k] \in 1..N
               /\ p[N] = n /\ \A k \in 1..N : k < N => p[k] # n
               /\ \A k, m \in 1..N : k < N /\ m < N => (p[k] <= p[m] <=> k <= m)
               /\ \A k, m \in 1..N : p[k] = p[m] => k = m
               /\ \A r \in 1..N : \E k \in 1..N : p[k] = r
<1> DEFINE p == [k \in 1..N |-> IF k = N THEN n ELSE IF k < n THEN k ELSE k + 1]
<1>1. \A k \in 1..N : p[k] = IF k = N THEN n ELSE IF k < n THEN k ELSE k + 1 OBVIOUS
<1>2. \A k \in 1..N : p[k] \in 1..N BY <1>1
<1> HIDE DEF p
<1>3. p[N] = n /\ \A k \in 1..N : k < N => p[k] # n BY <1>1
<1>4. \A k, m \in 1..N : k < N /\ m < N => (p[k] <= p[m] <=> k <= m) BY <1>1
<1>5. \A k, m \in 1..N : p[k] = p[m] => k = m BY <1>1
<1>6. ASSUME NEW r \in 1..N PROVE \E k \in 1..N : p[k] = r
  <2>1. CASE r = n
    <3>1. N \in 1..N /\ p[N] = r BY <1>1, <2>1
    <3> QED BY <3>1
  <2>2. CASE r < n
    <3>1. r # N /\ p[r] = r BY <1>1, <2>2
    <3> QED BY <3>1
  <2>3. CASE r > n
    <3>1. r - 1 \in 1..N /\ r - 1 # N /\ ~(r - 1 < n) BY <2>3
    <3>2. p[r - 1] = r BY <1>1, <3>1
    <3> QED BY <3>1, <3>2
  <2> QED BY <2>1, <2>2, <2>3
<1> QED BY <1>2, <1>3, <1>4, <1>5, <1>6 DEF p

\* updateEvent: the event that goes on, or one that was closed meanwhile.
LEMMA UpdateEventStep ==
    ASSUME WeightInv, OneWritesEvents, NEW i \in Ingestion, UpdateEvent(i)
    PROVE  WeightInv'
<1> DEFINE old == ingestions[i]
           N == Len(anomalies)
           n == Row(old.found)
           a == [anomalies[n] EXCEPT !.recovered = "no", !.seenIn = old.platform]
           p == [k \in 1..N |-> IF k = N THEN n ELSE IF k < n THEN k ELSE k + 1]
<1>1. /\ old.step = "hit" /\ old.found # 0 /\ ~old.cool
      /\ anomalies' = DetectedLast(n, a)
      /\ ingestions' = [ingestions EXCEPT ![i] = Persisted(i)]
      /\ UNCHANGED <<candidates, context, reviews>>
    BY DEF UpdateEvent
<1>2. old \in Hitting BY <1>1, IngestionKinds DEF WeightInv, AnomaliesTyped
<1>3. anomalies \in Seq(AnomalyRow) /\ N \in Nat BY DEF WeightInv, AnomaliesTyped
<1>4. n \in 1..N /\ anomalies[n].id = old.found /\ anomalies[n].type = old.type
  <2>1. PICK r \in 1..N : anomalies[r].id = old.found /\ anomalies[r].type = old.type
      BY <1>1 DEF WeightInv, KnowsEvents
  <2>2. Row(anomalies[r].id) = r BY <2>1, RowOfId DEF WeightInv
  <2> QED BY <2>1, <2>2
<1>5. \A k \in 1..N : Active(anomalies[k]) /\ anomalies[k].type = old.type => k = n
  <2>1. \A k \in 1..N : Active(anomalies[k]) /\ anomalies[k].type = old.type => anomalies[k].id = old.found
      BY <1>1 DEF WeightInv, KnowsEvents
  <2> QED BY <1>4, <2>1 DEF WeightInv, IdsOK
<1> HIDE DEF n
<1>6. /\ a \in AnomalyRow /\ a.recovered = "no"
      /\ a.id = anomalies[n].id /\ a.type = anomalies[n].type /\ a.status = anomalies[n].status
  <2>1. anomalies[n] \in AnomalyRow BY <1>3, <1>4
  <2>2. old.platform \in PlatformState BY <1>2 DEF Hitting
  <2> HIDE DEF old
  <2> QED BY <2>1, <2>2 DEF AnomalyRow, RecoveryState
<1>7. /\ \A k \in 1..N : p[k] \in 1..N
      /\ p[N] = n /\ \A k \in 1..N : k < N => p[k] # n
      /\ \A k, m \in 1..N : k < N /\ m < N => (p[k] <= p[m] <=> k <= m)
      /\ \A k, m \in 1..N : p[k] = p[m] => k = m
      /\ \A r \in 1..N : \E k \in 1..N : p[k] = r
  <2> HIDE DEF N, old
  <2> QED BY <1>3, <1>4, Moved
<1>8. N \in 1..N BY <1>3, <1>4
<1>9. anomalies' = [k \in 1..N |-> IF k = N THEN a ELSE anomalies[IF k < n THEN k ELSE k + 1]]
    BY <1>1 DEF DetectedLast
<1> HIDE DEF a
<1>10. \A k \in 1..N : anomalies'[k] = IF k = N THEN a ELSE anomalies[p[k]] BY <1>9
<1> HIDE DEF p
<1>11. anomalies' \in Seq(AnomalyRow) /\ Len(anomalies') = N
  <2>1. \A k \in 1..N : anomalies[k] \in AnomalyRow BY <1>3
  <2>2. ASSUME NEW k \in 1..N PROVE anomalies'[k] \in AnomalyRow
    <3>1. p[k] \in 1..N BY <1>7
    <3>2. anomalies[p[k]] \in AnomalyRow BY <2>1, <3>1
    <3> HIDE DEF N
    <3> QED BY <1>6, <1>10, <3>2
  <2> HIDE DEF N
  <2> QED BY <1>3, <1>9, <2>2
<1> HIDE DEF N
<1>12. \A k \in 1..N : anomalies'[k].id = anomalies[p[k]].id /\ anomalies'[k].type = anomalies[p[k]].type
                    /\ anomalies'[k].status = anomalies[p[k]].status
    BY <1>6, <1>7, <1>10
<1>13. IdsOK'
  <2>1. \A k \in 1..N : anomalies[k].id \in 1..N BY DEF WeightInv, IdsOK, N
  <2>2. \A k, m \in 1..N : anomalies[k].id = anomalies[m].id => k = m BY DEF WeightInv, IdsOK, N
  <2>3. \A k \in 1..N : anomalies'[k].id \in 1..N BY <1>7, <1>12, <2>1
  <2>4. \A k, m \in 1..N : anomalies'[k].id = anomalies'[m].id => k = m BY <1>7, <1>12, <2>2
  <2> QED BY <1>11, <2>3, <2>4 DEF IdsOK
<1>14. ActiveIsLast'
  <2> SUFFICES ASSUME NEW m \in 1..N, NEW k \in 1..N,
                      Active(anomalies'[m]), Unclosed(anomalies'[k]),
                      anomalies'[m].type = anomalies'[k].type
               PROVE  k <= m
      BY <1>11 DEF ActiveIsLast
  <2>1. CASE m = N BY <1>3, <2>1
  <2>2. CASE m < N
    <3>1. Active(anomalies[p[m]]) /\ p[m] \in 1..N /\ p[m] # n
        BY <1>3, <1>7, <1>10, <2>2
    <3>2. Unclosed(anomalies[p[k]]) /\ p[k] \in 1..N /\ anomalies[p[m]].type = anomalies[p[k]].type
        BY <1>7, <1>12 DEF Unclosed
    <3>3. p[k] <= p[m] BY <3>1, <3>2 DEF WeightInv, ActiveIsLast, N
    <3>4. k # N
      <4>1. SUFFICES ASSUME k = N PROVE FALSE OBVIOUS
      <4>2. p[k] = n BY <1>7, <4>1
      <4>3. anomalies[p[m]].type = old.type BY <1>4, <3>2, <4>2
      <4> QED BY <1>5, <3>1, <4>3
    <3>5. k < N BY <1>3, <3>4
    <3> QED BY <1>7, <2>2, <3>3, <3>5
  <2> QED BY <1>3, <2>1, <2>2
<1>15. /\ ingestions' \in [Ingestion -> IngestionOf]
       /\ \A j \in Ingestion : KnowsEvents(j)'
       /\ \A t \in old.hits : Carries(i, t)'
       /\ \A t \in AnomalyType, j \in Ingestion : Carries(j, t) => j = i
    BY <1>1, WritingMoves
<1>16. AnomaliesTyped' BY <1>1, <1>11, <1>15 DEF WeightInv, AnomaliesTyped
<1>17. Recorded'
  <2> SUFFICES ASSUME NEW t \in AnomalyType, Holds(candidates, t)
               PROVE  OnRecord(t)' \/ \E j \in Ingestion : Carries(j, t)'
      BY <1>1 DEF Recorded
  <2>1. CASE t = old.type
    <3>1. anomalies'[N].type = t /\ anomalies'[N].recovered = "no" BY <1>4, <1>6, <1>8, <1>10, <2>1
    <3> QED BY <1>8, <1>11, <3>1 DEF OnRecord
  <2>2. CASE t \in old.hits BY <1>15, <2>2
  <2>3. CASE t # old.type /\ t \notin old.hits
    <3>1. ~Carries(i, t) BY <1>1, <2>3 DEF Carries
    <3>2. OnRecord(t) BY <1>15, <3>1 DEF WeightInv, Recorded
    <3>3. PICK r \in 1..N : anomalies[r].type = t /\ anomalies[r].recovered = "no"
        BY <3>2 DEF OnRecord, N
    <3>4. PICK k \in 1..N : p[k] = r BY <1>7
    <3>5. k # N BY <1>4, <1>7, <2>3, <3>3, <3>4
    <3>6. anomalies'[k] = anomalies[r] BY <1>10, <3>4, <3>5
    <3> QED BY <1>11, <3>3, <3>6 DEF OnRecord
  <2> QED BY <2>1, <2>2, <2>3
<1> QED BY <1>13, <1>14, <1>15, <1>16, <1>17 DEF WeightInv

\* One column of an event is written.
LEMMA RecoveryWritten ==
    ASSUME anomalies \in Seq(AnomalyRow), NEW n, NEW v \in RecoveryState,
           anomalies' = [anomalies EXCEPT ![n].recovered = v]
    PROVE  /\ anomalies' \in Seq(AnomalyRow) /\ Len(anomalies') = Len(anomalies)
           /\ \A k \in 1..Len(anomalies) :
                 /\ anomalies'[k].id = anomalies[k].id /\ anomalies'[k].type = anomalies[k].type
                 /\ anomalies'[k].status = anomalies[k].status
                 /\ anomalies'[k].recovered = IF k = n THEN v ELSE anomalies[k].recovered
<1> DEFINE r == [anomalies[n] EXCEPT !.recovered = v]
<1>1. ASSUME n \in 1..Len(anomalies)
      PROVE  r \in AnomalyRow /\ r.recovered = v
             /\ r.id = anomalies[n].id /\ r.type = anomalies[n].type /\ r.status = anomalies[n].status
  <2> DEFINE a == anomalies[n]
  <2>1. a \in AnomalyRow BY <1>1
  <2> HIDE DEF a
  <2>2. LET b == [a EXCEPT !.recovered = v]
        IN  b \in AnomalyRow /\ b.recovered = v
            /\ b.id = a.id /\ b.type = a.type /\ b.status = a.status
      BY <2>1 DEF AnomalyRow
  <2> QED BY <2>2 DEF a
<1>2. anomalies' = [anomalies EXCEPT ![n] = r] OBVIOUS
<1> HIDE DEF r
<1>3. /\ anomalies' \in Seq(AnomalyRow) /\ Len(anomalies') = Len(anomalies)
      /\ \A k \in 1..Len(anomalies) : anomalies'[k] = IF k = n THEN r ELSE anomalies[k]
  <2>1. CASE n \in 1..Len(anomalies)
    <3>1. r \in AnomalyRow BY <1>1, <2>1
    <3> QED BY <1>2, <2>1, <3>1, ExceptSeq
  <2>2. CASE n \notin 1..Len(anomalies)
    <3>1. anomalies' = anomalies BY <1>2, <2>2
    <3> QED BY <2>2, <3>1
  <2> QED BY <2>1, <2>2
<1> QED BY <1>1, <1>3

\* The status is written, of an event that may not be there.
LEMMA StatusWritten ==
    ASSUME anomalies \in Seq(AnomalyRow), NEW n, NEW v \in AnomalyStatus,
           anomalies' = [anomalies EXCEPT ![n].status = v]
    PROVE  /\ anomalies' \in Seq(AnomalyRow) /\ Len(anomalies') = Len(anomalies)
           /\ \A k \in 1..Len(anomalies) :
                 /\ anomalies'[k].id = anomalies[k].id /\ anomalies'[k].type = anomalies[k].type
                 /\ anomalies'[k].recovered = anomalies[k].recovered
                 /\ \/ anomalies'[k].status = anomalies[k].status
                    \/ anomalies'[k].status = v /\ anomalies[k].status = anomalies[n].status
<1> DEFINE r == [anomalies[n] EXCEPT !.status = v]
<1>1. ASSUME n \in 1..Len(anomalies)
      PROVE  r \in AnomalyRow /\ r.status = v
             /\ r.id = anomalies[n].id /\ r.type = anomalies[n].type /\ r.recovered = anomalies[n].recovered
  <2> DEFINE a == anomalies[n]
  <2>1. a \in AnomalyRow BY <1>1
  <2> HIDE DEF a
  <2>2. LET b == [a EXCEPT !.status = v]
        IN  b \in AnomalyRow /\ b.status = v
            /\ b.id = a.id /\ b.type = a.type /\ b.recovered = a.recovered
      BY <2>1 DEF AnomalyRow
  <2> QED BY <2>2 DEF a
<1>2. anomalies' = [anomalies EXCEPT ![n] = r] OBVIOUS
<1> HIDE DEF r
<1>3. /\ anomalies' \in Seq(AnomalyRow) /\ Len(anomalies') = Len(anomalies)
      /\ \A k \in 1..Len(anomalies) : anomalies'[k] = IF k = n THEN r ELSE anomalies[k]
  <2>1. CASE n \in 1..Len(anomalies)
    <3>1. r \in AnomalyRow BY <1>1, <2>1
    <3> QED BY <1>2, <2>1, <3>1, ExceptSeq
  <2>2. CASE n \notin 1..Len(anomalies)
    <3>1. anomalies' = anomalies BY <1>2, <2>2
    <3> QED BY <2>2, <3>1
  <2> QED BY <2>1, <2>2
<1> QED BY <1>1, <1>3

\* So is the status of its security event.
LEMMA SecurityWritten ==
    ASSUME anomalies \in Seq(AnomalyRow), NEW n, NEW v \in AnomalyStatus,
           anomalies' = [anomalies EXCEPT ![n].security = v]
    PROVE  /\ anomalies' \in Seq(AnomalyRow) /\ Len(anomalies') = Len(anomalies)
           /\ \A k \in 1..Len(anomalies) :
                 /\ anomalies'[k].id = anomalies[k].id /\ anomalies'[k].type = anomalies[k].type
                 /\ anomalies'[k].status = anomalies[k].status
                 /\ anomalies'[k].recovered = anomalies[k].recovered
<1> DEFINE r == [anomalies[n] EXCEPT !.security = v]
<1>1. ASSUME n \in 1..Len(anomalies)
      PROVE  r \in AnomalyRow /\ r.security = v
             /\ r.id = anomalies[n].id /\ r.type = anomalies[n].type /\ r.status = anomalies[n].status /\ r.recovered = anomalies[n].recovered
  <2> DEFINE a == anomalies[n]
  <2>1. a \in AnomalyRow BY <1>1
  <2> HIDE DEF a
  <2>2. LET b == [a EXCEPT !.security = v]
        IN  b \in AnomalyRow /\ b.security = v
            /\ b.id = a.id /\ b.type = a.type /\ b.status = a.status /\ b.recovered = a.recovered
      BY <2>1 DEF AnomalyRow
  <2> QED BY <2>2 DEF a
<1>2. anomalies' = [anomalies EXCEPT ![n] = r] OBVIOUS
<1> HIDE DEF r
<1>3. /\ anomalies' \in Seq(AnomalyRow) /\ Len(anomalies') = Len(anomalies)
      /\ \A k \in 1..Len(anomalies) : anomalies'[k] = IF k = n THEN r ELSE anomalies[k]
  <2>1. CASE n \in 1..Len(anomalies)
    <3>1. r \in AnomalyRow BY <1>1, <2>1
    <3> QED BY <1>2, <2>1, <3>1, ExceptSeq
  <2>2. CASE n \notin 1..Len(anomalies)
    <3>1. anomalies' = anomalies BY <1>2, <2>2
    <3> QED BY <2>2, <3>1
  <2> QED BY <2>1, <2>2
<1> QED BY <1>1, <1>3

\* recordRecovery: the condition of the event is not confirmed.
LEMMA RecordRecoveryStep ==
    ASSUME WeightInv, OneWritesEvents, NEW i \in Ingestion, RecordRecovery(i)
    PROVE  WeightInv'
<1> DEFINE old == ingestions[i]
           N == Len(anomalies)
<1>1. /\ old.step = "recovery"
      /\ anomalies' = [anomalies EXCEPT ![Row(old.found)].recovered = "just now"]
      /\ ingestions' = [ingestions EXCEPT ![i] = Persisted(i)]
      /\ UNCHANGED <<candidates, context, reviews>>
    BY DEF RecordRecovery
<1>2. PICK n \in 1..N : anomalies[n].id = old.found /\ ~Holds(candidates, anomalies[n].type)
    BY <1>1 DEF WeightInv, KnowsEvents
<1>3. Row(old.found) = n
  <2>1. Row(anomalies[n].id) = n BY RowOfId DEF WeightInv
  <2> QED BY <1>2, <2>1
<1>4. anomalies \in Seq(AnomalyRow) BY DEF WeightInv, AnomaliesTyped
<1>5. anomalies' = [anomalies EXCEPT ![n].recovered = "just now"] BY <1>1, <1>3
<1>6. /\ anomalies' \in Seq(AnomalyRow) /\ Len(anomalies') = N
      /\ \A k \in 1..N : /\ anomalies'[k].id = anomalies[k].id /\ anomalies'[k].type = anomalies[k].type
                         /\ anomalies'[k].status = anomalies[k].status
                         /\ anomalies'[k].recovered = IF k = n THEN "just now" ELSE anomalies[k].recovered
    BY <1>4, <1>5, RecoveryWritten DEF RecoveryState
<1>7. IdsOK' /\ ActiveIsLast'
  <2>1. Weakens BY <1>6 DEF Weakens, Unclosed
  <2> QED BY <2>1, WeakensRows DEF WeightInv
<1>8. /\ ingestions' \in [Ingestion -> IngestionOf]
      /\ \A j \in Ingestion : KnowsEvents(j)'
      /\ \A t \in AnomalyType, j \in Ingestion : Carries(j, t) => j = i
    BY <1>1, WritingMoves
<1>9. AnomaliesTyped' BY <1>1, <1>6, <1>8 DEF WeightInv, AnomaliesTyped
<1>10. Recorded'
  <2> SUFFICES ASSUME NEW t \in AnomalyType, Holds(candidates, t)
               PROVE  OnRecord(t)'
      BY <1>1 DEF Recorded
  <2>1. ~Carries(i, t) BY <1>1 DEF Carries
  <2>2. OnRecord(t) BY <1>8, <2>1 DEF WeightInv, Recorded
  <2>3. PICK r \in 1..N : anomalies[r].type = t /\ anomalies[r].recovered = "no" BY <2>2 DEF OnRecord
  <2>4. r # n BY <1>2, <2>3
  <2> QED BY <1>6, <2>3, <2>4 DEF OnRecord
<1> QED BY <1>7, <1>8, <1>9, <1>10 DEF WeightInv

-----------------------------------------------------------------------------
\* A step that is not an ingestion's closes events, or lets time pass.
LEMMA RowsStep ==
    ASSUME WeightInv, Weakens, AnomaliesTyped', UNCHANGED <<candidates, ingestions>>,
           \A n \in 1..Len(anomalies) : anomalies[n].recovered = "no" => anomalies'[n].recovered = "no"
    PROVE  WeightInv'
<1>1. IdsOK' /\ ActiveIsLast' BY WeakensRows DEF WeightInv
<1>2. \A j \in Ingestion : KnowsEvents(j)' BY WeakensKnown DEF WeightInv
<1>3. \A t : OnRecord(t) => OnRecord(t)' BY DEF OnRecord, Weakens
<1>4. \A t, j : Carries(j, t) => Carries(j, t)' BY DEF Carries
<1>5. Recorded'
  <2> SUFFICES ASSUME NEW t \in AnomalyType, Holds(candidates, t)
               PROVE  OnRecord(t)' \/ \E j \in Ingestion : Carries(j, t)'
      BY DEF Recorded
  <2>1. OnRecord(t) \/ \E j \in Ingestion : Carries(j, t) BY DEF WeightInv, Recorded
  <2> QED BY <1>3, <1>4, <2>1
<1> QED BY <1>1, <1>2, <1>5 DEF WeightInv

\* A step of a review.
LEMMA ReviewMoves ==
    ASSUME AnomaliesTyped, NEW u \in Reviewer, NEW g \in ReviewOf, reviews' = [reviews EXCEPT ![u] = g]
    PROVE  reviews' \in [Reviewer -> ReviewOf]
BY DEF AnomaliesTyped

\* A user opens an event.
LEMMA LoadAccessibleEventStep ==
    ASSUME WeightInv, NEW u \in Reviewer, LoadAccessibleEvent(u)
    PROVE  WeightInv'
<1>1. PICK n \in 1..Len(anomalies) :
         reviews' = [reviews EXCEPT ![u] =
            [step |-> "loaded", id |-> anomalies[n].id, seen |-> anomalies[n].status]]
    BY DEF LoadAccessibleEvent
<1>2. UNCHANGED <<candidates, context, anomalies, ingestions>> BY DEF LoadAccessibleEvent
<1> DEFINE g == [step |-> "loaded", id |-> anomalies[n].id, seen |-> anomalies[n].status]
<1>3. g \in ReviewOf
  <2>1. anomalies[n] \in AnomalyRow BY DEF WeightInv, AnomaliesTyped
  <2>2. anomalies[n].id \in Nat /\ anomalies[n].status \in AnomalyStatus BY <2>1 DEF AnomalyRow
  <2> QED BY <2>2 DEF ReviewOf
<1> HIDE DEF g
<1>4. AnomaliesTyped' BY <1>1, <1>2, <1>3, ReviewMoves DEF WeightInv, AnomaliesTyped, g
<1>5. Weakens BY <1>2 DEF Weakens
<1> QED BY <1>2, <1>4, <1>5, RowsStep

\* A request that comes too late is refused.
LEMMA RefuseReviewStep ==
    ASSUME WeightInv, NEW u \in Reviewer, RefuseReview(u)
    PROVE  WeightInv'
<1>1. reviews' = [reviews EXCEPT ![u] = NoReview] /\ UNCHANGED <<candidates, context, anomalies, ingestions>>
    BY DEF RefuseReview
<1>2. NoReview \in ReviewOf BY DEF ReviewOf
<1>3. AnomaliesTyped' BY <1>1, <1>2, ReviewMoves DEF WeightInv, AnomaliesTyped
<1>4. Weakens BY <1>1 DEF Weakens
<1> QED BY <1>1, <1>3, <1>4, RowsStep

\* The claim of an event: no claim opens one that is closed.
OpensNone(from, to) == to \in {"OPEN", "ACKNOWLEDGED"} => from \subseteq {"OPEN", "ACKNOWLEDGED"}

\* It writes the status of the event, or finds it changed.
LEMMA ClaimEventStep ==
    ASSUME WeightInv, NEW u \in Reviewer, NEW from, NEW to \in AnomalyStatus, ClaimEvent(u, from, to),
           OpensNone(from, to)
    PROVE  WeightInv'
<1> DEFINE n == Row(reviews[u].id)
           g == [step |-> "claimed", id |-> reviews[u].id, to |-> to]
<1>1. /\ reviews[u].step = "loaded" /\ UNCHANGED <<candidates, context, ingestions>>
      /\ \/ /\ anomalies[n].status \in from
            /\ anomalies' = [anomalies EXCEPT ![n].status = to]
            /\ reviews' = [reviews EXCEPT ![u] = g]
         \/ /\ reviews' = [reviews EXCEPT ![u] = NoReview]
            /\ UNCHANGED anomalies
    BY DEF ClaimEvent
<1>2. anomalies \in Seq(AnomalyRow) BY DEF WeightInv, AnomaliesTyped
<1>3. g \in ReviewOf
  <2>1. reviews[u] \in ReviewOf BY DEF WeightInv, AnomaliesTyped
  <2>2. reviews[u].id \in Nat BY <1>1, <2>1, ReviewKinds
  <2> QED BY <2>2 DEF ReviewOf
<1> HIDE DEF n, g
<1>4. CASE anomalies[n].status \in from /\ anomalies' = [anomalies EXCEPT ![n].status = to]
           /\ reviews' = [reviews EXCEPT ![u] = g]
  <2>1. /\ anomalies' \in Seq(AnomalyRow) /\ Len(anomalies') = Len(anomalies)
        /\ \A k \in 1..Len(anomalies) :
              /\ anomalies'[k].id = anomalies[k].id /\ anomalies'[k].type = anomalies[k].type
              /\ anomalies'[k].recovered = anomalies[k].recovered
              /\ \/ anomalies'[k].status = anomalies[k].status
                 \/ anomalies'[k].status = to /\ anomalies[k].status = anomalies[n].status
    <3>1. anomalies' = [anomalies EXCEPT ![n].status = to] BY <1>4
    <3> QED BY <1>2, <3>1, StatusWritten
  <2>2. AnomaliesTyped' BY <1>1, <1>3, <1>4, <2>1, ReviewMoves DEF WeightInv, AnomaliesTyped
  <2>3. Weakens BY <1>4, <2>1 DEF Weakens, Unclosed, OpensNone
  <2> QED BY <1>1, <2>1, <2>2, <2>3, RowsStep
<1>5. CASE reviews' = [reviews EXCEPT ![u] = NoReview] /\ UNCHANGED anomalies
  <2>1. NoReview \in ReviewOf BY DEF ReviewOf
  <2>2. AnomaliesTyped' BY <1>1, <1>5, <2>1, ReviewMoves DEF WeightInv, AnomaliesTyped
  <2>3. Weakens BY <1>5 DEF Weakens
  <2> QED BY <1>1, <1>5, <2>2, <2>3, RowsStep
<1> QED BY <1>1, <1>4, <1>5

\* The security event follows the claim.
LEMMA WriteSecurityEventStep ==
    ASSUME WeightInv, NEW u \in Reviewer, WriteSecurityEvent(u)
    PROVE  WeightInv'
<1> DEFINE n == Row(reviews[u].id)
           to == reviews[u].to
<1>1. /\ reviews[u].step = "claimed" /\ UNCHANGED <<candidates, context, ingestions>>
      /\ anomalies' = [anomalies EXCEPT ![n].security = to]
      /\ reviews' = [reviews EXCEPT ![u] = NoReview]
    BY DEF WriteSecurityEvent
<1>2. anomalies \in Seq(AnomalyRow) BY DEF WeightInv, AnomaliesTyped
<1>3. to \in AnomalyStatus
  <2>1. reviews[u] \in ReviewOf BY DEF WeightInv, AnomaliesTyped
  <2> QED BY <1>1, <2>1, ReviewKinds
<1>4. NoReview \in ReviewOf BY DEF ReviewOf
<1> HIDE DEF n, to
<1>5. /\ anomalies' \in Seq(AnomalyRow) /\ Len(anomalies') = Len(anomalies)
      /\ \A k \in 1..Len(anomalies) :
            /\ anomalies'[k].id = anomalies[k].id /\ anomalies'[k].type = anomalies[k].type
            /\ anomalies'[k].recovered = anomalies[k].recovered
            /\ anomalies'[k].status = anomalies[k].status
    BY <1>1, <1>2, <1>3, SecurityWritten
<1>6. AnomaliesTyped' BY <1>1, <1>4, <1>5, ReviewMoves DEF WeightInv, AnomaliesTyped
<1>7. Weakens BY <1>5 DEF Weakens, Unclosed
<1> QED BY <1>1, <1>5, <1>6, <1>7, RowsStep

-----------------------------------------------------------------------------
\* The cooldown of an event passes.
LEMMA CooldownPassesStep ==
    ASSUME WeightInv, CooldownPasses
    PROVE  WeightInv'
<1>1. PICK n \in 1..Len(anomalies) :
         anomalies[n].recovered = "just now" /\ anomalies' = [anomalies EXCEPT ![n].recovered = "long ago"]
    BY DEF CooldownPasses
<1>2. UNCHANGED <<candidates, context, ingestions, reviews>> BY DEF CooldownPasses
<1>3. anomalies \in Seq(AnomalyRow) BY DEF WeightInv, AnomaliesTyped
<1>4. /\ anomalies' \in Seq(AnomalyRow) /\ Len(anomalies') = Len(anomalies)
      /\ \A k \in 1..Len(anomalies) :
            /\ anomalies'[k].id = anomalies[k].id /\ anomalies'[k].type = anomalies[k].type
            /\ anomalies'[k].status = anomalies[k].status
            /\ anomalies'[k].recovered = IF k = n THEN "long ago" ELSE anomalies[k].recovered
    BY <1>1, <1>3, RecoveryWritten DEF RecoveryState
<1>5. AnomaliesTyped' BY <1>2, <1>4 DEF WeightInv, AnomaliesTyped
<1>6. Weakens BY <1>4 DEF Weakens, Unclosed
<1>7. \A k \in 1..Len(anomalies) : anomalies[k].recovered = "no" => anomalies'[k].recovered = "no"
    BY <1>1, <1>4
<1> QED BY <1>2, <1>5, <1>6, <1>7, RowsStep

\* The rows, what was counted and the calls stay as they are.
LEMMA ContextStep ==
    ASSUME WeightInv, UNCHANGED <<candidates, anomalies, ingestions, reviews>>,
           context' \in {context, "none"}
    PROVE  WeightInv'
<1>1. AnomaliesTyped' BY DEF WeightInv, AnomaliesTyped
<1>2. Weakens BY DEF Weakens
<1> QED BY <1>1, <1>2, RowsStep

\* resetWeightAnomalyRuntime, or a restart.
LEMMA ResetRuntimeStep ==
    ASSUME WeightInv, ResetRuntime
    PROVE  WeightInv'
<1>1. candidates' = NoCandidates /\ context' = "none" /\ UNCHANGED anomalies BY DEF ResetRuntime
<1>2. \A t \in AnomalyType : ~Holds(candidates', t) BY <1>1 DEF Holds, NoCandidates
<1>3. candidates' \in [AnomalyType -> Nat] BY <1>1 DEF NoCandidates
<1>4. IdsOK' /\ ActiveIsLast' BY <1>1, WeakensRows DEF Weakens, WeightInv
<1>5. Recorded' BY <1>2 DEF Recorded
<1>6. CASE UNCHANGED <<ingestions, reviews>>
  <2>1. AnomaliesTyped' BY <1>1, <1>3, <1>6 DEF WeightInv, AnomaliesTyped
  <2>2. \A j \in Ingestion : KnowsEvents(j)' BY <1>1, <1>2, <1>6, NothingHolds
  <2> QED BY <1>4, <1>5, <2>1, <2>2 DEF WeightInv
<1>7. CASE ingestions' = [i \in Ingestion |-> NoIngestion] /\ reviews' = [u \in Reviewer |-> NoReview]
  <2>1. AnomaliesTyped' BY <1>1, <1>3, <1>7 DEF WeightInv, AnomaliesTyped, IngestionOf, ReviewOf
  <2>2. \A j \in Ingestion : KnowsEvents(j)' BY <1>7, KnowsNothing DEF NoIngestion
  <2> QED BY <1>4, <1>5, <2>1, <2>2 DEF WeightInv
<1> QED BY <1>6, <1>7 DEF ResetRuntime

-----------------------------------------------------------------------------
\* At the start there is no event.
LEMMA WeightStarts == WeightInit => WeightInv
<1> SUFFICES ASSUME WeightInit PROVE WeightInv OBVIOUS
<1>1. /\ candidates = NoCandidates /\ context = "none" /\ anomalies = <<>>
      /\ ingestions = [i \in Ingestion |-> NoIngestion] /\ reviews = [u \in Reviewer |-> NoReview]
    BY DEF WeightInit
<1>2. candidates \in [AnomalyType -> Nat] BY <1>1 DEF NoCandidates
<1>3. AnomaliesTyped BY <1>1, <1>2 DEF AnomaliesTyped, IngestionOf, ReviewOf
<1>4. IdsOK /\ ActiveIsLast BY <1>1 DEF IdsOK, ActiveIsLast
<1>5. \A i \in Ingestion : KnowsEvents(i) BY <1>1 DEF KnowsEvents, WritesEvents, NoIngestion
<1>6. Recorded BY <1>1 DEF Recorded, Holds, NoCandidates
<1> QED BY <1>3, <1>4, <1>5, <1>6 DEF WeightInv

\* Every step keeps what is known.
LEMMA WeightStep ==
    ASSUME WeightInv, OneWritesEvents, OneWritesEvents', [WeightNext]_weightVars
    PROVE  WeightInv'
<1>1. ASSUME NEW i \in Ingestion, IngestionStep(i) PROVE WeightInv'
  <2>1. CASE LoadContext(i) BY <2>1, LoadContextStep
  <2>2. CASE EvaluateWeightAnomaly(i) BY <2>2, EvaluateStep
  <2>3. ASSUME NEW t \in AnomalyType, FindForHit(i, t) \/ FindForRecovery(i, t) PROVE WeightInv'
      BY <2>3, FindForHitStep, FindForRecoveryStep
  <2>4. CASE CreateEvent(i) BY <2>4, CreateEventStep
  <2>5. CASE UpdateEvent(i) BY <2>5, UpdateEventStep
  <2>6. CASE RecordRecovery(i) BY <2>6, RecordRecoveryStep
  <2> QED BY <1>1, <2>1, <2>2, <2>3, <2>4, <2>5, <2>6 DEF IngestionStep
<1>2. ASSUME NEW i \in Ingestion, \E r \in Reading : Arrive(i, r) PROVE WeightInv' BY <1>2, LoadContextStep
<1>3. ASSUME NEW u \in Reviewer,
             \/ LoadAccessibleEvent(u) \/ RefuseReview(u) \/ WriteSecurityEvent(u)
             \/ AcknowledgeWeightAnomaly(u) \/ ResolveWeightAnomaly(u) \/ MarkFalsePositive(u)
      PROVE  WeightInv'
  <2>1. CASE LoadAccessibleEvent(u) BY <2>1, LoadAccessibleEventStep
  <2>2. CASE RefuseReview(u) BY <2>2, RefuseReviewStep
  <2>3. CASE WriteSecurityEvent(u) BY <2>3, WriteSecurityEventStep
  <2>4. CASE AcknowledgeWeightAnomaly(u)
      BY <2>4, ClaimEventStep DEF AcknowledgeWeightAnomaly, AnomalyStatus, OpensNone
  <2>5. CASE ResolveWeightAnomaly(u) BY <2>5, ClaimEventStep DEF ResolveWeightAnomaly, AnomalyStatus, OpensNone
  <2>6. CASE MarkFalsePositive(u) BY <2>6, ClaimEventStep DEF MarkFalsePositive, AnomalyStatus, OpensNone
  <2> QED BY <1>3, <2>1, <2>2, <2>3, <2>4, <2>5, <2>6
<1>4. CASE ChangeMaintenance BY <1>4, ContextStep DEF ChangeMaintenance
<1>5. CASE ContextExpires BY <1>5, ContextStep DEF ContextExpires
<1>6. CASE TransactionMoves BY <1>6, ContextStep DEF TransactionMoves
<1>7. CASE CooldownPasses BY <1>7, CooldownPassesStep
<1>8. CASE ResetRuntime BY <1>8, ResetRuntimeStep
<1>9. CASE UNCHANGED weightVars BY <1>9, ContextStep DEF weightVars
<1> QED BY <1>1, <1>2, <1>3, <1>4, <1>5, <1>6, <1>7, <1>8, <1>9 DEF WeightNext

\* So it is known in every state.
LEMMA WeightInvariant == WeightSpec /\ []OneWritesEvents => []WeightInv
<1>1. WeightInv /\ OneWritesEvents /\ OneWritesEvents' /\ [WeightNext]_weightVars => WeightInv'
    BY WeightStep
<1> QED BY WeightStarts, <1>1, PTL DEF WeightSpec

-----------------------------------------------------------------------------
\* Where no two ingestions write their events at once, a condition that lasts
\* has one event that goes on, whatever is reviewed, recovers, cools down or is
\* lost in a restart meanwhile (persistHit, persistRecovery of modules/anomalies).
THEOREM OneActiveEventCorrect == WeightSpec /\ []OneWritesEvents => []OneActiveEvent
<1>1. WeightInv => OneActiveEvent
  <2> SUFFICES ASSUME WeightInv, NEW m \in 1..Len(anomalies), NEW n \in 1..Len(anomalies),
                      Active(anomalies[m]), Active(anomalies[n]), anomalies[m].type = anomalies[n].type
               PROVE  m = n
      BY DEF OneActiveEvent, Active
  <2>1. m <= n /\ n <= m BY DEF WeightInv, ActiveIsLast, Active
  <2> QED BY <2>1
<1> QED BY <1>1, WeightInvariant, PTL

\* Under the same hypothesis, a condition that the readings confirm has an event
\* on record that is not recovered whenever nothing is being written.
THEOREM ConditionOnRecordCorrect == WeightSpec /\ []OneWritesEvents => []ConditionIsOnRecord
<1>1. WeightInv => ConditionIsOnRecord
  <2> SUFFICES ASSUME WeightInv, Quiet, NEW t \in AnomalyType, Holds(candidates, t)
               PROVE  OnRecord(t)
      BY DEF ConditionIsOnRecord, Holds, OnRecord
  <2>1. \A i \in Ingestion : ~Carries(i, t) BY DEF Quiet, Carries
  <2> QED BY <2>1 DEF WeightInv, Recorded
<1> QED BY <1>1, WeightInvariant, PTL

-----------------------------------------------------------------------------
(* Types of the monitoring of weights, whichever calls overlap.            *)

CountersOK == candidates \in [AnomalyType -> 0..Consecutive] /\ unstable \in 0..(MaxUnstable + 1)

\* An event is looked up by its id when it is written: the ids kept by a call
\* are of events there are, however many calls look up and write.
EventIds == {anomalies[n].id : n \in 1..Len(anomalies)}
FindsEvent(g, ids) == (g.step = "hit" /\ g.found # 0) \/ g.step = "recovery" => g.found \in ids
ReviewsEvent(g, ids) == g.step \in {"loaded", "claimed"} => g.id \in ids

EventsKnown ==
    /\ \A i \in Ingestion : FindsEvent(ingestions[i], EventIds)
    /\ \A u \in Reviewer : ReviewsEvent(reviews[u], EventIds)

RowsInv == AnomaliesTyped /\ CountersOK /\ EventsKnown

\* An event that is known is found.
LEMMA KnownRow ==
    ASSUME NEW id \in EventIds
    PROVE  Row(id) \in 1..Len(anomalies) /\ anomalies[Row(id)].id = id
BY DEF EventIds, Row

\* Ids stay known while events keep their ids and are not removed.
LEMMA SameIds ==
    ASSUME Len(anomalies') = Len(anomalies), \A n \in 1..Len(anomalies) : anomalies'[n].id = anomalies[n].id
    PROVE  EventIds' = EventIds
BY DEF EventIds

\* A step of an ingestion.
LEMMA IngestionTyped ==
    ASSUME RowsInv, NEW i \in Ingestion, NEW g \in IngestionOf,
           ingestions' = [ingestions EXCEPT ![i] = g], UNCHANGED reviews,
           anomalies' \in Seq(AnomalyRow), EventIds \subseteq EventIds', FindsEvent(g, EventIds'),
           candidates' \in [AnomalyType -> 0..Consecutive], unstable' \in 0..(MaxUnstable + 1),
           context' \in {"none"} \cup PlatformState
    PROVE  RowsInv'
<1>1. ingestions'[i] = g /\ (\A j \in Ingestion \ {i} : ingestions'[j] = ingestions[j])
      /\ ingestions' \in [Ingestion -> IngestionOf]
    BY IngestionMoves DEF RowsInv
<1>2. candidates' \in [AnomalyType -> Nat] BY WeightAssumption
<1>3. AnomaliesTyped' BY <1>1, <1>2 DEF RowsInv, AnomaliesTyped
<1>4. \A j \in Ingestion : FindsEvent(ingestions'[j], EventIds')
    BY <1>1 DEF RowsInv, EventsKnown, FindsEvent
<1>5. \A u \in Reviewer : ReviewsEvent(reviews'[u], EventIds')
    BY DEF RowsInv, EventsKnown, ReviewsEvent
<1> QED BY <1>3, <1>4, <1>5 DEF RowsInv, EventsKnown, CountersOK

\* The same when only the ingestion moves.
LEMMA LookupTyped ==
    ASSUME RowsInv, NEW i \in Ingestion, NEW g \in IngestionOf,
           ingestions' = [ingestions EXCEPT ![i] = g],
           UNCHANGED <<candidates, unstable, context, anomalies, reviews>>, FindsEvent(g, EventIds)
    PROVE  RowsInv'
<1>1. EventIds' = EventIds BY SameIds
<1> QED BY <1>1, IngestionTyped DEF RowsInv, AnomaliesTyped, CountersOK

\* What is left to write knows of no event.
LEMMA PersistedFinds ==
    ASSUME NEW g \in IngestionOf, g.step \in {"idle", "persist", "arrived", "loaded"}, NEW ids
    PROVE  FindsEvent(g, ids)
BY DEF FindsEvent

\* The step of a review, with the events it writes.
LEMMA ReviewTyped ==
    ASSUME RowsInv, NEW u \in Reviewer, NEW g \in ReviewOf,
           reviews' = [reviews EXCEPT ![u] = g], UNCHANGED <<candidates, unstable, context, ingestions>>,
           anomalies' \in Seq(AnomalyRow), EventIds \subseteq EventIds', ReviewsEvent(g, EventIds')
    PROVE  RowsInv'
<1>1. /\ reviews' \in [Reviewer -> ReviewOf]
      /\ reviews'[u] = g /\ \A v \in Reviewer \ {u} : reviews'[v] = reviews[v]
    BY DEF RowsInv, AnomaliesTyped
<1>2. AnomaliesTyped' BY <1>1 DEF RowsInv, AnomaliesTyped
<1>3. \A j \in Ingestion : FindsEvent(ingestions'[j], EventIds')
    BY DEF RowsInv, EventsKnown, FindsEvent
<1>4. \A v \in Reviewer : ReviewsEvent(reviews'[v], EventIds')
    BY <1>1 DEF RowsInv, EventsKnown, ReviewsEvent
<1> QED BY <1>2, <1>3, <1>4 DEF RowsInv, EventsKnown, CountersOK

\* One column of an event is written: it keeps its id.
LEMMA ColumnTyped ==
    ASSUME anomalies \in Seq(AnomalyRow), NEW n \in 1..Len(anomalies), NEW a \in AnomalyRow,
           a.id = anomalies[n].id, anomalies' = [anomalies EXCEPT ![n] = a]
    PROVE  anomalies' \in Seq(AnomalyRow) /\ EventIds' = EventIds
<1>1. anomalies' \in Seq(AnomalyRow) /\ Len(anomalies') = Len(anomalies) OBVIOUS
<1>2. \A k \in 1..Len(anomalies) : anomalies'[k].id = anomalies[k].id OBVIOUS
<1> QED BY <1>1, <1>2, SameIds

\* What persistHit and persistRecovery find is an event.
LEMMA LastFound ==
    ASSUME AnomaliesTyped, NEW found \in SUBSET (1..Len(anomalies)), found # {}
    PROVE  LET n == CHOOSE n \in found : \A m \in found : m <= n
           IN  anomalies[n].id \in Nat /\ anomalies[n].id \in EventIds
<1> DEFINE n == CHOOSE n \in found : \A m \in found : m <= n
<1>1. n \in found BY LastChosen
<1> HIDE DEF n
<1>2. anomalies[n] \in AnomalyRow BY <1>1 DEF AnomaliesTyped
<1>3. anomalies[n].id \in Nat /\ anomalies[n].id \in EventIds BY <1>1, <1>2 DEF EventIds, AnomalyRow
<1> QED BY <1>3 DEF n

-----------------------------------------------------------------------------
\* Readings arrive, their context is loaded, and the rules are evaluated.
LEMMA ReadingTyped ==
    ASSUME RowsInv, NEW i \in Ingestion,
           (\E r \in Reading : Arrive(i, r)) \/ LoadContext(i) \/ EvaluateWeightAnomaly(i)
    PROVE  RowsInv'
<1>1. ingestions[i] \in IngestionOf /\ context \in {"none"} \cup PlatformState
    BY DEF RowsInv, AnomaliesTyped
<1>2. ASSUME NEW r \in Reading, Arrive(i, r) PROVE RowsInv'
  <2> DEFINE g == [step |-> "arrived", reading |-> r]
  <2>1. ingestions' = [ingestions EXCEPT ![i] = g]
        /\ UNCHANGED <<candidates, unstable, context, anomalies, reviews>>
      BY <1>2 DEF Arrive
  <2>2. g \in IngestionOf /\ g.step = "arrived" BY DEF IngestionOf, Arriving
  <2> HIDE DEF g
  <2> QED BY <2>1, <2>2, LookupTyped, PersistedFinds
<1>3. CASE LoadContext(i)
  <2> DEFINE platform == IF context # "none" THEN context ELSE DerivePlatformState(maintenance, openStatus)
             g == [step |-> "loaded", reading |-> ingestions[i].reading, cached |-> context # "none",
                   platform |-> platform]
  <2>1. ingestions' = [ingestions EXCEPT ![i] = g]
        /\ UNCHANGED <<candidates, unstable, context, anomalies, reviews>>
        /\ ingestions[i].step = "arrived"
      BY <1>3 DEF LoadContext
  <2>2. ingestions[i].reading \in Reading BY <1>1, <2>1, IngestionKinds DEF Arriving
  <2>3. platform \in PlatformState BY <1>1 DEF DerivePlatformState, PlatformState
  <2>4. (context # "none") \in BOOLEAN OBVIOUS
  <2> HIDE DEF platform
  <2>5. g \in IngestionOf /\ g.step = "loaded" BY <2>2, <2>3, <2>4 DEF IngestionOf, Evaluating
  <2> HIDE DEF g
  <2> QED BY <2>1, <2>5, LookupTyped, PersistedFinds
<1>4. CASE EvaluateWeightAnomaly(i)
  <2> DEFINE r == ingestions[i].reading
             platform == ingestions[i].platform
             hits == Hits(r, platform)
             next == NextCandidates(hits)
             confirmed == {t \in hits : ConditionConfirmed(t, next[t])}
             others == AnomalyType \ hits
             g == Persisting(confirmed, others, platform)
  <2>1. /\ ingestions[i].step = "loaded" /\ candidates' = next /\ unstable' = ConsecutiveUnstable(r)
        /\ context' = IF ingestions[i].cached THEN context ELSE platform
        /\ ingestions' = [ingestions EXCEPT ![i] = g] /\ UNCHANGED <<anomalies, reviews>>
      BY <1>4 DEF EvaluateWeightAnomaly
  <2>2. platform \in PlatformState BY <1>1, <2>1, IngestionKinds DEF Evaluating
  <2>3. hits \in SUBSET AnomalyType /\ others \in SUBSET AnomalyType BY DEF Hits
  <2>4. next \in [AnomalyType -> 0..Consecutive]
    <3> HIDE DEF hits
    <3>1. Consecutive \in Nat \ {0} BY WeightAssumption
    <3>2. \A t \in AnomalyType : candidates[t] \in 0..Consecutive BY DEF RowsInv, CountersOK
    <3> QED BY <3>1, <3>2 DEF NextCandidates
  <2>5. unstable' \in 0..(MaxUnstable + 1)
    <3>1. MaxUnstable \in Nat /\ unstable \in 0..(MaxUnstable + 1) BY WeightAssumption DEF RowsInv, CountersOK
    <3> HIDE DEF r
    <3> QED BY <2>1, <3>1 DEF ConsecutiveUnstable
  <2> HIDE DEF next
  <2>6. confirmed \in SUBSET AnomalyType BY <2>3
  <2> HIDE DEF hits, confirmed, others
  <2>7. g \in IngestionOf /\ g.step \in {"idle", "persist"} BY <2>2, <2>3, <2>6, PersistingKinds
  <2>8. context' \in {"none"} \cup PlatformState BY <1>1, <2>1, <2>2
  <2> HIDE DEF g, platform, r
  <2>9. FindsEvent(g, EventIds') BY <2>7, PersistedFinds
  <2>10. EventIds' = EventIds BY <2>1, SameIds
  <2>11. anomalies' \in Seq(AnomalyRow) /\ UNCHANGED reviews BY <2>1 DEF RowsInv, AnomaliesTyped
  <2> QED BY <2>1, <2>4, <2>5, <2>7, <2>8, <2>9, <2>10, <2>11, IngestionTyped
<1> QED BY <1>2, <1>3, <1>4

\* An ingestion looks for the event of a hit ...
LEMMA FindForHitTyped ==
    ASSUME RowsInv, NEW i \in Ingestion, NEW t \in AnomalyType, FindForHit(i, t)
    PROVE  RowsInv'
<1> DEFINE old == ingestions[i]
           found == {n \in 1..Len(anomalies) : anomalies[n].type = t /\ Unclosed(anomalies[n])}
           id == LastOf(LAMBDA a : a.type = t /\ Unclosed(a))
           cool == id # 0 /\ anomalies[Row(id)].recovered = "long ago"
           g == [step |-> "hit", hits |-> old.hits \ {t}, recovered |-> old.recovered,
                 platform |-> old.platform, type |-> t, found |-> id, cool |-> cool]
<1>1. old.step = "persist" /\ ingestions' = [ingestions EXCEPT ![i] = g]
      /\ UNCHANGED <<candidates, unstable, context, anomalies, reviews>>
    BY DEF FindForHit
<1>2. old \in Persistence BY <1>1, IngestionKinds DEF RowsInv, AnomaliesTyped
<1>3. id = IF found = {} THEN 0 ELSE anomalies[CHOOSE n \in found : \A m \in found : m <= n].id
    BY DEF LastOf
<1>4. found \in SUBSET (1..Len(anomalies)) /\ cool \in BOOLEAN OBVIOUS
<1> HIDE DEF found, id
<1>5. id \in Nat /\ (id # 0 => id \in EventIds) BY <1>3, <1>4, LastFound DEF RowsInv
<1> HIDE DEF cool
<1>6. g \in IngestionOf BY <1>2, <1>4, <1>5 DEF Persistence, IngestionOf, Hitting
<1>7. FindsEvent(g, EventIds) BY <1>5 DEF FindsEvent
<1> HIDE DEF g
<1> QED BY <1>1, <1>6, <1>7, LookupTyped

\* ... and for the event that has recovered.
LEMMA FindForRecoveryTyped ==
    ASSUME RowsInv, NEW i \in Ingestion, NEW t \in AnomalyType, FindForRecovery(i, t)
    PROVE  RowsInv'
<1> DEFINE old == ingestions[i]
           found == {n \in 1..Len(anomalies) : anomalies[n].type = t /\ Unclosed(anomalies[n])
                                               /\ anomalies[n].recovered = "no"}
           id == LastOf(LAMBDA a : a.type = t /\ Unclosed(a) /\ a.recovered = "no")
           rest == old.recovered \ {t}
           g == IF id = 0 THEN Persisting({}, rest, old.platform)
                ELSE [step |-> "recovery", hits |-> {}, recovered |-> rest,
                      platform |-> old.platform, found |-> id]
<1>1. old.step = "persist" /\ ingestions' = [ingestions EXCEPT ![i] = g]
      /\ UNCHANGED <<candidates, unstable, context, anomalies, reviews>>
    BY DEF FindForRecovery
<1>2. old \in Persistence BY <1>1, IngestionKinds DEF RowsInv, AnomaliesTyped
<1>3. id = IF found = {} THEN 0 ELSE anomalies[CHOOSE n \in found : \A m \in found : m <= n].id
    BY DEF LastOf
<1>4. found \in SUBSET (1..Len(anomalies)) OBVIOUS
<1> HIDE DEF found, id
<1>5. id \in Nat /\ (id # 0 => id \in EventIds) BY <1>3, <1>4, LastFound DEF RowsInv
<1>6. rest \in SUBSET AnomalyType /\ old.platform \in PlatformState BY <1>2 DEF Persistence
<1> HIDE DEF rest, old
<1>7. g \in IngestionOf /\ FindsEvent(g, EventIds)
  <2>1. CASE id = 0
    <3>1. Persisting({}, rest, old.platform) \in IngestionOf
          /\ Persisting({}, rest, old.platform).step \in {"idle", "persist"}
        BY <1>6, PersistingKinds
    <3>2. g = Persisting({}, rest, old.platform) BY <2>1
    <3> QED BY <3>1, <3>2, PersistedFinds
  <2>2. CASE id # 0
    <3>1. g = [step |-> "recovery", hits |-> {}, recovered |-> rest, platform |-> old.platform, found |-> id]
        BY <2>2
    <3>2. g \in IngestionOf BY <1>5, <1>6, <3>1 DEF IngestionOf, Recovering
    <3>3. g.found = id BY <3>1
    <3> QED BY <1>5, <2>2, <3>2, <3>3 DEF FindsEvent
  <2> QED BY <2>1, <2>2
<1> HIDE DEF g
<1> QED BY <1>1, <1>7, LookupTyped

-----------------------------------------------------------------------------
\* An ingestion that has written an event goes on with the rest.
LEMMA PersistedKinds ==
    ASSUME RowsInv, NEW i \in Ingestion, ingestions[i].step \in {"hit", "recovery"}, NEW ids
    PROVE  /\ Persisted(i) \in IngestionOf /\ FindsEvent(Persisted(i), ids)
           /\ ingestions[i].platform \in PlatformState
           /\ ingestions[i].step = "hit" => ingestions[i].type \in AnomalyType
<1> DEFINE old == ingestions[i]
<1>1. /\ old.hits \in SUBSET AnomalyType /\ old.recovered \in SUBSET AnomalyType
      /\ old.platform \in PlatformState
      /\ old.step = "hit" => old.type \in AnomalyType
    BY IngestionKinds DEF RowsInv, AnomaliesTyped, Hitting, Recovering
<1> HIDE DEF old
<1>2. Persisting(old.hits, old.recovered, old.platform) \in IngestionOf
      /\ Persisting(old.hits, old.recovered, old.platform).step \in {"idle", "persist"}
    BY <1>1, PersistingKinds
<1> QED BY <1>1, <1>2, PersistedFinds DEF Persisted, old

\* createEvent.
LEMMA CreateEventTyped ==
    ASSUME RowsInv, NEW i \in Ingestion, CreateEvent(i)
    PROVE  RowsInv'
<1> DEFINE old == ingestions[i]
           a == [id |-> Len(anomalies) + 1, type |-> old.type, status |-> "OPEN",
                 security |-> "OPEN", recovered |-> "no", seenIn |-> old.platform]
<1>1. /\ old.step = "hit" /\ anomalies' = Append(anomalies, a)
      /\ ingestions' = [ingestions EXCEPT ![i] = Persisted(i)]
      /\ UNCHANGED <<candidates, unstable, context, reviews>>
    BY DEF CreateEvent
<1>2. /\ Persisted(i) \in IngestionOf /\ FindsEvent(Persisted(i), EventIds')
      /\ old.platform \in PlatformState /\ old.type \in AnomalyType
    BY <1>1, PersistedKinds
<1>3. anomalies \in Seq(AnomalyRow) /\ Len(anomalies) \in Nat BY DEF RowsInv, AnomaliesTyped
<1> HIDE DEF old
<1>4. a \in AnomalyRow
  <2>1. Len(anomalies) + 1 \in Nat BY <1>3
  <2>2. "OPEN" \in AnomalyStatus /\ "no" \in RecoveryState BY DEF AnomalyStatus, RecoveryState
  <2> QED BY <1>2, <2>1, <2>2 DEF AnomalyRow
<1> HIDE DEF a
<1>5. /\ anomalies' \in Seq(AnomalyRow) /\ Len(anomalies') = Len(anomalies) + 1
      /\ \A n \in 1..Len(anomalies) : anomalies'[n] = anomalies[n]
    BY <1>1, <1>3, <1>4
<1>6. EventIds \subseteq EventIds' BY <1>3, <1>5 DEF EventIds
<1> QED BY <1>1, <1>2, <1>5, <1>6, IngestionTyped DEF RowsInv, AnomaliesTyped, CountersOK

\* updateEvent: the events are in another order, none is gone.
LEMMA UpdateEventTyped ==
    ASSUME RowsInv, NEW i \in Ingestion, UpdateEvent(i)
    PROVE  RowsInv'
<1> DEFINE old == ingestions[i]
           N == Len(anomalies)
           n == Row(old.found)
           a == [anomalies[n] EXCEPT !.recovered = "no", !.seenIn = old.platform]
           p == [k \in 1..N |-> IF k = N THEN n ELSE IF k < n THEN k ELSE k + 1]
<1>1. /\ old.step = "hit" /\ old.found # 0
      /\ anomalies' = DetectedLast(n, a)
      /\ ingestions' = [ingestions EXCEPT ![i] = Persisted(i)]
      /\ UNCHANGED <<candidates, unstable, context, reviews>>
    BY DEF UpdateEvent
<1>2. /\ Persisted(i) \in IngestionOf /\ FindsEvent(Persisted(i), EventIds')
      /\ old.platform \in PlatformState
    BY <1>1, PersistedKinds
<1>3. anomalies \in Seq(AnomalyRow) /\ N \in Nat BY DEF RowsInv, AnomaliesTyped
<1>4. n \in 1..N
  <2>1. old.found \in EventIds BY <1>1 DEF RowsInv, EventsKnown, FindsEvent
  <2> QED BY <2>1, KnownRow
<1> HIDE DEF n
<1>5. a \in AnomalyRow /\ a.id = anomalies[n].id
  <2>1. anomalies[n] \in AnomalyRow BY <1>3, <1>4
  <2> HIDE DEF old
  <2> QED BY <1>2, <2>1 DEF AnomalyRow, RecoveryState
<1>6. /\ \A k \in 1..N : p[k] \in 1..N
      /\ p[N] = n /\ \A r \in 1..N : \E k \in 1..N : p[k] = r
  <2> HIDE DEF N, old
  <2> QED BY <1>3, <1>4, Moved
<1>7. anomalies' = [k \in 1..N |-> IF k = N THEN a ELSE anomalies[IF k < n THEN k ELSE k + 1]]
    BY <1>1 DEF DetectedLast
<1> HIDE DEF a
<1>8. \A k \in 1..N : anomalies'[k] = IF k = N THEN a ELSE anomalies[p[k]] BY <1>7
<1> HIDE DEF p
<1>9. anomalies' \in Seq(AnomalyRow) /\ Len(anomalies') = N
  <2>1. \A k \in 1..N : anomalies[k] \in AnomalyRow BY <1>3
  <2>2. ASSUME NEW k \in 1..N PROVE anomalies'[k] \in AnomalyRow
    <3>1. p[k] \in 1..N BY <1>6
    <3>2. anomalies[p[k]] \in AnomalyRow BY <2>1, <3>1
    <3> HIDE DEF N
    <3> QED BY <1>5, <1>8, <3>2
  <2> HIDE DEF N
  <2> QED BY <1>3, <1>7, <2>2
<1>10. EventIds \subseteq EventIds'
  <2> SUFFICES ASSUME NEW r \in 1..N PROVE anomalies[r].id \in EventIds' BY DEF EventIds
  <2>1. PICK k \in 1..N : p[k] = r BY <1>6
  <2>2. anomalies'[k].id = anomalies[r].id BY <1>5, <1>6, <1>8, <2>1
  <2> QED BY <1>9, <2>2 DEF EventIds
<1> HIDE DEF N, old
<1> QED BY <1>1, <1>2, <1>9, <1>10, IngestionTyped DEF RowsInv, AnomaliesTyped, CountersOK

\* A recovery is recorded, or the cooldown after it passes.
LEMMA RecoveryTyped ==
    ASSUME anomalies \in Seq(AnomalyRow), NEW n \in 1..Len(anomalies), NEW to \in RecoveryState,
           anomalies' = [anomalies EXCEPT ![n].recovered = to]
    PROVE  anomalies' \in Seq(AnomalyRow) /\ EventIds' = EventIds
<1> DEFINE a == [anomalies[n] EXCEPT !.recovered = to]
<1>1. anomalies[n] \in AnomalyRow OBVIOUS
<1>2. a \in AnomalyRow /\ a.id = anomalies[n].id BY <1>1 DEF AnomalyRow
<1>3. anomalies' = [anomalies EXCEPT ![n] = a] OBVIOUS
<1> HIDE DEF a
<1> QED BY <1>2, <1>3, ColumnTyped

LEMMA RecordRecoveryTyped ==
    ASSUME RowsInv, NEW i \in Ingestion, RecordRecovery(i)
    PROVE  RowsInv'
<1> DEFINE n == Row(ingestions[i].found)
<1>1. /\ ingestions[i].step = "recovery"
      /\ anomalies' = [anomalies EXCEPT ![n].recovered = "just now"]
      /\ ingestions' = [ingestions EXCEPT ![i] = Persisted(i)]
      /\ UNCHANGED <<candidates, unstable, context, reviews>>
    BY DEF RecordRecovery
<1>2. Persisted(i) \in IngestionOf /\ FindsEvent(Persisted(i), EventIds') BY <1>1, PersistedKinds
<1>3. n \in 1..Len(anomalies)
  <2>1. ingestions[i].found \in EventIds BY <1>1 DEF RowsInv, EventsKnown, FindsEvent
  <2> QED BY <2>1, KnownRow
<1> HIDE DEF n
<1>4. "just now" \in RecoveryState BY DEF RecoveryState
<1>5. anomalies' \in Seq(AnomalyRow) /\ EventIds' = EventIds
    BY <1>1, <1>3, <1>4, RecoveryTyped DEF RowsInv, AnomaliesTyped
<1> QED BY <1>1, <1>2, <1>5, IngestionTyped DEF RowsInv, AnomaliesTyped, CountersOK

-----------------------------------------------------------------------------
\* Reviews that do not write.
LEMMA LookTyped ==
    ASSUME RowsInv, NEW u \in Reviewer, LoadAccessibleEvent(u) \/ RefuseReview(u)
    PROVE  RowsInv'
<1>1. anomalies \in Seq(AnomalyRow) BY DEF RowsInv, AnomaliesTyped
<1>2. CASE LoadAccessibleEvent(u)
  <2>1. PICK n \in 1..Len(anomalies) : reviews' = [reviews EXCEPT ![u] =
           [step |-> "loaded", id |-> anomalies[n].id, seen |-> anomalies[n].status]]
      BY <1>2 DEF LoadAccessibleEvent
  <2> DEFINE g == [step |-> "loaded", id |-> anomalies[n].id, seen |-> anomalies[n].status]
  <2>2. UNCHANGED <<candidates, unstable, context, ingestions, anomalies>> BY <1>2 DEF LoadAccessibleEvent
  <2>3. anomalies[n] \in AnomalyRow BY <1>1
  <2>4. anomalies[n].id \in EventIds /\ anomalies[n].id \in Nat /\ anomalies[n].status \in AnomalyStatus
      BY <2>3 DEF EventIds, AnomalyRow
  <2>5. g \in ReviewOf BY <2>4 DEF ReviewOf
  <2>6. EventIds' = EventIds BY <2>2, SameIds
  <2>7. ReviewsEvent(g, EventIds') BY <2>4, <2>6 DEF ReviewsEvent
  <2>8. reviews' = [reviews EXCEPT ![u] = g] BY <2>1
  <2> HIDE DEF g
  <2> QED BY <1>1, <2>2, <2>5, <2>6, <2>7, <2>8, ReviewTyped
<1>3. CASE RefuseReview(u)
  <2>1. reviews' = [reviews EXCEPT ![u] = NoReview]
        /\ UNCHANGED <<candidates, unstable, context, ingestions, anomalies>>
      BY <1>3 DEF RefuseReview
  <2>2. NoReview \in ReviewOf /\ ReviewsEvent(NoReview, EventIds') BY DEF ReviewOf, NoReview, ReviewsEvent
  <2>3. EventIds' = EventIds BY <2>1, SameIds
  <2> QED BY <1>1, <2>1, <2>2, <2>3, ReviewTyped
<1> QED BY <1>2, <1>3

\* The status of an event, and of its security event, is written.
LEMMA ClaimTyped ==
    ASSUME RowsInv, NEW u \in Reviewer, NEW from, NEW to \in AnomalyStatus, ClaimEvent(u, from, to)
    PROVE  RowsInv'
<1> DEFINE n == Row(reviews[u].id)
<1>1. /\ reviews[u].step = "loaded" /\ UNCHANGED <<candidates, unstable, context, ingestions>>
      /\ IF anomalies[n].status \in from
         THEN /\ anomalies' = [anomalies EXCEPT ![n].status = to]
              /\ reviews' = [reviews EXCEPT ![u] = [step |-> "claimed", id |-> reviews[u].id, to |-> to]]
         ELSE reviews' = [reviews EXCEPT ![u] = NoReview] /\ UNCHANGED anomalies
    BY DEF ClaimEvent
<1>2. anomalies \in Seq(AnomalyRow) /\ reviews[u].id \in Nat /\ reviews[u].id \in EventIds
    BY <1>1, ReviewKinds DEF RowsInv, AnomaliesTyped, EventsKnown, ReviewsEvent
<1>3. n \in 1..Len(anomalies) BY <1>2, KnownRow
<1>4. anomalies[n] \in AnomalyRow BY <1>2, <1>3
<1> HIDE DEF n
<1>5. CASE anomalies[n].status \in from
  <2> DEFINE a == [anomalies[n] EXCEPT !.status = to]
             g == [step |-> "claimed", id |-> reviews[u].id, to |-> to]
  <2>1. a \in AnomalyRow /\ a.id = anomalies[n].id BY <1>4 DEF AnomalyRow
  <2>2. anomalies' = [anomalies EXCEPT ![n] = a] BY <1>1, <1>5
  <2> HIDE DEF a
  <2>3. anomalies' \in Seq(AnomalyRow) /\ EventIds' = EventIds BY <1>2, <1>3, <2>1, <2>2, ColumnTyped
  <2>4. g \in ReviewOf BY <1>2 DEF ReviewOf
  <2>5. ReviewsEvent(g, EventIds') BY <1>2, <2>3 DEF ReviewsEvent
  <2>6. reviews' = [reviews EXCEPT ![u] = g] BY <1>1, <1>5
  <2> HIDE DEF g
  <2> QED BY <1>1, <2>3, <2>4, <2>5, <2>6, ReviewTyped
<1>6. CASE anomalies[n].status \notin from
  <2>1. reviews' = [reviews EXCEPT ![u] = NoReview] /\ UNCHANGED anomalies BY <1>1, <1>6
  <2>2. NoReview \in ReviewOf /\ ReviewsEvent(NoReview, EventIds') BY DEF ReviewOf, NoReview, ReviewsEvent
  <2>3. EventIds' = EventIds BY <2>1, SameIds
  <2>4. anomalies' \in Seq(AnomalyRow) BY <1>2, <2>1
  <2> QED BY <1>1, <2>1, <2>2, <2>3, <2>4, ReviewTyped
<1> QED BY <1>5, <1>6

LEMMA SecurityTyped ==
    ASSUME RowsInv, NEW u \in Reviewer, WriteSecurityEvent(u)
    PROVE  RowsInv'
<1> DEFINE n == Row(reviews[u].id)
           a == [anomalies[n] EXCEPT !.security = reviews[u].to]
<1>1. /\ reviews[u].step = "claimed" /\ UNCHANGED <<candidates, unstable, context, ingestions>>
      /\ anomalies' = [anomalies EXCEPT ![n].security = reviews[u].to]
      /\ reviews' = [reviews EXCEPT ![u] = NoReview]
    BY DEF WriteSecurityEvent
<1>2. anomalies \in Seq(AnomalyRow) /\ reviews[u].id \in EventIds /\ reviews[u].to \in AnomalyStatus
    BY <1>1, ReviewKinds DEF RowsInv, AnomaliesTyped, EventsKnown, ReviewsEvent
<1>3. n \in 1..Len(anomalies) BY <1>2, KnownRow
<1>4. anomalies[n] \in AnomalyRow BY <1>2, <1>3
<1> HIDE DEF n
<1>5. a \in AnomalyRow /\ a.id = anomalies[n].id BY <1>2, <1>4 DEF AnomalyRow
<1>6. anomalies' = [anomalies EXCEPT ![n] = a] BY <1>1
<1> HIDE DEF a
<1>7. anomalies' \in Seq(AnomalyRow) /\ EventIds' = EventIds BY <1>2, <1>3, <1>5, <1>6, ColumnTyped
<1>8. NoReview \in ReviewOf /\ ReviewsEvent(NoReview, EventIds') BY DEF ReviewOf, NoReview, ReviewsEvent
<1> QED BY <1>1, <1>7, <1>8, ReviewTyped

-----------------------------------------------------------------------------
\* No event is there at first.
LEMMA RowsStart == WeightInit => RowsInv
<1> SUFFICES ASSUME WeightInit PROVE RowsInv OBVIOUS
<1>1. candidates = [t \in AnomalyType |-> 0] BY DEF WeightInit, NoCandidates
<1>2. CountersOK BY <1>1, WeightAssumption DEF WeightInit, CountersOK
<1>3. candidates \in [AnomalyType -> Nat] BY <1>1
<1>4. NoIngestion \in IngestionOf /\ NoReview \in ReviewOf BY DEF IngestionOf, ReviewOf
<1>5. /\ \A i \in Ingestion : ingestions[i] = NoIngestion /\ \A u \in Reviewer : reviews[u] = NoReview
      /\ ingestions = [i \in Ingestion |-> NoIngestion] /\ reviews = [u \in Reviewer |-> NoReview]
    BY DEF WeightInit
<1>6. AnomaliesTyped BY <1>3, <1>4, <1>5 DEF WeightInit, AnomaliesTyped
<1>7. EventsKnown BY <1>5 DEF EventsKnown, FindsEvent, ReviewsEvent, NoIngestion, NoReview
<1> QED BY <1>2, <1>6, <1>7 DEF RowsInv

\* The rest: the maintenance, the transaction, the cache, the cooldown, a restart.
LEMMA SurroundingsTyped ==
    ASSUME RowsInv,
           \/ ChangeMaintenance \/ ContextExpires \/ TransactionMoves \/ CooldownPasses \/ ResetRuntime
           \/ UNCHANGED weightVars
    PROVE  RowsInv'
<1>1. ASSUME ingestions' = ingestions, reviews' = reviews, candidates' = candidates, unstable' = unstable,
             anomalies' \in Seq(AnomalyRow), EventIds' = EventIds, context' \in {"none", context}
      PROVE  RowsInv'
    BY <1>1 DEF RowsInv, AnomaliesTyped, CountersOK, EventsKnown
<1>2. CASE ChangeMaintenance \/ ContextExpires \/ TransactionMoves \/ UNCHANGED weightVars
  <2>1. /\ UNCHANGED <<ingestions, reviews, candidates, unstable, anomalies>>
        /\ context' \in {"none", context}
      BY <1>2 DEF ChangeMaintenance, ContextExpires, TransactionMoves, weightVars
  <2>2. EventIds' = EventIds BY <2>1, SameIds
  <2> QED BY <1>1, <2>1, <2>2 DEF RowsInv, AnomaliesTyped
<1>3. CASE CooldownPasses
  <2>1. PICK n \in 1..Len(anomalies) : anomalies' = [anomalies EXCEPT ![n].recovered = "long ago"]
      BY <1>3 DEF CooldownPasses
  <2>2. UNCHANGED <<ingestions, reviews, candidates, unstable, context>> BY <1>3 DEF CooldownPasses
  <2>3. "long ago" \in RecoveryState BY DEF RecoveryState
  <2>4. anomalies' \in Seq(AnomalyRow) /\ EventIds' = EventIds
      BY <2>1, <2>3, RecoveryTyped DEF RowsInv, AnomaliesTyped
  <2> QED BY <1>1, <2>2, <2>4
<1>4. CASE ResetRuntime
  <2>1. /\ candidates' = [t \in AnomalyType |-> 0] /\ unstable' = 0 /\ context' = "none"
        /\ UNCHANGED anomalies
        /\ \/ UNCHANGED <<ingestions, reviews>>
           \/ /\ ingestions' = [i \in Ingestion |-> NoIngestion]
              /\ reviews' = [u \in Reviewer |-> NoReview]
      BY <1>4 DEF ResetRuntime, NoCandidates
  <2>2. EventIds' = EventIds BY <2>1, SameIds
  <2>3. CountersOK' BY <2>1, WeightAssumption DEF CountersOK
  <2>4. candidates' \in [AnomalyType -> Nat] BY <2>1
  <2>5. NoIngestion \in IngestionOf /\ NoReview \in ReviewOf BY DEF IngestionOf, ReviewOf
  <2>6. AnomaliesTyped' BY <2>1, <2>4, <2>5 DEF RowsInv, AnomaliesTyped
  <2>7. EventsKnown'
    <3>1. FindsEvent(NoIngestion, EventIds) /\ ReviewsEvent(NoReview, EventIds)
        BY DEF FindsEvent, ReviewsEvent, NoIngestion, NoReview
    <3>2. CASE UNCHANGED <<ingestions, reviews>> BY <2>2, <3>2 DEF RowsInv, EventsKnown
    <3>3. CASE /\ ingestions' = [i \in Ingestion |-> NoIngestion]
               /\ reviews' = [u \in Reviewer |-> NoReview]
      <4>1. (\A i \in Ingestion : ingestions'[i] = NoIngestion) /\ \A u \in Reviewer : reviews'[u] = NoReview
          BY <3>3
      <4> QED BY <2>2, <3>1, <4>1 DEF EventsKnown
    <3> QED BY <2>1, <3>2, <3>3
  <2> QED BY <2>3, <2>6, <2>7 DEF RowsInv
<1> QED BY <1>2, <1>3, <1>4

\* Every step leaves the rows typed.
LEMMA RowsInvStep == RowsInv /\ [WeightNext]_weightVars => RowsInv'
<1> SUFFICES ASSUME RowsInv, [WeightNext]_weightVars PROVE RowsInv' OBVIOUS
<1>1. ASSUME NEW i \in Ingestion, IngestionStep(i) \/ \E r \in Reading : Arrive(i, r) PROVE RowsInv'
    BY <1>1, ReadingTyped, FindForHitTyped, FindForRecoveryTyped, CreateEventTyped, UpdateEventTyped,
       RecordRecoveryTyped
       DEF IngestionStep
<1>2. ASSUME NEW u \in Reviewer,
             AcknowledgeWeightAnomaly(u) \/ ResolveWeightAnomaly(u) \/ MarkFalsePositive(u)
      PROVE RowsInv'
  <2>1. \A to \in {"ACKNOWLEDGED", "RESOLVED", "FALSE_POSITIVE"} : to \in AnomalyStatus BY DEF AnomalyStatus
  <2> QED BY <1>2, <2>1, ClaimTyped DEF AcknowledgeWeightAnomaly, ResolveWeightAnomaly, MarkFalsePositive
<1> QED BY <1>1, <1>2, LookTyped, SecurityTyped, SurroundingsTyped DEF WeightNext

\* What TLC checks of the rows.
LEMMA RowsTypes == RowsInv => WeightTypeOK
<1> SUFFICES ASSUME RowsInv PROVE WeightTypeOK OBVIOUS
<1>1. \A n \in 1..Len(anomalies) : anomalies[n] \in AnomalyRow BY DEF RowsInv, AnomaliesTyped
<1>2. \A n \in 1..Len(anomalies) :
         /\ anomalies[n].type \in AnomalyType
         /\ anomalies[n].status \in {"OPEN", "ACKNOWLEDGED", "RESOLVED", "FALSE_POSITIVE"}
         /\ anomalies[n].recovered \in {"no", "just now", "long ago"}
    BY <1>1 DEF AnomalyRow, AnomalyStatus, RecoveryState
<1>3. context \in {"none", "MAINTENANCE", "EMPTY", "UNLOADING", "WAITING_FOR_TARE", "VEHICLE_PRESENT", "WEIGHING"}
    BY DEF RowsInv, AnomaliesTyped, PlatformState
<1> QED BY <1>2, <1>3 DEF WeightTypeOK, RowsInv, CountersOK

\* The counters stay within the thresholds and the rows keep to their columns
\* without the hypothesis: an ingestion or a review that writes an event by the
\* id it has read earlier finds that event, whatever was written in between.
THEOREM MonitoringTyped == WeightSpec => []WeightTypeOK
BY RowsStart, RowsInvStep, RowsTypes, PTL DEF WeightSpec

-----------------------------------------------------------------------------
(* SupportService                                                          *)

\* Requests that deal with a window, or with the start or the end of a record.
OnWindow(c) == clerk[c].pc \in {"findWindow", "openWindow", "writeStart", "checkWindow",
                                "findOpen", "closeWindow", "writeEnd"}
HasRecord(c) == "item" \in DOMAIN clerk[c]

\* The hypotheses: such requests do not overlap, and a record with a window is
\* ended by a user who may end maintenance.
OneOnWindows == \A c, d \in Clerk : OnWindow(c) /\ OnWindow(d) => c = d
ManagersEnd ==
    \A c \in Clerk : clerk[c].pc = "writeEnd" /\ service[clerk[c].item].window # 0 => c \in WindowManager

\* What a request knows about the windows.
KnowsWindow(c) ==
    /\ OnWindow(c) /\ HasRecord(c) => clerk[c].item \in ServiceRecord
    /\ clerk[c].pc \in {"writeStart", "checkWindow", "writeEnd"} => HasRecord(c)
    /\ clerk[c].pc = "openWindow" => ActiveWindows = {}
    /\ clerk[c].pc = "writeStart" => clerk[c].window \in 0..Len(window)
    /\ clerk[c].pc = "checkWindow" =>
          clerk[c].window = service[clerk[c].item].window /\ clerk[c].window # 0
    /\ clerk[c].pc = "findOpen" /\ HasRecord(c) => service[clerk[c].item].window \in ActiveWindows
    /\ clerk[c].pc = "closeWindow" =>
          /\ clerk[c].open \in DOMAIN window
          /\ HasRecord(c) => clerk[c].open = service[clerk[c].item].window
    /\ clerk[c].pc = "writeEnd" /\ c \in WindowManager /\ service[clerk[c].item].window # 0 =>
          window[service[clerk[c].item].window] = "COMPLETED"

SupportTyped ==
    /\ window \in Seq({"ACTIVE", "COMPLETED"})
    /\ DOMAIN service = ServiceRecord
    /\ \A m \in ServiceRecord :
          DOMAIN service[m] = {"status", "window", "ticket"} /\ service[m].window \in 0..Len(window)
    /\ DOMAIN clerk = Clerk /\ \A c \in Clerk : "pc" \in DOMAIN clerk[c]

WindowsInv ==
    /\ SupportTyped
    /\ \A v, w \in ActiveWindows : v = w
    /\ \A c \in Clerk : KnowsWindow(c)
    /\ NoWindowLeftOpen

-----------------------------------------------------------------------------
\* What a job that goes on keeps and what it has found out.
LEMMA Updates ==
    ASSUME NEW job, NEW new
    PROVE  /\ DOMAIN Update(job, new) = DOMAIN job \cup DOMAIN new
           /\ \A x \in DOMAIN new : Update(job, new)[x] = new[x]
           /\ \A x \in DOMAIN job \ DOMAIN new : Update(job, new)[x] = job[x]
BY DEF Update

\* A step of a request whose job ends the step as j.
LEMMA ClerkMoves ==
    ASSUME SupportTyped, NEW c \in Clerk, NEW j, Goto(c, j)
    PROVE  /\ DOMAIN clerk' = Clerk /\ clerk'[c] = j
           /\ \A d \in Clerk \ {c} : clerk'[d] = clerk[d]
BY DEF SupportTyped, Goto

\* A step of a request that leaves the windows and the records as they are,
\* but for the tickets of records.
LEMMA QuietWindows ==
    ASSUME WindowsInv, NEW c \in Clerk,
           \A d \in Clerk \ {c} : clerk'[d] = clerk[d],
           DOMAIN clerk' = Clerk, "pc" \in DOMAIN clerk'[c], UNCHANGED window,
           DOMAIN service' = ServiceRecord,
           \A m \in ServiceRecord :
              /\ DOMAIN service'[m] = {"status", "window", "ticket"}
              /\ service'[m].window = service[m].window /\ service'[m].status = service[m].status,
           KnowsWindow(c)'
    PROVE  WindowsInv'
<1> USE DEF WindowsInv
<1>1. SupportTyped' BY DEF SupportTyped
<1>2. ActiveWindows' = ActiveWindows BY DEF ActiveWindows
<1>3. \A d \in Clerk : KnowsWindow(d)'
  <2> SUFFICES ASSUME NEW d \in Clerk, d # c PROVE KnowsWindow(d)' OBVIOUS
  <2>1. clerk'[d] = clerk[d] /\ KnowsWindow(d) OBVIOUS
  <2> QED BY <1>2, <2>1 DEF KnowsWindow, OnWindow, HasRecord
<1>4. NoWindowLeftOpen' BY DEF NoWindowLeftOpen
<1> QED BY <1>1, <1>2, <1>3, <1>4

\* The same of a step after which the request does not deal with a window.
LEMMA LeavesWindows ==
    ASSUME WindowsInv, NEW c \in Clerk, NEW j, Goto(c, j), "pc" \in DOMAIN j,
           j.pc \in {"idle", "failed", "number", "insert", "start", "transition", "update"},
           UNCHANGED <<window, service>>
    PROVE  WindowsInv'
<1>1. DOMAIN clerk' = Clerk /\ clerk'[c] = j /\ \A d \in Clerk \ {c} : clerk'[d] = clerk[d]
    BY ClerkMoves DEF WindowsInv
<1>2. KnowsWindow(c)' BY <1>1 DEF KnowsWindow, OnWindow
<1>3. /\ DOMAIN service' = ServiceRecord
      /\ \A m \in ServiceRecord : DOMAIN service'[m] = {"status", "window", "ticket"}
    BY DEF WindowsInv, SupportTyped
<1> QED BY <1>1, <1>2, <1>3, QuietWindows

\* The ticket of a record changes.
LEMMA TicketMoves ==
    ASSUME WindowsInv, NEW c \in Clerk, NEW j, Goto(c, j), "pc" \in DOMAIN j,
           j.pc \in {"idle", "failed", "number", "insert", "start", "transition", "update"},
           UNCHANGED window, NEW m, NEW t, service' = [service EXCEPT ![m].ticket = t]
    PROVE  WindowsInv'
<1>1. DOMAIN clerk' = Clerk /\ clerk'[c] = j /\ \A d \in Clerk \ {c} : clerk'[d] = clerk[d]
    BY ClerkMoves DEF WindowsInv
<1>2. KnowsWindow(c)' BY <1>1 DEF KnowsWindow, OnWindow
<1>3. DOMAIN service' = ServiceRecord BY DEF WindowsInv, SupportTyped
<1>4. \A n \in ServiceRecord :
         /\ DOMAIN service'[n] = {"status", "window", "ticket"}
         /\ service'[n].window = service[n].window /\ service'[n].status = service[n].status
  <2> SUFFICES ASSUME NEW n \in ServiceRecord
               PROVE  /\ DOMAIN service'[n] = {"status", "window", "ticket"}
                      /\ service'[n].window = service[n].window /\ service'[n].status = service[n].status
      OBVIOUS
  <2>1. DOMAIN service = ServiceRecord /\ DOMAIN service[n] = {"status", "window", "ticket"}
      BY DEF WindowsInv, SupportTyped
  <2>2. CASE n = m BY <2>1, <2>2
  <2>3. CASE n # m BY <2>1, <2>3
  <2> QED BY <2>2, <2>3
<1> QED BY <1>1, <1>2, <1>3, <1>4, QuietWindows

\* Numbers and tickets.
LEMMA NumbersStep ==
    ASSUME WindowsInv, NEW c \in Clerk,
           \/ \E x \in Numbered, t \in Ticket \cup {NoTicket}, s \in BOOLEAN : BeginCreate(c, x, t, s)
           \/ ReadLatestNumber(c) \/ InsertNumber(c)
           \/ \E t \in Ticket, to \in TicketStatuses : LoadTicket(c, t, to)
           \/ TransitionTicket(c)
           \/ \E m \in ServiceRecord, t \in Ticket \cup {NoTicket} : LoadForUpdate(c, m, t)
           \/ UpdateMaintenance(c) \/ Abort(c)
    PROVE  WindowsInv'
<1>0. "pc" \in DOMAIN clerk[c] BY DEF WindowsInv, SupportTyped
<1>1. ASSUME NEW x, NEW t, NEW s, BeginCreate(c, x, t, s) PROVE WindowsInv'
  <2> DEFINE j == [pc |-> "number", item |-> x, ticket |-> t, start |-> s, attempt |-> 1]
  <2>1. Goto(c, j) /\ UNCHANGED <<window, service>> BY <1>1 DEF BeginCreate
  <2>2. "pc" \in DOMAIN j /\ j.pc = "number" OBVIOUS
  <2> HIDE DEF j
  <2> QED BY <2>1, <2>2, LeavesWindows
<1>2. CASE ReadLatestNumber(c)
  <2> DEFINE j == Update(clerk[c], [pc |-> "insert", n |-> NextSupportNumber(clerk[c].item)])
  <2>1. Goto(c, j) /\ UNCHANGED <<window, service>> BY <1>2 DEF ReadLatestNumber
  <2>2. "pc" \in DOMAIN j /\ j.pc = "insert" BY DEF Update
  <2> HIDE DEF j
  <2> QED BY <2>1, <2>2, LeavesWindows
<1>3. CASE InsertNumber(c)
  <2> DEFINE job == clerk[c]
  <2>1. CASE TakenNumber(job.item, job.n)
    <3>1. Goto(c, TryAgain(job)) /\ UNCHANGED <<window, service>> BY <1>3, <2>1 DEF InsertNumber
    <3>2. "pc" \in DOMAIN TryAgain(job) /\ TryAgain(job).pc \in {"number", "failed"}
        BY <1>0 DEF TryAgain
    <3> QED BY <3>1, <3>2, LeavesWindows
  <2>2. CASE ~TakenNumber(job.item, job.n)
    <3> DEFINE j == IF job.start THEN [pc |-> "start", item |-> job.item] ELSE IdleClerk
    <3>1. Goto(c, j) /\ UNCHANGED window BY <1>3, <2>2 DEF InsertNumber
    <3>2. "pc" \in DOMAIN j /\ j.pc \in {"start", "idle"} BY DEF IdleClerk
    <3> HIDE DEF j
    <3>3. CASE job.item \in ServiceRecord
      <4>1. service' = [service EXCEPT ![job.item].ticket = job.ticket]
          BY <1>3, <2>2, <3>3 DEF InsertNumber
      <4> QED BY <3>1, <3>2, <4>1, TicketMoves
    <3>4. CASE job.item \notin ServiceRecord
      <4>1. UNCHANGED service BY <1>3, <2>2, <3>4 DEF InsertNumber
      <4> QED BY <3>1, <3>2, <4>1, LeavesWindows
    <3> QED BY <3>3, <3>4
  <2> QED BY <2>1, <2>2
<1>4. ASSUME NEW t, NEW to, LoadTicket(c, t, to) PROVE WindowsInv'
  <2> DEFINE j == [pc |-> "transition", item |-> t, to |-> to]
  <2>1. Goto(c, j) /\ UNCHANGED <<window, service>> BY <1>4 DEF LoadTicket
  <2>2. "pc" \in DOMAIN j /\ j.pc = "transition" OBVIOUS
  <2> HIDE DEF j
  <2> QED BY <2>1, <2>2, LeavesWindows
<1>5. "pc" \in DOMAIN IdleClerk /\ IdleClerk.pc = "idle" BY DEF IdleClerk
<1>6. CASE TransitionTicket(c) \/ Abort(c)
  <2>1. Goto(c, IdleClerk) /\ UNCHANGED <<window, service>>
      BY <1>6 DEF TransitionTicket, Abort, Finish
  <2> QED BY <1>5, <2>1, LeavesWindows
<1>7. ASSUME NEW m, NEW t, LoadForUpdate(c, m, t) PROVE WindowsInv'
  <2> DEFINE j == [pc |-> "update", item |-> m, ticket |-> t]
  <2>1. Goto(c, j) /\ UNCHANGED <<window, service>> BY <1>7 DEF LoadForUpdate
  <2>2. "pc" \in DOMAIN j /\ j.pc = "update" OBVIOUS
  <2> HIDE DEF j
  <2> QED BY <2>1, <2>2, LeavesWindows
<1>8. CASE UpdateMaintenance(c)
  <2>1. Goto(c, IdleClerk) /\ UNCHANGED window
      BY <1>8 DEF UpdateMaintenance, Finish
  <2>2. service' = [service EXCEPT ![clerk[c].item].ticket = clerk[c].ticket]
      BY <1>8 DEF UpdateMaintenance
  <2> QED BY <1>5, <2>1, <2>2, TicketMoves
<1> QED BY <1>1, <1>2, <1>3, <1>4, <1>6, <1>7, <1>8

-----------------------------------------------------------------------------
\* A request that begins or goes on to deal with a window, and has not changed
\* anything yet.
LEMMA TurnsToWindow ==
    ASSUME WindowsInv, NEW c \in Clerk, NEW j, Goto(c, j), "pc" \in DOMAIN j,
           UNCHANGED <<window, service>>, KnowsWindow(c)'
    PROVE  WindowsInv'
<1>1. DOMAIN clerk' = Clerk /\ clerk'[c] = j /\ \A d \in Clerk \ {c} : clerk'[d] = clerk[d]
    BY ClerkMoves DEF WindowsInv
<1>2. /\ DOMAIN service' = ServiceRecord
      /\ \A m \in ServiceRecord : DOMAIN service'[m] = {"status", "window", "ticket"}
    BY DEF WindowsInv, SupportTyped
<1> QED BY <1>1, <1>2, QuietWindows

\* Windows that are asked for by hand.
LEMMA ByHandStep ==
    ASSUME WindowsInv, NEW c \in Clerk, OpenByHand(c) \/ CloseByHand(c)
    PROVE  WindowsInv'
<1> DEFINE j == IF OpenByHand(c) THEN [pc |-> "findWindow"] ELSE [pc |-> "findOpen"]
<1>1. Goto(c, j) /\ UNCHANGED <<window, service>> BY DEF OpenByHand, CloseByHand
<1>2. DOMAIN j = {"pc"} /\ j.pc \in {"findWindow", "findOpen"} OBVIOUS
<1> HIDE DEF j
<1>3. clerk'[c] = j BY <1>1, ClerkMoves DEF WindowsInv
<1>4. KnowsWindow(c)' BY <1>2, <1>3 DEF KnowsWindow, OnWindow, HasRecord
<1> QED BY <1>1, <1>2, <1>4, TurnsToWindow

\* A window that is active is joined; otherwise there is none to join.
LEMMA FindWindowStep ==
    ASSUME WindowsInv, NEW c \in Clerk, FindWindow(c)
    PROVE  WindowsInv'
<1> USE DEF OnWindow, HasRecord
<1>1. UNCHANGED <<window, service>> /\ clerk[c].pc = "findWindow" BY DEF FindWindow
<1>2. KnowsWindow(c) BY DEF WindowsInv
<1>3. CASE ActiveWindows = {}
  <2> DEFINE j == Update(clerk[c], [pc |-> "openWindow"])
  <2>1. Goto(c, j) BY <1>3 DEF FindWindow
  <2>2. "pc" \in DOMAIN j /\ j.pc = "openWindow" /\ ("item" \in DOMAIN j <=> HasRecord(c))
        /\ (HasRecord(c) => j.item = clerk[c].item)
      BY DEF Update
  <2> HIDE DEF j
  <2>3. clerk'[c] = j BY <2>1, ClerkMoves DEF WindowsInv
  <2>4. ActiveWindows' = {} BY <1>1, <1>3 DEF ActiveWindows
  <2>5. KnowsWindow(c)' BY <1>1, <1>2, <2>2, <2>3, <2>4 DEF KnowsWindow
  <2> QED BY <1>1, <2>1, <2>2, <2>5, TurnsToWindow
<1>4. CASE ActiveWindows # {}
  <2>1. PICK w \in ActiveWindows : Resume(c, "writeStart", w) BY <1>4 DEF FindWindow
  <2>2. CASE HasRecord(c)
    <3> DEFINE j == Update(clerk[c], [pc |-> "writeStart", window |-> w])
    <3>1. Goto(c, j) BY <2>1, <2>2 DEF Resume
    <3>2. /\ "pc" \in DOMAIN j /\ j.pc = "writeStart" /\ "item" \in DOMAIN j
          /\ j.item = clerk[c].item /\ j.window = w
        BY <2>2 DEF Update
    <3> HIDE DEF j
    <3>3. clerk'[c] = j BY <3>1, ClerkMoves DEF WindowsInv
    <3>4. w \in 0..Len(window) BY DEF ActiveWindows, WindowsInv, SupportTyped
    <3>5. KnowsWindow(c)' BY <1>1, <1>2, <2>2, <3>2, <3>3, <3>4 DEF KnowsWindow
    <3> QED BY <1>1, <3>1, <3>2, <3>5, TurnsToWindow
  <2>3. CASE ~HasRecord(c)
    <3>1. Goto(c, IdleClerk) BY <2>1, <2>3 DEF Resume, Finish
    <3> QED BY <1>1, <3>1, LeavesWindows DEF IdleClerk
  <2> QED BY <2>2, <2>3
<1> QED BY <1>3, <1>4

\* The only other requests that could know about the windows do not run.
LEMMA OthersKnowNothing ==
    ASSUME OneOnWindows, NEW c \in Clerk, OnWindow(c),
           \A d \in Clerk \ {c} : clerk'[d] = clerk[d]
    PROVE  \A d \in Clerk \ {c} : KnowsWindow(d)'
BY DEF OneOnWindows, OnWindow, KnowsWindow

\* startMaintenance: the window is the only one that is active.
LEMMA OpenWindowStep ==
    ASSUME WindowsInv, OneOnWindows, NEW c \in Clerk, OpenWindow(c)
    PROVE  WindowsInv'
<1> USE DEF HasRecord
<1>1. /\ clerk[c].pc = "openWindow" /\ window' = Append(window, "ACTIVE") /\ UNCHANGED service
      /\ Resume(c, "writeStart", Len(window'))
    BY DEF OpenWindow
<1>2. KnowsWindow(c) /\ SupportTyped BY DEF WindowsInv
<1>3. window \in Seq({"ACTIVE", "COMPLETED"}) BY <1>2 DEF SupportTyped
<1>4. /\ window' \in Seq({"ACTIVE", "COMPLETED"}) /\ Len(window') = Len(window) + 1
      /\ \A w \in DOMAIN window : w \in DOMAIN window' /\ window'[w] = window[w]
      /\ \A w \in DOMAIN window' : w \in DOMAIN window \/ w = Len(window) + 1
    BY <1>1, <1>3
<1>5. ActiveWindows = {} BY <1>1, <1>2 DEF KnowsWindow
<1>6. \A v, w \in ActiveWindows' : v = w
  <2>1. \A w \in ActiveWindows' : w = Len(window) + 1 BY <1>4, <1>5 DEF ActiveWindows
  <2> QED BY <2>1
<1>7. PICK j : Goto(c, j) /\ j = IF HasRecord(c)
                                 THEN Update(clerk[c], [pc |-> "writeStart", window |-> Len(window')])
                                 ELSE IdleClerk
    BY <1>1 DEF Resume, Finish
<1>8. DOMAIN clerk' = Clerk /\ clerk'[c] = j /\ \A d \in Clerk \ {c} : clerk'[d] = clerk[d]
    BY <1>2, <1>7, ClerkMoves
<1>9. /\ "pc" \in DOMAIN j /\ j.pc \in {"idle", "writeStart"}
      /\ j.pc = "writeStart" => /\ HasRecord(c) /\ "item" \in DOMAIN j
                                /\ j.item = clerk[c].item /\ j.window = Len(window')
    BY <1>7 DEF Update, IdleClerk
<1>10. SupportTyped'
  <2>1. \A m \in ServiceRecord : service[m].window \in 0..Len(window') BY <1>2, <1>3, <1>4 DEF SupportTyped
  <2>2. \A d \in Clerk : "pc" \in DOMAIN clerk'[d] BY <1>2, <1>8, <1>9 DEF SupportTyped
  <2> QED BY <1>1, <1>2, <1>4, <1>8, <2>1, <2>2 DEF SupportTyped
<1>11. \A d \in Clerk : KnowsWindow(d)'
  <2>1. KnowsWindow(c)'
    <3>1. Len(window') \in 0..Len(window') BY <1>4
    <3>2. j.pc = "writeStart" => j.item \in ServiceRecord
        BY <1>1, <1>2, <1>9 DEF KnowsWindow, OnWindow
    <3> QED BY <1>8, <1>9, <3>1, <3>2 DEF KnowsWindow, OnWindow
  <2>2. OnWindow(c) BY <1>1 DEF OnWindow
  <2> QED BY <1>8, <2>1, <2>2, OthersKnowNothing
<1>12. NoWindowLeftOpen'
  <2> SUFFICES ASSUME NEW m \in ServiceRecord, service[m].status \in {"COMPLETED", "CANCELLED"},
                      service[m].window # 0
               PROVE  window'[service[m].window] = "COMPLETED"
      BY <1>1 DEF NoWindowLeftOpen
  <2>1. window[service[m].window] = "COMPLETED" BY DEF WindowsInv, NoWindowLeftOpen
  <2>2. service[m].window \in DOMAIN window BY <1>2, <1>3 DEF SupportTyped
  <2> QED BY <1>4, <2>1, <2>2
<1> QED BY <1>6, <1>10, <1>11, <1>12 DEF WindowsInv

\* endMaintenance finds the window of the record, if it is about one.
LEMMA FindOpenStep ==
    ASSUME WindowsInv, NEW c \in Clerk, FindOpen(c)
    PROVE  WindowsInv'
<1> USE DEF OnWindow, HasRecord
<1>1. UNCHANGED <<window, service>> /\ clerk[c].pc = "findOpen" BY DEF FindOpen
<1>2. KnowsWindow(c) BY DEF WindowsInv
<1>3. CASE ActiveWindows = {}
  <2>1. Goto(c, IdleClerk) BY <1>3 DEF FindOpen, Finish
  <2> QED BY <1>1, <2>1, LeavesWindows DEF IdleClerk
<1>4. CASE ActiveWindows # {}
  <2>1. PICK w \in ActiveWindows : Goto(c, Update(clerk[c], [pc |-> "closeWindow", open |-> w]))
      BY <1>4 DEF FindOpen
  <2> DEFINE j == Update(clerk[c], [pc |-> "closeWindow", open |-> w])
  <2>2. /\ "pc" \in DOMAIN j /\ j.pc = "closeWindow" /\ j.open = w
        /\ "item" \in DOMAIN j <=> HasRecord(c)
        /\ HasRecord(c) => j.item = clerk[c].item
      BY DEF Update
  <2> HIDE DEF j
  <2>3. clerk'[c] = j BY <2>1, ClerkMoves DEF WindowsInv, j
  <2>4. w \in DOMAIN window BY DEF ActiveWindows
  <2>5. HasRecord(c) => w = service[clerk[c].item].window
      BY <1>1, <1>2 DEF WindowsInv, KnowsWindow
  <2>6. KnowsWindow(c)' BY <1>1, <1>2, <2>2, <2>3, <2>4, <2>5 DEF KnowsWindow
  <2> QED BY <1>1, <2>1, <2>2, <2>6, TurnsToWindow DEF j
<1> QED BY <1>3, <1>4

\* endMaintenance closes it: what was over stays over.
LEMMA CloseWindowStep ==
    ASSUME WindowsInv, OneOnWindows, NEW c \in Clerk, CloseWindow(c)
    PROVE  WindowsInv'
<1> USE DEF HasRecord
<1>1. /\ clerk[c].pc = "closeWindow" /\ window' = [window EXCEPT ![clerk[c].open] = "COMPLETED"]
      /\ UNCHANGED service /\ Resume(c, "writeEnd", 0)
    BY DEF CloseWindow
<1>2. KnowsWindow(c) /\ SupportTyped BY DEF WindowsInv
<1>3. window \in Seq({"ACTIVE", "COMPLETED"}) BY <1>2 DEF SupportTyped
<1>4. /\ window' \in Seq({"ACTIVE", "COMPLETED"}) /\ Len(window') = Len(window)
      /\ DOMAIN window' = DOMAIN window
      /\ \A w \in DOMAIN window : window'[w] = IF w = clerk[c].open THEN "COMPLETED" ELSE window[w]
  <2>1. clerk[c].open \in DOMAIN window BY <1>1, <1>2 DEF KnowsWindow
  <2> DEFINE o == clerk[c].open
  <2>2. o \in DOMAIN window /\ window' = [window EXCEPT ![o] = "COMPLETED"] BY <1>1, <2>1
  <2> HIDE DEF o
  <2>3. window' \in Seq({"ACTIVE", "COMPLETED"}) /\ Len(window') = Len(window) BY <1>3, <2>2
  <2>4. DOMAIN window' = DOMAIN window BY <2>2
  <2>5. \A w \in DOMAIN window : window'[w] = IF w = o THEN "COMPLETED" ELSE window[w] BY <2>2
  <2> QED BY <2>3, <2>4, <2>5 DEF o
<1>5. \A v, w \in ActiveWindows' : v = w
  <2>1. \A w \in ActiveWindows' : w \in ActiveWindows BY <1>4 DEF ActiveWindows
  <2> QED BY <2>1 DEF WindowsInv
<1>7. PICK j : Goto(c, j) /\ j = IF HasRecord(c)
                                 THEN Update(clerk[c], [pc |-> "writeEnd", window |-> 0])
                                 ELSE IdleClerk
    BY <1>1 DEF Resume, Finish
<1>8. DOMAIN clerk' = Clerk /\ clerk'[c] = j /\ \A d \in Clerk \ {c} : clerk'[d] = clerk[d]
    BY <1>2, <1>7, ClerkMoves
<1>9. /\ "pc" \in DOMAIN j /\ j.pc \in {"idle", "writeEnd"}
      /\ j.pc = "writeEnd" => /\ HasRecord(c) /\ "item" \in DOMAIN j /\ j.item = clerk[c].item
    BY <1>7 DEF Update, IdleClerk
<1>10. SupportTyped'
  <2>2. \A d \in Clerk : "pc" \in DOMAIN clerk'[d] BY <1>2, <1>8, <1>9 DEF SupportTyped
  <2> QED BY <1>1, <1>2, <1>4, <1>8, <2>2 DEF SupportTyped
<1>11. \A d \in Clerk : KnowsWindow(d)'
  <2>1. KnowsWindow(c)'
    <3>1. j.pc = "writeEnd" => /\ j.item \in ServiceRecord
                               /\ clerk[c].open \in DOMAIN window /\ clerk[c].open = service[j.item].window
        BY <1>1, <1>2, <1>9 DEF KnowsWindow, OnWindow
    <3>2. j.pc = "writeEnd" => window'[service[j.item].window] = "COMPLETED" BY <1>4, <3>1
    <3> QED BY <1>1, <1>8, <1>9, <3>1, <3>2 DEF KnowsWindow, OnWindow
  <2>2. OnWindow(c) BY <1>1 DEF OnWindow
  <2> QED BY <1>8, <2>1, <2>2, OthersKnowNothing
<1>12. NoWindowLeftOpen'
  <2> SUFFICES ASSUME NEW m \in ServiceRecord, service[m].status \in {"COMPLETED", "CANCELLED"},
                      service[m].window # 0
               PROVE  window'[service[m].window] = "COMPLETED"
      BY <1>1 DEF NoWindowLeftOpen
  <2>1. window[service[m].window] = "COMPLETED" BY DEF WindowsInv, NoWindowLeftOpen
  <2>2. service[m].window \in DOMAIN window BY <1>2, <1>3 DEF SupportTyped
  <2> QED BY <1>4, <2>1, <2>2
<1> QED BY <1>5, <1>10, <1>11, <1>12 DEF WindowsInv

-----------------------------------------------------------------------------
\* A record is loaded to be started or ended.
LEMMA LoadRecordStep ==
    ASSUME WindowsInv, NEW c \in Clerk, NEW m \in ServiceRecord,
           LoadForStart(c, m) \/ \E to \in {"COMPLETED", "CANCELLED"} : LoadForEnd(c, m, to)
    PROVE  WindowsInv'
<1> USE DEF OnWindow, HasRecord
<1>1. service[m].window \in 0..Len(window) BY DEF WindowsInv, SupportTyped
<1>2. CASE LoadForStart(c, m)
  <2> DEFINE j == IF c \in WindowManager
                  THEN [pc |-> "findWindow", item |-> m, ticket |-> service[m].ticket]
                  ELSE [pc |-> "writeStart", item |-> m, ticket |-> service[m].ticket,
                        window |-> service[m].window]
  <2>1. Goto(c, j) /\ UNCHANGED <<window, service>> BY <1>2 DEF LoadForStart
  <2>2. /\ "pc" \in DOMAIN j /\ "item" \in DOMAIN j /\ j.item = m
        /\ j.pc \in {"findWindow", "writeStart"}
        /\ j.pc = "writeStart" => j.window = service[m].window
      OBVIOUS
  <2> HIDE DEF j
  <2>3. clerk'[c] = j BY <2>1, ClerkMoves DEF WindowsInv
  <2>4. KnowsWindow(c)' BY <1>1, <2>1, <2>2, <2>3 DEF KnowsWindow
  <2> QED BY <2>1, <2>2, <2>4, TurnsToWindow
<1>3. ASSUME NEW to, LoadForEnd(c, m, to) PROVE WindowsInv'
  <2> DEFINE j == [pc |-> IF EndsWindow(c, service[m].window) THEN "checkWindow" ELSE "writeEnd",
                   item |-> m, to |-> to, window |-> service[m].window]
  <2>1. Goto(c, j) /\ UNCHANGED <<window, service>> BY <1>3 DEF LoadForEnd
  <2>2. /\ "pc" \in DOMAIN j /\ "item" \in DOMAIN j /\ j.item = m /\ j.window = service[m].window
        /\ \/ j.pc = "checkWindow" /\ service[m].window # 0
           \/ j.pc = "writeEnd" /\ (c \in WindowManager => service[m].window = 0)
      BY DEF EndsWindow
  <2> HIDE DEF j
  <2>3. clerk'[c] = j BY <2>1, ClerkMoves DEF WindowsInv
  <2>4. KnowsWindow(c)' BY <2>1, <2>2, <2>3 DEF KnowsWindow
  <2> QED BY <2>1, <2>2, <2>4, TurnsToWindow
<1> QED BY <1>2, <1>3

\* The window of a record that ends is active, or over already.
LEMMA CheckWindowStep ==
    ASSUME WindowsInv, NEW c \in Clerk, CheckWindow(c)
    PROVE  WindowsInv'
<1> USE DEF OnWindow, HasRecord
<1> DEFINE j == [clerk[c] EXCEPT !.pc = IF window[clerk[c].window] = "ACTIVE" THEN "findOpen" ELSE "writeEnd"]
<1>1. Goto(c, j) /\ UNCHANGED <<window, service>> /\ clerk[c].pc = "checkWindow" BY DEF CheckWindow
<1>2. KnowsWindow(c) /\ "pc" \in DOMAIN clerk[c] BY DEF WindowsInv, SupportTyped
<1>3. /\ "pc" \in DOMAIN j /\ "item" \in DOMAIN j /\ j.item = clerk[c].item
      /\ j.pc = IF window[clerk[c].window] = "ACTIVE" THEN "findOpen" ELSE "writeEnd"
    BY <1>1, <1>2 DEF KnowsWindow
<1> HIDE DEF j
<1>4. clerk'[c] = j BY <1>1, ClerkMoves DEF WindowsInv
<1>5. /\ clerk[c].item \in ServiceRecord
      /\ clerk[c].window = service[clerk[c].item].window /\ clerk[c].window # 0
    BY <1>1, <1>2 DEF KnowsWindow
<1>6. clerk[c].window \in DOMAIN window /\ window[clerk[c].window] \in {"ACTIVE", "COMPLETED"}
    BY <1>5 DEF WindowsInv, SupportTyped
<1>7. KnowsWindow(c)'
  <2>1. CASE window[clerk[c].window] = "ACTIVE"
    <3>1. clerk[c].window \in ActiveWindows /\ ActiveWindows' = ActiveWindows
        BY <1>1, <1>6, <2>1 DEF ActiveWindows
    <3> QED BY <1>1, <1>3, <1>4, <1>5, <2>1, <3>1 DEF KnowsWindow
  <2>2. CASE window[clerk[c].window] = "COMPLETED"
      BY <1>1, <1>3, <1>4, <1>5, <2>2 DEF KnowsWindow
  <2> QED BY <1>6, <2>1, <2>2
<1> QED BY <1>1, <1>3, <1>7, TurnsToWindow

\* A record changes whose request does not deal with a window any more.
LEMMA RecordStep ==
    ASSUME WindowsInv, OneOnWindows, NEW c \in Clerk, OnWindow(c), NEW m \in ServiceRecord,
           Goto(c, IdleClerk), UNCHANGED window,
           DOMAIN service' = ServiceRecord, \A n \in ServiceRecord \ {m} : service'[n] = service[n],
           DOMAIN service'[m] = {"status", "window", "ticket"},
           service'[m].window \in 0..Len(window),
           service'[m].status \in {"COMPLETED", "CANCELLED"} /\ service'[m].window # 0
              => window[service'[m].window] = "COMPLETED"
    PROVE  WindowsInv'
<1>1. DOMAIN clerk' = Clerk /\ clerk'[c] = IdleClerk /\ \A d \in Clerk \ {c} : clerk'[d] = clerk[d]
    BY ClerkMoves DEF WindowsInv
<1>2. SupportTyped' BY <1>1 DEF WindowsInv, SupportTyped, IdleClerk
<1>3. \A d \in Clerk : KnowsWindow(d)'
  <2>1. KnowsWindow(c)' BY <1>1 DEF KnowsWindow, OnWindow, IdleClerk
  <2> QED BY <1>1, <2>1, OthersKnowNothing
<1>4. NoWindowLeftOpen' BY DEF WindowsInv, NoWindowLeftOpen
<1>5. \A v, w \in ActiveWindows' : v = w BY DEF WindowsInv, ActiveWindows
<1> QED BY <1>2, <1>3, <1>4, <1>5 DEF WindowsInv

\* startServiceMaintenance and endServiceMaintenance write the record.
LEMMA WriteRecordStep ==
    ASSUME WindowsInv, OneOnWindows, ManagersEnd, NEW c \in Clerk,
           StartServiceMaintenance(c) \/ EndServiceMaintenance(c)
    PROVE  WindowsInv'
<1> DEFINE m == clerk[c].item
<1>1. clerk[c].pc \in {"writeStart", "writeEnd"}
    BY DEF StartServiceMaintenance, EndServiceMaintenance
<1>2. KnowsWindow(c) /\ OnWindow(c) BY <1>1 DEF WindowsInv, OnWindow
<1>3. m \in ServiceRecord BY <1>1, <1>2 DEF KnowsWindow
<1>4. DOMAIN service = ServiceRecord /\ DOMAIN service[m] = {"status", "window", "ticket"}
      /\ service[m].window \in 0..Len(window)
    BY <1>3 DEF WindowsInv, SupportTyped
<1>5. Goto(c, IdleClerk) /\ UNCHANGED window
    BY DEF StartServiceMaintenance, EndServiceMaintenance, Finish
<1>6. CASE StartServiceMaintenance(c)
  <2>1. service' = [service EXCEPT ![m].status = "IN_PROGRESS", ![m].window = clerk[c].window]
      BY <1>6 DEF StartServiceMaintenance
  <2>2. clerk[c].window \in 0..Len(window) BY <1>2, <1>6 DEF KnowsWindow, StartServiceMaintenance
  <2> HIDE DEF m
  <2>3. /\ DOMAIN service' = ServiceRecord /\ \A n \in ServiceRecord \ {m} : service'[n] = service[n]
        /\ DOMAIN service'[m] = {"status", "window", "ticket"}
        /\ service'[m].window = clerk[c].window /\ service'[m].status = "IN_PROGRESS"
      BY <1>3, <1>4, <2>1
  <2> QED BY <1>2, <1>3, <1>5, <2>2, <2>3, RecordStep
<1>7. CASE EndServiceMaintenance(c)
  <2>1. service' = [service EXCEPT ![m].status = clerk[c].to] /\ clerk[c].pc = "writeEnd"
      BY <1>7 DEF EndServiceMaintenance
  <2>2. service[m].window # 0 => window[service[m].window] = "COMPLETED"
      BY <1>2, <2>1 DEF KnowsWindow, ManagersEnd
  <2> HIDE DEF m
  <2>3. /\ DOMAIN service' = ServiceRecord /\ \A n \in ServiceRecord \ {m} : service'[n] = service[n]
        /\ DOMAIN service'[m] = {"status", "window", "ticket"}
        /\ service'[m].window = service[m].window
      BY <1>3, <1>4, <2>1
  <2> QED BY <1>2, <1>3, <1>4, <1>5, <2>2, <2>3, RecordStep
<1> QED BY <1>6, <1>7

-----------------------------------------------------------------------------
\* At the start there are no windows.
LEMMA SupportStarts == SupportInit => WindowsInv
<1> SUFFICES ASSUME SupportInit PROVE WindowsInv OBVIOUS
<1> USE DEF SupportInit
<1>1. SupportTyped BY DEF SupportTyped, IdleClerk
<1>2. \A c \in Clerk : KnowsWindow(c) BY DEF KnowsWindow, OnWindow, IdleClerk
<1>3. ActiveWindows = {} BY DEF ActiveWindows
<1>4. NoWindowLeftOpen BY DEF NoWindowLeftOpen
<1> QED BY <1>1, <1>2, <1>3, <1>4 DEF WindowsInv

\* Every step keeps what is known.
LEMMA SupportKeeps ==
    ASSUME WindowsInv, OneOnWindows, ManagersEnd, [SupportNext]_supportVars
    PROVE  WindowsInv'
<1>1. CASE UNCHANGED supportVars
  <2> USE <1>1 DEF supportVars, WindowsInv
  <2>1. SupportTyped' BY DEF SupportTyped
  <2>2. ActiveWindows' = ActiveWindows BY DEF ActiveWindows
  <2>3. \A c \in Clerk : KnowsWindow(c)' BY <2>2 DEF KnowsWindow, OnWindow, HasRecord
  <2>4. NoWindowLeftOpen' BY DEF NoWindowLeftOpen
  <2> QED BY <2>1, <2>2, <2>3, <2>4
<1>2. CASE SupportNext
  <2> USE <1>2
  <2>1. PICK c \in Clerk :
           \/ \/ \E x \in Numbered, t \in Ticket \cup {NoTicket}, s \in BOOLEAN : BeginCreate(c, x, t, s)
              \/ ReadLatestNumber(c) \/ InsertNumber(c)
              \/ \E t \in Ticket, to \in TicketStatuses : LoadTicket(c, t, to)
              \/ TransitionTicket(c)
              \/ \E m \in ServiceRecord, t \in Ticket \cup {NoTicket} : LoadForUpdate(c, m, t)
              \/ UpdateMaintenance(c) \/ Abort(c)
           \/ OpenByHand(c) \/ CloseByHand(c)
           \/ FindWindow(c) \/ OpenWindow(c) \/ FindOpen(c) \/ CloseWindow(c)
           \/ \E m \in ServiceRecord :
                 LoadForStart(c, m) \/ \E to \in {"COMPLETED", "CANCELLED"} : LoadForEnd(c, m, to)
           \/ CheckWindow(c)
           \/ StartServiceMaintenance(c) \/ EndServiceMaintenance(c)
      BY DEF SupportNext
  <2> QED BY <2>1, NumbersStep, ByHandStep, FindWindowStep, OpenWindowStep, FindOpenStep,
             CloseWindowStep, LoadRecordStep, CheckWindowStep, WriteRecordStep
<1> QED BY <1>1, <1>2

\* The window of a record that has ended is over, wherever requests are cut
\* off, if those about windows do not overlap and the users who end records may
\* end maintenance.
THEOREM MaintenanceEnds == SupportSpec /\ []OneOnWindows /\ []ManagersEnd => []NoWindowLeftOpen
<1>1. WindowsInv => NoWindowLeftOpen BY DEF WindowsInv
<1>2. WindowsInv /\ OneOnWindows /\ ManagersEnd /\ [SupportNext]_supportVars => WindowsInv'
    BY SupportKeeps
<1> QED BY <1>1, <1>2, SupportStarts, PTL DEF SupportSpec

-----------------------------------------------------------------------------
(* Types of support, whichever requests overlap.                           *)

ClerkSteps == {"idle", "failed", "number", "insert", "start", "transition", "update", "findWindow",
               "openWindow", "writeStart", "checkWindow", "findOpen", "closeWindow", "writeEnd"}
TicketOrNone == Ticket \cup {NoTicket}
FinalStatus == {"COMPLETED", "CANCELLED"}

\* A job has the field f, with a value of S.
Field(j, f, S) == f \in DOMAIN j /\ j[f] \in S

\* What a job keeps is told by what it does next; there are n windows.
JobOK(j, n) ==
    /\ Field(j, "pc", ClerkSteps)
    /\ j.pc \in {"number", "insert"} => Field(j, "item", Numbered) /\ Field(j, "ticket", TicketOrNone)
    /\ j.pc = "insert" => Field(j, "n", Nat)
    /\ j.pc = "transition" => Field(j, "item", Ticket) /\ Field(j, "to", TicketStatuses)
    /\ j.pc \in {"findWindow", "openWindow", "writeStart"} /\ "item" \in DOMAIN j =>
          Field(j, "item", ServiceRecord) /\ Field(j, "ticket", TicketOrNone)
    /\ j.pc \in {"checkWindow", "findOpen", "closeWindow", "writeEnd"} /\ "item" \in DOMAIN j =>
          Field(j, "item", ServiceRecord) /\ Field(j, "to", FinalStatus)
    /\ j.pc \in {"writeStart", "checkWindow", "writeEnd"} => "item" \in DOMAIN j
    /\ j.pc = "writeStart" => Field(j, "window", 0..n)
    /\ j.pc = "closeWindow" => Field(j, "open", 1..n)
    /\ j.pc = "update" => Field(j, "item", ServiceRecord) /\ Field(j, "ticket", TicketOrNone)

ServiceRow(n) == [status : ServiceStatuses, window : 0..n, ticket : TicketOrNone]

\* The numbers given so far have a bound: the latest of a kind exists.
SupportInv ==
    /\ SupportTypeOK
    /\ \E n \in Nat : \A x \in Numbered : number[x] <= n
    /\ DOMAIN clerk = Clerk /\ \A c \in Clerk : JobOK(clerk[c], Len(window))

\* A set of numbers with a bound has a greatest one.
LEMMA GreatestNumber ==
    ASSUME NEW N \in Nat, NEW S \in SUBSET (0..N), S # {}
    PROVE  Max(S) \in S
<1> DEFINE T == {k \in 0..N : N - k \in S}
<1>1. T \in SUBSET Nat OBVIOUS
<1>2. T # {}
  <2>1. PICK n \in S : TRUE OBVIOUS
  <2>2. N - n \in 0..N /\ N - (N - n) = n BY <2>1
  <2> QED BY <2>1, <2>2
<1>3. PICK x \in T : \A y \in T : x <= y
  <2> HIDE DEF T
  <2> QED BY <1>1, <1>2, LeastNumber
<1>4. N - x \in S BY <1>3
<1>5. ASSUME NEW m \in S PROVE N - x >= m
  <2>1. N - m \in T BY <1>5
  <2>2. x <= N - m /\ x \in Nat BY <1>3, <2>1
  <2> QED BY <2>2
<1>6. \E y \in S : \A m \in S : y >= m BY <1>4, <1>5
<1> QED BY <1>6 DEF Max

\* The next number of a ticket or of a record is a number.
LEMMA NextNumber ==
    ASSUME SupportInv, NEW x \in Numbered
    PROVE  NextSupportNumber(x) \in Nat
<1> DEFINE kind == KindOfItem(x)
           S == {number[y] : y \in kind} \cup {0}
<1>1. kind \subseteq Numbered BY DEF KindOfItem, Numbered
<1>2. PICK n \in Nat : \A y \in Numbered : number[y] <= n BY DEF SupportInv
<1>3. \A y \in Numbered : number[y] \in Nat BY DEF SupportInv, SupportTypeOK
<1> HIDE DEF kind
<1>4. S \in SUBSET (0..n) /\ S # {} BY <1>1, <1>2, <1>3
<1> HIDE DEF S
<1>5. Max(S) \in S BY <1>4, GreatestNumber
<1>6. \A y \in S : y \in Nat BY <1>4
<1>7. Max(S) \in Nat BY <1>5, <1>6
<1> QED BY <1>7 DEF NextSupportNumber, Latest, S, kind

\* What a job knows of the windows stays true when there are more of them.
LEMMA MoreWindows ==
    ASSUME NEW j, NEW m \in Nat, NEW n \in Nat, m <= n, JobOK(j, m)
    PROVE  JobOK(j, n)
<1>1. 0..m \subseteq 0..n /\ 1..m \subseteq 1..n OBVIOUS
<1>2. Field(j, "window", 0..m) => Field(j, "window", 0..n) BY <1>1 DEF Field
<1>3. Field(j, "open", 1..m) => Field(j, "open", 1..n) BY <1>1 DEF Field
<1> QED BY <1>2, <1>3 DEF JobOK

\* A request whose job ends the step as j.
LEMMA JobMoves ==
    ASSUME SupportInv, NEW c \in Clerk, NEW j, Goto(c, j), Len(window') \in Nat, Len(window) <= Len(window'),
           JobOK(j, Len(window'))
    PROVE  DOMAIN clerk' = Clerk /\ \A d \in Clerk : JobOK(clerk'[d], Len(window'))
<1>1. Len(window) \in Nat BY DEF SupportInv, SupportTypeOK
<1>2. DOMAIN clerk' = Clerk /\ clerk'[c] = j /\ \A d \in Clerk \ {c} : clerk'[d] = clerk[d]
    BY DEF SupportInv, Goto
<1>3. \A d \in Clerk : JobOK(clerk[d], Len(window')) BY <1>1, MoreWindows DEF SupportInv
<1> QED BY <1>2, <1>3

\* A step in which only the job changes.
LEMMA JobOnly ==
    ASSUME SupportInv, NEW c \in Clerk, NEW j, Goto(c, j), JobOK(j, Len(window)),
           UNCHANGED <<number, ticketStatus, service, window, aborts>>
    PROVE  SupportInv'
<1>1. Len(window') \in Nat /\ Len(window) <= Len(window') BY DEF SupportInv, SupportTypeOK
<1>2. DOMAIN clerk' = Clerk /\ \A d \in Clerk : JobOK(clerk'[d], Len(window')) BY <1>1, JobMoves
<1>3. SupportTypeOK' BY DEF SupportInv, SupportTypeOK
<1>4. \E n \in Nat : \A x \in Numbered : number'[x] <= n BY DEF SupportInv
<1> QED BY <1>2, <1>3, <1>4 DEF SupportInv

\* A step that ends a request.
LEMMA IdleJob == \A n : JobOK(IdleClerk, n)
BY DEF JobOK, Field, IdleClerk, ClerkSteps

\* A record is written.
LEMMA RecordTyped ==
    ASSUME NEW n \in Nat, NEW rows \in [ServiceRecord -> ServiceRow(n)], NEW m \in ServiceRecord
    PROVE  /\ \A s \in ServiceStatuses : [rows EXCEPT ![m].status = s] \in [ServiceRecord -> ServiceRow(n)]
           /\ \A t \in TicketOrNone : [rows EXCEPT ![m].ticket = t] \in [ServiceRecord -> ServiceRow(n)]
           /\ \A s \in ServiceStatuses : \A w \in 0..n :
                 [rows EXCEPT ![m].status = s, ![m].window = w] \in [ServiceRecord -> ServiceRow(n)]
<1>1. rows[m] \in ServiceRow(n) OBVIOUS
<1>2. ASSUME NEW r \in ServiceRow(n) PROVE [rows EXCEPT ![m] = r] \in [ServiceRecord -> ServiceRow(n)]
    OBVIOUS
<1>3. ASSUME NEW s \in ServiceStatuses
      PROVE  [rows EXCEPT ![m].status = s] \in [ServiceRecord -> ServiceRow(n)]
  <2>1. [rows[m] EXCEPT !.status = s] \in ServiceRow(n) BY <1>1 DEF ServiceRow
  <2> QED BY <1>2, <2>1
<1>4. ASSUME NEW t \in TicketOrNone
      PROVE  [rows EXCEPT ![m].ticket = t] \in [ServiceRecord -> ServiceRow(n)]
  <2>1. [rows[m] EXCEPT !.ticket = t] \in ServiceRow(n) BY <1>1 DEF ServiceRow
  <2> QED BY <1>2, <2>1
<1>5. ASSUME NEW s \in ServiceStatuses, NEW w \in 0..n
      PROVE  [rows EXCEPT ![m].status = s, ![m].window = w] \in [ServiceRecord -> ServiceRow(n)]
  <2>1. [rows[m] EXCEPT !.status = s, !.window = w] \in ServiceRow(n) BY <1>1 DEF ServiceRow
  <2>2. [rows EXCEPT ![m].status = s, ![m].window = w]
          = [rows EXCEPT ![m] = [rows[m] EXCEPT !.status = s, !.window = w]]
      BY <1>1 DEF ServiceRow
  <2> QED BY <1>2, <2>1, <2>2
<1> QED BY <1>3, <1>4, <1>5

-----------------------------------------------------------------------------
\* Tickets and records are created.
LEMMA CreationTyped ==
    ASSUME SupportInv, NEW c \in Clerk,
           \/ \E x \in Numbered, t \in Ticket \cup {NoTicket}, s \in BOOLEAN : BeginCreate(c, x, t, s)
           \/ ReadLatestNumber(c) \/ InsertNumber(c)
    PROVE  SupportInv'
<1> DEFINE job == clerk[c]
<1>1. JobOK(job, Len(window)) /\ Len(window) \in Nat BY DEF SupportInv, SupportTypeOK
<1>2. ASSUME NEW x \in Numbered, NEW t \in Ticket \cup {NoTicket}, NEW s \in BOOLEAN, BeginCreate(c, x, t, s)
      PROVE  SupportInv'
  <2> DEFINE j == [pc |-> "number", item |-> x, ticket |-> t, start |-> s, attempt |-> 1]
  <2>1. Goto(c, j) /\ UNCHANGED <<number, ticketStatus, service, window, aborts>> BY <1>2 DEF BeginCreate
  <2>2. JobOK(j, Len(window)) BY DEF JobOK, Field, ClerkSteps, TicketOrNone
  <2> HIDE DEF j
  <2> QED BY <2>1, <2>2, JobOnly
<1>3. CASE ReadLatestNumber(c)
  <2> DEFINE n == NextSupportNumber(job.item)
             new == [pc |-> "insert", n |-> n]
             j == Update(job, new)
  <2>1. Goto(c, j) /\ UNCHANGED <<number, ticketStatus, service, window, aborts>> /\ job.pc = "number"
      BY <1>3 DEF ReadLatestNumber
  <2>2. Field(job, "item", Numbered) /\ Field(job, "ticket", TicketOrNone) BY <1>1, <2>1 DEF JobOK
  <2>3. n \in Nat BY <2>2, NextNumber DEF Field
  <2> HIDE DEF job, n
  <2>4. DOMAIN new = {"pc", "n"} /\ new.pc = "insert" /\ new.n = n OBVIOUS
  <2> HIDE DEF new
  <2>5. /\ DOMAIN j = DOMAIN job \cup {"pc", "n"} /\ j.pc = "insert" /\ j.n = n
        /\ \A f \in DOMAIN job \ {"pc", "n"} : j[f] = job[f]
    <3>1. /\ DOMAIN j = DOMAIN job \cup DOMAIN new /\ \A f \in DOMAIN new : j[f] = new[f]
          /\ \A f \in DOMAIN job \ DOMAIN new : j[f] = job[f]
        BY Updates
    <3> QED BY <2>4, <3>1
  <2> HIDE DEF j
  <2>6. Field(j, "item", Numbered) /\ Field(j, "ticket", TicketOrNone) /\ Field(j, "n", Nat)
        /\ Field(j, "pc", ClerkSteps)
      BY <2>2, <2>3, <2>5 DEF Field, ClerkSteps
  <2>7. JobOK(j, Len(window)) BY <2>5, <2>6 DEF JobOK
  <2> QED BY <2>1, <2>7, JobOnly
<1>4. CASE InsertNumber(c)
  <2>1. /\ job.pc = "insert" /\ UNCHANGED <<ticketStatus, window, aborts>>
        /\ IF TakenNumber(job.item, job.n)
           THEN Goto(c, TryAgain(job)) /\ UNCHANGED <<number, service>>
           ELSE /\ number' = [number EXCEPT ![job.item] = job.n]
                /\ service' = IF job.item \in ServiceRecord
                              THEN [service EXCEPT ![job.item].ticket = job.ticket] ELSE service
                /\ Goto(c, IF job.start THEN [pc |-> "start", item |-> job.item] ELSE IdleClerk)
      BY <1>4 DEF InsertNumber
  <2>2. Field(job, "item", Numbered) /\ Field(job, "ticket", TicketOrNone) /\ Field(job, "n", Nat)
        /\ Field(job, "pc", ClerkSteps)
      BY <1>1, <2>1 DEF JobOK
  <2>3. CASE TakenNumber(job.item, job.n)
    <3> DEFINE j == TryAgain(job)
    <3>1. Goto(c, j) /\ UNCHANGED <<number, ticketStatus, service, window, aborts>> BY <2>1, <2>3
    <3> HIDE DEF job
    <3>2. /\ DOMAIN j = DOMAIN job /\ j.pc \in {"number", "failed"}
          /\ \A f \in DOMAIN job \ {"pc", "attempt"} : j[f] = job[f]
        BY <2>2 DEF TryAgain, Field
    <3> HIDE DEF j
    <3>3. Field(j, "item", Numbered) /\ Field(j, "ticket", TicketOrNone) /\ Field(j, "pc", ClerkSteps)
        BY <2>2, <3>2 DEF Field, ClerkSteps
    <3>4. JobOK(j, Len(window)) BY <3>2, <3>3 DEF JobOK
    <3> QED BY <3>1, <3>4, JobOnly
  <2>4. CASE ~TakenNumber(job.item, job.n)
    <3> DEFINE j == IF job.start THEN [pc |-> "start", item |-> job.item] ELSE IdleClerk
    <3>1. /\ Goto(c, j) /\ number' = [number EXCEPT ![job.item] = job.n]
          /\ service' = IF job.item \in ServiceRecord
                        THEN [service EXCEPT ![job.item].ticket = job.ticket] ELSE service
        BY <2>1, <2>4
    <3>2. /\ job.item \in Numbered /\ job.ticket \in TicketOrNone /\ job.n \in Nat BY <2>2 DEF Field
    <3> HIDE DEF job
    <3>3. JobOK(j, Len(window))
      <4>1. JobOK([pc |-> "start", item |-> job.item], Len(window)) BY DEF JobOK, Field, ClerkSteps
      <4> QED BY <4>1, IdleJob
    <3> HIDE DEF j
    <3>4. Len(window') = Len(window) BY <2>1
    <3>5. DOMAIN clerk' = Clerk /\ \A d \in Clerk : JobOK(clerk'[d], Len(window'))
        BY <1>1, <3>1, <3>3, <3>4, JobMoves
    <3>6. number' \in [Numbered -> Nat] BY <3>1, <3>2 DEF SupportInv, SupportTypeOK
    <3>7. \E n \in Nat : \A x \in Numbered : number'[x] <= n
      <4>1. PICK n \in Nat : \A x \in Numbered : number[x] <= n BY DEF SupportInv
      <4>2. number \in [Numbered -> Nat] BY DEF SupportInv, SupportTypeOK
      <4>3. n + job.n \in Nat BY <3>2
      <4>4. \A x \in Numbered : number'[x] <= n + job.n BY <3>1, <3>2, <4>1, <4>2
      <4> QED BY <4>3, <4>4
    <3>8. service \in [ServiceRecord -> ServiceRow(Len(window))]
        BY DEF SupportInv, SupportTypeOK, ServiceRow, TicketOrNone
    <3>9. service' \in [ServiceRecord -> ServiceRow(Len(window))]
      <4>1. CASE job.item \in ServiceRecord
        <5>1. service' = [service EXCEPT ![job.item].ticket = job.ticket] BY <3>1, <4>1
        <5>2. [service EXCEPT ![job.item].ticket = job.ticket] \in [ServiceRecord -> ServiceRow(Len(window))]
            BY <1>1, <3>2, <3>8, <4>1, RecordTyped
        <5> QED BY <5>1, <5>2
      <4>2. CASE job.item \notin ServiceRecord BY <3>1, <3>8, <4>2
      <4> QED BY <4>1, <4>2
    <3>10. SupportTypeOK'
        BY <2>1, <3>6, <3>9 DEF SupportInv, SupportTypeOK, ServiceRow, TicketOrNone
    <3> QED BY <3>5, <3>7, <3>10 DEF SupportInv
  <2> QED BY <2>3, <2>4
<1> QED BY <1>2, <1>3, <1>4

\* The status of a ticket changes, or the ticket of a record; a request is cut off.
LEMMA TicketTyped ==
    ASSUME SupportInv, NEW c \in Clerk,
           \/ \E t \in Ticket, to \in TicketStatuses : LoadTicket(c, t, to)
           \/ TransitionTicket(c)
           \/ \E m \in ServiceRecord, t \in Ticket \cup {NoTicket} : LoadForUpdate(c, m, t)
           \/ UpdateMaintenance(c) \/ Abort(c)
    PROVE  SupportInv'
<1> DEFINE job == clerk[c]
<1>1. JobOK(job, Len(window)) /\ Len(window) \in Nat BY DEF SupportInv, SupportTypeOK
<1>2. ASSUME Goto(c, IdleClerk), UNCHANGED window
      PROVE  DOMAIN clerk' = Clerk /\ \A d \in Clerk : JobOK(clerk'[d], Len(window'))
    BY <1>1, <1>2, IdleJob, JobMoves
<1>3. service \in [ServiceRecord -> ServiceRow(Len(window))]
    BY DEF SupportInv, SupportTypeOK, ServiceRow, TicketOrNone
<1>4. ASSUME NEW t \in Ticket, NEW to \in TicketStatuses, LoadTicket(c, t, to) PROVE SupportInv'
  <2> DEFINE j == [pc |-> "transition", item |-> t, to |-> to]
  <2>1. Goto(c, j) /\ UNCHANGED <<number, ticketStatus, service, window, aborts>> BY <1>4 DEF LoadTicket
  <2>2. JobOK(j, Len(window)) BY DEF JobOK, Field, ClerkSteps
  <2> HIDE DEF j
  <2> QED BY <2>1, <2>2, JobOnly
<1>5. CASE TransitionTicket(c)
  <2>1. /\ job.pc = "transition" /\ ticketStatus' = [ticketStatus EXCEPT ![job.item] = job.to]
        /\ Goto(c, IdleClerk) /\ UNCHANGED <<number, service, window, aborts>>
      BY <1>5 DEF TransitionTicket, Finish
  <2>2. job.to \in TicketStatuses BY <1>1, <2>1 DEF JobOK, Field
  <2>3. SupportTypeOK' BY <2>1, <2>2 DEF SupportInv, SupportTypeOK
  <2> QED BY <1>2, <2>1, <2>3 DEF SupportInv
<1>6. ASSUME NEW m \in ServiceRecord, NEW t \in Ticket \cup {NoTicket}, LoadForUpdate(c, m, t)
      PROVE  SupportInv'
  <2> DEFINE j == [pc |-> "update", item |-> m, ticket |-> t]
  <2>1. Goto(c, j) /\ UNCHANGED <<number, ticketStatus, service, window, aborts>> BY <1>6 DEF LoadForUpdate
  <2>2. JobOK(j, Len(window)) BY DEF JobOK, Field, ClerkSteps, TicketOrNone
  <2> HIDE DEF j
  <2> QED BY <2>1, <2>2, JobOnly
<1>7. CASE UpdateMaintenance(c)
  <2>1. /\ job.pc = "update" /\ service' = [service EXCEPT ![job.item].ticket = job.ticket]
        /\ Goto(c, IdleClerk) /\ UNCHANGED <<number, ticketStatus, window, aborts>>
      BY <1>7 DEF UpdateMaintenance, Finish
  <2>2. job.item \in ServiceRecord /\ job.ticket \in TicketOrNone BY <1>1, <2>1 DEF JobOK, Field
  <2>3. service' \in [ServiceRecord -> ServiceRow(Len(window))] BY <1>1, <1>3, <2>1, <2>2, RecordTyped
  <2>4. SupportTypeOK' BY <2>1, <2>3 DEF SupportInv, SupportTypeOK, ServiceRow, TicketOrNone
  <2> QED BY <1>2, <2>1, <2>4 DEF SupportInv
<1>8. CASE Abort(c)
  <2>1. /\ aborts < MaxAborts /\ aborts' = aborts + 1
        /\ Goto(c, IdleClerk) /\ UNCHANGED <<number, ticketStatus, service, window>>
      BY <1>8 DEF Abort, Finish
  <2>2. aborts' \in 0..MaxAborts BY <2>1, SupportAssumption DEF SupportInv, SupportTypeOK
  <2>3. SupportTypeOK' BY <2>1, <2>2 DEF SupportInv, SupportTypeOK
  <2> QED BY <1>2, <2>1, <2>3 DEF SupportInv
<1> QED BY <1>4, <1>5, <1>6, <1>7, <1>8

-----------------------------------------------------------------------------
\* Requests turn to a window, or look at one.
LEMMA LookAtWindowTyped ==
    ASSUME SupportInv, NEW c \in Clerk,
           \/ OpenByHand(c) \/ CloseByHand(c) \/ FindWindow(c) \/ FindOpen(c) \/ CheckWindow(c)
           \/ \E m \in ServiceRecord : LoadForStart(c, m)
           \/ \E m \in ServiceRecord, to \in {"COMPLETED", "CANCELLED"} : LoadForEnd(c, m, to)
    PROVE  SupportInv'
<1> DEFINE job == clerk[c]
           n == Len(window)
<1>1. JobOK(job, n) /\ n \in Nat BY DEF SupportInv, SupportTypeOK
<1>2. DOMAIN window = 1..n /\ ActiveWindows \subseteq 1..n BY DEF SupportInv, SupportTypeOK, ActiveWindows
<1>3. \A m \in ServiceRecord : service[m].window \in 0..n /\ service[m].ticket \in TicketOrNone
  <2>1. \A m \in ServiceRecord : service[m] \in ServiceRow(n)
      BY DEF SupportInv, SupportTypeOK, ServiceRow, TicketOrNone
  <2> HIDE DEF n
  <2> QED BY <2>1 DEF ServiceRow
<1> DEFINE still == UNCHANGED <<number, ticketStatus, service, window, aborts>>
<1>4. ASSUME NEW j, Goto(c, j), JobOK(j, n), still PROVE SupportInv' BY <1>4, JobOnly
<1>5. CASE OpenByHand(c)
  <2>1. Goto(c, [pc |-> "findWindow"]) /\ still BY <1>5 DEF OpenByHand
  <2>2. JobOK([pc |-> "findWindow"], n) BY DEF JobOK, Field, ClerkSteps
  <2> HIDE DEF still, n
  <2> QED BY <1>4, <2>1, <2>2
<1>6. CASE CloseByHand(c)
  <2>1. Goto(c, [pc |-> "findOpen"]) /\ still BY <1>6 DEF CloseByHand
  <2>2. JobOK([pc |-> "findOpen"], n) BY DEF JobOK, Field, ClerkSteps
  <2> HIDE DEF still, n
  <2> QED BY <1>4, <2>1, <2>2
<1> HIDE DEF n
<1>7. CASE FindWindow(c)
  <2>1. job.pc = "findWindow" /\ still BY <1>7 DEF FindWindow
  <2>2. CASE ActiveWindows = {}
    <3> DEFINE new == [pc |-> "openWindow"]
               j == Update(job, new)
    <3>1. Goto(c, j) BY <1>7, <2>2 DEF FindWindow
    <3>2. DOMAIN new = {"pc"} /\ new.pc = "openWindow" OBVIOUS
    <3> HIDE DEF job, new
    <3>3. DOMAIN j = DOMAIN job \cup {"pc"} /\ j.pc = "openWindow" /\ \A f \in DOMAIN job \ {"pc"} : j[f] = job[f]
      <4>1. /\ DOMAIN j = DOMAIN job \cup DOMAIN new /\ \A f \in DOMAIN new : j[f] = new[f]
            /\ \A f \in DOMAIN job \ DOMAIN new : j[f] = job[f]
          BY Updates
      <4> QED BY <3>2, <4>1
    <3> HIDE DEF j, still
    <3>4. JobOK(j, n) BY <1>1, <2>1, <3>3 DEF JobOK, Field, ClerkSteps
    <3> QED BY <1>4, <2>1, <3>1, <3>4
  <2>3. CASE ActiveWindows # {}
    <3>1. PICK w \in ActiveWindows : Resume(c, "writeStart", w) BY <1>7, <2>3 DEF FindWindow
    <3>2. CASE "item" \notin DOMAIN job
      <4>1. Goto(c, IdleClerk) BY <3>1, <3>2 DEF Resume, Finish
      <4> HIDE DEF still
      <4> QED BY <1>4, <2>1, <4>1, IdleJob
    <3>3. CASE "item" \in DOMAIN job
      <4> DEFINE new == [pc |-> "writeStart", window |-> w]
                 j == Update(job, new)
      <4>1. Goto(c, j) BY <3>1, <3>3 DEF Resume
      <4>2. DOMAIN new = {"pc", "window"} /\ new.pc = "writeStart" /\ new.window = w OBVIOUS
      <4> HIDE DEF job, new
      <4>3. /\ DOMAIN j = DOMAIN job \cup {"pc", "window"} /\ j.pc = "writeStart" /\ j.window = w
            /\ \A f \in DOMAIN job \ {"pc", "window"} : j[f] = job[f]
        <5>1. /\ DOMAIN j = DOMAIN job \cup DOMAIN new /\ \A f \in DOMAIN new : j[f] = new[f]
              /\ \A f \in DOMAIN job \ DOMAIN new : j[f] = job[f]
            BY Updates
        <5> QED BY <4>2, <5>1
      <4> HIDE DEF j, still
      <4>4. w \in 0..n BY <1>1, <1>2
      <4>5. JobOK(j, n) BY <1>1, <2>1, <3>3, <4>3, <4>4 DEF JobOK, Field, ClerkSteps
      <4> QED BY <1>4, <2>1, <4>1, <4>5
    <3> QED BY <3>2, <3>3
  <2> QED BY <2>2, <2>3
<1>8. CASE FindOpen(c)
  <2>1. job.pc = "findOpen" /\ still BY <1>8 DEF FindOpen
  <2>2. CASE ActiveWindows = {}
    <3>1. Goto(c, IdleClerk) BY <1>8, <2>2 DEF FindOpen, Finish
    <3> HIDE DEF still
    <3> QED BY <1>4, <2>1, <3>1, IdleJob
  <2>3. CASE ActiveWindows # {}
    <3>1. PICK w \in ActiveWindows : Goto(c, Update(job, [pc |-> "closeWindow", open |-> w]))
        BY <1>8, <2>3 DEF FindOpen
    <3> DEFINE new == [pc |-> "closeWindow", open |-> w]
               j == Update(job, new)
    <3>2. DOMAIN new = {"pc", "open"} /\ new.pc = "closeWindow" /\ new.open = w OBVIOUS
    <3>3. Goto(c, j) BY <3>1
    <3> HIDE DEF job, new
    <3>4. /\ DOMAIN j = DOMAIN job \cup {"pc", "open"} /\ j.pc = "closeWindow" /\ j.open = w
          /\ \A f \in DOMAIN job \ {"pc", "open"} : j[f] = job[f]
      <4>1. /\ DOMAIN j = DOMAIN job \cup DOMAIN new /\ \A f \in DOMAIN new : j[f] = new[f]
            /\ \A f \in DOMAIN job \ DOMAIN new : j[f] = job[f]
          BY Updates
      <4> QED BY <3>2, <4>1
    <3> HIDE DEF j, still
    <3>5. w \in 1..n BY <1>2
    <3>6. JobOK(j, n) BY <1>1, <2>1, <3>4, <3>5 DEF JobOK, Field, ClerkSteps
    <3> QED BY <1>4, <2>1, <3>3, <3>6
  <2> QED BY <2>2, <2>3
<1>9. CASE CheckWindow(c)
  <2> DEFINE pc == IF window[job.window] = "ACTIVE" THEN "findOpen" ELSE "writeEnd"
             j == [job EXCEPT !.pc = pc]
  <2>1. job.pc = "checkWindow" /\ Goto(c, j) /\ still BY <1>9 DEF CheckWindow
  <2>2. pc \in {"findOpen", "writeEnd"} OBVIOUS
  <2> HIDE DEF job, pc
  <2>3. "pc" \in DOMAIN job BY <1>1 DEF JobOK, Field
  <2>4. DOMAIN j = DOMAIN job /\ j.pc = pc /\ \A f \in DOMAIN job \ {"pc"} : j[f] = job[f]
      BY <2>3
  <2> HIDE DEF j, still
  <2>5. JobOK(j, n) BY <1>1, <2>1, <2>2, <2>4 DEF JobOK, Field, ClerkSteps
  <2> QED BY <1>4, <2>1, <2>5
<1>10. ASSUME NEW m \in ServiceRecord, LoadForStart(c, m) PROVE SupportInv'
  <2> DEFINE a == [pc |-> "findWindow", item |-> m, ticket |-> service[m].ticket]
             b == [pc |-> "writeStart", item |-> m, ticket |-> service[m].ticket, window |-> service[m].window]
  <2>1. (Goto(c, a) \/ Goto(c, b)) /\ still BY <1>10 DEF LoadForStart
  <2>2. JobOK(a, n) BY <1>3 DEF JobOK, Field, ClerkSteps
  <2>3. JobOK(b, n) BY <1>3 DEF JobOK, Field, ClerkSteps
  <2> HIDE DEF a, b, still
  <2> QED BY <1>4, <2>1, <2>2, <2>3
<1>11. ASSUME NEW m \in ServiceRecord, NEW to \in {"COMPLETED", "CANCELLED"}, LoadForEnd(c, m, to)
       PROVE  SupportInv'
  <2> DEFINE pc == IF EndsWindow(c, service[m].window) THEN "checkWindow" ELSE "writeEnd"
             j == [pc |-> pc, item |-> m, to |-> to, window |-> service[m].window]
  <2>1. Goto(c, j) /\ still BY <1>11 DEF LoadForEnd
  <2>2. pc \in {"checkWindow", "writeEnd"} OBVIOUS
  <2> HIDE DEF pc
  <2>3. JobOK(j, n) BY <2>2 DEF JobOK, Field, ClerkSteps, FinalStatus
  <2> HIDE DEF j, still
  <2> QED BY <1>4, <2>1, <2>3
<1> QED BY <1>5, <1>6, <1>7, <1>8, <1>9, <1>10, <1>11

\* A window is opened or closed.
LEMMA WriteWindowTyped ==
    ASSUME SupportInv, NEW c \in Clerk, OpenWindow(c) \/ CloseWindow(c)
    PROVE  SupportInv'
<1> DEFINE job == clerk[c]
           n == Len(window)
<1>1. JobOK(job, n) /\ n \in Nat /\ window \in Seq({"ACTIVE", "COMPLETED"})
    BY DEF SupportInv, SupportTypeOK
<1>2. ASSUME NEW pc, NEW w, Resume(c, pc, w), Len(window') \in Nat, n <= Len(window'),
             "item" \in DOMAIN job =>
                 \A j : ( /\ DOMAIN j = DOMAIN job \cup {"pc", "window"} /\ j.pc = pc /\ j.window = w
                          /\ \A f \in DOMAIN job \ {"pc", "window"} : j[f] = job[f])
                        => JobOK(j, Len(window'))
      PROVE  DOMAIN clerk' = Clerk /\ \A d \in Clerk : JobOK(clerk'[d], Len(window'))
  <2>1. CASE "item" \notin DOMAIN job
    <3>1. Goto(c, IdleClerk) BY <1>2, <2>1 DEF Resume, Finish
    <3> QED BY <1>2, <3>1, IdleJob, JobMoves
  <2>2. CASE "item" \in DOMAIN job
    <3> DEFINE new == [pc |-> pc, window |-> w]
               j == Update(job, new)
    <3>1. Goto(c, j) BY <1>2, <2>2 DEF Resume
    <3>2. DOMAIN new = {"pc", "window"} /\ new.pc = pc /\ new.window = w OBVIOUS
    <3> HIDE DEF job, new
    <3>3. /\ DOMAIN j = DOMAIN job \cup {"pc", "window"} /\ j.pc = pc /\ j.window = w
          /\ \A f \in DOMAIN job \ {"pc", "window"} : j[f] = job[f]
      <4>1. /\ DOMAIN j = DOMAIN job \cup DOMAIN new /\ \A f \in DOMAIN new : j[f] = new[f]
            /\ \A f \in DOMAIN job \ DOMAIN new : j[f] = job[f]
          BY Updates
      <4> QED BY <3>2, <4>1
    <3> HIDE DEF j
    <3>4. JobOK(j, Len(window')) BY <1>2, <2>2, <3>3
    <3> QED BY <1>2, <3>1, <3>4, JobMoves DEF n
  <2> QED BY <2>1, <2>2
<1>3. service \in [ServiceRecord -> ServiceRow(n)] BY DEF SupportInv, SupportTypeOK, ServiceRow, TicketOrNone
<1>4. CASE OpenWindow(c)
  <2>1. /\ job.pc = "openWindow" /\ window' = Append(window, "ACTIVE")
        /\ Resume(c, "writeStart", Len(window'))
        /\ UNCHANGED <<number, ticketStatus, service, aborts>>
      BY <1>4 DEF OpenWindow
  <2>2. window' \in Seq({"ACTIVE", "COMPLETED"}) /\ Len(window') = n + 1 BY <1>1, <2>1
  <2> HIDE DEF job, n
  <2>3. Len(window') \in 0..Len(window') /\ Len(window') \in Nat /\ n <= Len(window') BY <1>1, <2>2
  <2>4. ASSUME "item" \in DOMAIN job, NEW j,
               DOMAIN j = DOMAIN job \cup {"pc", "window"}, j.pc = "writeStart", j.window = Len(window'),
               \A f \in DOMAIN job \ {"pc", "window"} : j[f] = job[f]
        PROVE  JobOK(j, Len(window'))
      BY <1>1, <2>1, <2>3, <2>4 DEF JobOK, Field, ClerkSteps
  <2>5. DOMAIN clerk' = Clerk /\ \A d \in Clerk : JobOK(clerk'[d], Len(window'))
      BY <1>2, <2>1, <2>3, <2>4
  <2>6. ServiceRow(n) \subseteq ServiceRow(Len(window')) BY <1>1, <2>2 DEF ServiceRow
  <2>7. service' \in [ServiceRecord -> ServiceRow(Len(window'))] BY <1>3, <2>1, <2>6
  <2>8. SupportTypeOK'
      BY <2>1, <2>2, <2>7 DEF SupportInv, SupportTypeOK, ServiceRow, TicketOrNone
  <2> QED BY <2>1, <2>5, <2>8 DEF SupportInv
<1>5. CASE CloseWindow(c)
  <2>1. /\ job.pc = "closeWindow" /\ window' = [window EXCEPT ![job.open] = "COMPLETED"]
        /\ Resume(c, "writeEnd", 0)
        /\ UNCHANGED <<number, ticketStatus, service, aborts>>
      BY <1>5 DEF CloseWindow
  <2>2. window' \in Seq({"ACTIVE", "COMPLETED"}) /\ Len(window') = n
    <3>1. job.open \in 1..n BY <1>1, <2>1 DEF JobOK, Field
    <3> HIDE DEF job
    <3> QED BY <1>1, <2>1, <3>1
  <2> HIDE DEF job, n
  <2>3. ASSUME "item" \in DOMAIN job, NEW j,
               DOMAIN j = DOMAIN job \cup {"pc", "window"}, j.pc = "writeEnd", j.window = 0,
               \A f \in DOMAIN job \ {"pc", "window"} : j[f] = job[f]
        PROVE  JobOK(j, Len(window'))
      BY <1>1, <2>1, <2>3 DEF JobOK, Field, ClerkSteps
  <2>4. n <= Len(window') /\ Len(window') \in Nat BY <1>1, <2>2
  <2>5. DOMAIN clerk' = Clerk /\ \A d \in Clerk : JobOK(clerk'[d], Len(window'))
      BY <1>2, <2>1, <2>3, <2>4
  <2>6. SupportTypeOK'
      BY <1>3, <2>1, <2>2 DEF SupportInv, SupportTypeOK, ServiceRow, TicketOrNone
  <2> QED BY <2>1, <2>5, <2>6 DEF SupportInv
<1> QED BY <1>4, <1>5

\* The start or the end of a record is written.
LEMMA WriteServiceTyped ==
    ASSUME SupportInv, NEW c \in Clerk, StartServiceMaintenance(c) \/ EndServiceMaintenance(c)
    PROVE  SupportInv'
<1> DEFINE job == clerk[c]
           n == Len(window)
<1>1. JobOK(job, n) /\ n \in Nat BY DEF SupportInv, SupportTypeOK
<1>2. service \in [ServiceRecord -> ServiceRow(n)] BY DEF SupportInv, SupportTypeOK, ServiceRow, TicketOrNone
<1>3. ASSUME Goto(c, IdleClerk), UNCHANGED window
      PROVE  DOMAIN clerk' = Clerk /\ \A d \in Clerk : JobOK(clerk'[d], Len(window'))
    BY <1>1, <1>3, IdleJob, JobMoves
<1>4. CASE StartServiceMaintenance(c)
  <2>1. /\ job.pc = "writeStart" /\ Goto(c, IdleClerk) /\ UNCHANGED <<number, window, aborts>>
        /\ service' = [service EXCEPT ![job.item].status = "IN_PROGRESS", ![job.item].window = job.window]
        /\ ticketStatus' = IF job.ticket = NoTicket THEN ticketStatus
                           ELSE [ticketStatus EXCEPT ![job.ticket] = "WAITING_FOR_MAINTENANCE"]
      BY <1>4 DEF StartServiceMaintenance, Finish
  <2>2. job.item \in ServiceRecord /\ job.window \in 0..n BY <1>1, <2>1 DEF JobOK, Field
  <2> HIDE DEF job, n
  <2>3. "IN_PROGRESS" \in ServiceStatuses BY DEF ServiceStatuses
  <2>4. service' \in [ServiceRecord -> ServiceRow(n)] BY <1>1, <1>2, <2>1, <2>2, <2>3, RecordTyped
  <2>5. ticketStatus' \in [Ticket -> TicketStatuses]
    <3>1. ticketStatus \in [Ticket -> TicketStatuses] BY DEF SupportInv, SupportTypeOK
    <3>2. "WAITING_FOR_MAINTENANCE" \in TicketStatuses BY DEF TicketStatuses
    <3> QED BY <2>1, <3>1, <3>2
  <2>6. SupportTypeOK'
      BY <2>1, <2>4, <2>5 DEF SupportInv, SupportTypeOK, ServiceRow, TicketOrNone, n
  <2> QED BY <1>3, <2>1, <2>6 DEF SupportInv
<1>5. CASE EndServiceMaintenance(c)
  <2>1. /\ job.pc = "writeEnd" /\ Goto(c, IdleClerk) /\ UNCHANGED <<number, ticketStatus, window, aborts>>
        /\ service' = [service EXCEPT ![job.item].status = job.to]
      BY <1>5 DEF EndServiceMaintenance, Finish
  <2>2. job.item \in ServiceRecord /\ job.to \in ServiceStatuses
      BY <1>1, <2>1 DEF JobOK, Field, FinalStatus, ServiceStatuses
  <2> HIDE DEF job, n
  <2>3. service' \in [ServiceRecord -> ServiceRow(n)] BY <1>1, <1>2, <2>1, <2>2, RecordTyped
  <2>4. SupportTypeOK'
      BY <2>1, <2>3 DEF SupportInv, SupportTypeOK, ServiceRow, TicketOrNone, n
  <2> QED BY <1>3, <2>1, <2>4 DEF SupportInv
<1> QED BY <1>4, <1>5

-----------------------------------------------------------------------------
\* Nothing is created at first.
LEMMA SupportInvStarts == SupportInit => SupportInv
<1> SUFFICES ASSUME SupportInit PROVE SupportInv OBVIOUS
<1>1. Len(window) = 0 /\ window \in Seq({"ACTIVE", "COMPLETED"}) BY DEF SupportInit
<1>2. service \in [ServiceRecord -> ServiceRow(0)]
  <2>1. [status |-> "SCHEDULED", window |-> 0, ticket |-> NoTicket] \in ServiceRow(0)
      BY DEF ServiceRow, ServiceStatuses, TicketOrNone
  <2> QED BY <2>1 DEF SupportInit
<1>3. number \in [Numbered -> Nat] /\ \A x \in Numbered : number[x] <= 0 BY DEF SupportInit
<1>4. ticketStatus \in [Ticket -> TicketStatuses] BY DEF SupportInit, TicketStatuses
<1>5. aborts \in 0..MaxAborts BY SupportAssumption DEF SupportInit
<1>6. SupportTypeOK BY <1>1, <1>2, <1>3, <1>4, <1>5 DEF SupportTypeOK, ServiceRow, TicketOrNone
<1>7. DOMAIN clerk = Clerk /\ \A c \in Clerk : JobOK(clerk[c], Len(window)) BY IdleJob DEF SupportInit
<1> QED BY <1>3, <1>6, <1>7 DEF SupportInv

\* Every step keeps the rows and the jobs typed.
LEMMA SupportInvStep == SupportInv /\ [SupportNext]_supportVars => SupportInv'
<1> SUFFICES ASSUME SupportInv, [SupportNext]_supportVars PROVE SupportInv' OBVIOUS
<1>1. CASE UNCHANGED supportVars BY <1>1 DEF SupportInv, SupportTypeOK, supportVars
<1>2. CASE SupportNext
    BY <1>2, CreationTyped, TicketTyped, LookAtWindowTyped, WriteWindowTyped, WriteServiceTyped DEF SupportNext
<1> QED BY <1>1, <1>2

\* The rows of support keep to their columns, whichever requests overlap and
\* wherever they are cut off: a record never points to a window there is none
\* of, a number is never taken from a row that has none.
THEOREM SupportTyping == SupportSpec => []SupportTypeOK
<1>1. SupportInv => SupportTypeOK BY DEF SupportInv
<1> QED BY SupportInvStarts, SupportInvStep, <1>1, PTL DEF SupportSpec
=============================================================================
